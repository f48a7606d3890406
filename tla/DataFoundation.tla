--------------------------- MODULE DataFoundation ---------------------------
(***************************************************************************)
(* The last mile of the data (src/src/data_foundation): passes of ingest   *)
(* over batches that a source may deliver again, the dataset built from    *)
(* what they let through and the data team's labels, its quality report.   *)
(***************************************************************************)
EXTENDS Integers, Sequences, FiniteSets

(* Batches: what the source may deliver, sequences of raw events           *)
(* [event_id, customer_id, event_name, ts_utc, amount]; a time is a number *)
(* of hours, an amount the kind of its value.  UserRows: those of the user *)
(* table.  LabelTables: what the data team may send.                       *)
CONSTANTS Batches, UserRows, LabelTables, Absent, Now, MaxLatency, MaxPasses

RawEvents == UNION {{batch[i] : i \in DOMAIN batch} : batch \in Batches}

ASSUME IngestionAssumption == Batches \subseteq Seq(RawEvents)

VARIABLES pass,       (* the last pass of ingest                           *)
          delivered,  (* history: the clean raw events of all passes       *)
          passes,
          labels      (* customer -> fields the data team derives for it   *)

ingestionVars == <<pass, delivered, passes, labels>>

Schema == [Transfer |-> {"amount"}, Opened |-> {}]

DubaiOffset == 4
-----------------------------------------------------------------------------
(* _validate: "" or the first reason to quarantine the event.              *)
Reason(ev) ==
    IF ev.event_name \notin DOMAIN Schema THEN "unknown_event"
    ELSE IF ev.ts_utc = Absent THEN "no_datetime"
    ELSE IF "amount" \in Schema[ev.event_name] /\ ev.amount = Absent THEN "missing_field"
    ELSE IF "amount" \in Schema[ev.event_name] /\ ev.amount \in {"bool", "text"} THEN "wrong_type"
    ELSE ""

(* _idempotency_key                                                        *)
Key(ev) == IF ev.event_id # Absent THEN <<"id", ev.event_id>>
           ELSE <<"nk", ev.customer_id, ev.event_name, ev.ts_utc>>

EmptyPass == [raw |-> <<>>, clean |-> <<>>, quarantined |-> <<>>, deduped |-> 0, seen |-> {}]

(* A bug to compare with: the key remembered before the event is validated. *)
IngestOneEager(result, ev) ==
    IF Key(ev) \in result.seen THEN [result EXCEPT !.deduped = @ + 1]
    ELSE IF Reason(ev) # ""
         THEN [result EXCEPT !.quarantined = Append(@, <<ev, Reason(ev)>>), !.seen = @ \cup {Key(ev)}]
    ELSE [result EXCEPT !.clean = Append(@, ev), !.seen = @ \cup {Key(ev)}]

(* The body of ingest's loop.                                              *)
IngestOne(result, ev) ==
    IF Reason(ev) # "" THEN [result EXCEPT !.quarantined = Append(@, <<ev, Reason(ev)>>)]
    ELSE IF Key(ev) \in result.seen THEN [result EXCEPT !.deduped = @ + 1]
    ELSE [result EXCEPT !.clean = Append(@, ev), !.seen = @ \cup {Key(ev)}]

(* ingest: every pass starts with no key seen.                             *)
Ingested(batch) ==
    LET after[n \in 0..Len(batch)] ==
            IF n = 0 THEN [EmptyPass EXCEPT !.raw = batch]
            ELSE IngestOne(after[n - 1], batch[n])
    IN  after[Len(batch)]

(* build_event_table: the Dubai time is kept, the bookkeeping fields (the  *)
(* id and the UTC time) are not.                                           *)
Shaped(ev) == [customer_id |-> ev.customer_id, event_name |-> ev.event_name,
               ts |-> ev.ts_utc + DubaiOffset, amount |-> ev.amount]

EventTable(events) == [i \in DOMAIN events |-> Shaped(events[i])]

(* build_user_table: a label fills a field the user's row does not have.   *)
Labelled(user) ==
    IF user.customer_id \notin DOMAIN labels THEN user
    ELSE LET label == labels[user.customer_id]
         IN  [f \in DOMAIN user \cup DOMAIN label |-> IF f \in DOMAIN user THEN user[f] ELSE label[f]]

UserTable == {Labelled(u) : u \in UserRows}

(* run_dqc, over the table: the id is gone, so its key is the natural one. *)
TableKey(row) == <<row.customer_id, row.event_name, row.ts>>

Duplicates(table) ==
    Len(table) - Cardinality({TableKey(table[i]) : i \in DOMAIN table})

(* A bug to compare with: the time of the last row, not of the latest.     *)
StaleByLast(table) == table # <<>> /\ Now - table[Len(table)].ts > MaxLatency

Stale(table) == table # <<>> /\ \A i \in DOMAIN table : Now - table[i].ts > MaxLatency

(* The alerts on the dataset of all passes, with the thresholds of the     *)
(* route /dqc: no null, no double, and a maximal latency.                  *)
Alerts ==
    {check \in {"null_rate", "dup_rate", "freshness"} :
        \/ check = "null_rate" /\ \E u \in UserTable : u.customer_id = Absent
        \/ check = "dup_rate" /\ Duplicates(EventTable(delivered)) > 0
        \/ check = "freshness" /\ Stale(EventTable(delivered))}

-----------------------------------------------------------------------------
IngestionInit == /\ pass = EmptyPass /\ delivered = <<>> /\ passes = 0
                 /\ labels = <<>>

Ingest(batch) ==
    /\ passes < MaxPasses
    /\ pass' = Ingested(batch)
    /\ delivered' = delivered \o pass'.clean
    /\ passes' = passes + 1
    /\ UNCHANGED labels

(* The data team's labels change once a day.                               *)
Relabel(table) ==
    /\ labels' = table
    /\ UNCHANGED <<pass, delivered, passes>>

IngestionNext == \/ \E batch \in Batches : Ingest(batch)
                 \/ \E table \in LabelTables : Relabel(table)

IngestionSpec == IngestionInit /\ [][IngestionNext]_ingestionVars
-----------------------------------------------------------------------------
FirstCopies(batch) == {i \in DOMAIN batch :
    Reason(batch[i]) = "" /\ \A j \in 1..(i - 1) :
        Reason(batch[j]) # "" \/ Key(batch[j]) # Key(batch[i])}

(* A pass keeps exactly the first valid copy of every event, in order, and  *)
(* loses none without a trace: what is not clean is quarantined or counted. *)
(* A quarantined copy does not hide the valid one that follows it.          *)
PassIsExact ==
    /\ \E first \in [1..Len(pass.clean) -> FirstCopies(pass.raw)] :
          /\ \A m, n \in DOMAIN first : m < n => first[m] < first[n]
          /\ FirstCopies(pass.raw) = {first[n] : n \in DOMAIN first}
          /\ \A n \in DOMAIN first : pass.clean[n] = pass.raw[first[n]]
    /\ Len(pass.clean) + Len(pass.quarantined) + pass.deduped = Len(pass.raw)

(* Nothing of one pass is remembered in the next, but an event delivered    *)
(* again does not go unnoticed: the dataset it is doubled in is alerted.    *)
RedeliveryIsAlerted ==
    (\E i, j \in DOMAIN delivered : i # j /\ delivered[i] = delivered[j]) => "dup_rate" \in Alerts

IngestionIsExact == PassIsExact /\ RedeliveryIsAlerted

(* Late events never make a fresh dataset stale.                            *)
StaysFresh == [][delivered # <<>> /\ "freshness" \notin Alerts => "freshness" \notin Alerts']_ingestionVars

(* "Distinct events with different event_ids are never collapsed"           *)
(* (ingestion.py) and dup_rate is "the fraction of events that are          *)
(* idempotency-key duplicates" (dqc.py): a dataset in which every event has *)
(* an id of its own has none.                                               *)
DistinctIsNoDuplicate ==
    (\A i, j \in DOMAIN delivered :
        /\ delivered[i].event_id # Absent
        /\ i # j => delivered[i].event_id # delivered[j].event_id) => "dup_rate" \notin Alerts

(* "Existing user fields win over label fields only if the label is absent" *)
(* (warehouse.py).                                                          *)
LabelsWin ==
    \A u \in UserTable : u.customer_id \in DOMAIN labels =>
        \A f \in DOMAIN labels[u.customer_id] : u[f] = labels[u.customer_id][f]
=============================================================================
