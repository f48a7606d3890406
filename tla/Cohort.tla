------------------------------- MODULE Cohort -------------------------------
(***************************************************************************)
(* The audience service (src/src/services/audience.py, cohort_engine/      *)
(* api.py and engine.py): a dataset is loaded user by user, indexed, and   *)
(* asked for the users of a segment, in memory, by bitmaps and by SQL.     *)
(***************************************************************************)
EXTENDS CohortSql, BitmapIndex

(* UserRows: what a row of the user table may be, [customer_id, record].   *)
(* EventLogs: the event tables.  Segments: what a caller may ask, parsed   *)
(* or not.  Tags: tag field -> the event condition precomputed into it.    *)
CONSTANTS UserRows, EventLogs, Segments, Tags, MaxUsers

VARIABLES users, events, index, phase, asked

vars == <<users, events, index, phase, asked>>

NoSegment == [match |-> [kind |-> "none"], exclude |-> <<>>]

Init == /\ users = <<>> /\ events \in EventLogs
        /\ index = EmptyIndex
        /\ phase = "loading" /\ asked = NoSegment

(* The row build indexes: the user's fields, then the tags, the value of   *)
(* each tag function on the user's events.                                 *)
Tagged(row) ==
    LET history == SelectSeq(events, LAMBDA ev : ev.customer_id = row.customer_id)
    IN  [f \in DOMAIN row.record \cup DOMAIN Tags |->
            IF f \in DOMAIN Tags
            THEN [type |-> "bool",
                  at |-> IF EvalEvent(Tags[f], history) = "true" THEN 1 ELSE 0]
            ELSE row.record[f]]

(* One turn of the loop of build.                                          *)
Load(row) ==
    /\ phase = "loading" /\ Len(users) < MaxUsers
    /\ users' = Append(users, row)
    /\ index' = Add(index, Tagged(row), row.customer_id)
    /\ UNCHANGED <<events, phase, asked>>

Finalize ==
    /\ phase = "loading"
    /\ index' = Finalized(index)
    /\ phase' = "serving"
    /\ UNCHANGED <<users, events, asked>>

(* /segments/evaluate, /size, /compile and the bitmap engine's facade.  An *)
(* answer changes nothing: one question in a behaviour is enough.          *)
Ask(s) ==
    /\ phase = "serving" /\ asked = NoSegment
    /\ asked' = s
    /\ UNCHANGED <<users, events, index, phase>>

Next == \/ \E row \in UserRows : Load(row)
        \/ Finalize
        \/ \E s \in Segments : Ask(s)

Spec == Init /\ [][Next]_vars
-----------------------------------------------------------------------------
(* The answer to the segment asked: 422 for one the parser refuses, 500    *)
(* where the evaluator raises.                                             *)
Answering == asked # NoSegment /\ AcceptedSegment(asked)

Status == IF ~AcceptedSegment(asked) THEN 422
          ELSE IF Evaluate(asked, users, events).raised # "" THEN 500 ELSE 200

Audience == Evaluate(asked, users, events).ids

(* The conditions on users of a node, and the tag conditions put for the   *)
(* events they are precomputed from.                                       *)
RECURSIVE Leaves(_)
Leaves(node) == IF node.kind = "group"
                THEN UNION {Leaves(node.children[i]) : i \in DOMAIN node.children}
                ELSE {node}

SegmentLeaves(s) == Leaves(s.match) \cup UNION {Leaves(s.exclude[i]) : i \in DOMAIN s.exclude}

RECURSIVE WithTags(_)
WithTags(node) ==
    CASE node.kind = "group" ->
           [node EXCEPT !.children = [i \in DOMAIN @ |-> WithTags(@[i])]]
      [] node.kind = "event" /\ (\E t \in DOMAIN Tags : Tags[t] = node) ->
           [kind |-> "attribute", field |-> CHOOSE t \in DOMAIN Tags : Tags[t] = node,
            operator |-> "eq", shape |-> "scalar", value |-> <<[type |-> "bool", at |-> 1]>>]
      [] OTHER -> node

Indexed(s) == [match |-> WithTags(s.match),
               exclude |-> [i \in DOMAIN s.exclude |-> WithTags(s.exclude[i])]]

(* What the conditions of a node compare of a record, and whether a "not"  *)
(* stands over the comparison, as it does over all of an exclude.          *)
RECURSIVE Readings(_, _, _)
Readings(node, record, negated) ==
    CASE node.kind = "attribute" -> {[cond |-> node, record |-> record, negated |-> negated]}
      [] node.kind = "event" -> {}
      [] node.kind = "group" ->
           UNION {Readings(node.children[i], record, negated \/ node.op = "not") :
                     i \in DOMAIN node.children}

UserReadings ==
    UNION {Readings(asked.match, users[i].record, FALSE)
             \cup UNION {Readings(asked.exclude[j], users[i].record, TRUE) :
                             j \in DOMAIN asked.exclude} : i \in DOMAIN users}

(* The same of the conditions on events, for each event that is looked at. *)
EventReadings ==
    LET filtered == {l \in SegmentLeaves(asked) : l.kind = "event" /\ l.where # <<>>}
        seen(l) == {k \in DOMAIN events :
                       /\ InWindow(l, events[k])
                       /\ \E i \in DOMAIN users : users[i].customer_id = events[k].customer_id}
    IN  UNION {UNION {Readings(l.where[1], EventRecord(events[k]), FALSE) : k \in seen(l)} :
                  l \in filtered}

(* Two-valued logic: nothing is compared with null, and no "not" stands    *)
(* over the comparison of a field that is missing.                         *)
NullSafe(readings) ==
    \A r \in readings :
        \/ r.cond.operator \in {"exists", "not_exists"}
        \/ /\ \A i \in DOMAIN r.cond.value : r.cond.value[i] # Null
           /\ r.negated => Present(r.cond.field, r.record)

(* An order is asked for of two values of different kinds.                 *)
ComparesUnlike(r) ==
    /\ Present(r.cond.field, r.record)
    /\ LET actual == r.record[r.cond.field]
       IN  \/ /\ r.cond.operator \in Comparisons
              /\ ~Alike(actual, Expected(r.cond))
           \/ /\ r.cond.operator = "between"
              /\ \E i \in 1..2 : ~Alike(actual, r.cond.value[i])

ReadsWeekday == \E r \in EventReadings : r.cond.field = "day_of_week"
-----------------------------------------------------------------------------
(* A rule the parser accepts is one the evaluator and the compiler know:   *)
(* it fails only where it orders two values of different kinds.            *)
AcceptedIsServed ==
    Answering =>
        /\ LET raised == Evaluate(asked, users, events).raised
           IN  raised # "" =>
                 /\ raised = "TypeError"
                 /\ \E r \in UserReadings \cup EventReadings : ComparesUnlike(r)
        /\ \A i \in DOMAIN users : SqlUser(asked, users[i], events) # "SqlCompileError"

(* The index holds every user of every field in one posting of the field   *)
(* and, where it answers, answers what the evaluator does, tags standing   *)
(* for the event conditions they are computed from; its size estimate is   *)
(* the size of that answer when no customer is loaded twice.               *)
IndexAgrees ==
    /\ PostingsPartition(index)
    /\ LET s == Indexed(asked)
       IN  Answering /\ Status = 200 /\ SegmentBitmap(index, s).raised = "" =>
              /\ BitmapIds(index, s) = Audience
              /\ IsInjective(index.ids) => EstimateSize(index, s) = Cardinality(Audience)

(* What NULL does to the query, weekdays aside.  While it counts the same  *)
(* events, it returns nobody the evaluator does not; it counts the same    *)
(* unless a "not" over a missing property, or a null, is in a where.  And  *)
(* it leaves nobody out but for such a "not" or null on users' fields.     *)
SqlDropsOnlyTheUnknown ==
    Answering /\ Status = 200 /\ ~ReadsWeekday /\ NullSafe(EventReadings) =>
        /\ SqlIds(asked, users, events) \subseteq Audience
        /\ NullSafe(UserReadings) => SqlIds(asked, users, events) = Audience

(* "Anything the index cannot serve raises BitmapUnsupported so the caller *)
(* can fall back to SQL / the in-memory evaluator" (bitmap_engine.py).     *)
IndexServesOrRefuses ==
    Answering /\ Status = 200 /\ SegmentBitmap(index, asked).raised = "" =>
        BitmapIds(index, asked) = Audience

(* "compile_sql(...) -> equivalent SQL" (engine.py).                       *)
SqlIsEquivalent ==
    Answering /\ Status = 200 => SqlIds(asked, users, events) = Audience

(* "day_of_week (0=Mon)" is derived from the event's time (TEST_CASES.md):  *)
(* in the query too, where no NULL can tell the two apart.                  *)
SqlIsEquivalentWithoutNulls ==
    Answering /\ Status = 200 /\ NullSafe(UserReadings \cup EventReadings) =>
        SqlIds(asked, users, events) = Audience
=============================================================================
