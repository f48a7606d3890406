--------------------------- MODULE GatewayProofs ---------------------------
(***************************************************************************)
(* The gateway for any set of threads, users, profiles, adapters and any   *)
(* capacity: its types, its tokens, and what it promises of every message. *)
(* The facts about GatewayStep hold for every module that drives the       *)
(* gateway; the theorems at the end are about the gateway on its own.      *)
(***************************************************************************)
EXTENDS GatewayAlone, FiniteSetTheorems, TLAPS

(* The busy threads are finitely many, at most all of them.                *)
LEMMA BusyFinite ==
    /\ IsFiniteSet(Busy)
    /\ Cardinality(Busy) \in Nat
    /\ Cardinality(Busy) <= Cardinality(Callers)
    /\ Cardinality(Callers) \in Nat
  <1>1. Busy \in SUBSET Callers
    BY DEF Busy
  <1>. QED
    BY <1>1, GatewayAssumption, FS_Subset, FS_CardinalityType

(* The attempts of a window are finitely many.                             *)
LEMMA AttemptedFinite ==
    ASSUME GatewayTypeOK
    PROVE  IsFiniteSet(Attempted) /\ Cardinality(Attempted) \in Nat
  <1>1. windowStart + 1 \in Int /\ Len(log) \in Int
    BY DEF GatewayTypeOK
  <1>2. Attempted \in SUBSET ((windowStart + 1)..Len(log))
    BY DEF Attempted
  <1>. QED
    BY <1>1, <1>2, FS_Interval, FS_Subset, FS_CardinalityType

(* A message is delivered on one of the three channels.                    *)
LEMMA DeliveringChannelType ==
    ASSUME NEW u \in Users, NEW p \in RequestChannel, \E ch \in Channel : Accepts(u, ch)
    PROVE  /\ DeliveringChannel(u, p) \in RequestChannel
           /\ Accepts(u, DeliveringChannel(u, p))
  <1>1. CASE Accepts(u, p)
    BY <1>1 DEF DeliveringChannel
  <1>2. CASE ~Accepts(u, p)
    <2>1. \E ch \in Channel :
             /\ Accepts(u, ch)
             /\ \A other \in Channel :
                    Accepts(u, other) => FallbackRank[ch] <= FallbackRank[other]
      BY DEF Channel, FallbackRank
    <2>. QED
      BY <1>2, <2>1 DEF DeliveringChannel, RequestChannel
  <1>. QED
    BY <1>1, <1>2

(* Appending a well-formed record keeps the log well formed.               *)
LEMMA RecordedType ==
    ASSUME GatewayTypeOK, NEW req \in Request, NEW ch \in RequestChannel,
           NEW status \in Status, NEW reason \in Reason
    PROVE  /\ Recorded(req, ch, status, reason) \in Seq(Record)
           /\ Len(Recorded(req, ch, status, reason)) = Len(log) + 1
           /\ \A i \in 1..Len(log) : Recorded(req, ch, status, reason)[i] = log[i]
           /\ Recorded(req, ch, status, reason)[Len(log) + 1].status = status
           /\ Recorded(req, ch, status, reason)[Len(log) + 1].reason = reason
           /\ Recorded(req, ch, status, reason)[Len(log) + 1].user = req.user
           /\ Recorded(req, ch, status, reason)[Len(log) + 1].campaign = req.campaign
           /\ Recorded(req, ch, status, reason)[Len(log) + 1].day = req.day
           /\ Recorded(req, ch, status, reason)[Len(log) + 1].variant = req.variant
           /\ Recorded(req, ch, status, reason)[Len(log) + 1].channel = ch
           /\ Recorded(req, ch, status, reason)[Len(log) + 1].primary = req.channel
  <1> DEFINE r == [user |-> req.user, campaign |-> req.campaign, channel |-> ch,
                   day |-> req.day, variant |-> req.variant, status |-> status,
                   reason |-> reason, primary |-> req.channel]
  <1>1. r \in Record
    BY DEF Record, Request
  <1>2. Recorded(req, ch, status, reason) = Append(log, r)
    BY DEF Recorded
  <1>3. log \in Seq(Record)
    BY DEF GatewayTypeOK
  <1>4. /\ r.status = status /\ r.reason = reason /\ r.user = req.user
        /\ r.campaign = req.campaign /\ r.day = req.day /\ r.variant = req.variant
        /\ r.channel = ch /\ r.primary = req.channel
    OBVIOUS
  <1> HIDE DEF r
  <1>. QED
    BY <1>1, <1>2, <1>3, <1>4

(* The three refusals append a record that is no attempt.                  *)
LEMMA RefuseRecords ==
    ASSUME GatewayTypeOK, NEW c \in Callers, NEW req \in Request, Refuse(c, req)
    PROVE  /\ inflight[c] = NoRequest
           /\ UNCHANGED <<tokens, inflight, windowStart, carried>>
           /\ \E status \in Status \ {"sent"}, reason \in Reason \ {"all_channels_failed"} :
                  log' = Recorded(req, req.channel, status, reason)
  <1>1. CASE SuppressOptOut(c, req)
    BY <1>1 DEF SuppressOptOut, Status, Reason
  <1>2. CASE SuppressUnreachable(c, req)
    BY <1>2 DEF SuppressUnreachable, UnreachableReason, Status, Reason
  <1>3. CASE Throttle(c, req)
    BY <1>3 DEF Throttle, Status, Reason
  <1>. QED
    BY <1>1, <1>2, <1>3 DEF Refuse

(* A delivery appends a record that is an attempt and frees its thread.    *)
LEMMA DeliverRecords ==
    ASSUME GatewayTypeOK, NEW c \in Callers, Deliver(c)
    PROVE  /\ inflight[c] \in Request
           /\ inflight' = [inflight EXCEPT ![c] = NoRequest]
           /\ UNCHANGED <<tokens, windowStart, carried>>
           /\ \E ch \in RequestChannel, status \in Status, reason \in Reason :
                  /\ log' = Recorded(inflight[c], ch, status, reason)
                  /\ status = "sent" \/ reason = "all_channels_failed"
  <1>1. /\ inflight[c] \in Request
        /\ inflight[c].user \in Users /\ inflight[c].channel \in RequestChannel
    BY DEF Deliver, GatewayTypeOK, Request
  <1>2. "sent" \in Status /\ "failed" \in Status /\ "none" \in Reason
        /\ "all_channels_failed" \in Reason
    BY DEF Status, Reason
  <1>3. CASE \E ch \in Channel : Accepts(inflight[c].user, ch)
    <2>1. DeliveringChannel(inflight[c].user, inflight[c].channel) \in RequestChannel
      BY <1>1, <1>3, DeliveringChannelType
    <2>. QED
      BY <1>1, <1>2, <1>3, <2>1 DEF Deliver
  <1>4. CASE ~\E ch \in Channel : Accepts(inflight[c].user, ch)
    BY <1>1, <1>2, <1>4 DEF Deliver
  <1>. QED
    BY <1>3, <1>4

(* GatewayTypeOK is inductive.                                             *)
LEMMA GatewayTypeStep ==
    ASSUME GatewayTypeOK, GatewayStep \/ UNCHANGED gatewayVars
    PROVE  GatewayTypeOK'
  <1>1. ASSUME NEW c \in Callers, NEW req \in Request, Refuse(c, req)
        PROVE  GatewayTypeOK'
    <2>1. PICK status \in Status, reason \in Reason :
             log' = Recorded(req, req.channel, status, reason)
      BY <1>1, RefuseRecords
    <2>2. log' \in Seq(Record) /\ Len(log') = Len(log) + 1
      BY <2>1, RecordedType DEF Request
    <2>. QED
      BY <1>1, <2>2, RefuseRecords DEF GatewayTypeOK
  <1>2. ASSUME NEW c \in Callers, NEW req \in Request, Draw(c, req)
        PROVE  GatewayTypeOK'
    BY <1>2, GatewayAssumption DEF Draw, GatewayTypeOK
  <1>3. ASSUME NEW c \in Callers, Deliver(c)
        PROVE  GatewayTypeOK'
    <2>1. PICK ch \in RequestChannel, status \in Status, reason \in Reason :
             log' = Recorded(inflight[c], ch, status, reason)
      BY <1>3, DeliverRecords
    <2>2. log' \in Seq(Record) /\ Len(log') = Len(log) + 1
      BY <1>3, <2>1, DeliverRecords, RecordedType
    <2>. QED
      BY <1>3, <2>2, DeliverRecords DEF GatewayTypeOK
  <1>4. ASSUME Refill
        PROVE  GatewayTypeOK'
    BY <1>4, BusyFinite, GatewayAssumption DEF Refill, GatewayTypeOK
  <1>5. CASE UNCHANGED gatewayVars
    BY <1>5 DEF gatewayVars, GatewayTypeOK
  <1>. QED
    BY <1>1, <1>2, <1>3, <1>4, <1>5 DEF GatewayStep

(* Every step keeps the account of the window.                             *)
LEMMA TokenConservationStep ==
    ASSUME GatewayTypeOK, TokenConservation, GatewayStep \/ UNCHANGED gatewayVars
    PROVE  TokenConservation'
  <1> SUFFICES ASSUME Limited
               PROVE  Cardinality(Attempted') + Cardinality(Busy') + tokens'
                        = Capacity + carried'
    BY DEF TokenConservation
  <1>0. /\ Cardinality(Attempted) + Cardinality(Busy) + tokens = Capacity + carried
        /\ tokens \in Nat /\ Capacity \in Nat /\ carried \in Nat /\ windowStart \in Nat
        /\ windowStart <= Len(log) /\ Len(log) \in Nat
        /\ Cardinality(Attempted) \in Nat /\ Cardinality(Busy) \in Nat
        /\ IsFiniteSet(Attempted) /\ IsFiniteSet(Busy)
    BY AttemptedFinite, BusyFinite, GatewayAssumption
       DEF TokenConservation, GatewayTypeOK
  <1>1. ASSUME NEW c \in Callers, NEW req \in Request, Refuse(c, req)
        PROVE  TokenConservation'
    <2>1. PICK status \in Status \ {"sent"}, reason \in Reason \ {"all_channels_failed"} :
             log' = Recorded(req, req.channel, status, reason)
      BY <1>1, RefuseRecords
    <2>2. /\ Len(log') = Len(log) + 1
          /\ \A i \in 1..Len(log) : log'[i] = log[i]
          /\ log'[Len(log) + 1].status # "sent"
          /\ log'[Len(log) + 1].reason # "all_channels_failed"
      BY <2>1, RecordedType DEF Request
    <2>3. windowStart' = windowStart /\ Busy' = Busy
      BY <1>1, RefuseRecords DEF Busy
    <2>4. Attempted' = Attempted
      BY <1>0, <2>2, <2>3, SMTT(30) DEF Attempted
    <2>. QED
      BY <1>0, <1>1, <2>3, <2>4, RefuseRecords DEF TokenConservation
  <1>2. ASSUME NEW c \in Callers, NEW req \in Request, Draw(c, req)
        PROVE  TokenConservation'
    <2>1. Busy' = Busy \cup {c} /\ c \notin Busy
      BY <1>2, GatewayAssumption DEF Draw, Busy, GatewayTypeOK
    <2>2. Cardinality(Busy') = Cardinality(Busy) + 1
      BY <1>0, <2>1, FS_AddElement
    <2>3. Attempted' = Attempted /\ tokens' = tokens - 1 /\ carried' = carried
      BY <1>2 DEF Draw, Attempted
    <2>. QED
      BY <1>0, <2>2, <2>3 DEF TokenConservation
  <1>3. ASSUME NEW c \in Callers, Deliver(c)
        PROVE  TokenConservation'
    <2>1. PICK ch \in RequestChannel, status \in Status, reason \in Reason :
             /\ log' = Recorded(inflight[c], ch, status, reason)
             /\ status = "sent" \/ reason = "all_channels_failed"
      BY <1>3, DeliverRecords
    <2>2. /\ Len(log') = Len(log) + 1
          /\ \A i \in 1..Len(log) : log'[i] = log[i]
          /\ \/ log'[Len(log) + 1].status = "sent"
             \/ log'[Len(log) + 1].reason = "all_channels_failed"
      BY <1>3, <2>1, DeliverRecords, RecordedType
    <2>3. windowStart' = windowStart /\ tokens' = tokens /\ carried' = carried
      BY <1>3, DeliverRecords
    <2>4. Attempted' = Attempted \cup {Len(log) + 1} /\ Len(log) + 1 \notin Attempted
      <3>1. Len(log) + 1 \in Attempted' /\ Len(log) + 1 \notin Attempted
        BY <1>0, <2>2, <2>3 DEF Attempted
      <3>2. ASSUME NEW i \in Attempted'
            PROVE  i \in Attempted \cup {Len(log) + 1}
        BY <1>0, <2>2, <2>3, <3>2 DEF Attempted
      <3>3. ASSUME NEW i \in Attempted
            PROVE  i \in Attempted'
        BY <1>0, <2>2, <2>3, <3>3 DEF Attempted
      <3>. QED
        BY <3>1, <3>2, <3>3
    <2>5. Cardinality(Attempted') = Cardinality(Attempted) + 1
      BY <1>0, <2>4, FS_AddElement
    <2>6. Busy' = Busy \ {c} /\ c \in Busy
      BY <1>3, GatewayAssumption DEF Deliver, Busy, GatewayTypeOK
    <2>7. Cardinality(Busy') = Cardinality(Busy) - 1
      BY <1>0, <2>6, FS_RemoveElement
    <2>. QED
      BY <1>0, <2>3, <2>5, <2>7 DEF TokenConservation
  <1>4. ASSUME Refill
        PROVE  TokenConservation'
    <2>1. Attempted' = {}
      BY <1>0, <1>4 DEF Refill, Attempted
    <2>2. Busy' = Busy /\ carried' = Cardinality(Busy) /\ tokens' = Capacity
      BY <1>4 DEF Refill, Busy
    <2>. QED
      BY <1>0, <2>1, <2>2, FS_EmptySet DEF TokenConservation
  <1>5. CASE UNCHANGED gatewayVars
    BY <1>0, <1>5 DEF gatewayVars, Attempted, Busy
  <1>. QED
    BY <1>1, <1>2, <1>3, <1>4, <1>5 DEF GatewayStep, TokenConservation

(* The gateway starts well typed with all its tokens.                      *)
LEMMA GatewayInitOK == GatewayInit => GatewayTypeOK /\ TokenConservation
  <1> SUFFICES ASSUME GatewayInit
               PROVE  GatewayTypeOK /\ TokenConservation
    OBVIOUS
  <1>1. GatewayTypeOK
    BY BusyFinite, GatewayAssumption DEF GatewayInit, GatewayTypeOK
  <1>2. Attempted = {} /\ Busy = {}
    BY DEF GatewayInit, Attempted, Busy
  <1>3. TokenConservation
    BY <1>2, FS_EmptySet, GatewayAssumption DEF GatewayInit, TokenConservation
  <1>. QED
    BY <1>1, <1>3

(* The bound on a window follows from the account.                         *)
LEMMA OvershootFromConservation ==
    GatewayTypeOK /\ TokenConservation => WindowOvershoot
  BY AttemptedFinite, BusyFinite, GatewayAssumption
     DEF TokenConservation, WindowOvershoot, GatewayTypeOK

(* A log that grew by one record holds the old ones and the new one.       *)
LEMMA OldOrNew ==
    ASSUME GatewayTypeOK, NEW req \in Request, NEW ch \in RequestChannel,
           NEW status \in Status, NEW reason \in Reason,
           log' = Recorded(req, ch, status, reason), NEW i \in DOMAIN log'
    PROVE  \/ i \in DOMAIN log /\ log'[i] = log[i]
           \/ /\ log'[i].user = req.user /\ log'[i].primary = req.channel
              /\ log'[i].channel = ch
              /\ log'[i].status = status /\ log'[i].reason = reason
  <1>1. /\ log' \in Seq(Record) /\ Len(log') = Len(log) + 1
        /\ \A j \in 1..Len(log) : log'[j] = log[j]
        /\ log'[Len(log) + 1].status = status /\ log'[Len(log) + 1].reason = reason
        /\ log'[Len(log) + 1].user = req.user /\ log'[Len(log) + 1].channel = ch
        /\ log'[Len(log) + 1].primary = req.channel
    BY RecordedType
  <1>2. /\ Len(log) \in Nat /\ DOMAIN log = 1..Len(log)
        /\ DOMAIN log' = 1..(Len(log) + 1)
    BY <1>1 DEF GatewayTypeOK
  <1>3. i \in 1..Len(log) \/ i = Len(log) + 1
    BY <1>2
  <1>. QED
    BY <1>1, <1>2, <1>3

(* The channel that delivers, when it is not the primary one, is the first *)
(* of push, sms, in-app that accepts.                                      *)
LEMMA DeliveringChannelFirst ==
    ASSUME NEW u \in Users, NEW p \in RequestChannel, \E ch \in Channel : Accepts(u, ch),
           DeliveringChannel(u, p) # p
    PROVE  /\ ~Accepts(u, p)
           /\ DeliveringChannel(u, p) # "push" => ~Accepts(u, "push")
           /\ DeliveringChannel(u, p) = "in_app" => ~Accepts(u, "sms")
  <1> DEFINE first(ch) == /\ ch \in Channel /\ Accepts(u, ch)
                          /\ \A other \in Channel :
                                 Accepts(u, other) => FallbackRank[ch] <= FallbackRank[other]
  <1>1. ~Accepts(u, p)
    BY DEF DeliveringChannel
  <1>2. \E ch \in Channel : first(ch)
    BY DEF Channel, FallbackRank
  <1>3. first(DeliveringChannel(u, p))
    BY <1>1, <1>2 DEF DeliveringChannel
  <1>. QED
    BY <1>1, <1>3 DEF Channel, FallbackRank

(* What a thread delivers passed the filters when its token was drawn, and *)
(* nothing revokes that: the opt-outs and the profiles are the dataset's.  *)
InflightAdmissible ==
    \A c \in Callers : inflight[c] # NoRequest => Admissible(inflight[c])

(* The two promises about the log, with what makes them inductive.         *)
Promised == GatewayTypeOK /\ InflightAdmissible /\ FallbackJustified /\ NoForbiddenTouch

(* A refusal appends a record that promises nothing.                       *)
LEMMA PromisedAfterRefuse ==
    ASSUME Promised, NEW c \in Callers, NEW req \in Request, Refuse(c, req)
    PROVE  InflightAdmissible' /\ FallbackJustified' /\ NoForbiddenTouch'
  <1>1. PICK status \in Status \ {"sent"}, reason \in Reason \ {"all_channels_failed"} :
           log' = Recorded(req, req.channel, status, reason)
    BY RefuseRecords DEF Promised
  <1>2. ASSUME NEW i \in DOMAIN log'
        PROVE  \/ i \in DOMAIN log /\ log'[i] = log[i]
               \/ log'[i].status # "sent" /\ log'[i].reason # "all_channels_failed"
    BY <1>1, OldOrNew DEF Promised, Request
  <1>3. inflight' = inflight
    BY RefuseRecords DEF Promised
  <1>4. InflightAdmissible'
    BY <1>3 DEF Promised, InflightAdmissible, Admissible
  <1>5. FallbackJustified'
    BY <1>2 DEF Promised, FallbackJustified, Accepts
  <1>6. NoForbiddenTouch'
    BY <1>2 DEF Promised, NoForbiddenTouch
  <1>. QED
    BY <1>4, <1>5, <1>6

(* A delivery appends a record that keeps both.                            *)
LEMMA PromisedAfterDeliver ==
    ASSUME Promised, NEW c \in Callers, Deliver(c)
    PROVE  InflightAdmissible' /\ FallbackJustified' /\ NoForbiddenTouch'
  <1> DEFINE req == inflight[c]
             ch == DeliveringChannel(req.user, req.channel)
  <1>1. /\ req \in Request /\ req.user \in Users /\ req.channel \in RequestChannel
        /\ Admissible(req)
        /\ inflight' = [inflight EXCEPT ![c] = NoRequest]
    BY DeliverRecords DEF Promised, InflightAdmissible, Deliver, Request
  <1>2. /\ "sent" \in Status /\ "failed" \in Status
        /\ "none" \in Reason /\ "all_channels_failed" \in Reason
    BY DEF Status, Reason
  <1>3. InflightAdmissible'
    BY <1>1 DEF Promised, GatewayTypeOK, InflightAdmissible, Admissible
  <1>4. CASE \E x \in Channel : Accepts(req.user, x)
    <2>1. log' = Recorded(req, ch, "sent", "none")
      BY <1>4 DEF Deliver
    <2>2. ch \in RequestChannel /\ Accepts(req.user, ch)
      BY <1>1, <1>4, DeliveringChannelType
    <2>3. ch # req.channel => /\ ~Accepts(req.user, req.channel)
                              /\ ch # "push" => ~Accepts(req.user, "push")
                              /\ ch = "in_app" => ~Accepts(req.user, "sms")
      BY <1>1, <1>4, DeliveringChannelFirst
    <2>4. req.channel = "push" => Profile[req.user].token
      BY <1>1 DEF Admissible, UnreachableReason
    <2>5. /\ req.user \notin OptOut
          /\ ~Profile[req.user].uninstalled /\ ~Profile[req.user].stale
      BY <1>1 DEF Admissible, UnreachableReason
    <2> HIDE DEF ch
    <2>6. ASSUME NEW i \in DOMAIN log'
          PROVE  \/ i \in DOMAIN log /\ log'[i] = log[i]
                 \/ /\ log'[i].user = req.user /\ log'[i].primary = req.channel
                    /\ log'[i].channel = ch
                    /\ log'[i].status = "sent" /\ log'[i].reason = "none"
      BY <1>1, <1>2, <2>1, <2>2, OldOrNew DEF Promised
    <2>7. FallbackJustified'
      BY <2>2, <2>3, <2>6 DEF Promised, FallbackJustified, Accepts
    <2>8. NoForbiddenTouch'
      BY <2>4, <2>5, <2>6 DEF Promised, NoForbiddenTouch
    <2>. QED
      BY <1>3, <2>7, <2>8
  <1>5. CASE ~\E x \in Channel : Accepts(req.user, x)
    <2>1. log' = Recorded(req, req.channel, "failed", "all_channels_failed")
      BY <1>5 DEF Deliver
    <2>2. ASSUME NEW i \in DOMAIN log'
          PROVE  \/ i \in DOMAIN log /\ log'[i] = log[i]
                 \/ log'[i].user = req.user /\ log'[i].status = "failed"
      BY <1>1, <1>2, <2>1, OldOrNew DEF Promised
    <2>3. FallbackJustified'
      BY <1>5, <2>2 DEF Promised, FallbackJustified, Accepts
    <2>4. NoForbiddenTouch'
      BY <2>2 DEF Promised, NoForbiddenTouch
    <2>. QED
      BY <1>3, <2>3, <2>4
  <1>. QED
    BY <1>4, <1>5

(* Every step of the gateway keeps both promises.                          *)
LEMMA PromisedStep ==
    ASSUME Promised, GatewayStep \/ UNCHANGED gatewayVars
    PROVE  Promised'
  <1>1. GatewayTypeOK'
    BY GatewayTypeStep DEF Promised
  <1>2. ASSUME UNCHANGED log
        PROVE  FallbackJustified' /\ NoForbiddenTouch'
    BY <1>2 DEF Promised, FallbackJustified, NoForbiddenTouch, Accepts
  <1>3. ASSUME NEW c \in Callers, NEW req \in Request, Refuse(c, req)
        PROVE  Promised'
    BY <1>1, <1>3, PromisedAfterRefuse DEF Promised
  <1>4. ASSUME NEW c \in Callers, NEW req \in Request, Draw(c, req)
        PROVE  Promised'
    <2>1. UNCHANGED log /\ Admissible(req) /\ inflight' = [inflight EXCEPT ![c] = req]
      BY <1>4 DEF Draw
    <2>2. InflightAdmissible'
      BY <2>1 DEF Promised, GatewayTypeOK, InflightAdmissible, Admissible
    <2>. QED
      BY <1>1, <1>2, <2>1, <2>2 DEF Promised
  <1>5. ASSUME NEW c \in Callers, Deliver(c)
        PROVE  Promised'
    BY <1>1, <1>5, PromisedAfterDeliver DEF Promised
  <1>6. ASSUME UNCHANGED <<log, inflight>>
        PROVE  Promised'
    BY <1>1, <1>2, <1>6 DEF Promised, InflightAdmissible, Admissible
  <1>7. CASE Refill
    BY <1>6, <1>7 DEF Refill
  <1>8. CASE UNCHANGED gatewayVars
    BY <1>6, <1>8 DEF gatewayVars
  <1>. QED
    BY <1>3, <1>4, <1>5, <1>7, <1>8 DEF GatewayStep
-----------------------------------------------------------------------------
(* A step of the gateway on its own is a step of the gateway.              *)
LEMMA AloneSteps == [GatewayNext]_gatewayVars => GatewayStep \/ UNCHANGED gatewayVars
  BY DEF GatewayNext, Submit, GatewayStep

(* The gateway's variables keep their types: in particular the tokens stay *)
(* between 0 and the capacity under any interleaving of the threads.       *)
THEOREM GatewayTyping == GatewaySpec => []GatewayTypeOK
  <1>1. GatewayTypeOK /\ [GatewayNext]_gatewayVars => GatewayTypeOK'
    BY AloneSteps, GatewayTypeStep
  <1>. QED
    BY GatewayInitOK, <1>1, PTL DEF GatewaySpec

(* No token is lost or minted, in any window.                              *)
THEOREM GatewayConservesTokens == GatewaySpec => []TokenConservation
  <1>1. GatewayTypeOK /\ TokenConservation /\ [GatewayNext]_gatewayVars
          => TokenConservation'
    BY AloneSteps, TokenConservationStep
  <1>. QED
    BY GatewayInitOK, GatewayTyping, <1>1, PTL DEF GatewaySpec

(* A window exceeds its capacity by at most one message per thread.        *)
THEOREM GatewayBoundsWindows == GatewaySpec => []WindowOvershoot
  BY GatewayTyping, GatewayConservesTokens, OvershootFromConservation, PTL

(* The empty log promises nothing that is not kept.                        *)
LEMMA PromisedInit == GatewayInit => Promised
  <1> SUFFICES ASSUME GatewayInit
               PROVE  Promised
    OBVIOUS
  <1>1. GatewayTypeOK
    BY GatewayInitOK
  <1>2. log = <<>> /\ \A c \in Callers : inflight[c] = NoRequest
    BY DEF GatewayInit
  <1>. QED
    BY <1>1, <1>2 DEF Promised, InflightAdmissible, FallbackJustified, NoForbiddenTouch

(* Every record keeps both promises, whatever is refilled and whichever    *)
(* threads send in between.                                                *)
LEMMA PromisedAlways == GatewaySpec => []Promised
  <1>1. Promised /\ [GatewayNext]_gatewayVars => Promised'
    BY AloneSteps, PromisedStep
  <1>. QED
    BY PromisedInit, <1>1, PTL DEF GatewaySpec

(* A message leaves its primary channel only when that channel refuses it, *)
(* for the first that accepts, and fails only when none does.              *)
THEOREM GatewayJustifiesFallback == GatewaySpec => []FallbackJustified
  <1>1. Promised => FallbackJustified
    BY DEF Promised
  <1>. QED
    BY PromisedAlways, <1>1, PTL

(* No message reaches a user who opted out, removed the app or went stale. *)
THEOREM GatewayForbidsTouches == GatewaySpec => []NoForbiddenTouch
  <1>1. Promised => NoForbiddenTouch
    BY DEF Promised
  <1>. QED
    BY PromisedAlways, <1>1, PTL
=============================================================================
