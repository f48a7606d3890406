----------------------- MODULE CampaignServiceProofs -----------------------
(***************************************************************************)
(* The campaign service for any threads, users, campaigns and batches: its *)
(* types, what ties each thread's run or batch to the gateway, and the     *)
(* backing of the answers.  Each thread owns the positions of the log at   *)
(* which the deliveries of its present run were recorded; no position has  *)
(* two owners, so that the threads' answers together cannot exceed the     *)
(* deliveries in the log, whatever was sent in batches in between.         *)
(***************************************************************************)
EXTENDS CampaignService, OrchestrationProofs

(* What a thread works on: its run owes it, or its batch has it first.     *)
ServiceLinked ==
    \A w \in Callers :
        /\ inflight[w] # NoRequest =>
             \/ /\ Running(w)
                /\ \E u \in run[w].pending : inflight[w] = RequestFor(w, u)
             \/ batch[w] # NoBatch /\ inflight[w] = BatchRequest(w)
        /\ Running(w) => batch[w] = NoBatch
        /\ batch[w] # NoBatch => batch[w].rest # <<>>
        /\ run[w] # NoRun =>
             \A u \in run[w].pending : BucketOf(run[w].campaign, u) # Control

ServiceInv == ServiceTypeOK /\ ServiceLinked

(* Records of a campaign's runs that were delivered.                       *)
Delivered(records, c) ==
    {i \in DOMAIN records :
        records[i].campaign = c /\ records[i].variant # 0 /\ records[i].status = "sent"}

(* own gives every thread the positions that back its answer, and none to  *)
(* two threads.                                                            *)
Owns(own, w) ==
    /\ own[w] \subseteq DOMAIN log
    /\ run[w] # NoRun => /\ own[w] \subseteq Delivered(log, run[w].campaign)
                         /\ run[w].sent = Cardinality(own[w])

Owners(own) ==
    /\ \A w \in Callers : Owns(own, w)
    /\ \A v, w \in Callers : v # w => own[v] \cap own[w] = {}
    /\ own = [w \in Callers |-> own[w]]

Backed == \E own : Owners(own)
-----------------------------------------------------------------------------
(* The first user of a batch is a well-formed request for no variant.      *)
LEMMA BatchRequestType ==
    ASSUME ServiceInv, NEW w \in Callers, batch[w] # NoBatch
    PROVE  BatchRequest(w) \in Request /\ BatchRequest(w).variant = 0 /\ batch[w] \in Batch
  <1>1. batch[w] \in Batch /\ batch[w].rest # <<>>
    BY DEF ServiceInv, ServiceTypeOK, ServiceLinked
  <1>2. /\ batch[w].rest \in Seq(Users) /\ batch[w].campaign \in Campaigns
        /\ batch[w].channel \in RequestChannel
    BY <1>1 DEF Batch
  <1>3. Head(batch[w].rest) \in Users
    BY <1>1, <1>2
  <1>. QED
    BY <1>1, <1>2, <1>3, ServiceAssumption DEF BatchRequest, Request

(* What is left of a batch is a batch, or nothing.                         *)
LEMMA RestType ==
    ASSUME NEW b \in Batch, b.rest # <<>>
    PROVE  /\ Rest(b) \in Batch \cup {NoBatch}
           /\ Rest(b) # NoBatch => Rest(b).rest # <<>>
  <1>1. b.rest \in Seq(Users) /\ Tail(b.rest) \in Seq(Users)
    BY DEF Batch
  <1> DEFINE t == Tail(b.rest)
             r == [b EXCEPT !.rest = t]
  <1>2. r \in Batch /\ r.rest = t
    <2> HIDE DEF t
    <2>. QED
      BY <1>1 DEF Batch, t
  <1>3. Rest(b) = IF t = <<>> THEN NoBatch ELSE r
    BY DEF Rest
  <1> HIDE DEF t, r
  <1>. QED
    BY <1>2, <1>3

(* A thread's turn in its run is that of a user it owes a request.         *)
LEMMA ServiceTurn ==
    ASSUME ServiceInv, NEW w \in Callers, NEW u \in Users, Turn(w, u)
    PROVE  /\ RequestFor(w, u) \in Request /\ RequestFor(w, u).variant # 0
           /\ RequestFor(w, u).campaign = run[w].campaign
           /\ u \in run[w].pending /\ Running(w) /\ run[w] # NoRun
  <1>1. /\ run[w] # NoRun /\ u \in run[w].pending /\ Running(w)
    BY DEF Turn, Running
  <1>2. BucketOf(run[w].campaign, u) # Control /\ TypeOK
    BY <1>1 DEF ServiceInv, ServiceLinked, ServiceTypeOK
  <1>. QED
    BY <1>1, <1>2, RequestForType DEF Control

(* When one thread's run, batch and request change, the invariant need     *)
(* only be looked at for that thread.                                      *)
LEMMA ServiceFrame ==
    ASSUME ServiceInv, NEW w \in Callers,
           \A v \in Callers \ {w} : /\ inflight'[v] = inflight[v] /\ run'[v] = run[v]
                                    /\ batch'[v] = batch[v],
           inflight'[w] # NoRequest =>
               \/ /\ Running(w)'
                  /\ \E u \in run'[w].pending : inflight'[w] = RequestFor(w, u)'
               \/ batch'[w] # NoBatch /\ inflight'[w] = BatchRequest(w)',
           Running(w)' => batch'[w] = NoBatch,
           batch'[w] # NoBatch => batch'[w].rest # <<>>,
           run'[w] # NoRun =>
               \A u \in run'[w].pending : BucketOf(run'[w].campaign, u) # Control
    PROVE  ServiceLinked'
  <1> SUFFICES ASSUME NEW v \in Callers
               PROVE  /\ inflight'[v] # NoRequest =>
                           \/ /\ Running(v)'
                              /\ \E u \in run'[v].pending : inflight'[v] = RequestFor(v, u)'
                           \/ batch'[v] # NoBatch /\ inflight'[v] = BatchRequest(v)'
                      /\ Running(v)' => batch'[v] = NoBatch
                      /\ batch'[v] # NoBatch => batch'[v].rest # <<>>
                      /\ run'[v] # NoRun =>
                           \A u \in run'[v].pending : BucketOf(run'[v].campaign, u) # Control
    BY DEF ServiceLinked, BucketOf
  <1>1. CASE v = w
    BY <1>1
  <1>2. CASE v # w
    <2>1. run'[v] = run[v] /\ inflight'[v] = inflight[v] /\ batch'[v] = batch[v]
      BY <1>2
    <2>2. /\ \A u : RequestFor(v, u)' = RequestFor(v, u)
          /\ BatchRequest(v)' = BatchRequest(v)
          /\ Running(v)' = Running(v)
      BY <2>1 DEF RequestFor, BucketOf, BatchRequest, Running
    <2>. QED
      BY <2>1, <2>2 DEF ServiceInv, ServiceLinked
  <1>. QED
    BY <1>1, <1>2
-----------------------------------------------------------------------------
(* The three shapes of a step, as far as the answers go.  A run begins     *)
(* with nothing sent; a delivery of a run is recorded and counted; any     *)
(* other record leaves the runs' answers as they are.                      *)
LogGrows == \A i \in DOMAIN log : i \in DOMAIN log' /\ log'[i] = log[i]

Begins(w) ==
    /\ LogGrows
    /\ run'[w].sent = 0
    /\ \A v \in Callers \ {w} : run'[v] = run[v]

Counts(w) ==
    /\ LogGrows
    /\ \E n \in DOMAIN log' \ DOMAIN log :
          /\ log'[n].campaign = run[w].campaign /\ log'[n].variant # 0
          /\ log'[n].status = "sent"
    /\ run[w] # NoRun
    /\ run'[w].campaign = run[w].campaign /\ run'[w].sent = run[w].sent + 1
    /\ \A v \in Callers \ {w} : run'[v] = run[v]

Undisturbed ==
    /\ LogGrows
    /\ \A v \in Callers : run'[v] # NoRun =>
          /\ run[v] # NoRun
          /\ run'[v].campaign = run[v].campaign /\ run'[v].sent = run[v].sent

(* Appending a record leaves the earlier ones where they are.              *)
LEMMA RecordedGrows ==
    ASSUME GatewayTypeOK, NEW req \in Request, NEW ch \in RequestChannel,
           NEW status \in Status, NEW reason \in Reason,
           log' = Recorded(req, ch, status, reason)
    PROVE  /\ LogGrows
           /\ Len(log) + 1 \in DOMAIN log' \ DOMAIN log
           /\ Len(log') = Len(log) + 1
           /\ log'[Len(log) + 1].campaign = req.campaign
           /\ log'[Len(log) + 1].variant = req.variant
           /\ log'[Len(log) + 1].status = status
  <1> DEFINE n == Len(log) + 1
  <1>1. /\ log' \in Seq(Record) /\ Len(log') = n
        /\ \A i \in 1..Len(log) : log'[i] = log[i]
        /\ log'[n].campaign = req.campaign /\ log'[n].variant = req.variant
        /\ log'[n].status = status
    BY RecordedType
  <1>2. DOMAIN log = 1..Len(log) /\ Len(log) \in Nat /\ DOMAIN log' = 1..n
    BY <1>1 DEF GatewayTypeOK
  <1>. QED
    BY <1>1, <1>2 DEF LogGrows

(* A refused request leaves a record that is not a delivery.               *)
LEMMA RefusedGrows ==
    ASSUME ServiceInv, NEW w \in Callers, NEW req \in Request, Refuse(w, req)
    PROVE  LogGrows /\ inflight' = inflight /\ inflight[w] = NoRequest /\ GatewayTypeOK'
  <1>1. GatewayTypeOK
    BY DEF ServiceInv, ServiceTypeOK, TypeOK
  <1>2. PICK status \in Status \ {"sent"}, reason \in Reason :
           log' = Recorded(req, req.channel, status, reason)
    BY <1>1, RefuseRecords
  <1>3. req.channel \in RequestChannel
    BY DEF Request
  <1>4. GatewayTypeOK'
    BY <1>1, GatewayTypeStep DEF GatewayStep
  <1>. QED
    BY <1>1, <1>2, <1>3, <1>4, RefuseRecords, RecordedGrows

(* A delivery leaves a record of the request it was made for.              *)
LEMMA DeliveredGrows ==
    ASSUME ServiceInv, NEW w \in Callers, Deliver(w)
    PROVE  /\ LogGrows /\ GatewayTypeOK'
           /\ inflight[w] \in Request
           /\ inflight' = [inflight EXCEPT ![w] = NoRequest]
           /\ Len(log') \in DOMAIN log' \ DOMAIN log
           /\ log'[Len(log')].campaign = inflight[w].campaign
           /\ log'[Len(log')].variant = inflight[w].variant
  <1>1. GatewayTypeOK
    BY DEF ServiceInv, ServiceTypeOK, TypeOK
  <1>2. PICK ch \in RequestChannel, status \in Status, reason \in Reason :
           log' = Recorded(inflight[w], ch, status, reason)
    BY <1>1, DeliverRecords
  <1>3. inflight[w] \in Request /\ inflight' = [inflight EXCEPT ![w] = NoRequest]
    BY <1>1, DeliverRecords
  <1>4. GatewayTypeOK'
    BY <1>1, GatewayTypeStep DEF GatewayStep
  <1>. QED
    BY <1>1, <1>2, <1>3, <1>4, RecordedGrows
-----------------------------------------------------------------------------
(* A thread that neither runs nor sends a batch works on nothing.          *)
LEMMA ServiceIdle ==
    ASSUME ServiceInv, NEW w \in Callers, ~Running(w), batch[w] = NoBatch
    PROVE  inflight[w] = NoRequest
  BY DEF ServiceInv, ServiceLinked

LEMMA RunCampaignStep ==
    ASSUME ServiceInv, NEW w \in Callers, NEW c \in Campaigns, RunCampaign(w, c)
    PROVE  ServiceInv' /\ Begins(w)
  <1>1. /\ Start(w, c, Today, <<>>, Definition[c].audience)
        /\ batch[w] = NoBatch /\ batch' = batch /\ posted' = posted
    BY DEF RunCampaign
  <1>2. TypeOK /\ run \in [Callers -> Run \cup {NoRun}]
    BY DEF ServiceInv, ServiceTypeOK, TypeOK
  <1>3. Definition[c].audience \in SUBSET Users /\ Today \in Days
    BY OrchestrationAssumption, ServiceAssumption DEF CampaignDef
  <1>4. /\ ~Running(w) /\ started' \in 0..MaxRuns /\ UNCHANGED gatewayVars
        /\ run' = [run EXCEPT ![w] = run'[w]]
        /\ run'[w] \in Run /\ run'[w] # NoRun /\ run'[w].campaign = c
        /\ \A u \in run'[w].pending : BucketOf(c, u) # Control
    BY <1>1, <1>2, <1>3, StartedRun
  <1>5. inflight' = inflight /\ log' = log /\ inflight[w] = NoRequest
    BY <1>1, <1>4, ServiceIdle DEF gatewayVars
  <1>6. \A v \in Callers \ {w} : run'[v] = run[v]
    BY <1>2, <1>4
  <1>7. run'[w].sent = 0
    BY <1>1, <1>2 DEF Start
  <1>8. ServiceLinked'
    BY <1>1, <1>4, <1>5, <1>6, ServiceFrame
  <1>9. TypeOK'
    <2>1. GatewayTypeOK'
      BY <1>2, <1>4, GatewayTypeStep DEF TypeOK
    <2>2. run' \in [Callers -> Run \cup {NoRun}]
      BY <1>2, <1>4
    <2>. QED
      BY <1>4, <2>1, <2>2 DEF TypeOK
  <1>10. LogGrows
    BY <1>5 DEF LogGrows
  <1>. QED
    BY <1>1, <1>6, <1>7, <1>8, <1>9, <1>10 DEF ServiceInv, ServiceTypeOK, Begins

LEMMA PostBatchStep ==
    ASSUME ServiceInv, NEW w \in Callers, NEW ids \in Batches, NEW c \in Campaigns,
           NEW ch \in RequestChannel, PostBatch(w, ids, c, ch)
    PROVE  ServiceInv' /\ Undisturbed
  <1> DEFINE new == [rest |-> ids, campaign |-> c, channel |-> ch]
  <1>1. /\ ~Running(w) /\ batch[w] = NoBatch /\ posted' \in 0..MaxBatches
        /\ batch' = [batch EXCEPT ![w] = new] /\ UNCHANGED vars
    BY ServiceAssumption DEF PostBatch, ServiceInv, ServiceTypeOK
  <1>2. new \in Batch /\ new.rest = ids /\ ids # <<>>
    BY ServiceAssumption DEF Batch, PostBatch
  <1> HIDE DEF new
  <1>3. batch \in [Callers -> Batch \cup {NoBatch}] /\ TypeOK
    BY DEF ServiceInv, ServiceTypeOK
  <1>4. run' = run /\ inflight' = inflight /\ log' = log /\ inflight[w] = NoRequest
    BY <1>1, ServiceIdle DEF vars, gatewayVars
  <1>5. ~Running(w)'
    BY <1>1, <1>4 DEF Running
  <1>6. batch'[w] = new /\ \A v \in Callers \ {w} : batch'[v] = batch[v]
    BY <1>1, <1>3
  <1>7. ServiceLinked'
    <2>1. run'[w] # NoRun =>
            \A u \in run'[w].pending : BucketOf(run'[w].campaign, u) # Control
      BY <1>4 DEF ServiceInv, ServiceLinked
    <2>. QED
      BY <1>2, <1>4, <1>5, <1>6, <2>1, ServiceFrame
  <1>8. TypeOK'
    BY <1>1, <1>3 DEF vars, gatewayVars, TypeOK, GatewayTypeOK
  <1>9. batch' \in [Callers -> Batch \cup {NoBatch}]
    BY <1>1, <1>2, <1>3
  <1>. QED
    BY <1>1, <1>4, <1>7, <1>8, <1>9 DEF ServiceInv, ServiceTypeOK, Undisturbed, LogGrows
-----------------------------------------------------------------------------
(* The batch of a thread goes on without its first user.                   *)
LEMMA BatchShrinks ==
    ASSUME ServiceInv, NEW w \in Callers, batch[w] # NoBatch,
           batch' = [batch EXCEPT ![w] = Rest(@)]
    PROVE  /\ batch' \in [Callers -> Batch \cup {NoBatch}]
           /\ batch'[w] # NoBatch => batch'[w].rest # <<>>
           /\ \A v \in Callers \ {w} : batch'[v] = batch[v]
           /\ ~Running(w)
  <1>1. batch \in [Callers -> Batch \cup {NoBatch}]
    BY DEF ServiceInv, ServiceTypeOK
  <1>2. batch[w] \in Batch /\ batch[w].rest # <<>> /\ ~Running(w)
    BY <1>1 DEF ServiceInv, ServiceLinked
  <1>3. /\ Rest(batch[w]) \in Batch \cup {NoBatch}
        /\ Rest(batch[w]) # NoBatch => Rest(batch[w]).rest # <<>>
    BY <1>2, RestType
  <1>4. batch'[w] = Rest(batch[w]) /\ \A v \in Callers \ {w} : batch'[v] = batch[v]
    BY <1>1
  <1>5. batch' \in [Callers -> Batch \cup {NoBatch}]
    BY <1>1, <1>3
  <1>. QED
    BY <1>2, <1>3, <1>4, <1>5

LEMMA BatchRefusedStep ==
    ASSUME ServiceInv, NEW w \in Callers, BatchRefused(w)
    PROVE  ServiceInv' /\ Undisturbed
  <1>1. /\ batch[w] # NoBatch /\ Refuse(w, BatchRequest(w))
        /\ batch' = [batch EXCEPT ![w] = Rest(@)]
        /\ run' = run /\ started' = started /\ posted' = posted
    BY DEF BatchRefused
  <1>2. LogGrows /\ inflight' = inflight /\ inflight[w] = NoRequest /\ GatewayTypeOK'
    BY <1>1, BatchRequestType, RefusedGrows
  <1>3. /\ batch' \in [Callers -> Batch \cup {NoBatch}]
        /\ batch'[w] # NoBatch => batch'[w].rest # <<>>
        /\ \A v \in Callers \ {w} : batch'[v] = batch[v]
        /\ ~Running(w)
    BY <1>1, BatchShrinks
  <1>4. ServiceLinked'
    <2>1. ~Running(w)'
      BY <1>1, <1>3 DEF Running
    <2>2. run'[w] # NoRun =>
            \A u \in run'[w].pending : BucketOf(run'[w].campaign, u) # Control
      BY <1>1 DEF ServiceInv, ServiceLinked
    <2>. QED
      BY <1>1, <1>2, <1>3, <2>1, <2>2, ServiceFrame
  <1>. QED
    BY <1>1, <1>2, <1>3, <1>4 DEF ServiceInv, ServiceTypeOK, TypeOK, Undisturbed

LEMMA BatchDrawStep ==
    ASSUME ServiceInv, NEW w \in Callers, BatchDraw(w)
    PROVE  ServiceInv' /\ Undisturbed
  <1> DEFINE req == BatchRequest(w)
  <1>1. /\ batch[w] # NoBatch /\ Draw(w, req)
        /\ run' = run /\ started' = started /\ posted' = posted /\ batch' = batch
    BY DEF BatchDraw
  <1>2. req \in Request /\ req' = req
    BY <1>1, BatchRequestType DEF BatchRequest
  <1>3. GatewayTypeOK'
    BY <1>1, <1>2, GatewayTypeStep
       DEF GatewayStep, ServiceInv, ServiceTypeOK, TypeOK
  <1>4. /\ log' = log /\ inflight'[w] = req
        /\ \A v \in Callers \ {w} : inflight'[v] = inflight[v]
    BY <1>1 DEF Draw, ServiceInv, ServiceTypeOK, TypeOK, GatewayTypeOK
  <1>5. ServiceLinked'
    <2>1. /\ batch'[w].rest # <<>>
          /\ ~Running(w)'
      BY <1>1 DEF ServiceInv, ServiceLinked, Running
    <2>2. run'[w] # NoRun =>
            \A u \in run'[w].pending : BucketOf(run'[w].campaign, u) # Control
      BY <1>1 DEF ServiceInv, ServiceLinked
    <2> HIDE DEF req
    <2>3. inflight'[w] = BatchRequest(w)'
      BY <1>2, <1>4 DEF req
    <2>. QED
      BY <1>1, <1>4, <2>1, <2>2, <2>3, ServiceFrame
  <1>6. LogGrows
    BY <1>4 DEF LogGrows
  <1>. QED
    BY <1>1, <1>3, <1>5, <1>6 DEF ServiceInv, ServiceTypeOK, TypeOK, Undisturbed

LEMMA BatchDeliveredStep ==
    ASSUME ServiceInv, NEW w \in Callers, BatchDelivered(w)
    PROVE  ServiceInv' /\ Undisturbed
  <1>1. /\ batch[w] # NoBatch /\ Deliver(w)
        /\ batch' = [batch EXCEPT ![w] = Rest(@)]
        /\ run' = run /\ started' = started /\ posted' = posted
    BY DEF BatchDelivered
  <1>2. /\ LogGrows /\ GatewayTypeOK'
        /\ inflight' = [inflight EXCEPT ![w] = NoRequest]
    BY <1>1, DeliveredGrows
  <1>3. /\ inflight'[w] = NoRequest
        /\ \A v \in Callers \ {w} : inflight'[v] = inflight[v]
    BY <1>2 DEF ServiceInv, ServiceTypeOK, TypeOK, GatewayTypeOK
  <1>4. /\ batch' \in [Callers -> Batch \cup {NoBatch}]
        /\ batch'[w] # NoBatch => batch'[w].rest # <<>>
        /\ \A v \in Callers \ {w} : batch'[v] = batch[v]
        /\ ~Running(w)
    BY <1>1, BatchShrinks
  <1>5. ServiceLinked'
    <2>1. ~Running(w)'
      BY <1>1, <1>4 DEF Running
    <2>2. run'[w] # NoRun =>
            \A u \in run'[w].pending : BucketOf(run'[w].campaign, u) # Control
      BY <1>1 DEF ServiceInv, ServiceLinked
    <2>. QED
      BY <1>1, <1>3, <1>4, <2>1, <2>2, ServiceFrame
  <1>. QED
    BY <1>1, <1>2, <1>4, <1>5 DEF ServiceInv, ServiceTypeOK, TypeOK, Undisturbed
-----------------------------------------------------------------------------
LEMMA ServiceNotSentStep ==
    ASSUME ServiceInv, NEW w \in Callers, NEW u \in Users, NotSent(w, u),
           UNCHANGED <<batch, posted>>
    PROVE  ServiceInv' /\ Undisturbed
  <1>1. /\ Turn(w, u) /\ Refuse(w, RequestFor(w, u)) /\ started' = started
        /\ run' = [run EXCEPT ![w].pending = @ \ {u}, ![w].notSent = @ + 1]
    BY DEF NotSent
  <1>2. RequestFor(w, u) \in Request /\ Running(w) /\ run[w] # NoRun
    BY <1>1, ServiceTurn
  <1>3. LogGrows /\ inflight' = inflight /\ inflight[w] = NoRequest /\ GatewayTypeOK'
    BY <1>1, <1>2, RefusedGrows
  <1>4. /\ run' = [run EXCEPT ![w] = run'[w]]
        /\ run'[w] \in Run /\ run'[w] # NoRun
        /\ run'[w].campaign = run[w].campaign
        /\ run'[w].pending = run[w].pending \ {u}
    BY <1>1, <1>2, SettledRun DEF ServiceInv, ServiceTypeOK
  <1>5. run \in [Callers -> Run \cup {NoRun}] /\ run[w] \in Run
    BY <1>2 DEF ServiceInv, ServiceTypeOK, TypeOK
  <1>6. run'[w].sent = run[w].sent
    BY <1>1, <1>5 DEF Run
  <1>7. \A v \in Callers \ {w} : run'[v] = run[v]
    BY <1>4, <1>5
  <1>8. ServiceLinked'
    <2>1. batch[w] = NoBatch /\ \A x \in run[w].pending : BucketOf(run[w].campaign, x) # Control
      BY <1>2 DEF ServiceInv, ServiceLinked
    <2>. QED
      BY <1>3, <1>4, <1>7, <2>1, ServiceFrame
  <1>9. run' \in [Callers -> Run \cup {NoRun}]
    BY <1>4, <1>5
  <1>. QED
    BY <1>1, <1>2, <1>3, <1>4, <1>6, <1>7, <1>8, <1>9
       DEF ServiceInv, ServiceTypeOK, TypeOK, Undisturbed

LEMMA ServiceHandStep ==
    ASSUME ServiceInv, NEW w \in Callers, NEW u \in Users, Hand(w, u),
           UNCHANGED <<batch, posted>>
    PROVE  ServiceInv' /\ Undisturbed
  <1>1. Turn(w, u) /\ Draw(w, RequestFor(w, u)) /\ run' = run /\ started' = started
    BY DEF Hand
  <1>2. /\ RequestFor(w, u) \in Request /\ Running(w) /\ u \in run[w].pending
        /\ RequestFor(w, u)' = RequestFor(w, u) /\ Running(w)'
    BY <1>1, ServiceTurn DEF RequestFor, BucketOf, Running
  <1>3. GatewayTypeOK'
    BY <1>1, <1>2, GatewayTypeStep
       DEF GatewayStep, ServiceInv, ServiceTypeOK, TypeOK
  <1>4. /\ log' = log /\ inflight'[w] = RequestFor(w, u)
        /\ \A v \in Callers \ {w} : inflight'[v] = inflight[v]
    BY <1>1 DEF Draw, ServiceInv, ServiceTypeOK, TypeOK, GatewayTypeOK
  <1>5. ServiceLinked'
    <2>1. /\ batch[w] = NoBatch
          /\ run'[w] # NoRun =>
               \A x \in run'[w].pending : BucketOf(run'[w].campaign, x) # Control
      BY <1>1, <1>2 DEF ServiceInv, ServiceLinked
    <2>2. \E x \in run'[w].pending : inflight'[w] = RequestFor(w, x)'
      BY <1>1, <1>2, <1>4
    <2>. QED
      BY <1>1, <1>2, <1>4, <2>1, <2>2, ServiceFrame
  <1>6. LogGrows
    BY <1>4 DEF LogGrows
  <1>. QED
    BY <1>1, <1>3, <1>5, <1>6 DEF ServiceInv, ServiceTypeOK, TypeOK, Undisturbed

LEMMA ServiceReturnStep ==
    ASSUME ServiceInv, NEW w \in Callers, Return(w), UNCHANGED <<batch, posted>>
    PROVE  ServiceInv' /\ (Counts(w) \/ Undisturbed)
  <1> DEFINE x == inflight[w].user
             sent == log'[Len(log')].status = "sent"
  <1>1. /\ Running(w) /\ Deliver(w) /\ inflight[w] # NoRequest /\ started' = started
        /\ run' = IF sent THEN [run EXCEPT ![w].pending = @ \ {x}, ![w].sent = @ + 1]
                  ELSE [run EXCEPT ![w].pending = @ \ {x}, ![w].notSent = @ + 1]
    BY DEF Return, Deliver
  <1>2. batch[w] = NoBatch /\ run[w] # NoRun
    BY <1>1 DEF ServiceInv, ServiceLinked, Running
  <1>3. PICK u \in run[w].pending : inflight[w] = RequestFor(w, u)
    BY <1>1, <1>2 DEF ServiceInv, ServiceLinked
  <1>4. inflight[w].campaign = run[w].campaign /\ inflight[w].variant # 0
    <2>1. BucketOf(run[w].campaign, u) # Control
      BY <1>2, <1>3 DEF ServiceInv, ServiceLinked
    <2>. QED
      BY <1>3, <2>1 DEF RequestFor, Control
  <1>5. /\ LogGrows /\ GatewayTypeOK'
        /\ inflight' = [inflight EXCEPT ![w] = NoRequest]
        /\ Len(log') \in DOMAIN log' \ DOMAIN log
        /\ log'[Len(log')].campaign = inflight[w].campaign
        /\ log'[Len(log')].variant = inflight[w].variant
    BY <1>1, DeliveredGrows
  <1>6. /\ inflight'[w] = NoRequest
        /\ \A v \in Callers \ {w} : inflight'[v] = inflight[v]
    BY <1>5 DEF ServiceInv, ServiceTypeOK, TypeOK, GatewayTypeOK
  <1> HIDE DEF x, sent
  <1>7. /\ run' = [run EXCEPT ![w] = run'[w]]
        /\ run'[w] \in Run /\ run'[w] # NoRun
        /\ run'[w].campaign = run[w].campaign
        /\ run'[w].pending = run[w].pending \ {x}
    BY <1>1, SettledRun DEF ServiceInv, ServiceTypeOK
  <1>8. run \in [Callers -> Run \cup {NoRun}] /\ run[w] \in Run
    BY <1>2 DEF ServiceInv, ServiceTypeOK, TypeOK
  <1>9. /\ sent => run'[w].sent = run[w].sent + 1
        /\ ~sent => run'[w].sent = run[w].sent
    BY <1>1, <1>8 DEF Run
  <1>10. \A v \in Callers \ {w} : run'[v] = run[v]
    BY <1>7, <1>8
  <1>11. ServiceLinked'
    <2>1. \A y \in run[w].pending : BucketOf(run[w].campaign, y) # Control
      BY <1>2 DEF ServiceInv, ServiceLinked
    <2>. QED
      BY <1>2, <1>6, <1>7, <1>10, <2>1, ServiceFrame
  <1>12. run' \in [Callers -> Run \cup {NoRun}]
    BY <1>7, <1>8
  <1>13. sent => Counts(w)
    BY <1>2, <1>4, <1>5, <1>7, <1>9, <1>10 DEF Counts, sent
  <1>14. ~sent => Undisturbed
    BY <1>2, <1>5, <1>7, <1>9, <1>10 DEF Undisturbed
  <1>. QED
    BY <1>1, <1>5, <1>11, <1>12, <1>13, <1>14 DEF ServiceInv, ServiceTypeOK, TypeOK

LEMMA ServiceFinishStep ==
    ASSUME ServiceInv, NEW w \in Callers, Finish(w), UNCHANGED <<batch, posted>>
    PROVE  ServiceInv' /\ Undisturbed
  <1>1. /\ Running(w) /\ run[w].pending = {} /\ run' = [run EXCEPT ![w].phase = "done"]
        /\ UNCHANGED <<gatewayVars, started>>
    BY DEF Finish
  <1>2. run \in [Callers -> Run \cup {NoRun}] /\ run[w] \in Run /\ run[w] # NoRun
    BY <1>1 DEF ServiceInv, ServiceTypeOK, TypeOK, Running
  <1>3. /\ run' = [run EXCEPT ![w] = run'[w]]
        /\ run'[w] \in Run /\ run'[w] # NoRun
        /\ run'[w].campaign = run[w].campaign /\ run'[w].sent = run[w].sent
        /\ run'[w].pending = {} /\ run'[w].phase = "done"
    BY <1>1, <1>2, OrchestrationAssumption, SMTT(30) DEF Run
  <1>4. \A v \in Callers \ {w} : run'[v] = run[v]
    BY <1>2, <1>3
  <1>5. inflight' = inflight /\ log' = log
    BY <1>1 DEF gatewayVars
  <1>6. batch[w] = NoBatch /\ inflight[w] = NoRequest
    BY <1>1 DEF ServiceInv, ServiceLinked
  <1>7. ServiceLinked'
    BY <1>3, <1>4, <1>5, <1>6, ServiceFrame
  <1>8. TypeOK'
    <2>1. GatewayTypeOK'
      BY <1>1, GatewayTypeStep DEF ServiceInv, ServiceTypeOK, TypeOK
    <2>2. run' \in [Callers -> Run \cup {NoRun}]
      BY <1>2, <1>3
    <2>. QED
      BY <1>1, <2>1, <2>2 DEF ServiceInv, ServiceTypeOK, TypeOK
  <1>. QED
    BY <1>2, <1>3, <1>4, <1>5, <1>7, <1>8
       DEF ServiceInv, ServiceTypeOK, Undisturbed, LogGrows

(* ServiceInv is inductive, and every step has one of the three shapes.    *)
LEMMA ServiceInvariantStep ==
    ASSUME ServiceInv, [ServiceNext]_serviceVars
    PROVE  /\ ServiceInv'
           /\ (\E w \in Callers : Begins(w) \/ Counts(w)) \/ Undisturbed
  <1>1. ASSUME NEW w \in Callers, RunStep(w)
        PROVE  ServiceInv' /\ (Counts(w) \/ Undisturbed)
    BY <1>1, ServiceNotSentStep, ServiceHandStep, ServiceReturnStep, ServiceFinishStep
       DEF RunStep, Step
  <1>2. CASE UNCHANGED serviceVars
    <2>1. ServiceInv'
      BY <1>2 DEF serviceVars, vars, gatewayVars, ServiceInv, ServiceTypeOK, TypeOK,
                  GatewayTypeOK, ServiceLinked, Running, RequestFor, BucketOf, BatchRequest
    <2>2. Undisturbed
      BY <1>2 DEF serviceVars, vars, gatewayVars, Undisturbed, LogGrows
    <2>. QED
      BY <2>1, <2>2
  <1>. QED
    BY <1>1, <1>2, RunCampaignStep, PostBatchStep, BatchRefusedStep, BatchDrawStep,
       BatchDeliveredStep DEF ServiceNext, ServiceStep

(* Nothing runs and nothing is posted at the start.                        *)
LEMMA ServiceInvariantInit == ServiceInit => ServiceInv /\ Backed
  <1> SUFFICES ASSUME ServiceInit
               PROVE  ServiceInv /\ Backed
    OBVIOUS
  <1>1. TypeOK
    <2>1. GatewayTypeOK
      BY GatewayInitOK DEF ServiceInit, Init
    <2>. QED
      BY <2>1, OrchestrationAssumption DEF ServiceInit, Init, TypeOK
  <1>2. ServiceTypeOK
    BY <1>1, ServiceAssumption DEF ServiceInit, ServiceTypeOK
  <1>3. ServiceLinked
    BY DEF ServiceInit, Init, GatewayInit, ServiceLinked, Running
  <1>4. Owners([w \in Callers |-> {}])
    BY DEF ServiceInit, Init, Owners, Owns
  <1>. QED
    BY <1>2, <1>3, <1>4 DEF ServiceInv, Backed
-----------------------------------------------------------------------------
(* A delivery stays one as the log grows.                                  *)
LEMMA DeliveredStays ==
    ASSUME LogGrows
    PROVE  DOMAIN log \subseteq DOMAIN log' /\ \A c : Delivered(log, c) \subseteq Delivered(log', c)
  BY DEF LogGrows, Delivered

(* The positions a thread owns are finitely many.                          *)
LEMMA OwnedFinite ==
    ASSUME GatewayTypeOK, NEW S, S \subseteq DOMAIN log
    PROVE  IsFiniteSet(S) /\ Cardinality(S) \in Nat
  <1>1. DOMAIN log = 1..Len(log) /\ Len(log) \in Nat
    BY DEF GatewayTypeOK
  <1>2. S \in SUBSET (1..Len(log))
    BY <1>1
  <1>3. IsFiniteSet(1..Len(log))
    BY <1>1, FS_Interval
  <1>4. IsFiniteSet(S)
    BY <1>2, <1>3, FS_Subset
  <1>. QED
    BY <1>4, FS_CardinalityType

(* A run that begins gives up what its thread owned, a delivery is owned   *)
(* by the thread that made it, and the rest stays with its owner.          *)
LEMMA BackedStep ==
    ASSUME ServiceInv, Backed, [ServiceNext]_serviceVars
    PROVE  Backed'
  <1>1. PICK own : Owners(own)
    BY DEF Backed
  <1>2. GatewayTypeOK
    BY DEF ServiceInv, ServiceTypeOK, TypeOK
  <1>3. ASSUME LogGrows, NEW v \in Callers, run'[v] = run[v]
        PROVE  Owns(own, v)'
    BY <1>1, <1>3, DeliveredStays DEF Owners, Owns
  <1>4. ASSUME NEW w \in Callers, Begins(w)
        PROVE  Backed'
    <2> DEFINE new == [own EXCEPT ![w] = {}]
    <2>1. new[w] = {} /\ \A v \in Callers \ {w} : new[v] = own[v]
      BY <1>1 DEF Owners
    <2>2. new = [v \in Callers |-> new[v]]
      BY <1>1 DEF Owners
    <2> HIDE DEF new
    <2>3. Owns(new, w)'
      BY <1>4, <2>1, FS_EmptySet DEF Owns, Begins
    <2>4. \A v \in Callers \ {w} : Owns(new, v)'
      BY <1>3, <1>4, <2>1 DEF Owns, Begins
    <2>5. \A v, x \in Callers : v # x => new[v] \cap new[x] = {}
      BY <1>1, <2>1 DEF Owners
    <2>6. Owners(new)'
      BY <2>2, <2>3, <2>4, <2>5 DEF Owners
    <2>. QED
      BY <2>6 DEF Backed
  <1>5. ASSUME NEW w \in Callers, Counts(w)
        PROVE  Backed'
    <2>1. PICK n \in DOMAIN log' \ DOMAIN log :
             /\ log'[n].campaign = run[w].campaign /\ log'[n].variant # 0
             /\ log'[n].status = "sent"
      BY <1>5 DEF Counts
    <2> DEFINE new == [own EXCEPT ![w] = @ \cup {n}]
    <2>2. new[w] = own[w] \cup {n} /\ \A v \in Callers \ {w} : new[v] = own[v]
      BY <1>1 DEF Owners
    <2>3. new = [v \in Callers |-> new[v]]
      BY <1>1 DEF Owners
    <2> HIDE DEF new
    <2>4. \A v \in Callers : own[v] \subseteq DOMAIN log
      BY <1>1 DEF Owners, Owns
    <2>5. LogGrows /\ DOMAIN log \subseteq DOMAIN log'
      BY <1>5, DeliveredStays DEF Counts
    <2>6. Owns(new, w)'
      <3>1. /\ own[w] \subseteq Delivered(log, run[w].campaign)
            /\ run[w].sent = Cardinality(own[w])
        BY <1>1, <1>5 DEF Owners, Owns, Counts
      <3>2. n \in Delivered(log', run[w].campaign)
        BY <2>1, <1>5 DEF Delivered, Counts
      <3>3. new[w] \subseteq Delivered(log', run'[w].campaign)
        BY <1>5, <2>2, <2>5, <3>1, <3>2, DeliveredStays DEF Counts
      <3>4. Cardinality(new[w]) = Cardinality(own[w]) + 1
        <4>1. IsFiniteSet(own[w]) /\ n \notin own[w]
          BY <1>2, <2>1, <2>4, OwnedFinite
        <4>. QED
          BY <2>2, <4>1, FS_AddElement
      <3>5. run'[w].sent = Cardinality(new[w])
        BY <1>5, <3>1, <3>4 DEF Counts
      <3>6. new[w] \subseteq DOMAIN log'
        BY <2>1, <2>2, <2>4, <2>5
      <3>. QED
        BY <3>3, <3>5, <3>6 DEF Owns
    <2>7. \A v \in Callers \ {w} : Owns(new, v)'
      BY <1>3, <1>5, <2>2 DEF Owns, Counts
    <2>8. \A v, x \in Callers : v # x => new[v] \cap new[x] = {}
      BY <1>1, <2>1, <2>2, <2>4 DEF Owners
    <2>9. Owners(new)'
      BY <2>3, <2>6, <2>7, <2>8 DEF Owners
    <2>. QED
      BY <2>9 DEF Backed
  <1>6. CASE Undisturbed
    <2>1. \A v \in Callers : Owns(own, v)'
      BY <1>1, <1>6, DeliveredStays DEF Owners, Owns, Undisturbed
    <2>2. Owners(own)'
      BY <1>1, <2>1 DEF Owners
    <2>. QED
      BY <2>2 DEF Backed
  <1>. QED
    BY <1>4, <1>5, <1>6, ServiceInvariantStep

(* The runs of a campaign and what each answers.                           *)
RunsOf(c) == {w \in Callers : run[w] # NoRun /\ run[w].campaign = c}
SentOf(w) == run[w].sent

(* The library's sum is a sum one member at a time.                        *)
LEMMA AnswersAddUp ==
    ASSUME NEW S, IsFiniteSet(S), NEW g, \A w \in S : g[w] = SentOf(w)
    PROVE  \E f : Sums(f, SUBSET S, g) /\ MapThenSumSet(SentOf, S) = f[S]
  <1> DEFINE P(f) == f = [s \in SUBSET S |-> IF s = {} THEN 0
                                             ELSE run[Pick(s)].sent + f[s \ {Pick(s)}]]
  <1>1. MapThenSumSet(SentOf, S) = (CHOOSE f : P(f))[S]
    BY Zenon DEF MapThenSumSet, MapThenFoldSet, SentOf, Pick
  <1>2. \A s \in SUBSET S : s # {} => Pick(s) \in S
    BY DEF Pick
  <1>3. ASSUME NEW f
        PROVE  P(f) <=> Sums(f, SUBSET S, g)
    BY <1>2 DEF Sums, SentOf
  <1> HIDE DEF P
  <1>4. \E f : P(f)
    BY <1>3, SumsExist
  <1>5. P(CHOOSE f : P(f))
    BY <1>4, Zenon
  <1>. QED
    BY <1>1, <1>3, <1>5, Zenon

(* Answers that are backed do not exceed the deliveries.                   *)
LEMMA BackedAnswers ==
    ASSUME ServiceInv, Backed
    PROVE  AnswersBackedByLog
  <1> SUFFICES ASSUME NEW c \in Campaigns
               PROVE  MapThenSumSet(SentOf, RunsOf(c)) <= Cardinality(Delivered(log, c))
    BY Zenon DEF AnswersBackedByLog, RunsOf, SentOf, Delivered, MapThenSumSet, MapThenFoldSet
  <1> DEFINE S == RunsOf(c)
             D == Delivered(log, c)
  <1>1. PICK own : Owners(own)
    BY DEF Backed
  <1>2. GatewayTypeOK
    BY DEF ServiceInv, ServiceTypeOK, TypeOK
  <1>3. S \subseteq Callers /\ IsFiniteSet(S)
    <2>1. S \in SUBSET Callers
      BY DEF RunsOf
    <2>. QED
      BY <2>1, GatewayAssumption, FS_Subset
  <1>4. ASSUME NEW w \in S
        PROVE  own[w] \subseteq D /\ run[w].sent = Cardinality(own[w])
    BY <1>1 DEF RunsOf, Owners, Owns
  <1>5. \A T : T \subseteq D => IsFiniteSet(T) /\ Cardinality(T) \in Nat
    <2>1. D \subseteq DOMAIN log
      BY DEF Delivered
    <2>. QED
      BY <1>2, <2>1, OwnedFinite
  <1> DEFINE g == [w \in S |-> run[w].sent]
             all(s) == UNION {own[w] : w \in s}
             bound == [s \in SUBSET S |-> Cardinality(all(s))]
  <1>6. PICK f : Sums(f, SUBSET S, g) /\ MapThenSumSet(SentOf, S) = f[S]
    <2>1. \A w \in S : g[w] = SentOf(w)
      BY DEF SentOf
    <2> HIDE DEF S, g
    <2>. QED
      BY <1>3, <2>1, AnswersAddUp
  <1> HIDE DEF S, D
  <1>7. \A w \in S : g[w] \in Nat
    BY <1>4, <1>5
  <1>8. ASSUME NEW s \in SUBSET S
        PROVE  all(s) \subseteq D /\ bound[s] = Cardinality(all(s)) /\ bound[s] \in Nat
    <2>1. all(s) \subseteq D
      BY <1>4
    <2> HIDE DEF all
    <2>. QED
      BY <1>5, <2>1
  <1>9. ASSUME NEW s \in SUBSET S, NEW x \in s
        PROVE  g[x] + bound[s \ {x}] <= bound[s]
    <2>1. x \in S /\ s \ {x} \in SUBSET S
      OBVIOUS
    <2>2. own[x] \subseteq D /\ g[x] = Cardinality(own[x])
      BY <1>4, <2>1
    <2>3. all(s) = own[x] \cup all(s \ {x})
      OBVIOUS
    <2>4. own[x] \cap all(s \ {x}) = {}
      <3>1. \A v \in s \ {x} : own[x] \cap own[v] = {}
        BY <1>1, <1>3, <2>1 DEF Owners
      <3>. QED
        BY <3>1
    <2>5. /\ IsFiniteSet(own[x]) /\ IsFiniteSet(all(s \ {x}))
          /\ Cardinality(own[x]) \in Nat /\ Cardinality(all(s \ {x})) \in Nat
      <3>1. all(s \ {x}) \subseteq D
        BY <1>8, <2>1
      <3> HIDE DEF all
      <3>. QED
        BY <1>5, <2>2, <3>1
    <2>6. bound[s] = Cardinality(all(s)) /\ bound[s \ {x}] = Cardinality(all(s \ {x}))
      BY <1>8, <2>1
    <2> HIDE DEF all, bound, g
    <2>7. Cardinality(all(s)) = Cardinality(own[x]) + Cardinality(all(s \ {x})) - Cardinality({})
      BY <2>3, <2>4, <2>5, FS_Union, ZenonT(40)
    <2>. QED
      BY <2>2, <2>5, <2>6, <2>7, FS_EmptySet
  <1>10. f[S] \in Nat /\ f[S] <= bound[S]
    <2>1. \A s \in SUBSET S : bound[s] \in Nat
      BY <1>8
    <2>2. \A s \in SUBSET S : \A x \in s : g[x] + bound[s \ {x}] <= bound[s]
      BY <1>9
    <2> HIDE DEF bound, g
    <2>. QED
      BY <1>3, <1>6, <1>7, <2>1, <2>2, SumBounded
  <1>11. bound[S] \in Nat /\ bound[S] <= Cardinality(D) /\ Cardinality(D) \in Nat
    <2>1. all(S) \subseteq D /\ bound[S] = Cardinality(all(S))
      BY <1>8
    <2>2. IsFiniteSet(D) /\ Cardinality(D) \in Nat
      BY <1>5
    <2> HIDE DEF all, bound
    <2>3. all(S) \in SUBSET D
      BY <2>1
    <2>. QED
      BY <2>1, <2>2, <2>3, FS_Subset, FS_CardinalityType
  <1> HIDE DEF bound, g
  <1>12. f[S] <= Cardinality(D)
    BY <1>10, <1>11
  <1>. QED
    BY <1>6, <1>12 DEF S, D
-----------------------------------------------------------------------------
(* The variables of the service keep their types, and a thread delivers    *)
(* only what its run owes or its batch has first, never both.              *)
THEOREM ServiceTyping == ServiceSpec => [](ServiceTypeOK /\ ServiceLinked)
  <1>1. ServiceSpec => []ServiceInv
    BY ServiceInvariantInit, ServiceInvariantStep, PTL DEF ServiceSpec
  <1>2. ServiceInv => ServiceTypeOK /\ ServiceLinked
    BY DEF ServiceInv
  <1>. QED
    BY <1>1, <1>2, PTL

(* The answers of the runs of a campaign together never exceed what the    *)
(* runs delivered (campaign.py: every request shares one gateway), for any *)
(* number of threads, batches and runs.                                    *)
THEOREM ServiceAnswersBacked == ServiceSpec => []AnswersBackedByLog
  <1>1. ServiceSpec => []ServiceInv
    BY ServiceInvariantInit, ServiceInvariantStep, PTL DEF ServiceSpec
  <1>2. ServiceSpec => []Backed
    BY ServiceInvariantInit, ServiceInvariantStep, BackedStep, PTL DEF ServiceSpec
  <1>. QED
    BY <1>1, <1>2, BackedAnswers, PTL

(* Seen from the gateway, the service is a sequence of gateway steps.      *)
LEMMA ServiceGatewaySteps ==
    ASSUME ServiceInv, [ServiceNext]_serviceVars
    PROVE  GatewayStep \/ UNCHANGED gatewayVars
  <1>1. ASSUME NEW w \in Callers, RunStep(w)
        PROVE  GatewayStep \/ UNCHANGED gatewayVars
    <2>1. ASSUME NEW u \in Users, NotSent(w, u)
          PROVE  GatewayStep
      BY <2>1, ServiceTurn DEF NotSent, GatewayStep
    <2>2. ASSUME NEW u \in Users, Hand(w, u)
          PROVE  GatewayStep
      BY <2>2, ServiceTurn DEF Hand, GatewayStep
    <2>3. CASE Return(w)
      BY <2>3 DEF Return, GatewayStep
    <2>4. CASE Finish(w)
      BY <2>4 DEF Finish
    <2>. QED
      BY <1>1, <2>1, <2>2, <2>3, <2>4 DEF RunStep, Step
  <1>2. ASSUME NEW w \in Callers, BatchRefused(w) \/ BatchDraw(w) \/ BatchDelivered(w)
        PROVE  GatewayStep
    BY <1>2, BatchRequestType DEF BatchRefused, BatchDraw, BatchDelivered, GatewayStep
  <1>3. ASSUME NEW w \in Callers, NEW c \in Campaigns, RunCampaign(w, c)
        PROVE  UNCHANGED gatewayVars
    BY <1>3 DEF RunCampaign, Start
  <1>4. ASSUME NEW w \in Callers, NEW ids \in Batches, NEW c \in Campaigns,
               NEW ch \in RequestChannel, PostBatch(w, ids, c, ch)
        PROVE  UNCHANGED gatewayVars
    BY <1>4 DEF PostBatch, vars
  <1>5. CASE UNCHANGED serviceVars
    BY <1>5 DEF serviceVars, vars
  <1>. QED
    BY <1>1, <1>2, <1>3, <1>4, <1>5 DEF ServiceNext, ServiceStep

(* Neither the runs nor the batches a client posts get past the gateway:   *)
(* nobody who opted out, removed the app or went stale is messaged, and no *)
(* message leaves its channel without need.                                *)
THEOREM ServiceKeepsGatewayPromises ==
    ServiceSpec => [](NoForbiddenTouch /\ FallbackJustified)
  <1>1. ServiceInit => ServiceInv /\ Promised
    BY ServiceInvariantInit, PromisedInit DEF ServiceInit, Init
  <1>2. ServiceInv /\ Promised /\ [ServiceNext]_serviceVars => ServiceInv' /\ Promised'
    BY ServiceInvariantStep, ServiceGatewaySteps, PromisedStep
  <1>3. Promised => NoForbiddenTouch /\ FallbackJustified
    BY DEF Promised
  <1>. QED
    BY <1>1, <1>2, <1>3, PTL DEF ServiceSpec
=============================================================================
