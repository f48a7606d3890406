------------------------ MODULE OrchestrationProofs ------------------------
(***************************************************************************)
(* The runner for any campaigns, users, threads and caps: its type         *)
(* invariant, what ties its threads to the gateway, its silence towards    *)
(* control groups and the balance of its account.  Then how far concurrent *)
(* runs overshoot the daily cap and the campaign dedup: every step of the  *)
(* runner is put into one of three shapes, those of the abstract budget's  *)
(* steps.  The shapes keep "messages sent plus threads that still owe one" *)
(* within the cap plus one message for each thread but the first, and they *)
(* make the runner an implementation of the abstract budget, twice.        *)
(***************************************************************************)
EXTENDS Orchestration, GatewayProofs, Recursion

(* A non-empty set of naturals has a least element, and Least is it.       *)
LEMMA LeastInSet ==
    ASSUME NEW S \in SUBSET Nat, S # {}
    PROVE  Least(S) \in S /\ \A j \in S : Least(S) <= j
  <1>1. \E m \in S : \A j \in S : m <= j
    BY LeastNumber
  <1>. QED
    BY <1>1 DEF Least

(* Every user of a campaign is in its control group or in one of its       *)
(* variants, whatever the weights.                                         *)
LEMMA AssignType ==
    ASSUME NEW frac, NEW control, NEW weights \in Seq(Nat \ {0}), weights # <<>>
    PROVE  Assign(frac, control, weights) \in 0..Len(weights)
  <1>1. Len(weights) \in Nat \ {0}
    OBVIOUS
  <1>2. Candidates(frac, control, weights) \in SUBSET (1..(Len(weights) - 1))
    BY DEF Candidates
  <1>3. Candidates(frac, control, weights) # {}
          => Least(Candidates(frac, control, weights)) \in Candidates(frac, control, weights)
    BY <1>1, <1>2, LeastInSet
  <1>. QED
    BY <1>1, <1>2, <1>3 DEF Assign, Control

(* The bucket of a user of a campaign is the control group or a variant.   *)
LEMMA BucketType ==
    ASSUME NEW c \in Campaigns, NEW u \in Users
    PROVE  /\ BucketOf(c, u) \in Nat
           /\ BucketOf(c, u) # Control => BucketOf(c, u) \in Variants
  <1>1. /\ Definition[c].weights \in Seq(Nat \ {0})
        /\ Definition[c].weights # <<>>
        /\ 1..Len(Definition[c].weights) \subseteq Variants
    BY OrchestrationAssumption DEF CampaignDef
  <1>2. BucketOf(c, u) \in 0..Len(Definition[c].weights)
    BY <1>1, AssignType DEF BucketOf
  <1>3. Len(Definition[c].weights) \in Nat
    BY <1>1
  <1>. QED
    BY <1>1, <1>2, <1>3 DEF Control

(* What a run owes a treated user is a well-formed request to the gateway. *)
LEMMA RequestForType ==
    ASSUME TypeOK, NEW w \in Callers, run[w] # NoRun, NEW u \in run[w].pending,
           BucketOf(run[w].campaign, u) # Control
    PROVE  /\ RequestFor(w, u) \in Request
           /\ RequestFor(w, u).user = u
           /\ RequestFor(w, u).campaign = run[w].campaign
           /\ RequestFor(w, u).day = run[w].day
           /\ RequestFor(w, u).variant = BucketOf(run[w].campaign, u)
           /\ u \in Users
  <1>1. run[w] \in Run
    BY DEF TypeOK
  <1>2. u \in Users /\ run[w].campaign \in Campaigns /\ run[w].day \in Days
    BY <1>1 DEF Run
  <1>3. Definition[run[w].campaign].channel \in RequestChannel
    BY <1>2, OrchestrationAssumption DEF CampaignDef
  <1>4. BucketOf(run[w].campaign, u) \in Variants
    BY <1>2, BucketType
  <1>. QED
    BY <1>2, <1>3, <1>4 DEF RequestFor, Request

(* The strengthening of TypeOK that is inductive.                          *)
IInv == TypeOK /\ Linked

(* A thread that is in no run delivers nothing and owes nothing.           *)
LEMMA IdleThread ==
    ASSUME IInv, NEW w \in Callers, ~Running(w)
    PROVE  inflight[w] = NoRequest /\ Pending(w) = {}
  <1>1. run[w] # NoRun => run[w].phase = "done"
    BY DEF IInv, TypeOK, Running, Run
  <1>. QED
    BY <1>1 DEF IInv, Linked, Pending

(* A thread's turn is that of a user it owes a well-formed request.        *)
LEMMA TurnRequest ==
    ASSUME IInv, NEW w \in Callers, NEW u \in Users, Turn(w, u)
    PROVE  /\ run[w] \in Run /\ run[w] # NoRun /\ run[w].phase = "running"
           /\ u \in run[w].pending
           /\ BucketOf(run[w].campaign, u) # Control
           /\ RequestFor(w, u) \in Request
           /\ RequestFor(w, u).user = u
           /\ RequestFor(w, u).campaign = run[w].campaign
           /\ RequestFor(w, u).day = run[w].day
           /\ RequestFor(w, u).variant = BucketOf(run[w].campaign, u)
  <1>1. /\ run[w] \in Run /\ run[w] # NoRun /\ run[w].phase = "running"
        /\ u \in run[w].pending
    BY DEF Turn, Running, IInv, TypeOK
  <1>2. BucketOf(run[w].campaign, u) # Control
    BY <1>1 DEF IInv, Linked
  <1>. QED
    BY <1>1, <1>2, RequestForType DEF IInv

(* Seen from the gateway, a run is a sequence of gateway steps.            *)
LEMMA GatewaySteps ==
    ASSUME IInv, Next
    PROVE  GatewayStep \/ UNCHANGED gatewayVars
  <1>1. CASE StartWithLog
    BY <1>1 DEF StartWithLog, Start
  <1>2. ASSUME NEW w \in Callers, NEW u \in Users, NotSent(w, u)
        PROVE  GatewayStep
    <2>1. Turn(w, u) /\ Refuse(w, RequestFor(w, u))
      BY <1>2 DEF NotSent
    <2>. QED
      BY <2>1, TurnRequest DEF GatewayStep
  <1>3. ASSUME NEW w \in Callers, NEW u \in Users, Hand(w, u)
        PROVE  GatewayStep
    <2>1. Turn(w, u) /\ Draw(w, RequestFor(w, u))
      BY <1>3 DEF Hand
    <2>. QED
      BY <2>1, TurnRequest DEF GatewayStep
  <1>4. ASSUME NEW w \in Callers, Return(w)
        PROVE  GatewayStep
    BY <1>4 DEF Return, GatewayStep
  <1>5. ASSUME NEW w \in Callers, Finish(w)
        PROVE  UNCHANGED gatewayVars
    BY <1>5 DEF Finish
  <1>6. CASE RefillWindow
    BY <1>6 DEF RefillWindow, GatewayStep
  <1>. QED
    BY <1>1, <1>2, <1>3, <1>4, <1>5, <1>6 DEF Next, Step

(* A run that starts is well formed and owes only treated users.           *)
LEMMA StartedRun ==
    ASSUME TypeOK, NEW w \in Callers, NEW c \in Campaigns, NEW d \in Days, NEW history,
           NEW eligible \in SUBSET Users, Start(w, c, d, history, eligible)
    PROVE  /\ ~Running(w)
           /\ started' \in 0..MaxRuns
           /\ UNCHANGED gatewayVars
           /\ run' = [run EXCEPT ![w] = run'[w]]
           /\ run'[w] \in Run /\ run'[w] # NoRun
           /\ run'[w].phase = "running" /\ run'[w].campaign = c /\ run'[w].day = d
           /\ \A u \in run'[w].pending :
                  u \in Users /\ BucketOf(c, u) # Control /\ ~Capped(history, u, c, d)
  <1> DEFINE blocked == {u \in eligible : Capped(history, u, c, d)}
             held == {u \in eligible \ blocked : BucketOf(c, u) = Control}
             audience == Definition[c].audience
             new == [phase |-> "running", campaign |-> c, day |-> d,
                     audience |-> audience, excluded |-> audience \ eligible,
                     capped |-> blocked, control |-> held,
                     pending |-> eligible \ (blocked \cup held),
                     sent |-> 0, notSent |-> 0]
  <1>1. run' = [run EXCEPT ![w] = new]
    BY DEF Start
  <1>2. run'[w] = new
    BY <1>1 DEF TypeOK
  <1>3. audience \in SUBSET Users
    BY OrchestrationAssumption DEF CampaignDef
  <1>4. new \in Run
    BY <1>3 DEF Run
  <1>5. started' \in 0..MaxRuns
    BY OrchestrationAssumption DEF Start, TypeOK
  <1>6. \A u \in new.pending :
           u \in Users /\ BucketOf(c, u) # Control /\ ~Capped(history, u, c, d)
    OBVIOUS
  <1>7. new.phase = "running" /\ new.campaign = c /\ new.day = d
    OBVIOUS
  <1>8. ~Running(w) /\ UNCHANGED gatewayVars
    BY DEF Start
  <1> HIDE DEF new
  <1>. QED
    BY <1>1, <1>2, <1>4, <1>5, <1>6, <1>7, <1>8, OrchestrationAssumption

(* A step that ends one send shrinks what the run owes by that user, and   *)
(* changes nothing else that the invariant looks at.                       *)
LEMMA SettledRun ==
    ASSUME TypeOK, NEW w \in Callers, Running(w), NEW u,
           \/ run' = [run EXCEPT ![w].pending = @ \ {u}, ![w].sent = @ + 1]
           \/ run' = [run EXCEPT ![w].pending = @ \ {u}, ![w].notSent = @ + 1]
    PROVE  /\ run' = [run EXCEPT ![w] = run'[w]]
           /\ run'[w] \in Run /\ run'[w] # NoRun
           /\ run'[w].phase = "running"
           /\ run'[w].campaign = run[w].campaign /\ run'[w].day = run[w].day
           /\ run'[w].pending = run[w].pending \ {u}
  <1>1. /\ run[w] \in Run /\ run \in [Callers -> Run \cup {NoRun}]
        /\ run[w].phase = "running"
    BY DEF TypeOK, Running
  <1>2. CASE run' = [run EXCEPT ![w].pending = @ \ {u}, ![w].sent = @ + 1]
    BY <1>1, <1>2, OrchestrationAssumption DEF Run
  <1>3. CASE run' = [run EXCEPT ![w].pending = @ \ {u}, ![w].notSent = @ + 1]
    BY <1>1, <1>3, OrchestrationAssumption DEF Run
  <1>. QED
    BY <1>2, <1>3

(* What a delivery hands back to its run.                                  *)
LEMMA ReturnedRun ==
    ASSUME IInv, NEW w \in Callers, Return(w)
    PROVE  \E u \in run[w].pending :
              /\ u \in Users /\ run[w] \in Run /\ run[w] # NoRun
              /\ BucketOf(run[w].campaign, u) # Control
              /\ inflight[w] = RequestFor(w, u)
              /\ RequestFor(w, u) \in Request
              /\ inflight[w].user = u
              /\ inflight[w].campaign = run[w].campaign
              /\ inflight[w].day = run[w].day
              /\ inflight[w].variant = BucketOf(run[w].campaign, u)
              /\ run' = [run EXCEPT ![w] = run'[w]]
              /\ run'[w] \in Run /\ run'[w] # NoRun
              /\ run'[w].phase = "running"
              /\ run'[w].campaign = run[w].campaign /\ run'[w].day = run[w].day
              /\ run'[w].pending = run[w].pending \ {u}
  <1>1. inflight[w] # NoRequest /\ Running(w) /\ run[w] # NoRun /\ run[w] \in Run
    BY DEF Return, Deliver, Running, IInv, TypeOK
  <1>2. PICK u \in run[w].pending :
           inflight[w] = RequestFor(w, u) /\ BucketOf(run[w].campaign, u) # Control
    BY <1>1 DEF IInv, Linked
  <1>3. /\ RequestFor(w, u) \in Request /\ u \in Users
        /\ RequestFor(w, u).user = u
        /\ RequestFor(w, u).campaign = run[w].campaign
        /\ RequestFor(w, u).day = run[w].day
        /\ RequestFor(w, u).variant = BucketOf(run[w].campaign, u)
    BY <1>1, <1>2, RequestForType DEF IInv
  <1>4. \/ run' = [run EXCEPT ![w].pending = @ \ {u}, ![w].sent = @ + 1]
        \/ run' = [run EXCEPT ![w].pending = @ \ {u}, ![w].notSent = @ + 1]
    BY <1>2, <1>3 DEF Return
  <1>5. /\ run' = [run EXCEPT ![w] = run'[w]]
        /\ run'[w] \in Run /\ run'[w] # NoRun
        /\ run'[w].phase = "running"
        /\ run'[w].campaign = run[w].campaign /\ run'[w].day = run[w].day
        /\ run'[w].pending = run[w].pending \ {u}
    BY <1>1, <1>4, SettledRun DEF IInv
  <1>. QED
    BY <1>1, <1>2, <1>3, <1>5

(* A run that returns owed nothing.                                        *)
LEMMA FinishedRun ==
    ASSUME IInv, NEW w \in Callers, Finish(w)
    PROVE  /\ UNCHANGED <<gatewayVars, started>>
           /\ inflight[w] = NoRequest
           /\ run[w] # NoRun /\ run[w].pending = {}
           /\ run' = [run EXCEPT ![w] = run'[w]]
           /\ run'[w] \in Run /\ run'[w] # NoRun
           /\ run'[w].phase = "done" /\ run'[w].pending = {}
           /\ run'[w].campaign = run[w].campaign /\ run'[w].day = run[w].day
  <1>1. /\ run[w] \in Run /\ run \in [Callers -> Run \cup {NoRun}] /\ run[w] # NoRun
    BY DEF Finish, Running, IInv, TypeOK
  <1>2. run[w].pending = {} /\ run' = [run EXCEPT ![w].phase = "done"]
        /\ UNCHANGED <<gatewayVars, started>>
    BY DEF Finish
  <1>3. inflight[w] = NoRequest
    BY <1>2 DEF IInv, Linked
  <1>. QED
    BY <1>1, <1>2, <1>3, OrchestrationAssumption, ZenonT(40) DEF Run

(* When one thread's run and request change, the invariant need only be    *)
(* looked at for that thread.                                              *)
LEMMA LinkedFrame ==
    ASSUME IInv, NEW w \in Callers,
           run' = [run EXCEPT ![w] = run'[w]], run'[w] \in Run, run'[w] # NoRun,
           \A v \in Callers \ {w} : inflight'[v] = inflight[v],
           inflight'[w] # NoRequest =>
               /\ run'[w].phase = "running"
               /\ \E u \in run'[w].pending : inflight'[w] = RequestFor(w, u)',
           \A u \in run'[w].pending : BucketOf(run'[w].campaign, u) # Control,
           run'[w].phase = "done" => run'[w].pending = {}
    PROVE  Linked'
  <1> SUFFICES ASSUME NEW v \in Callers
               PROVE  /\ inflight'[v] # NoRequest =>
                           /\ Running(v)'
                           /\ \E u \in run'[v].pending : inflight'[v] = RequestFor(v, u)'
                      /\ run'[v] # NoRun =>
                           /\ \A u \in run'[v].pending :
                                  BucketOf(run'[v].campaign, u) # Control
                           /\ run'[v].phase = "done" => run'[v].pending = {}
    BY DEF Linked, BucketOf
  <1>1. CASE v = w
    BY <1>1 DEF Running
  <1>2. CASE v # w
    <2>1. run'[v] = run[v] /\ inflight'[v] = inflight[v]
      BY <1>2 DEF IInv, TypeOK
    <2>2. \A u : RequestFor(v, u)' = RequestFor(v, u)
      BY <2>1 DEF RequestFor, BucketOf
    <2>. QED
      BY <2>1, <2>2 DEF IInv, Linked, Running
  <1>. QED
    BY <1>1, <1>2

(* A refused user leaves what the run owes; the gateway works on nothing.  *)
LEMMA RefusedRun ==
    ASSUME IInv, NEW w \in Callers, NEW u \in Users, NotSent(w, u)
    PROVE  /\ Turn(w, u) /\ Refuse(w, RequestFor(w, u))
           /\ UNCHANGED started
           /\ inflight[w] = NoRequest /\ inflight' = inflight
           /\ run' = [run EXCEPT ![w] = run'[w]]
           /\ run'[w] \in Run /\ run'[w] # NoRun
           /\ run'[w].phase = "running"
           /\ run'[w].campaign = run[w].campaign /\ run'[w].day = run[w].day
           /\ run'[w].pending = run[w].pending \ {u}
  <1>1. /\ Turn(w, u) /\ Refuse(w, RequestFor(w, u)) /\ UNCHANGED started
        /\ run' = [run EXCEPT ![w].pending = @ \ {u}, ![w].notSent = @ + 1]
    BY DEF NotSent
  <1>2. RequestFor(w, u) \in Request /\ Running(w)
    BY <1>1, TurnRequest DEF Turn
  <1>3. inflight[w] = NoRequest /\ inflight' = inflight
    BY <1>1, <1>2, RefuseRecords DEF IInv, TypeOK
  <1>. QED
    BY <1>1, <1>2, <1>3, SettledRun DEF IInv

(* IInv is inductive.                                                      *)
LEMMA InvariantStep ==
    ASSUME IInv, [Next]_vars
    PROVE  IInv'
  <1>1. GatewayTypeOK'
    BY GatewaySteps, GatewayTypeStep DEF IInv, TypeOK, vars
  <1>2. ASSUME NEW w \in Callers, NEW c \in Campaigns, NEW d \in Days, NEW fired,
               Start(w, c, d, log, Eligible(c, fired))
        PROVE  IInv'
    <2>1. Eligible(c, fired) \in SUBSET Users
      BY OrchestrationAssumption DEF Eligible, CampaignDef
    <2>2. /\ ~Running(w) /\ started' \in 0..MaxRuns /\ UNCHANGED gatewayVars
          /\ run' = [run EXCEPT ![w] = run'[w]]
          /\ run'[w] \in Run /\ run'[w] # NoRun
          /\ run'[w].phase = "running" /\ run'[w].campaign = c
          /\ \A u \in run'[w].pending : BucketOf(c, u) # Control
      BY <1>2, <2>1, StartedRun DEF IInv
    <2>3. inflight' = inflight /\ inflight[w] = NoRequest
      BY <2>2, IdleThread DEF gatewayVars
    <2>4. Linked'
      BY <2>2, <2>3, LinkedFrame
    <2>5. run' \in [Callers -> Run \cup {NoRun}]
      BY <2>2 DEF IInv, TypeOK
    <2>. QED
      BY <1>1, <2>2, <2>4, <2>5 DEF IInv, TypeOK
  <1>3. ASSUME NEW w \in Callers, NEW u \in Users, NotSent(w, u)
        PROVE  IInv'
    <2>1. Turn(w, u)
      BY <1>3 DEF NotSent
    <2>2. \A x \in run[w].pending : BucketOf(run[w].campaign, x) # Control
      BY <2>1, TurnRequest DEF IInv, Linked
    <2>3. Linked'
      BY <1>3, <2>2, RefusedRun, LinkedFrame
    <2>4. run' \in [Callers -> Run \cup {NoRun}]
      BY <1>3, RefusedRun DEF IInv, TypeOK
    <2>. QED
      BY <1>1, <1>3, <2>3, <2>4, RefusedRun DEF IInv, TypeOK
  <1>4. ASSUME NEW w \in Callers, NEW u \in Users, Hand(w, u)
        PROVE  IInv'
    <2>1. /\ Turn(w, u) /\ UNCHANGED <<run, started>>
          /\ inflight' = [inflight EXCEPT ![w] = RequestFor(w, u)]
      BY <1>4 DEF Hand, Draw
    <2>2. /\ run[w] \in Run /\ run[w] # NoRun /\ run[w].phase = "running"
          /\ u \in run[w].pending
      BY <2>1, TurnRequest
    <2>3. inflight'[w] = RequestFor(w, u) /\ RequestFor(w, u)' = RequestFor(w, u)
      BY <2>1 DEF IInv, TypeOK, GatewayTypeOK, RequestFor, BucketOf
    <2>4. \A v \in Callers \ {w} : inflight'[v] = inflight[v]
      BY <2>1 DEF IInv, TypeOK, GatewayTypeOK
    <2>5. run' = [run EXCEPT ![w] = run'[w]]
      BY <2>1 DEF IInv, TypeOK
    <2>6. \A x \in run[w].pending : BucketOf(run[w].campaign, x) # Control
      BY <2>2 DEF IInv, Linked
    <2>7. Linked'
      BY <2>1, <2>2, <2>3, <2>4, <2>5, <2>6, LinkedFrame
    <2>. QED
      BY <1>1, <2>1, <2>7 DEF IInv, TypeOK
  <1>5. ASSUME NEW w \in Callers, Return(w)
        PROVE  IInv'
    <2>1. inflight' = [inflight EXCEPT ![w] = NoRequest] /\ UNCHANGED started
      BY <1>5 DEF Return, Deliver
    <2>2. /\ run[w] # NoRun
          /\ run' = [run EXCEPT ![w] = run'[w]]
          /\ run'[w] \in Run /\ run'[w] # NoRun /\ run'[w].phase = "running"
          /\ run'[w].campaign = run[w].campaign
          /\ run'[w].pending \subseteq run[w].pending
      BY <1>5, ReturnedRun
    <2>3. \A x \in run[w].pending : BucketOf(run[w].campaign, x) # Control
      BY <2>2 DEF IInv, Linked
    <2>4. /\ inflight'[w] = NoRequest
          /\ \A v \in Callers \ {w} : inflight'[v] = inflight[v]
      BY <2>1 DEF IInv, TypeOK, GatewayTypeOK
    <2>5. Linked'
      BY <2>2, <2>3, <2>4, LinkedFrame
    <2>6. run' \in [Callers -> Run \cup {NoRun}]
      BY <2>2 DEF IInv, TypeOK
    <2>. QED
      BY <1>1, <2>1, <2>5, <2>6 DEF IInv, TypeOK
  <1>6. ASSUME NEW w \in Callers, Finish(w)
        PROVE  IInv'
    <2>1. inflight' = inflight
      BY <1>6, FinishedRun DEF gatewayVars
    <2>2. Linked'
      BY <1>6, <2>1, FinishedRun, LinkedFrame
    <2>3. run' \in [Callers -> Run \cup {NoRun}]
      BY <1>6, FinishedRun DEF IInv, TypeOK
    <2>. QED
      BY <1>1, <1>6, <2>2, <2>3, FinishedRun DEF IInv, TypeOK
  <1>7. ASSUME UNCHANGED <<inflight, run, started>>
        PROVE  IInv'
    <2>1. Linked'
      BY <1>7 DEF IInv, Linked, Running, RequestFor, BucketOf
    <2>. QED
      BY <1>1, <1>7, <2>1 DEF IInv, TypeOK
  <1>8. CASE RefillWindow
    BY <1>7, <1>8 DEF RefillWindow, Refill
  <1>9. CASE UNCHANGED vars
    BY <1>7, <1>9 DEF vars, gatewayVars
  <1>. QED
    BY <1>2, <1>3, <1>4, <1>5, <1>6, <1>8, <1>9 DEF Next, Step, StartWithLog

(* Nothing runs at the start.                                              *)
LEMMA InvariantInit == Init => IInv
  <1> SUFFICES ASSUME Init
               PROVE  IInv
    OBVIOUS
  <1>1. GatewayTypeOK
    BY GatewayInitOK DEF Init
  <1>2. TypeOK
    BY <1>1, OrchestrationAssumption DEF Init, TypeOK
  <1>3. Linked
    BY DEF Init, GatewayInit, Linked
  <1>. QED
    BY <1>2, <1>3 DEF IInv

(* The variables of gateway and runner keep their types.                   *)
THEOREM OrchestrationTyping == Spec => []TypeOK
  <1>1. Spec => []IInv
    BY InvariantInit, InvariantStep, PTL DEF Spec
  <1>2. IInv => TypeOK
    BY DEF IInv
  <1>. QED
    BY <1>1, <1>2, PTL

(* A thread delivers only what its run owes, and a run owes nothing to its *)
(* control group.                                                          *)
THEOREM OrchestrationLinked == Spec => []Linked
  <1>1. Spec => []IInv
    BY InvariantInit, InvariantStep, PTL DEF Spec
  <1>2. IInv => Linked
    BY DEF IInv
  <1>. QED
    BY <1>1, <1>2, PTL

(* A record of a well-formed request for a treated user keeps the log's    *)
(* arms clean.                                                             *)
LEMMA ArmsAfterRecorded ==
    ASSUME GatewayTypeOK, ArmsAreClean, NEW req \in Request, NEW ch \in RequestChannel,
           NEW status \in Status, NEW reason \in Reason,
           log' = Recorded(req, ch, status, reason),
           req.variant = BucketOf(req.campaign, req.user), req.variant # Control
    PROVE  ArmsAreClean'
  <1> DEFINE n == Len(log) + 1
  <1>1. /\ log' \in Seq(Record) /\ Len(log') = n
        /\ \A i \in 1..Len(log) : log'[i] = log[i]
        /\ log'[n].user = req.user /\ log'[n].campaign = req.campaign
        /\ log'[n].variant = req.variant
    BY RecordedType
  <1>2. DOMAIN log' = 1..n /\ DOMAIN log = 1..Len(log) /\ Len(log) \in Nat
    BY <1>1 DEF GatewayTypeOK
  <1> HIDE DEF n
  <1>3. ASSUME NEW i \in DOMAIN log'
        PROVE  LET b == BucketOf(log'[i].campaign, log'[i].user)
               IN  b # Control /\ log'[i].variant = b
    <2>1. CASE i = n
      BY <1>1, <2>1
    <2>2. CASE i # n
      <3>1. i \in DOMAIN log /\ log'[i] = log[i]
        BY <1>1, <1>2, <2>2 DEF n
      <3>. QED
        BY <3>1 DEF ArmsAreClean
    <2>. QED
      BY <2>1, <2>2
  <1>. QED
    BY <1>3 DEF ArmsAreClean, BucketOf

(* Only treated users' sends reach the log.                                *)
LEMMA ArmsStep ==
    ASSUME IInv, ArmsAreClean, [Next]_vars
    PROVE  ArmsAreClean'
  <1>1. ASSUME UNCHANGED log
        PROVE  ArmsAreClean'
    BY <1>1 DEF ArmsAreClean, BucketOf
  <1>2. ASSUME NEW w \in Callers, NEW c \in Campaigns, NEW d \in Days, NEW fired,
               Start(w, c, d, log, Eligible(c, fired))
        PROVE  UNCHANGED log
    BY <1>2 DEF Start, gatewayVars
  <1>3. ASSUME NEW w \in Callers, NEW u \in Users, NotSent(w, u)
        PROVE  ArmsAreClean'
    <2>1. Turn(w, u) /\ Refuse(w, RequestFor(w, u))
      BY <1>3, RefusedRun
    <2>2. /\ RequestFor(w, u) \in Request
          /\ RequestFor(w, u).variant
               = BucketOf(RequestFor(w, u).campaign, RequestFor(w, u).user)
          /\ RequestFor(w, u).variant # Control
      BY <2>1, TurnRequest
    <2>3. PICK status \in Status, reason \in Reason :
             log' = Recorded(RequestFor(w, u), RequestFor(w, u).channel, status, reason)
      BY <2>1, <2>2, RefuseRecords DEF IInv, TypeOK
    <2>4. RequestFor(w, u).channel \in RequestChannel
      BY <2>2 DEF Request
    <2>. QED
      BY <2>2, <2>3, <2>4, ArmsAfterRecorded DEF IInv, TypeOK
  <1>4. ASSUME NEW w \in Callers, NEW u \in Users, Hand(w, u)
        PROVE  UNCHANGED log
    BY <1>4 DEF Hand, Draw
  <1>5. ASSUME NEW w \in Callers, Return(w)
        PROVE  ArmsAreClean'
    <2>1. /\ inflight[w] \in Request
          /\ inflight[w].variant = BucketOf(inflight[w].campaign, inflight[w].user)
          /\ inflight[w].variant # Control
      BY <1>5, ReturnedRun
    <2>2. PICK ch \in RequestChannel, status \in Status, reason \in Reason :
             log' = Recorded(inflight[w], ch, status, reason)
      BY <1>5, DeliverRecords DEF Return, IInv, TypeOK
    <2>. QED
      BY <2>1, <2>2, ArmsAfterRecorded DEF IInv, TypeOK
  <1>6. ASSUME NEW w \in Callers, Finish(w)
        PROVE  UNCHANGED log
    BY <1>6 DEF Finish, gatewayVars
  <1>7. CASE RefillWindow
    BY <1>1, <1>7 DEF RefillWindow, Refill
  <1>8. CASE UNCHANGED vars
    BY <1>1, <1>8 DEF vars, gatewayVars
  <1>. QED
    BY <1>1, <1>2, <1>3, <1>4, <1>5, <1>6, <1>7, <1>8 DEF Next, Step, StartWithLog

(* Every record of the log names the one bucket of its user, which is      *)
(* never the control group, through any number of runs (allocator.py).     *)
THEOREM RunnerKeepsArms == Spec => []ArmsAreClean
  <1>1. Init => ArmsAreClean
    BY DEF Init, GatewayInit, ArmsAreClean
  <1>. QED
    BY <1>1, InvariantInit, InvariantStep, ArmsStep, PTL DEF Spec

(* Behind the runner the gateway keeps every promise it makes on its own:  *)
(* its tokens add up, nobody who opted out, removed the app or went stale  *)
(* is messaged, and no message leaves its channel without need.            *)
THEOREM RunnerKeepsGatewayPromises ==
    Spec => [](TokenConservation /\ NoForbiddenTouch /\ FallbackJustified)
  <1>1. Init => IInv /\ Promised /\ TokenConservation
    BY InvariantInit, PromisedInit, GatewayInitOK DEF Init
  <1>2. IInv /\ Promised /\ TokenConservation /\ [Next]_vars
          => IInv' /\ Promised' /\ TokenConservation'
    <2> SUFFICES ASSUME IInv, Promised, TokenConservation, [Next]_vars
                 PROVE  IInv' /\ Promised' /\ TokenConservation'
      OBVIOUS
    <2>1. GatewayStep \/ UNCHANGED gatewayVars
      BY GatewaySteps DEF vars
    <2>. QED
      BY <2>1, InvariantStep, PromisedStep, TokenConservationStep DEF IInv, TypeOK
  <1>3. Promised => NoForbiddenTouch /\ FallbackJustified
    BY DEF Promised
  <1>. QED
    BY <1>1, <1>2, <1>3, PTL DEF Spec
-----------------------------------------------------------------------------
(* The eligible users are split without rest.                              *)
LEMMA SplitCounts ==
    ASSUME NEW A, IsFiniteSet(A), NEW E \in SUBSET A,
           NEW B \in SUBSET E, NEW H \in SUBSET (E \ B)
    PROVE  Cardinality(B) + Cardinality(H) + Cardinality(E \ (B \cup H))
             = Cardinality(A) - Cardinality(A \ E)
  <1>1. IsFiniteSet(E) /\ IsFiniteSet(B) /\ IsFiniteSet(E \ B) /\ IsFiniteSet(H)
    BY FS_Subset
  <1>2. IsFiniteSet(A \ E) /\ IsFiniteSet(E \ (B \cup H))
    BY FS_Subset
  <1>3. Cardinality(A \ E) = Cardinality(A) - Cardinality(E)
    <2>1. A \cap E = E
      OBVIOUS
    <2>. QED
      BY <2>1, FS_Difference
  <1>4. Cardinality(E \ B) = Cardinality(E) - Cardinality(B)
    <2>1. E \cap B = B
      OBVIOUS
    <2>. QED
      BY <1>1, <2>1, FS_Difference
  <1>5. Cardinality(E \ (B \cup H)) = Cardinality(E \ B) - Cardinality(H)
    <2>1. E \ (B \cup H) = (E \ B) \ H /\ (E \ B) \cap H = H
      OBVIOUS
    <2>. QED
      BY <1>1, <2>1, FS_Difference
  <1>6. /\ Cardinality(A) \in Nat /\ Cardinality(E) \in Nat /\ Cardinality(B) \in Nat
        /\ Cardinality(H) \in Nat /\ Cardinality(A \ E) \in Nat
    BY <1>1, <1>2, FS_CardinalityType
  <1>. QED
    BY <1>3, <1>4, <1>5, <1>6

(* RunResult.balances of one run.                                          *)
Balances(r) ==
    Cardinality(r.capped) + Cardinality(r.control) + Cardinality(r.pending)
      + r.sent + r.notSent
    = Cardinality(r.audience) - Cardinality(r.excluded)

(* A run that starts balances: nobody of the audience is forgotten.        *)
LEMMA StartedBalances ==
    ASSUME TypeOK, NEW w \in Callers, NEW c \in Campaigns, NEW d \in Days,
           NEW fired, Start(w, c, d, log, Eligible(c, fired))
    PROVE  Balances(run'[w])
  <1> DEFINE A == Definition[c].audience
             E == Eligible(c, fired)
             B == {u \in E : Capped(log, u, c, d)}
             H == {u \in E \ B : BucketOf(c, u) = Control}
  <1>1. A \in SUBSET Users /\ IsFiniteSet(A)
    BY OrchestrationAssumption, FS_Subset DEF CampaignDef
  <1>2. E \in SUBSET A
    BY DEF Eligible
  <1>3. B \in SUBSET E /\ H \in SUBSET (E \ B)
    OBVIOUS
  <1>4. run'[w] = [phase |-> "running", campaign |-> c, day |-> d,
                   audience |-> A, excluded |-> A \ E, capped |-> B, control |-> H,
                   pending |-> E \ (B \cup H), sent |-> 0, notSent |-> 0]
    BY DEF Start, TypeOK
  <1>5. /\ run'[w].audience = A /\ run'[w].excluded = A \ E
        /\ run'[w].capped = B /\ run'[w].control = H
        /\ run'[w].pending = E \ (B \cup H)
        /\ run'[w].sent = 0 /\ run'[w].notSent = 0
    BY <1>4
  <1>6. IsFiniteSet(B) /\ IsFiniteSet(H) /\ IsFiniteSet(E \ (B \cup H))
    BY <1>1, <1>2, FS_Subset
  <1>7. /\ Cardinality(B) \in Nat /\ Cardinality(H) \in Nat
        /\ Cardinality(E \ (B \cup H)) \in Nat
    BY <1>6, FS_CardinalityType
  <1> HIDE DEF A, E, B, H
  <1>8. Cardinality(B) + Cardinality(H) + Cardinality(E \ (B \cup H))
          = Cardinality(A) - Cardinality(A \ E)
    BY <1>1, <1>2, <1>3, SplitCounts, ZenonT(40)
  <1>. QED
    BY <1>5, <1>7, <1>8 DEF Balances

(* A user that is dealt with moves from one side of the account to another. *)
LEMMA SettledBalances ==
    ASSUME TypeOK, NEW w \in Callers, Running(w), Balances(run[w]),
           NEW u \in run[w].pending,
           \/ run' = [run EXCEPT ![w].pending = @ \ {u}, ![w].sent = @ + 1]
           \/ run' = [run EXCEPT ![w].pending = @ \ {u}, ![w].notSent = @ + 1]
    PROVE  Balances(run'[w])
  <1>1. run[w] \in Run /\ run \in [Callers -> Run \cup {NoRun}]
    BY DEF TypeOK, Running
  <1>2. /\ run[w].capped \in SUBSET Users /\ run[w].control \in SUBSET Users
        /\ run[w].pending \in SUBSET Users /\ run[w].audience \in SUBSET Users
        /\ run[w].excluded \in SUBSET Users
        /\ run[w].sent \in Nat /\ run[w].notSent \in Nat
    BY <1>1 DEF Run
  <1>3. /\ Cardinality(run[w].capped) \in Nat /\ Cardinality(run[w].control) \in Nat
        /\ IsFiniteSet(run[w].pending) /\ Cardinality(run[w].pending) \in Nat
        /\ Cardinality(run[w].audience) \in Nat /\ Cardinality(run[w].excluded) \in Nat
    BY <1>2, OrchestrationAssumption, FS_Subset, FS_CardinalityType
  <1>4. Cardinality(run[w].pending \ {u}) = Cardinality(run[w].pending) - 1
    BY <1>3, FS_RemoveElement
  <1>5. /\ run'[w].capped = run[w].capped /\ run'[w].control = run[w].control
        /\ run'[w].audience = run[w].audience /\ run'[w].excluded = run[w].excluded
        /\ run'[w].pending = run[w].pending \ {u}
        /\ \/ run'[w].sent = run[w].sent + 1 /\ run'[w].notSent = run[w].notSent
           \/ run'[w].sent = run[w].sent /\ run'[w].notSent = run[w].notSent + 1
    BY <1>1 DEF Run
  <1>. QED
    BY <1>2, <1>3, <1>4, <1>5 DEF Balances

(* Only the run of the thread that takes the step needs a look.            *)
LEMMA BalancesFrame ==
    ASSUME TypeOK, Accounting, NEW w \in Callers,
           \A v \in Callers \ {w} : run'[v] = run[v],
           run'[w] # NoRun => Balances(run'[w])
    PROVE  Accounting'
  BY DEF Accounting, Balances

(* Every step keeps every run's account.                                   *)
LEMMA AccountingStep ==
    ASSUME IInv, Accounting, [Next]_vars
    PROVE  Accounting'
  <1>0. \A w \in Callers : run[w] # NoRun => Balances(run[w])
    BY DEF Accounting, Balances
  <1>1. ASSUME NEW w \in Callers, NEW c \in Campaigns, NEW d \in Days, NEW fired,
               Start(w, c, d, log, Eligible(c, fired))
        PROVE  Accounting'
    <2>1. \A v \in Callers \ {w} : run'[v] = run[v]
      BY <1>1 DEF Start, IInv, TypeOK
    <2>. QED
      BY <1>1, <2>1, StartedBalances, BalancesFrame DEF IInv
  <1>2. ASSUME NEW w \in Callers, NEW u \in Users, NotSent(w, u)
        PROVE  Accounting'
    <2>1. /\ Running(w) /\ run[w] # NoRun /\ u \in run[w].pending
          /\ run' = [run EXCEPT ![w].pending = @ \ {u}, ![w].notSent = @ + 1]
      BY <1>2 DEF NotSent, Turn, Running
    <2>2. Balances(run'[w])
      BY <1>0, <2>1, SettledBalances DEF IInv
    <2>3. \A v \in Callers \ {w} : run'[v] = run[v]
      BY <2>1 DEF IInv, TypeOK
    <2>. QED
      BY <2>2, <2>3, BalancesFrame DEF IInv
  <1>3. ASSUME NEW w \in Callers, Return(w)
        PROVE  Accounting'
    <2>1. PICK u \in run[w].pending : inflight[w].user = u
      BY <1>3, ReturnedRun
    <2>2. Running(w) /\ run[w] # NoRun
      BY <1>3 DEF Return, Running
    <2>3. \/ run' = [run EXCEPT ![w].pending = @ \ {u}, ![w].sent = @ + 1]
          \/ run' = [run EXCEPT ![w].pending = @ \ {u}, ![w].notSent = @ + 1]
      BY <1>3, <2>1 DEF Return
    <2>4. Balances(run'[w])
      BY <1>0, <2>2, <2>3, SettledBalances DEF IInv
    <2>5. \A v \in Callers \ {w} : run'[v] = run[v]
      BY <2>3 DEF IInv, TypeOK
    <2>. QED
      BY <2>4, <2>5, BalancesFrame DEF IInv
  <1>4. ASSUME NEW w \in Callers, Finish(w)
        PROVE  Accounting'
    <2>1. run[w] \in Run /\ run[w] # NoRun /\ run \in [Callers -> Run \cup {NoRun}]
      BY <1>4 DEF Finish, Running, IInv, TypeOK
    <2>2. run' = [run EXCEPT ![w].phase = "done"]
      BY <1>4 DEF Finish
    <2>3. /\ run'[w].capped = run[w].capped /\ run'[w].control = run[w].control
          /\ run'[w].audience = run[w].audience /\ run'[w].excluded = run[w].excluded
          /\ run'[w].pending = run[w].pending
          /\ run'[w].sent = run[w].sent /\ run'[w].notSent = run[w].notSent
          /\ \A v \in Callers \ {w} : run'[v] = run[v]
      BY <2>1, <2>2 DEF Run
    <2>4. Balances(run'[w])
      BY <1>0, <2>1, <2>3 DEF Balances
    <2>. QED
      BY <2>3, <2>4, BalancesFrame DEF IInv
  <1>5. ASSUME UNCHANGED run
        PROVE  Accounting'
    BY <1>5 DEF Accounting
  <1>6. ASSUME NEW w \in Callers, NEW u \in Users, Hand(w, u)
        PROVE  Accounting'
    BY <1>5, <1>6 DEF Hand
  <1>7. CASE RefillWindow
    BY <1>5, <1>7 DEF RefillWindow
  <1>8. CASE UNCHANGED vars
    BY <1>5, <1>8 DEF vars
  <1>. QED
    BY <1>1, <1>2, <1>3, <1>4, <1>6, <1>7, <1>8 DEF Next, Step, StartWithLog

(* RunResult.balances (runner.py:59) holds in every state of every run,    *)
(* whatever is capped, refused, throttled or fails to be delivered.        *)
THEOREM RunnerBalances == Spec => []Accounting
  <1>1. Init => Accounting
    BY DEF Init, Accounting
  <1>. QED
    BY <1>1, InvariantInit, InvariantStep, AccountingStep, PTL DEF Spec
-----------------------------------------------------------------------------
(* Positions of a log are finitely many.                                   *)
LEMMA SentFinite ==
    ASSUME GatewayTypeOK, NEW u, NEW c, NEW d
    PROVE  /\ IsFiniteSet(SentTo(log, u, d)) /\ Cardinality(SentTo(log, u, d)) \in Nat
           /\ IsFiniteSet(SentBy(log, u, c, d)) /\ Cardinality(SentBy(log, u, c, d)) \in Nat
           /\ Len(log) + 1 \notin SentTo(log, u, d)
           /\ Len(log) + 1 \notin SentBy(log, u, c, d)
  <1>1. Len(log) \in Nat /\ DOMAIN log = 1..Len(log)
    BY DEF GatewayTypeOK
  <1>2. /\ SentTo(log, u, d) \in SUBSET (1..Len(log))
        /\ SentBy(log, u, c, d) \in SUBSET (1..Len(log))
    BY <1>1 DEF SentTo, SentBy
  <1>3. IsFiniteSet(1..Len(log)) /\ Len(log) + 1 \notin 1..Len(log)
    BY <1>1, FS_Interval
  <1>4. IsFiniteSet(SentTo(log, u, d)) /\ IsFiniteSet(SentBy(log, u, c, d))
    BY <1>2, <1>3, FS_Subset
  <1>. QED
    BY <1>2, <1>3, <1>4, FS_CardinalityType

(* What one message, or a turned down one, does to the positions of the    *)
(* messages sent.                                                          *)
NothingSent ==
    \A v, c, d :
        /\ SentTo(log', v, d) = SentTo(log, v, d)
        /\ SentBy(log', v, c, d) = SentBy(log, v, c, d)

OneSent(u, camp, day) ==
    \A v, c, d :
        /\ SentTo(log', v, d) =
             IF v = u /\ d = day
             THEN SentTo(log, v, d) \cup {Len(log) + 1} ELSE SentTo(log, v, d)
        /\ SentBy(log', v, c, d) =
             IF v = u /\ d = day /\ c = camp
             THEN SentBy(log, v, c, d) \cup {Len(log) + 1} ELSE SentBy(log, v, c, d)

(* Appending a record adds its position to the touches of its own user,    *)
(* campaign and day, when it was sent, and to no others.                   *)
LEMMA SentAfterRecorded ==
    ASSUME GatewayTypeOK, NEW req \in Request, NEW ch \in RequestChannel,
           NEW status \in Status, NEW reason \in Reason,
           log' = Recorded(req, ch, status, reason)
    PROVE  /\ status = "sent" => OneSent(req.user, req.campaign, req.day)
           /\ status # "sent" => NothingSent
  <1> DEFINE n == Len(log) + 1
  <1>1. /\ log' \in Seq(Record) /\ Len(log') = n
        /\ \A i \in 1..Len(log) : log'[i] = log[i]
        /\ log'[n].status = status /\ log'[n].user = req.user
        /\ log'[n].campaign = req.campaign /\ log'[n].day = req.day
    BY RecordedType
  <1>2. /\ DOMAIN log = 1..Len(log) /\ Len(log) \in Nat
        /\ DOMAIN log' = 1..n
    BY <1>1 DEF GatewayTypeOK
  <1>3. DOMAIN log' = DOMAIN log \cup {n} /\ n \notin DOMAIN log
    BY <1>2
  <1> HIDE DEF n
  <1> SUFFICES ASSUME NEW u, NEW c, NEW d
               PROVE  /\ SentTo(log', u, d) =
                            IF status = "sent" /\ u = req.user /\ d = req.day
                            THEN SentTo(log, u, d) \cup {n} ELSE SentTo(log, u, d)
                      /\ SentBy(log', u, c, d) =
                            IF status = "sent" /\ u = req.user /\ d = req.day
                               /\ c = req.campaign
                            THEN SentBy(log, u, c, d) \cup {n} ELSE SentBy(log, u, c, d)
    BY DEF OneSent, NothingSent, n
  <1>4. SentTo(log', u, d) =
          IF status = "sent" /\ u = req.user /\ d = req.day
          THEN SentTo(log, u, d) \cup {n} ELSE SentTo(log, u, d)
    BY <1>1, <1>2, <1>3 DEF SentTo
  <1>5. SentBy(log', u, c, d) =
          IF status = "sent" /\ u = req.user /\ d = req.day /\ c = req.campaign
          THEN SentBy(log, u, c, d) \cup {n} ELSE SentBy(log, u, c, d)
    BY <1>1, <1>2, <1>3, <1>4 DEF SentBy, SentTo
  <1>. QED
    BY <1>4, <1>5

(* The three shapes.  A thread that owed nothing takes on users it has     *)
(* seen uncapped in the log as it is.                                      *)
Opens(w) ==
    /\ UNCHANGED log
    /\ Pending(w) = {}
    /\ run' = [run EXCEPT ![w] = run'[w]]
    /\ run'[w] \in Run /\ run'[w] # NoRun
    /\ \A u \in run'[w].pending :
           u \in Users /\ ~Capped(log, u, run'[w].campaign, run'[w].day)

(* A thread is done with one user it owed a message.                       *)
Settles(w, u) ==
    /\ run[w] \in Run /\ run[w] # NoRun
    /\ u \in run[w].pending
    /\ run' = [run EXCEPT ![w] = run'[w]]
    /\ run'[w] \in Run /\ run'[w] # NoRun
    /\ run'[w].campaign = run[w].campaign /\ run'[w].day = run[w].day
    /\ run'[w].pending = run[w].pending \ {u}
    /\ NothingSent \/ OneSent(u, run[w].campaign, run[w].day)

(* Nothing that a budget looks at changes.                                 *)
Rests ==
    /\ UNCHANGED log
    /\ \A w \in Callers :
          /\ Pending(w)' = Pending(w)
          /\ run'[w].campaign = run[w].campaign \/ Pending(w) = {}
          /\ run'[w].day = run[w].day \/ Pending(w) = {}

(* Every step of the runner has one of the three shapes.                   *)
LEMMA StepShapes ==
    ASSUME IInv, [Next]_vars
    PROVE  \/ \E w \in Callers : Opens(w)
           \/ \E w \in Callers, u \in Users : Settles(w, u)
           \/ Rests
  <1>1. ASSUME NEW w \in Callers, NEW c \in Campaigns, NEW d \in Days, NEW fired,
               Start(w, c, d, log, Eligible(c, fired))
        PROVE  Opens(w)
    <2>1. Eligible(c, fired) \in SUBSET Users
      BY OrchestrationAssumption DEF Eligible, CampaignDef
    <2>. QED
      BY <1>1, <2>1, StartedRun, IdleThread DEF Opens, IInv, gatewayVars
  <1>2. ASSUME NEW w \in Callers, NEW u \in Users, NotSent(w, u)
        PROVE  Settles(w, u)
    <2>1. Turn(w, u) /\ Refuse(w, RequestFor(w, u))
      BY <1>2, RefusedRun
    <2>2. RequestFor(w, u) \in Request /\ run[w] \in Run /\ run[w] # NoRun
          /\ u \in run[w].pending
      BY <2>1, TurnRequest
    <2>3. PICK status \in Status \ {"sent"}, reason \in Reason :
             log' = Recorded(RequestFor(w, u), RequestFor(w, u).channel, status, reason)
      BY <2>1, <2>2, RefuseRecords DEF IInv, TypeOK
    <2>4. RequestFor(w, u).channel \in RequestChannel
      BY <2>2 DEF Request
    <2>5. NothingSent
      BY <2>2, <2>3, <2>4, SentAfterRecorded DEF IInv, TypeOK
    <2>. QED
      BY <1>2, <2>2, <2>5, RefusedRun DEF Settles
  <1>3. ASSUME NEW w \in Callers, Return(w)
        PROVE  \E u \in Users : Settles(w, u)
    <2>1. PICK u \in run[w].pending :
             /\ u \in Users /\ run[w] \in Run /\ run[w] # NoRun
             /\ inflight[w] \in Request
             /\ inflight[w].user = u
             /\ inflight[w].campaign = run[w].campaign
             /\ inflight[w].day = run[w].day
             /\ run' = [run EXCEPT ![w] = run'[w]]
             /\ run'[w] \in Run /\ run'[w] # NoRun
             /\ run'[w].campaign = run[w].campaign /\ run'[w].day = run[w].day
             /\ run'[w].pending = run[w].pending \ {u}
      BY <1>3, ReturnedRun
    <2>2. PICK ch \in RequestChannel, status \in Status, reason \in Reason :
             log' = Recorded(inflight[w], ch, status, reason)
      BY <1>3, DeliverRecords DEF Return, IInv, TypeOK
    <2>3. CASE status = "sent"
      <3>1. OneSent(u, run[w].campaign, run[w].day)
        BY <2>1, <2>2, <2>3, SentAfterRecorded DEF IInv, TypeOK
      <3>. QED
        BY <2>1, <3>1 DEF Settles
    <2>4. CASE status # "sent"
      <3>1. NothingSent
        BY <2>1, <2>2, <2>4, SentAfterRecorded DEF IInv, TypeOK
      <3>. QED
        BY <2>1, <3>1 DEF Settles
    <2>. QED
      BY <2>3, <2>4
  <1>4. ASSUME NEW w \in Callers, Finish(w)
        PROVE  Rests
    <2>1. /\ UNCHANGED log
          /\ Pending(w) = {} /\ Pending(w)' = {}
          /\ \A v \in Callers \ {w} : run'[v] = run[v]
      BY <1>4, FinishedRun DEF gatewayVars, Pending, IInv, TypeOK
    <2>. QED
      BY <2>1 DEF Rests, Pending
  <1>5. ASSUME UNCHANGED <<log, run>>
        PROVE  Rests
    BY <1>5 DEF Rests, Pending
  <1>6. ASSUME NEW w \in Callers, NEW u \in Users, Hand(w, u)
        PROVE  Rests
    BY <1>5, <1>6 DEF Hand, Draw
  <1>7. CASE RefillWindow
    BY <1>5, <1>7 DEF RefillWindow, Refill
  <1>8. CASE UNCHANGED vars
    BY <1>5, <1>8 DEF vars, gatewayVars
  <1>. QED
    BY <1>1, <1>2, <1>3, <1>4, <1>6, <1>7, <1>8 DEF Next, Step, StartWithLog

(* The arithmetic of one slot of a budget: touches of it made, and the     *)
(* threads that may still touch it, before and after a step.               *)
LEMMA SlotStaysCommitted ==
    ASSUME NEW cap \in Nat, NEW m \in Nat, NEW n \in Nat,
           NEW H \in SUBSET Callers, NEW G \in SUBSET Callers,
           m + Cardinality(H) <= cap + Cardinality(Callers) - 1,
           \/ n = m /\ G \subseteq H
           \/ n = m /\ m < cap
           \/ n = m + 1 /\ \E w \in H : G = H \ {w}
    PROVE  n + Cardinality(G) <= cap + Cardinality(Callers) - 1
  <1>1. /\ IsFiniteSet(H) /\ Cardinality(H) \in Nat
        /\ IsFiniteSet(G) /\ Cardinality(G) \in Nat
        /\ Cardinality(G) <= Cardinality(Callers)
        /\ Cardinality(Callers) \in Nat
    BY GatewayAssumption, FS_Subset, FS_CardinalityType
  <1>2. CASE n = m /\ G \subseteq H
    <2>1. Cardinality(G) <= Cardinality(H)
      BY <1>1, <1>2, FS_Subset
    <2>. QED
      BY <1>1, <1>2, <2>1
  <1>3. CASE n = m /\ m < cap
    BY <1>1, <1>3
  <1>4. CASE n = m + 1 /\ \E w \in H : G = H \ {w}
    <2>1. Cardinality(G) = Cardinality(H) - 1
      BY <1>1, <1>4, FS_RemoveElement
    <2>. QED
      BY <1>1, <1>4, <2>1
  <1>. QED
    BY <1>2, <1>3, <1>4

(* Threads whose run may still message u on day d, or as campaign c.       *)
DayOwers(u, d) == {w \in Callers : u \in Pending(w) /\ run[w].day = d}

CampaignOwers(u, c, d) ==
    {w \in Callers : u \in Pending(w) /\ run[w].campaign = c /\ run[w].day = d}

(* The strengthenings that make the two bounds inductive.                  *)
DayCommitted ==
    \A u \in Users, d \in Days :
        Cardinality(SentTo(log, u, d)) + Cardinality(DayOwers(u, d))
          <= DailyCap + Cardinality(Callers) - 1

CampaignCommitted ==
    \A u \in Users, c \in Campaigns, d \in Days :
        Cardinality(SentBy(log, u, c, d)) + Cardinality(CampaignOwers(u, c, d))
          <= 1 + Cardinality(Callers) - 1

(* A thread that takes on users takes none whose cap or whose campaign's   *)
(* message of the day is used up; what it takes on is all it changes.      *)
LEMMA OpenedSlots ==
    ASSUME IInv, NEW w \in Callers, Opens(w),
           NEW u, NEW c, NEW d
    PROVE  /\ \/ DayOwers(u, d)' \subseteq DayOwers(u, d)
              \/ Cardinality(SentTo(log, u, d)) < DailyCap
           /\ \/ CampaignOwers(u, c, d)' \subseteq CampaignOwers(u, c, d)
              \/ Cardinality(SentBy(log, u, c, d)) < 1
  <1>1. \A v \in Callers \ {w} : run'[v] = run[v] /\ Pending(v)' = Pending(v)
    BY DEF Opens, Pending, IInv, TypeOK
  <1>2. Pending(w)' = run'[w].pending
    BY DEF Opens, Pending
  <1>3. \A x \in run'[w].pending : ~Capped(log, x, run'[w].campaign, run'[w].day)
    BY DEF Opens
  <1>4. Cardinality(SentTo(log, u, d)) \in Nat
    BY SentFinite DEF IInv, TypeOK
  <1>5. ASSUME w \in DayOwers(u, d)'
        PROVE  Cardinality(SentTo(log, u, d)) < DailyCap
    BY <1>2, <1>3, <1>4, <1>5, OrchestrationAssumption DEF DayOwers, Capped
  <1>6. ASSUME w \in CampaignOwers(u, c, d)'
        PROVE  Cardinality(SentBy(log, u, c, d)) < 1
    <2>1. SentBy(log, u, c, d) = {}
      BY <1>2, <1>3, <1>6 DEF CampaignOwers, Capped
    <2>. QED
      BY <2>1, FS_EmptySet
  <1>7. /\ DayOwers(u, d)' \ {w} \subseteq DayOwers(u, d)
        /\ CampaignOwers(u, c, d)' \ {w} \subseteq CampaignOwers(u, c, d)
    BY <1>1 DEF DayOwers, CampaignOwers
  <1>. QED
    BY <1>5, <1>6, <1>7

(* A thread that is done with a user no longer owes it, and what was sent  *)
(* to others is as it was.                                                 *)
LEMMA SettledSlots ==
    ASSUME IInv, NEW w \in Callers, NEW x \in Users, Settles(w, x),
           NEW u, NEW c, NEW d
    PROVE  /\ \/ /\ SentTo(log', u, d) = SentTo(log, u, d)
                 /\ DayOwers(u, d)' \subseteq DayOwers(u, d)
              \/ /\ Cardinality(SentTo(log', u, d)) = Cardinality(SentTo(log, u, d)) + 1
                 /\ w \in DayOwers(u, d) /\ DayOwers(u, d)' = DayOwers(u, d) \ {w}
           /\ \/ /\ SentBy(log', u, c, d) = SentBy(log, u, c, d)
                 /\ CampaignOwers(u, c, d)' \subseteq CampaignOwers(u, c, d)
              \/ /\ Cardinality(SentBy(log', u, c, d)) = Cardinality(SentBy(log, u, c, d)) + 1
                 /\ w \in CampaignOwers(u, c, d)
                 /\ CampaignOwers(u, c, d)' = CampaignOwers(u, c, d) \ {w}
  <1>1. \A v \in Callers \ {w} : run'[v] = run[v] /\ Pending(v)' = Pending(v)
    BY DEF Settles, Pending, IInv, TypeOK
  <1>2. /\ Pending(w) = run[w].pending /\ x \in Pending(w)
        /\ Pending(w)' = Pending(w) \ {x}
        /\ run'[w].campaign = run[w].campaign /\ run'[w].day = run[w].day
    BY DEF Settles, Pending
  <1>3. /\ DayOwers(u, d)' \subseteq DayOwers(u, d)
        /\ CampaignOwers(u, c, d)' \subseteq CampaignOwers(u, c, d)
    BY <1>1, <1>2 DEF DayOwers, CampaignOwers
  <1>4. /\ u = x /\ d = run[w].day =>
             w \in DayOwers(u, d) /\ DayOwers(u, d)' = DayOwers(u, d) \ {w}
        /\ u = x /\ d = run[w].day /\ c = run[w].campaign =>
             /\ w \in CampaignOwers(u, c, d)
             /\ CampaignOwers(u, c, d)' = CampaignOwers(u, c, d) \ {w}
    BY <1>1, <1>2 DEF DayOwers, CampaignOwers
  <1>5. CASE NothingSent
    BY <1>3, <1>5 DEF NothingSent
  <1>6. CASE OneSent(x, run[w].campaign, run[w].day)
    <2>1. \/ SentTo(log', u, d) = SentTo(log, u, d)
          \/ /\ u = x /\ d = run[w].day
             /\ SentTo(log', u, d) = SentTo(log, u, d) \cup {Len(log) + 1}
      BY <1>6 DEF OneSent
    <2>2. \/ SentBy(log', u, c, d) = SentBy(log, u, c, d)
          \/ /\ u = x /\ d = run[w].day /\ c = run[w].campaign
             /\ SentBy(log', u, c, d) = SentBy(log, u, c, d) \cup {Len(log) + 1}
      BY <1>6 DEF OneSent
    <2>3. /\ Cardinality(SentTo(log, u, d) \cup {Len(log) + 1})
               = Cardinality(SentTo(log, u, d)) + 1
          /\ Cardinality(SentBy(log, u, c, d) \cup {Len(log) + 1})
               = Cardinality(SentBy(log, u, c, d)) + 1
      BY SentFinite, FS_AddElement DEF IInv, TypeOK
    <2>. QED
      BY <1>3, <1>4, <2>1, <2>2, <2>3
  <1>. QED
    BY <1>5, <1>6 DEF Settles

(* The two strengthenings are inductive.                                   *)
LEMMA CommittedStep ==
    ASSUME IInv, DayCommitted, CampaignCommitted, [Next]_vars
    PROVE  DayCommitted' /\ CampaignCommitted'
  <1> DEFINE D(u, d) == Cardinality(SentTo(log', u, d)) + Cardinality(DayOwers(u, d)')
                          <= DailyCap + Cardinality(Callers) - 1
             C(u, c, d) == Cardinality(SentBy(log', u, c, d))
                             + Cardinality(CampaignOwers(u, c, d)')
                             <= 1 + Cardinality(Callers) - 1
  <1>1. \A u, c, d : /\ Cardinality(SentTo(log, u, d)) \in Nat
                     /\ Cardinality(SentBy(log, u, c, d)) \in Nat
    BY SentFinite DEF IInv, TypeOK
  <1>2. ASSUME NEW u \in Users, NEW d \in Days
        PROVE  D(u, d)
    <2> DEFINE m == Cardinality(SentTo(log, u, d))
               n == Cardinality(SentTo(log', u, d))
               H == DayOwers(u, d)
               G == DayOwers(u, d)'
    <2>1. H \in SUBSET Callers /\ G \in SUBSET Callers
      BY DEF DayOwers
    <2>2. m + Cardinality(H) <= DailyCap + Cardinality(Callers) - 1
      BY DEF DayCommitted
    <2>3. /\ m \in Nat
          /\ \/ n = m /\ G \subseteq H
             \/ n = m /\ m < DailyCap
             \/ n = m + 1 /\ \E w \in H : G = H \ {w}
      <3>1. CASE \E w \in Callers : Opens(w)
        BY <1>1, <3>1, OpenedSlots DEF Opens
      <3>2. CASE \E w \in Callers, x \in Users : Settles(w, x)
        BY <1>1, <3>2, SettledSlots
      <3>3. CASE Rests
        BY <1>1, <3>3 DEF Rests, DayOwers
      <3>. QED
        BY <3>1, <3>2, <3>3, StepShapes
    <2>4. n \in Nat /\ DailyCap \in Nat
      BY <2>3, OrchestrationAssumption
    <2> HIDE DEF m, n, H, G
    <2>5. n + Cardinality(G) <= DailyCap + Cardinality(Callers) - 1
      BY <2>1, <2>2, <2>3, <2>4, SlotStaysCommitted
    <2>. QED
      BY <2>5 DEF n, G
  <1>3. ASSUME NEW u \in Users, NEW c \in Campaigns, NEW d \in Days
        PROVE  C(u, c, d)
    <2> DEFINE m == Cardinality(SentBy(log, u, c, d))
               n == Cardinality(SentBy(log', u, c, d))
               H == CampaignOwers(u, c, d)
               G == CampaignOwers(u, c, d)'
    <2>1. H \in SUBSET Callers /\ G \in SUBSET Callers
      BY DEF CampaignOwers
    <2>2. m + Cardinality(H) <= 1 + Cardinality(Callers) - 1
      BY DEF CampaignCommitted
    <2>3. /\ m \in Nat
          /\ \/ n = m /\ G \subseteq H
             \/ n = m /\ m < 1
             \/ n = m + 1 /\ \E w \in H : G = H \ {w}
      <3>1. CASE \E w \in Callers : Opens(w)
        BY <1>1, <3>1, OpenedSlots DEF Opens
      <3>2. CASE \E w \in Callers, x \in Users : Settles(w, x)
        BY <1>1, <3>2, SettledSlots
      <3>3. CASE Rests
        BY <1>1, <3>3 DEF Rests, CampaignOwers
      <3>. QED
        BY <3>1, <3>2, <3>3, StepShapes
    <2>4. n \in Nat /\ 1 \in Nat
      BY <2>3
    <2> HIDE DEF m, n, H, G
    <2>5. n + Cardinality(G) <= 1 + Cardinality(Callers) - 1
      BY <2>1, <2>2, <2>3, <2>4, SlotStaysCommitted
    <2>. QED
      BY <2>5 DEF n, G
  <1>. QED
    BY <1>2, <1>3 DEF DayCommitted, CampaignCommitted

(* Nothing is sent and nobody owes anything at the start.                  *)
LEMMA CommittedInit == Init => DayCommitted /\ CampaignCommitted
  <1> SUFFICES ASSUME Init
               PROVE  DayCommitted /\ CampaignCommitted
    OBVIOUS
  <1>1. Cardinality({}) = 0
    BY FS_EmptySet
  <1>2. ASSUME NEW u, NEW c, NEW d
        PROVE  /\ Cardinality(SentTo(log, u, d)) = 0 /\ Cardinality(DayOwers(u, d)) = 0
               /\ Cardinality(SentBy(log, u, c, d)) = 0
               /\ Cardinality(CampaignOwers(u, c, d)) = 0
    <2>1. /\ SentTo(log, u, d) = {} /\ DayOwers(u, d) = {}
          /\ SentBy(log, u, c, d) = {} /\ CampaignOwers(u, c, d) = {}
      BY DEF Init, GatewayInit, SentTo, SentBy, DayOwers, CampaignOwers, Pending
    <2>. QED
      BY <1>1, <2>1
  <1>3. Cardinality(Callers) \in Nat /\ Cardinality(Callers) >= 1
    BY GatewayAssumption, OrchestrationAssumption, FS_EmptySet, FS_CardinalityType
  <1>4. DailyCap \in Nat /\ DailyCap >= 1
    BY OrchestrationAssumption
  <1>5. DayCommitted
    <2> SUFFICES ASSUME NEW u \in Users, NEW d \in Days
                 PROVE  Cardinality(SentTo(log, u, d)) + Cardinality(DayOwers(u, d))
                          <= DailyCap + Cardinality(Callers) - 1
      BY DEF DayCommitted
    <2>. QED
      BY <1>2, <1>3, <1>4
  <1>6. CampaignCommitted
    BY <1>2, <1>3 DEF CampaignCommitted
  <1>. QED
    BY <1>5, <1>6

(* The strengthening that is inductive, for the runner as a whole.         *)
LEMMA CommittedAlways == Spec => [](IInv /\ DayCommitted /\ CampaignCommitted)
  BY InvariantInit, InvariantStep, CommittedInit, CommittedStep, PTL DEF Spec

(* A slot's owers are finitely many.                                       *)
LEMMA OwersCounted ==
    ASSUME NEW u, NEW c, NEW d
    PROVE  Cardinality(DayOwers(u, d)) \in Nat /\ Cardinality(CampaignOwers(u, c, d)) \in Nat
  <1>1. DayOwers(u, d) \in SUBSET Callers /\ CampaignOwers(u, c, d) \in SUBSET Callers
    BY DEF DayOwers, CampaignOwers
  <1>. QED
    BY <1>1, GatewayAssumption, FS_Subset, FS_CardinalityType

(* However many threads run campaigns at once, a user hears at most        *)
(* daily_cap messages a day and one more for each thread but the first     *)
(* (frequency.py:5).                                                       *)
THEOREM RunnerKeepsDailyCap == Spec => []DailyCapOvershoot
  <1>1. IInv /\ DayCommitted => DailyCapOvershoot
    <2> SUFFICES ASSUME IInv, DayCommitted, NEW u \in Users, NEW d \in Days
                 PROVE  Cardinality(SentTo(log, u, d)) <= DailyCap + Cardinality(Callers) - 1
      BY DEF DailyCapOvershoot
    <2>1. Cardinality(SentTo(log, u, d)) \in Nat /\ Cardinality(DayOwers(u, d)) \in Nat
      BY SentFinite, OwersCounted DEF IInv, TypeOK
    <2>2. Cardinality(Callers) \in Nat
      BY GatewayAssumption, FS_CardinalityType
    <2>. QED
      BY <2>1, <2>2, OrchestrationAssumption DEF DayCommitted
  <1>. QED
    BY <1>1, CommittedAlways, PTL

(* And hears from one campaign at most once a day for each thread          *)
(* (frequency.py:7).                                                       *)
THEOREM RunnerKeepsDedup == Spec => []RerunOvershoot
  <1>1. IInv /\ CampaignCommitted => RerunOvershoot
    <2> SUFFICES ASSUME IInv, CampaignCommitted,
                        NEW u \in Users, NEW c \in Campaigns, NEW d \in Days
                 PROVE  Cardinality(SentBy(log, u, c, d)) <= Cardinality(Callers)
      BY DEF RerunOvershoot
    <2>1. /\ Cardinality(SentBy(log, u, c, d)) \in Nat
          /\ Cardinality(CampaignOwers(u, c, d)) \in Nat
      BY SentFinite, OwersCounted DEF IInv, TypeOK
    <2>2. Cardinality(Callers) \in Nat
      BY GatewayAssumption, FS_CardinalityType
    <2>. QED
      BY <2>1, <2>2 DEF CampaignCommitted
  <1>. QED
    BY <1>1, CommittedAlways, PTL

(* The mapping of the runner's state to that of the budget of users' days. *)
DayTouches == [s \in Users \X Days |-> Cardinality(SentTo(log, s[1], s[2]))]

DayDue == [w \in Callers |-> {s \in Users \X Days :
                                 s[1] \in Pending(w) /\ s[2] = run[w].day}]

(* A step of the runner is a step of the budget of users' days, or none.   *)
LEMMA DayBudgetStep ==
    ASSUME IInv, [Next]_vars
    PROVE  [DayBudget!BudgetNext]_(DayBudget!budgetVars)
  <1>1. ASSUME NEW w \in Callers, Opens(w)
        PROVE  DayBudget!Open(w)
    <2>1. DayDue[w] = {}
      BY <1>1 DEF Opens, DayDue
    <2>2. DayDue' = [DayDue EXCEPT ![w] = DayDue'[w]]
      <3>1. \A v \in Callers \ {w} : run'[v] = run[v]
        BY <1>1 DEF Opens, IInv, TypeOK
      <3>2. \A v \in Callers \ {w} : DayDue'[v] = DayDue[v]
        BY <3>1 DEF DayDue, Pending
      <3>. QED
        BY <3>2 DEF DayDue
    <2>3. ASSUME NEW s \in DayDue'[w]
          PROVE  s \in Users \X Days /\ DayTouches[s] < DailyCap
      <3>1. /\ s \in Users \X Days /\ s[1] \in Users /\ s[2] \in Days
            /\ s[1] \in run'[w].pending /\ s[2] = run'[w].day
        BY <1>1 DEF DayDue, Pending, Opens
      <3>2. ~Capped(log, s[1], run'[w].campaign, s[2])
        BY <1>1, <3>1 DEF Opens
      <3>3. Cardinality(SentTo(log, s[1], s[2])) \in Nat
        BY SentFinite DEF IInv, TypeOK
      <3>. QED
        BY <3>1, <3>2, <3>3, OrchestrationAssumption DEF Capped, DayTouches
    <2>4. UNCHANGED DayTouches
      BY <1>1 DEF Opens, DayTouches
    <2>5. DayDue'[w] \in SUBSET {s \in Users \X Days : DayTouches[s] < DailyCap}
      BY <2>3
    <2>. QED
      BY <2>1, <2>2, <2>4, <2>5 DEF DayBudget!Open, DayDue, DayTouches
  <1>2. ASSUME NEW w \in Callers, NEW u \in Users, Settles(w, u)
        PROVE  \E s \in Users \X Days : DayBudget!Touch(w, s) \/ DayBudget!Drop(w, s)
    <2> DEFINE t == <<u, run[w].day>>
    <2>1. t \in Users \X Days /\ t \in DayDue[w]
      BY <1>2 DEF Settles, DayDue, Pending, Run
    <2>2. DayDue' = [DayDue EXCEPT ![w] = @ \ {t}]
      <3>1. \A v \in Callers \ {w} : run'[v] = run[v]
        BY <1>2 DEF Settles, IInv, TypeOK
      <3>2. \A v \in Callers \ {w} : DayDue'[v] = DayDue[v]
        BY <3>1 DEF DayDue, Pending
      <3>3. /\ Pending(w) = run[w].pending /\ Pending(w)' = run[w].pending \ {u}
            /\ run'[w].day = run[w].day
        BY <1>2 DEF Settles, Pending
      <3>4. DayDue'[w] = DayDue[w] \ {t}
        BY <3>3 DEF DayDue
      <3>. QED
        BY <3>2, <3>4 DEF DayDue
    <2>3. CASE NothingSent
      <3>1. DayTouches' = DayTouches
        BY <2>3 DEF NothingSent, DayTouches
      <3>. QED
        BY <2>1, <2>2, <3>1 DEF DayBudget!Drop, DayDue, DayTouches
    <2>4. CASE OneSent(u, run[w].campaign, run[w].day)
      <3>1. DayTouches' = [DayTouches EXCEPT ![t] = @ + 1]
        <4>1. ASSUME NEW s \in Users \X Days
              PROVE  DayTouches'[s] = IF s = t THEN DayTouches[s] + 1 ELSE DayTouches[s]
          <5>1. s = <<s[1], s[2]>>
            OBVIOUS
          <5>2. CASE s = t
            <6>1. SentTo(log', s[1], s[2]) = SentTo(log, s[1], s[2]) \cup {Len(log) + 1}
              BY <2>4, <5>2 DEF OneSent
            <6>2. Cardinality(SentTo(log, s[1], s[2]) \cup {Len(log) + 1})
                    = Cardinality(SentTo(log, s[1], s[2])) + 1
              BY SentFinite, FS_AddElement DEF IInv, TypeOK
            <6>. QED
              BY <5>2, <6>1, <6>2 DEF DayTouches
          <5>3. CASE s # t
            <6>1. SentTo(log', s[1], s[2]) = SentTo(log, s[1], s[2])
              BY <2>4, <5>1, <5>3 DEF OneSent
            <6>. QED
              BY <5>3, <6>1 DEF DayTouches
          <5>. QED
            BY <5>2, <5>3
        <4>. QED
          BY <2>1, <4>1 DEF DayTouches
      <3>. QED
        BY <2>1, <2>2, <3>1 DEF DayBudget!Touch, DayDue, DayTouches
    <2>. QED
      BY <1>2, <2>3, <2>4 DEF Settles
  <1>3. CASE Rests
    <2>1. DayTouches' = DayTouches /\ DayDue' = DayDue
      BY <1>3 DEF Rests, DayTouches, DayDue
    <2>. QED
      BY <2>1 DEF DayBudget!budgetVars, DayTouches, DayDue
  <1>. QED
    BY <1>1, <1>2, <1>3, StepShapes DEF DayBudget!BudgetNext

(* The runner implements the abstract budget of users' days.               *)
THEOREM RunnerImplementsDayBudget == Spec => KeepsDayBudget
  <1>1. Init => DayBudget!BudgetInit
    <2> SUFFICES ASSUME Init
                 PROVE  DayBudget!BudgetInit
      OBVIOUS
    <2>1. \A u, d : SentTo(log, u, d) = {}
      BY DEF Init, GatewayInit, SentTo
    <2>2. \A w \in Callers : Pending(w) = {}
      BY DEF Init, Pending
    <2>3. Cardinality({}) = 0
      BY FS_EmptySet
    <2>4. DayTouches = [s \in Users \X Days |-> 0]
      BY <2>1, <2>3 DEF DayTouches
    <2>5. DayDue = [w \in Callers |-> {}]
      BY <2>2 DEF DayDue
    <2>. QED
      BY <2>4, <2>5 DEF DayBudget!BudgetInit, DayTouches, DayDue
  <1>. QED
    BY <1>1, DayBudgetStep, InvariantInit, InvariantStep, PTL
       DEF Spec, KeepsDayBudget, DayBudget!BudgetSpec

(* The same for the budget of users' days in a campaign.                   *)
CampaignTouches ==
    [s \in Users \X Campaigns \X Days |-> Cardinality(SentBy(log, s[1], s[2], s[3]))]

CampaignDue ==
    [w \in Callers |-> {s \in Users \X Campaigns \X Days :
        s[1] \in Pending(w) /\ s[2] = run[w].campaign /\ s[3] = run[w].day}]

(* A step of the runner is a step of that budget, or none.                 *)
LEMMA CampaignBudgetStep ==
    ASSUME IInv, [Next]_vars
    PROVE  [CampaignBudget!BudgetNext]_(CampaignBudget!budgetVars)
  <1>1. ASSUME NEW w \in Callers, Opens(w)
        PROVE  CampaignBudget!Open(w)
    <2>1. CampaignDue[w] = {}
      BY <1>1 DEF Opens, CampaignDue
    <2>2. CampaignDue' = [CampaignDue EXCEPT ![w] = CampaignDue'[w]]
      <3>1. \A v \in Callers \ {w} : run'[v] = run[v]
        BY <1>1 DEF Opens, IInv, TypeOK
      <3>2. \A v \in Callers \ {w} : CampaignDue'[v] = CampaignDue[v]
        BY <3>1 DEF CampaignDue, Pending
      <3>. QED
        BY <3>2 DEF CampaignDue
    <2>3. ASSUME NEW s \in CampaignDue'[w]
          PROVE  s \in Users \X Campaigns \X Days /\ CampaignTouches[s] < 1
      <3>1. /\ s \in Users \X Campaigns \X Days /\ s[1] \in Users /\ s[3] \in Days
            /\ s[1] \in run'[w].pending /\ s[2] = run'[w].campaign /\ s[3] = run'[w].day
        BY <1>1 DEF CampaignDue, Pending, Opens
      <3>2. ~Capped(log, s[1], s[2], s[3])
        BY <1>1, <3>1 DEF Opens
      <3>3. SentBy(log, s[1], s[2], s[3]) = {}
        BY <3>2 DEF Capped
      <3>. QED
        BY <3>1, <3>3, FS_EmptySet DEF CampaignTouches
    <2>4. UNCHANGED CampaignTouches
      BY <1>1 DEF Opens, CampaignTouches
    <2>5. CampaignDue'[w]
            \in SUBSET {s \in Users \X Campaigns \X Days : CampaignTouches[s] < 1}
      BY <2>3
    <2>. QED
      BY <2>1, <2>2, <2>4, <2>5 DEF CampaignBudget!Open, CampaignDue, CampaignTouches
  <1>2. ASSUME NEW w \in Callers, NEW u \in Users, Settles(w, u)
        PROVE  \E s \in Users \X Campaigns \X Days :
                  CampaignBudget!Touch(w, s) \/ CampaignBudget!Drop(w, s)
    <2> DEFINE t == <<u, run[w].campaign, run[w].day>>
    <2>1. t \in Users \X Campaigns \X Days /\ t \in CampaignDue[w]
      BY <1>2 DEF Settles, CampaignDue, Pending, Run
    <2>2. CampaignDue' = [CampaignDue EXCEPT ![w] = @ \ {t}]
      <3>1. \A v \in Callers \ {w} : run'[v] = run[v]
        BY <1>2 DEF Settles, IInv, TypeOK
      <3>2. \A v \in Callers \ {w} : CampaignDue'[v] = CampaignDue[v]
        BY <3>1 DEF CampaignDue, Pending
      <3>3. /\ Pending(w) = run[w].pending /\ Pending(w)' = run[w].pending \ {u}
            /\ run'[w].campaign = run[w].campaign /\ run'[w].day = run[w].day
        BY <1>2 DEF Settles, Pending
      <3>4. CampaignDue'[w] = CampaignDue[w] \ {t}
        BY <3>3 DEF CampaignDue
      <3>. QED
        BY <3>2, <3>4 DEF CampaignDue
    <2>3. CASE NothingSent
      <3>1. CampaignTouches' = CampaignTouches
        BY <2>3 DEF NothingSent, CampaignTouches
      <3>. QED
        BY <2>1, <2>2, <3>1 DEF CampaignBudget!Drop, CampaignDue, CampaignTouches
    <2>4. CASE OneSent(u, run[w].campaign, run[w].day)
      <3>1. CampaignTouches' = [CampaignTouches EXCEPT ![t] = @ + 1]
        <4>1. ASSUME NEW s \in Users \X Campaigns \X Days
              PROVE  CampaignTouches'[s] =
                       IF s = t THEN CampaignTouches[s] + 1 ELSE CampaignTouches[s]
          <5>1. s = <<s[1], s[2], s[3]>>
            OBVIOUS
          <5>2. CASE s = t
            <6>1. SentBy(log', s[1], s[2], s[3])
                    = SentBy(log, s[1], s[2], s[3]) \cup {Len(log) + 1}
              BY <2>4, <5>2 DEF OneSent
            <6>2. Cardinality(SentBy(log, s[1], s[2], s[3]) \cup {Len(log) + 1})
                    = Cardinality(SentBy(log, s[1], s[2], s[3])) + 1
              BY SentFinite, FS_AddElement DEF IInv, TypeOK
            <6>. QED
              BY <5>2, <6>1, <6>2 DEF CampaignTouches
          <5>3. CASE s # t
            <6>1. SentBy(log', s[1], s[2], s[3]) = SentBy(log, s[1], s[2], s[3])
              BY <2>4, <5>1, <5>3 DEF OneSent
            <6>. QED
              BY <5>3, <6>1 DEF CampaignTouches
          <5>. QED
            BY <5>2, <5>3
        <4>. QED
          BY <2>1, <4>1 DEF CampaignTouches
      <3>. QED
        BY <2>1, <2>2, <3>1 DEF CampaignBudget!Touch, CampaignDue, CampaignTouches
    <2>. QED
      BY <1>2, <2>3, <2>4 DEF Settles
  <1>3. CASE Rests
    <2>1. CampaignTouches' = CampaignTouches /\ CampaignDue' = CampaignDue
      BY <1>3 DEF Rests, CampaignTouches, CampaignDue
    <2>. QED
      BY <2>1 DEF CampaignBudget!budgetVars, CampaignTouches, CampaignDue
  <1>. QED
    BY <1>1, <1>2, <1>3, StepShapes DEF CampaignBudget!BudgetNext

(* The runner implements the abstract budget of users' days in a campaign. *)
THEOREM RunnerImplementsCampaignBudget == Spec => KeepsCampaignBudget
  <1>1. Init => CampaignBudget!BudgetInit
    <2> SUFFICES ASSUME Init
                 PROVE  CampaignBudget!BudgetInit
      OBVIOUS
    <2>1. \A u, c, d : SentBy(log, u, c, d) = {}
      BY DEF Init, GatewayInit, SentTo, SentBy
    <2>2. \A w \in Callers : Pending(w) = {}
      BY DEF Init, Pending
    <2>3. Cardinality({}) = 0
      BY FS_EmptySet
    <2>4. CampaignTouches = [s \in Users \X Campaigns \X Days |-> 0]
      BY <2>1, <2>3 DEF CampaignTouches
    <2>5. CampaignDue = [w \in Callers |-> {}]
      BY <2>2 DEF CampaignDue
    <2>. QED
      BY <2>4, <2>5 DEF CampaignBudget!BudgetInit, CampaignTouches, CampaignDue
  <1>. QED
    BY <1>1, CampaignBudgetStep, InvariantInit, InvariantStep, PTL
       DEF Spec, KeepsCampaignBudget, CampaignBudget!BudgetSpec
-----------------------------------------------------------------------------
(* What was sent stays in the log.                                         *)
LEMMA TouchesStay ==
    ASSUME IInv, [Next]_vars
    PROVE  \A u, c, d : /\ SentTo(log, u, d) \subseteq SentTo(log', u, d)
                        /\ SentBy(log, u, c, d) \subseteq SentBy(log', u, c, d)
  BY StepShapes DEF Opens, Settles, Rests, NothingSent, OneSent

(* So a user who was capped would be capped again.                         *)
LEMMA CappedStays ==
    ASSUME IInv, [Next]_vars, IInv', NEW u, NEW c, NEW d, Capped(log, u, c, d)
    PROVE  Capped(log', u, c, d)
  <1>1. /\ SentTo(log, u, d) \in SUBSET SentTo(log', u, d)
        /\ SentBy(log, u, c, d) \subseteq SentBy(log', u, c, d)
    BY TouchesStay
  <1>2. GatewayTypeOK /\ GatewayTypeOK'
    BY DEF IInv, TypeOK
  <1>3. /\ IsFiniteSet(SentTo(log', u, d)) /\ Cardinality(SentTo(log', u, d)) \in Nat
        /\ Cardinality(SentTo(log, u, d)) \in Nat
    <2>1. Cardinality(SentTo(log, u, d)) \in Nat
      BY <1>2, SentFinite
    <2>2. Len(log') \in Nat /\ DOMAIN log' = 1..Len(log')
      BY <1>2 DEF GatewayTypeOK
    <2>3. SentTo(log', u, d) \in SUBSET (1..Len(log'))
      BY <2>2 DEF SentTo
    <2>4. IsFiniteSet(1..Len(log'))
      BY <2>2, FS_Interval
    <2>5. IsFiniteSet(SentTo(log', u, d))
      BY <2>3, <2>4, FS_Subset
    <2>. QED
      BY <2>1, <2>5, FS_CardinalityType
  <1>4. Cardinality(SentTo(log, u, d)) <= Cardinality(SentTo(log', u, d))
    BY <1>1, <1>3, FS_Subset
  <1>. QED
    BY <1>1, <1>3, <1>4, OrchestrationAssumption DEF Capped

(* To be served is to have a reason to be capped, on the log of the moment. *)
LEMMA ServedIsCapped ==
    ASSUME NEW u, NEW c, NEW d
    PROVE  /\ Served(u, c, d) <=> Capped(log, u, c, d)
           /\ Served(u, c, d)' <=> Capped(log', u, c, d)
  <1>1. Served(u, c, d) <=> Capped(log, u, c, d)
    BY DEF Served, Capped, SentBy, SentTo
  <1>2. Served(u, c, d)' <=> Capped(log', u, c, d)
    BY DEF Served, Capped, SentBy, SentTo
  <1>. QED
    BY <1>1, <1>2

(* Those a run leaves without a message are finitely many.                 *)
LEMMA UnservedFinite ==
    ASSUME TypeOK, NEW w \in Callers, run[w] # NoRun
    PROVE  IsFiniteSet(Unserved(w)) /\ Cardinality(Unserved(w)) \in Nat
  <1>1. run[w] \in Run
    BY DEF TypeOK
  <1>2. Unserved(w) \in SUBSET Users
    BY <1>1 DEF Unserved, Run
  <1>. QED
    BY <1>2, OrchestrationAssumption, FS_Subset, FS_CardinalityType

(* While a run goes on, only a user it strikes off can become one of them. *)
LEMMA UnservedGrows ==
    ASSUME IInv, [Next]_vars, IInv', NEW w \in Callers, run[w] # NoRun,
           run'[w].campaign = run[w].campaign, run'[w].day = run[w].day,
           run'[w].audience = run[w].audience, run'[w].excluded = run[w].excluded,
           run'[w].control = run[w].control,
           NEW struck, run'[w].pending = run[w].pending \ struck
    PROVE  Unserved(w)' \subseteq Unserved(w) \cup struck
  <1> DEFINE c == run[w].campaign
             d == run[w].day
  <1> SUFFICES ASSUME NEW u \in Unserved(w)', u \notin struck
               PROVE  u \in Unserved(w)
    OBVIOUS
  <1>1. /\ u \in run[w].audience
        /\ u \notin run[w].excluded \cup run[w].control \cup run[w].pending
        /\ ~Served(u, c, d)'
    BY DEF Unserved, Served
  <1>2. ~Capped(log', u, c, d)
    BY <1>1, ServedIsCapped
  <1>3. ~Capped(log, u, c, d)
    BY <1>2, CappedStays
  <1>4. ~Served(u, c, d)
    BY <1>3, ServedIsCapped
  <1>. QED
    BY <1>1, <1>4 DEF Unserved

(* The account of one run's shortfall.                                     *)
Counted(w) == Cardinality(Unserved(w)) <= run[w].notSent

(* A run that starts passes over nobody without a reason.                  *)
LEMMA StartCounts ==
    ASSUME IInv, NEW w \in Callers, NEW c \in Campaigns, NEW d \in Days, NEW fired,
           Start(w, c, d, log, Eligible(c, fired))
    PROVE  Counted(w)'
  <1> DEFINE A == Definition[c].audience
             E == Eligible(c, fired)
             B == {u \in E : Capped(log, u, c, d)}
             H == {u \in E \ B : BucketOf(c, u) = Control}
  <1>1. run'[w] = [phase |-> "running", campaign |-> c, day |-> d,
                   audience |-> A, excluded |-> A \ E, capped |-> B, control |-> H,
                   pending |-> E \ (B \cup H), sent |-> 0, notSent |-> 0]
        /\ log' = log
    BY DEF Start, IInv, TypeOK, gatewayVars
  <1>2. /\ run'[w].campaign = c /\ run'[w].day = d
        /\ run'[w].audience = A /\ run'[w].excluded = A \ E
        /\ run'[w].control = H /\ run'[w].pending = E \ (B \cup H)
        /\ run'[w].notSent = 0
    BY <1>1
  <1>3. Unserved(w)' = {}
    <2> SUFFICES ASSUME NEW u \in Unserved(w)' PROVE FALSE
      OBVIOUS
    <2>1. u \in A /\ u \notin (A \ E) \cup H \cup (E \ (B \cup H)) /\ ~Served(u, c, d)'
      BY <1>2 DEF Unserved, Served
    <2>2. u \in B
      BY <2>1
    <2>3. Capped(log', u, c, d)
      BY <1>1, <2>2
    <2>. QED
      BY <2>1, <2>3, ServedIsCapped
  <1>. QED
    BY <1>2, <1>3, FS_EmptySet DEF Counted

(* A user struck off is counted, or has his message.                       *)
LEMMA StruckCounts ==
    ASSUME IInv, [Next]_vars, IInv', NEW w \in Callers, Running(w), Counted(w),
           NEW u \in Users,
           \/ run' = [run EXCEPT ![w].pending = @ \ {u}, ![w].notSent = @ + 1]
           \/ /\ run' = [run EXCEPT ![w].pending = @ \ {u}, ![w].sent = @ + 1]
              /\ Capped(log', u, run[w].campaign, run[w].day)
    PROVE  Counted(w)'
  <1>1. run[w] \in Run /\ run[w] # NoRun /\ run \in [Callers -> Run \cup {NoRun}]
    BY DEF IInv, TypeOK, Running
  <1>2. /\ run'[w].campaign = run[w].campaign /\ run'[w].day = run[w].day
        /\ run'[w].audience = run[w].audience /\ run'[w].excluded = run[w].excluded
        /\ run'[w].control = run[w].control
        /\ run'[w].pending = run[w].pending \ {u}
        /\ \/ run'[w].notSent = run[w].notSent + 1
           \/ /\ run'[w].notSent = run[w].notSent
              /\ Capped(log', u, run[w].campaign, run[w].day)
    BY <1>1 DEF Run
  <1>3. Unserved(w)' \subseteq Unserved(w) \cup {u}
    BY <1>1, <1>2, UnservedGrows
  <1>4. /\ IsFiniteSet(Unserved(w)) /\ Cardinality(Unserved(w)) \in Nat
        /\ run[w].notSent \in Nat
    BY <1>1, UnservedFinite DEF IInv, Run
  <1>5. CASE run'[w].notSent = run[w].notSent + 1
    <2>1. /\ IsFiniteSet(Unserved(w) \cup {u})
          /\ Cardinality(Unserved(w) \cup {u}) <= Cardinality(Unserved(w)) + 1
      <3>1. /\ IsFiniteSet(Unserved(w) \cup {u})
            /\ Cardinality(Unserved(w) \cup {u})
                 = IF u \in Unserved(w) THEN Cardinality(Unserved(w))
                   ELSE Cardinality(Unserved(w)) + 1
        BY <1>4, FS_AddElement, Zenon
      <3>. QED
        BY <1>4, <3>1
    <2>2. Unserved(w)' \in SUBSET (Unserved(w) \cup {u})
      BY <1>3
    <2>3. /\ Cardinality(Unserved(w)') <= Cardinality(Unserved(w) \cup {u})
          /\ Cardinality(Unserved(w)') \in Nat
      BY <2>1, <2>2, FS_Subset, FS_CardinalityType
    <2>4. Cardinality(Unserved(w) \cup {u}) \in Nat
      BY <2>1, FS_CardinalityType
    <2>. QED
      BY <1>4, <1>5, <2>1, <2>3, <2>4 DEF Counted
  <1>6. CASE run'[w].notSent = run[w].notSent /\ Capped(log', u, run[w].campaign, run[w].day)
    <2>1. u \notin Unserved(w)'
      <3>1. \A x \in Unserved(w)' : ~Served(x, run[w].campaign, run[w].day)'
        BY <1>2 DEF Unserved, Served
      <3>. QED
        BY <1>2, <1>6, <3>1, ServedIsCapped
    <2>2. Unserved(w)' \in SUBSET Unserved(w)
      BY <1>3, <2>1
    <2>3. /\ Cardinality(Unserved(w)') <= Cardinality(Unserved(w))
          /\ Cardinality(Unserved(w)') \in Nat
      BY <1>4, <2>2, FS_Subset, FS_CardinalityType
    <2>. QED
      BY <1>4, <1>6, <2>3 DEF Counted
  <1>. QED
    BY <1>2, <1>5, <1>6

(* A run that stands still, or only ends, counts as it did.                *)
LEMMA RestCounts ==
    ASSUME IInv, [Next]_vars, IInv', NEW w \in Callers, run[w] # NoRun, Counted(w),
           \/ run'[w] = run[w]
           \/ \E phase : run'[w] = [run[w] EXCEPT !.phase = phase]
    PROVE  Counted(w)'
  <1>1. run[w] \in Run
    BY DEF IInv, TypeOK
  <1>2. /\ run'[w].campaign = run[w].campaign /\ run'[w].day = run[w].day
        /\ run'[w].audience = run[w].audience /\ run'[w].excluded = run[w].excluded
        /\ run'[w].control = run[w].control
        /\ run'[w].pending = run[w].pending \ {}
        /\ run'[w].notSent = run[w].notSent /\ run[w].notSent \in Nat
    BY <1>1 DEF Run
  <1>3. Unserved(w)' \subseteq Unserved(w) \cup {}
    BY <1>2, UnservedGrows
  <1>4. IsFiniteSet(Unserved(w)) /\ Cardinality(Unserved(w)) \in Nat
    BY UnservedFinite DEF IInv
  <1>5. Unserved(w)' \in SUBSET Unserved(w)
    BY <1>3
  <1>6. /\ Cardinality(Unserved(w)') <= Cardinality(Unserved(w))
        /\ Cardinality(Unserved(w)') \in Nat
    BY <1>4, <1>5, FS_Subset, FS_CardinalityType
  <1>. QED
    BY <1>2, <1>4, <1>6 DEF Counted

(* A delivery that counts as sent serves its user.                         *)
LEMMA ReturnServes ==
    ASSUME IInv, NEW w \in Callers, Return(w), log'[Len(log')].status = "sent"
    PROVE  Capped(log', inflight[w].user, run[w].campaign, run[w].day)
  <1>1. /\ inflight[w] \in Request
        /\ inflight[w].campaign = run[w].campaign /\ inflight[w].day = run[w].day
    BY ReturnedRun
  <1>2. PICK ch \in RequestChannel, status \in Status, reason \in Reason :
           log' = Recorded(inflight[w], ch, status, reason)
    BY <1>1, DeliverRecords DEF Return, IInv, TypeOK
  <1>3. /\ Len(log') = Len(log) + 1
        /\ log'[Len(log) + 1].user = inflight[w].user
        /\ log'[Len(log) + 1].campaign = inflight[w].campaign
        /\ log'[Len(log) + 1].day = inflight[w].day
        /\ Len(log) + 1 \in DOMAIN log'
    BY <1>1, <1>2, RecordedType DEF IInv, TypeOK
  <1>. QED
    BY <1>1, <1>3 DEF Capped, SentBy, SentTo

(* Every step keeps every run's shortfall counted.                         *)
LEMMA ShortfallStep ==
    ASSUME IInv, [Next]_vars, IInv', ShortfallIsCounted
    PROVE  ShortfallIsCounted'
  <1> SUFFICES ASSUME NEW w \in Callers, run'[w] # NoRun
               PROVE  Counted(w)'
    BY DEF ShortfallIsCounted, Counted
  <1>0. run \in [Callers -> Run \cup {NoRun}] /\ (run[w] # NoRun => Counted(w))
    BY DEF IInv, TypeOK, ShortfallIsCounted, Counted
  <1>1. ASSUME NEW v \in Callers, NEW c \in Campaigns, NEW d \in Days, NEW fired,
               Start(v, c, d, log, Eligible(c, fired))
        PROVE  Counted(w)'
    <2>1. CASE v = w
      BY <1>1, <2>1, StartCounts
    <2>2. CASE v # w
      <3>1. run'[w] = run[w]
        BY <1>0, <1>1, <2>2 DEF Start
      <3>. QED
        BY <1>0, <3>1, RestCounts
    <2>. QED
      BY <2>1, <2>2
  <1>2. ASSUME NEW v \in Callers, Running(v), NEW u \in Users,
               \/ run' = [run EXCEPT ![v].pending = @ \ {u}, ![v].notSent = @ + 1]
               \/ /\ run' = [run EXCEPT ![v].pending = @ \ {u}, ![v].sent = @ + 1]
                  /\ Capped(log', u, run[v].campaign, run[v].day)
        PROVE  Counted(w)'
    <2>1. CASE v = w
      BY <1>0, <1>2, <2>1, StruckCounts DEF Running
    <2>2. CASE v # w
      <3>1. run'[w] = run[w]
        BY <1>0, <1>2, <2>2
      <3>. QED
        BY <1>0, <3>1, RestCounts
    <2>. QED
      BY <2>1, <2>2
  <1>3. ASSUME NEW v \in Callers, Return(v)
        PROVE  Counted(w)'
    <2>1. PICK u \in run[v].pending : inflight[v].user = u /\ u \in Users
      BY <1>3, ReturnedRun
    <2>2. CASE log'[Len(log')].status = "sent"
      <3>1. Capped(log', u, run[v].campaign, run[v].day)
        BY <1>3, <2>1, <2>2, ReturnServes
      <3>. QED
        BY <1>2, <1>3, <2>1, <2>2, <3>1 DEF Return
    <2>3. CASE log'[Len(log')].status # "sent"
      BY <1>2, <1>3, <2>1, <2>3 DEF Return
    <2>. QED
      BY <2>2, <2>3
  <1>4. ASSUME NEW v \in Callers, Finish(v)
        PROVE  Counted(w)'
    <2>1. run' = [run EXCEPT ![v].phase = "done"] /\ run[v] # NoRun
      BY <1>4 DEF Finish, Running
    <2>2. run'[w] = run[w] \/ run'[w] = [run[w] EXCEPT !.phase = "done"]
      BY <1>0, <2>1
    <2>3. run[w] # NoRun
      BY <1>0, <2>1
    <2>. QED
      BY <1>0, <2>2, <2>3, RestCounts
  <1>5. CASE UNCHANGED run
    BY <1>0, <1>5, RestCounts
  <1>6. ASSUME NEW v \in Callers, Step(v)
        PROVE  Counted(w)'
    <2>1. ASSUME NEW u \in Users, NotSent(v, u)
          PROVE  Counted(w)'
      BY <1>2, <2>1 DEF NotSent, Turn
    <2>2. ASSUME NEW u \in Users, Hand(v, u)
          PROVE  Counted(w)'
      BY <1>5, <2>2 DEF Hand
    <2>. QED
      BY <1>3, <1>4, <1>6, <2>1, <2>2 DEF Step
  <1>7. CASE RefillWindow
    BY <1>5, <1>7 DEF RefillWindow
  <1>8. CASE UNCHANGED vars
    BY <1>5, <1>8 DEF vars
  <1>. QED
    BY <1>1, <1>6, <1>7, <1>8 DEF Next, StartWithLog

(* The users a run was to treat and leaves without their message are       *)
(* within its not_sent_count (runner.py:42), in every state of every run   *)
(* and whatever other threads send: a throttled or failed record of an     *)
(* earlier run makes no later one pass over its user in silence.           *)
THEOREM RunnerCountsShortfall == Spec => []ShortfallIsCounted
  <1>1. Init => ShortfallIsCounted
    BY DEF Init, ShortfallIsCounted
  <1>2. IInv /\ IInv' /\ ShortfallIsCounted /\ [Next]_vars => ShortfallIsCounted'
    BY ShortfallStep
  <1>. QED
    BY <1>1, <1>2, InvariantInit, InvariantStep, PTL DEF Spec
=============================================================================
