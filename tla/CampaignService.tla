--------------------------- MODULE CampaignService ---------------------------
(***************************************************************************)
(* The campaign service (src/src/services/campaign.py): one gateway and    *)
(* one runner for all request threads, no limiter, a fixed "now".  It runs *)
(* campaigns without a history, and sends ad hoc batches past the runner.  *)
(***************************************************************************)
EXTENDS Orchestration, FiniteSetsExt

CONSTANTS
    Today,      \* NOW.date()
    Batches,    \* the customer_ids lists clients post (duplicates allowed)
    MaxBatches, \* bound: ad hoc batches posted in a behaviour
    NoBatch     \* what a thread that sends no batch works on

Batch == [rest: Seq(Users), campaign: Campaigns, channel: RequestChannel]

ASSUME ServiceAssumption ==
    /\ Today \in Days
    /\ Batches \subseteq Seq(Users)
    /\ MaxBatches \in Nat
    /\ NoBatch \notin Batch
    /\ 0 \in Variants  \* the "default" variant of a batch

VARIABLES
    batch,   \* what each thread still has to send for /messages/send
    posted   \* how many batches have been posted

serviceVars == <<vars, batch, posted>>

ServiceTypeOK ==
    /\ TypeOK
    /\ batch \in [Callers -> Batch \cup {NoBatch}]
    /\ posted \in 0..MaxBatches

ServiceInit ==
    /\ Init
    /\ batch = [w \in Callers |-> NoBatch]
    /\ posted = 0

(* POST /campaigns/run: the schedule of the body is replaced by "batch",   *)
(* and run() is given no history.                                          *)
RunCampaign(w, c) ==
    /\ batch[w] = NoBatch
    /\ Start(w, c, Today, <<>>, Definition[c].audience)
    /\ UNCHANGED <<batch, posted>>

(* POST /messages/send: a list that is not empty, a channel and a campaign *)
(* id of the client's choice.                                              *)
PostBatch(w, ids, c, ch) ==
    /\ ~Running(w) /\ batch[w] = NoBatch
    /\ posted < MaxBatches
    /\ posted' = posted + 1
    /\ ids # <<>>
    /\ batch' = [batch EXCEPT ![w] = [rest |-> ids, campaign |-> c, channel |-> ch]]
    /\ UNCHANGED vars

BatchRequest(w) ==
    [user |-> Head(batch[w].rest), campaign |-> batch[w].campaign,
     channel |-> batch[w].channel, day |-> Today, variant |-> 0]

(* The batch without its first user; the answer goes out after the last.   *)
Rest(b) == IF Tail(b.rest) = <<>> THEN NoBatch ELSE [b EXCEPT !.rest = Tail(@)]

BatchRefused(w) ==
    /\ batch[w] # NoBatch
    /\ Refuse(w, BatchRequest(w))
    /\ batch' = [batch EXCEPT ![w] = Rest(@)]
    /\ UNCHANGED <<run, started, posted>>

BatchDraw(w) ==
    /\ batch[w] # NoBatch
    /\ Draw(w, BatchRequest(w))
    /\ UNCHANGED <<run, started, batch, posted>>

BatchDelivered(w) ==
    /\ batch[w] # NoBatch
    /\ Deliver(w)
    /\ batch' = [batch EXCEPT ![w] = Rest(@)]
    /\ UNCHANGED <<run, started, posted>>

RunStep(w) == Step(w) /\ UNCHANGED <<batch, posted>>

(* What the thread of a request does by itself once it has the request.    *)
ServiceStep(w) == RunStep(w) \/ BatchRefused(w) \/ BatchDraw(w) \/ BatchDelivered(w)

ServiceNext ==
    \/ \E w \in Callers, c \in Campaigns : RunCampaign(w, c)
    \/ \E w \in Callers, ids \in Batches, c \in Campaigns, ch \in RequestChannel :
           PostBatch(w, ids, c, ch)
    \/ \E w \in Callers : ServiceStep(w)

ServiceSpec == ServiceInit /\ [][ServiceNext]_serviceVars

(* The thread of a request never waits for another: it keeps its turn.     *)
FairServiceSpec == ServiceSpec /\ \A w \in Callers : WF_serviceVars(ServiceStep(w))
-----------------------------------------------------------------------------
(* What a run answers is backed by the log: for every campaign, the sent   *)
(* counts of the threads' runs together never exceed the deliveries that   *)
(* runs made, however batches under the same campaign id interleave.       *)
AnswersBackedByLog ==
    \A c \in Campaigns :
        LET runs == {w \in Callers : run[w] # NoRun /\ run[w].campaign = c}
            SentOf(w) == run[w].sent
        IN  MapThenSumSet(SentOf, runs) <=
              Cardinality({i \in DOMAIN log : /\ log[i].campaign = c
                                              /\ log[i].variant # 0
                                              /\ log[i].status = "sent"})

(* Every run and every batch is answered, in any interleaving: no outcome  *)
(* of the gateway, and no user left out, keeps a thread from its end.      *)
RequestsReturn ==
    \A w \in Callers :
        Running(w) \/ batch[w] # NoBatch ~> ~Running(w) /\ batch[w] = NoBatch

(* The service's docstring (campaign.py:7) composes the frequency cap, and *)
(* frequency.py:7 makes re-runs of a campaign idempotent: no user hears    *)
(* twice in a day from the same campaign, even with one thread.            *)
RerunIsIdempotent ==
    \A u \in Users, c \in Campaigns, d \in Days : Cardinality(SentBy(log, u, c, d)) <= 1

(* A triggered campaign is for users who fired its event (models.py:38);   *)
(* a body that names none must reach nobody.                               *)
TriggeredReachesNobody ==
    \A w \in Callers :
        run[w] # NoRun /\ Definition[run[w].campaign].triggered => run[w].sent = 0
=============================================================================
