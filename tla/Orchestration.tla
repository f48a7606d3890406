---------------------------- MODULE Orchestration ----------------------------
(***************************************************************************)
(* The campaign runner (src/src/orchestration/runner.py, frequency.py) on  *)
(* top of the gateway.  A run resolves, caps, allocates and holds out in   *)
(* one step: all of that is local to its thread and depends on nothing but *)
(* the history it was given.  Its sends are then interleaved, one          *)
(* gateway step at a time, with those of the other threads.                *)
(***************************************************************************)
EXTENDS Gateway, Allocation

CONSTANTS
    Definition, \* each campaign's audience, channel, trigger, hold-out, weights
    Frac,       \* stable_fraction(campaign id, customer id)
    FiredSets,  \* sets of users a caller may pass as triggered_users
    DailyCap,   \* the daily_cap of the runs
    MaxRuns,    \* bound: runs started in a behaviour
    NoRun       \* what a thread that never ran a campaign shows

CampaignDef == [audience: SUBSET Users, channel: RequestChannel,
                triggered: BOOLEAN, control: Share, weights: Seq(Nat \ {0})]

Run == [phase: {"running", "done"}, campaign: Campaigns, day: Days,
        audience: SUBSET Users, excluded: SUBSET Users, capped: SUBSET Users,
        control: SUBSET Users, pending: SUBSET Users, sent: Nat, notSent: Nat]

ASSUME OrchestrationAssumption ==
    /\ Definition \in [Campaigns -> CampaignDef]
    /\ \A c \in Campaigns : /\ Definition[c].weights # <<>>
                            /\ 1..Len(Definition[c].weights) \subseteq Variants
    /\ Frac \in [Campaigns -> [Users -> Fraction]]
    /\ IsFiniteSet(Users)
    /\ Callers # {}
    /\ NoRun \notin Run
    /\ DailyCap \in Nat \ {0}
    /\ MaxRuns \in Nat

VARIABLES
    run,     \* the campaign run of each thread, the last one once it is over
    started  \* how many runs have been started

vars == <<gatewayVars, run, started>>

TypeOK ==
    /\ GatewayTypeOK
    /\ run \in [Callers -> Run \cup {NoRun}]
    /\ started \in 0..MaxRuns

Init ==
    /\ GatewayInit
    /\ run = [w \in Callers |-> NoRun]
    /\ started = 0

Running(w) == run[w] # NoRun /\ run[w].phase = "running"

(* Users whose send the run of thread w still owes.                        *)
Pending(w) == IF run[w] = NoRun THEN {} ELSE run[w].pending
-----------------------------------------------------------------------------
(* allocator.allocate for one user                                         *)
BucketOf(c, u) == Assign(Frac[c][u], Definition[c].control, Definition[c].weights)

(* Three bugs to compare with: every record of the day counted, delivered  *)
(* or not; the cap compared with > instead of >=; the dedup forgotten.     *)
CappedByAnyRecord(history, u, c, d) ==
    \/ \E i \in DOMAIN history : history[i].user = u /\ history[i].day = d
                                 /\ history[i].campaign = c
    \/ Cardinality({i \in DOMAIN history : history[i].user = u /\ history[i].day = d})
         >= DailyCap

CappedAboveCap(history, u, c, d) ==
    \/ SentBy(history, u, c, d) # {}
    \/ Cardinality(SentTo(history, u, d)) > DailyCap

CappedWithoutDedup(history, u, c, d) ==
    Cardinality(SentTo(history, u, d)) >= DailyCap

(* FrequencyCapper.filter for one candidate: messaged by this campaign     *)
(* today, or at the daily cap.                                             *)
Capped(history, u, c, d) ==
    \/ SentBy(history, u, c, d) # {}
    \/ Cardinality(SentTo(history, u, d)) >= DailyCap

(* A triggered campaign keeps the users who fired its event.               *)
Eligible(c, fired) ==
    IF Definition[c].triggered THEN Definition[c].audience \cap fired
    ELSE Definition[c].audience

(* A bug to compare with: the control group left among those to send to.   *)
StartSendsControl(w, c, d, history, eligible) ==
    /\ ~Running(w)
    /\ started < MaxRuns
    /\ started' = started + 1
    /\ LET audience == Definition[c].audience
           blocked == {u \in eligible : Capped(history, u, c, d)}
           held == {u \in eligible \ blocked : BucketOf(c, u) = Control}
       IN  run' = [run EXCEPT ![w] =
                     [phase |-> "running", campaign |-> c, day |-> d,
                      audience |-> audience, excluded |-> audience \ eligible,
                      capped |-> blocked, control |-> held,
                      pending |-> eligible \ blocked, sent |-> 0, notSent |-> 0]]
    /\ UNCHANGED gatewayVars

(* CampaignRunner.run up to the first send.                                *)
Start(w, c, d, history, eligible) ==
    /\ ~Running(w)
    /\ started < MaxRuns
    /\ started' = started + 1
    /\ LET audience == Definition[c].audience
           blocked == {u \in eligible : Capped(history, u, c, d)}
           held == {u \in eligible \ blocked : BucketOf(c, u) = Control}
       IN  run' = [run EXCEPT ![w] =
                     [phase |-> "running", campaign |-> c, day |-> d,
                      audience |-> audience, excluded |-> audience \ eligible,
                      capped |-> blocked, control |-> held,
                      pending |-> eligible \ (blocked \cup held),
                      sent |-> 0, notSent |-> 0]]
    /\ UNCHANGED gatewayVars

(* User u comes next: variants in their order, users of one in theirs.     *)
Turn(w, u) ==
    /\ Running(w)
    /\ u \in run[w].pending
    /\ \A v \in run[w].pending :
           \/ BucketOf(run[w].campaign, u) < BucketOf(run[w].campaign, v)
           \/ BucketOf(run[w].campaign, u) = BucketOf(run[w].campaign, v) /\ u <= v

RequestFor(w, u) ==
    [user |-> u, campaign |-> run[w].campaign,
     channel |-> Definition[run[w].campaign].channel,
     day |-> run[w].day, variant |-> BucketOf(run[w].campaign, u)]

(* The gateway turns the user away; the run counts a message not sent.     *)
NotSent(w, u) ==
    /\ Turn(w, u)
    /\ Refuse(w, RequestFor(w, u))
    /\ run' = [run EXCEPT ![w].pending = @ \ {u}, ![w].notSent = @ + 1]
    /\ UNCHANGED started

Hand(w, u) ==
    /\ Turn(w, u)
    /\ Draw(w, RequestFor(w, u))
    /\ UNCHANGED <<run, started>>

(* A bug to compare with: a failed delivery counted nowhere.               *)
ReturnUncounted(w) ==
    /\ Running(w)
    /\ Deliver(w)
    /\ run' = IF log'[Len(log')].status = "sent"
              THEN [run EXCEPT ![w].pending = @ \ {inflight[w].user}, ![w].sent = @ + 1]
              ELSE [run EXCEPT ![w].pending = @ \ {inflight[w].user}]
    /\ UNCHANGED started

(* Another: deliveries counted in the shared log, not in the run's records. *)
ReturnCountsLog(w) ==
    /\ Running(w)
    /\ Deliver(w)
    /\ run' = [run EXCEPT ![w].pending = @ \ {inflight[w].user},
                          ![w].sent = Cardinality({i \in DOMAIN log' :
                              /\ log'[i].campaign = run[w].campaign
                              /\ log'[i].status = "sent"})]
    /\ UNCHANGED started

(* The delivery returns its record to the run.                             *)
Return(w) ==
    /\ Running(w)
    /\ Deliver(w)
    /\ run' = IF log'[Len(log')].status = "sent"
              THEN [run EXCEPT ![w].pending = @ \ {inflight[w].user}, ![w].sent = @ + 1]
              ELSE [run EXCEPT ![w].pending = @ \ {inflight[w].user}, ![w].notSent = @ + 1]
    /\ UNCHANGED started

(* A bug to compare with: a run that waits until nobody was left out.      *)
FinishWhenAllSent(w) ==
    /\ Running(w)
    /\ run[w].pending = {} /\ run[w].notSent = 0
    /\ run' = [run EXCEPT ![w].phase = "done"]
    /\ UNCHANGED <<gatewayVars, started>>

Finish(w) ==
    /\ Running(w)
    /\ run[w].pending = {}
    /\ run' = [run EXCEPT ![w].phase = "done"]
    /\ UNCHANGED <<gatewayVars, started>>

(* What a thread does by itself once its run has started.                  *)
Step(w) ==
    \/ \E u \in Users : NotSent(w, u)
    \/ \E u \in Users : Hand(w, u)
    \/ Return(w)
    \/ Finish(w)

RefillWindow == Refill /\ UNCHANGED <<run, started>>

(* Callers that pass the gateway's own log as the history: the use that    *)
(* runner.py's docstring describes ("prior DeliveryRecords").              *)
StartWithLog ==
    \E w \in Callers, c \in Campaigns, d \in Days, fired \in FiredSets :
        Start(w, c, d, log, Eligible(c, fired))

Next ==
    \/ StartWithLog
    \/ \E w \in Callers : Step(w)
    \/ RefillWindow

Spec == Init /\ [][Next]_vars
-----------------------------------------------------------------------------
(* RunResult.balances (runner.py:59), in every state of a run and not only *)
(* at its end: every eligible user is in exactly one of capped, control,   *)
(* sent, not sent and still to come.                                       *)
Accounting ==
    \A w \in Callers :
        LET r == run[w]
        IN  r # NoRun =>
              Cardinality(r.capped) + Cardinality(r.control) + Cardinality(r.pending)
                + r.sent + r.notSent
              = Cardinality(r.audience) - Cardinality(r.excluded)

(* User u heard from campaign c on day d, or heard enough for that day.     *)
Served(u, c, d) ==
    LET heard == {i \in DOMAIN log : log[i].user = u /\ log[i].day = d
                                     /\ log[i].status = "sent"}
    IN  \/ \E i \in heard : log[i].campaign = c
        \/ Cardinality(heard) >= DailyCap

(* Those a run was to treat and is through with, without a message.        *)
Unserved(w) ==
    LET r == run[w]
    IN  {u \in r.audience \ (r.excluded \cup r.control \cup r.pending) :
            ~Served(u, r.campaign, r.day)}

(* not_sent_count (runner.py:42) hides nobody: of the users a run was to   *)
(* treat, it counts at least as many as still lack their message, whatever *)
(* other threads do and however many runs before it were throttled or      *)
(* failed.  Only a delivered message is a reason to pass over a user       *)
(* without counting him (frequency.py:75: SENT history alone).             *)
ShortfallIsCounted ==
    \A w \in Callers : run[w] # NoRun => Cardinality(Unserved(w)) <= run[w].notSent

(* What ties a run to the gateway it sends through: a thread delivers only *)
(* what its run still owes, a run owes nothing to its control group, and   *)
(* nothing at all once it has returned (runner.py, step 6).                *)
Linked ==
    \A w \in Callers :
        /\ inflight[w] # NoRequest =>
             /\ Running(w)
             /\ \E u \in run[w].pending : inflight[w] = RequestFor(w, u)
        /\ run[w] # NoRun =>
             /\ \A u \in run[w].pending : BucketOf(run[w].campaign, u) # Control
             /\ run[w].phase = "done" => run[w].pending = {}

(* Across every run, whatever was capped or retried in between, a user of  *)
(* a campaign stays in one bucket, and the control group hears nothing     *)
(* from it (allocator.py: "a given user always lands in the same bucket"). *)
ArmsAreClean ==
    \A i \in DOMAIN log :
        LET b == BucketOf(log[i].campaign, log[i].user)
        IN  b # Control /\ log[i].variant = b

(* The daily cap (frequency.py:5) under threads: since a run checks the    *)
(* cap once, before its sends, each further thread can add one message to  *)
(* a user's day.  With one thread this is the documented cap.              *)
DailyCapOvershoot ==
    \A u \in Users, d \in Days :
        Cardinality(SentTo(log, u, d)) <= DailyCap + Cardinality(Callers) - 1

(* "Never message a user already touched by this campaign today"           *)
(* (frequency.py:7), with the same allowance.                              *)
RerunOvershoot ==
    \A u \in Users, c \in Campaigns, d \in Days :
        Cardinality(SentBy(log, u, c, d)) <= Cardinality(Callers)

(* The two budgets a run spends, as instances of the abstract one.         *)
DayBudget ==
    INSTANCE TouchBudget
        WITH Workers <- Callers, Slots <- Users \X Days, Cap <- DailyCap,
             touches <- [s \in Users \X Days |-> Cardinality(SentTo(log, s[1], s[2]))],
             due <- [w \in Callers |-> {s \in Users \X Days :
                         s[1] \in Pending(w) /\ s[2] = run[w].day}]

CampaignBudget ==
    INSTANCE TouchBudget
        WITH Workers <- Callers, Slots <- Users \X Campaigns \X Days, Cap <- 1,
             touches <- [s \in Users \X Campaigns \X Days |->
                            Cardinality(SentBy(log, s[1], s[2], s[3]))],
             due <- [w \in Callers |-> {s \in Users \X Campaigns \X Days :
                         s[1] \in Pending(w) /\ s[2] = run[w].campaign /\ s[3] = run[w].day}]

(* The runner implements the abstract budget, for users' days and for      *)
(* users' days in a campaign.                                              *)
KeepsDayBudget == DayBudget!BudgetSpec
KeepsCampaignBudget == CampaignBudget!BudgetSpec
=============================================================================
