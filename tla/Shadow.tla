------------------------------- MODULE Shadow -------------------------------
(***************************************************************************)
(* Shadow validation fires a campaign on two systems at once               *)
(* (src/src/shadow): the audience is split into a shadow arm for the new   *)
(* system and a control arm for MoEngage (splitter.py, the route           *)
(* /shadow/split), and reconcile (dedup.py) walks the two target lists     *)
(* with a ledger of its own, the shadow list first.                        *)
(***************************************************************************)
EXTENDS Integers, Sequences, FiniteSets

(* Position: the user's stable_fraction under the salt "shadow", a point   *)
(* of a line of Scale points.  Lists: what may be handed to reconcile.     *)
(* Several Fires may happen on one day; Days bounds the days.              *)
CONSTANTS Users, Position, Scale, Lists, Days, MaxFires

ASSUME ShadowAssumption ==
    Scale \in Nat /\ Position \in [Users -> Nat] /\ Lists \subseteq Seq(Users)

VARIABLES pct,      (* shadow_pct, in points                               *)
          day,
          fire,     (* the reconcile under way                             *)
          fires,
          messaged  (* history: who was sent what day by which system      *)

shadowVars == <<pct, day, fire, fires, messaged>>

Arms == {"shadow", "control"}

NoFire == [shadow |-> <<>>, control |-> <<>>, seen |-> {}, sends |-> [a \in Arms |-> <<>>],
           blocked |-> {}, targets |-> [a \in Arms |-> {}]]

ShadowInit == /\ pct \in 0..Scale /\ day = 1 /\ fires = 0 /\ messaged = {}
              /\ fire = NoFire

(* assign_arm                                                              *)
Arm(user, p) == IF Position[user] < p THEN "shadow" ELSE "control"

(* split, and the lists of each arm (run_pipeline in e2e_demo.py).         *)
ArmOf(list, arm) ==
    LET first[n \in 0..Len(list)] ==
            IF n = 0 THEN <<>>
            ELSE IF Arm(list[n], pct) = arm THEN Append(first[n - 1], list[n])
            ELSE first[n - 1]
    IN  first[Len(list)]

Running == fire.shadow # <<>> \/ fire.control # <<>>

Items(list) == {list[i] : i \in DOMAIN list}

Fire(shadow, control) ==
    /\ ~Running /\ fires < MaxFires
    /\ fire' = [NoFire EXCEPT !.shadow = shadow, !.control = control,
                              !.targets = [shadow |-> Items(shadow), control |-> Items(control)]]
    /\ fires' = fires + 1
    /\ UNCHANGED <<pct, day, messaged>>

(* A bug to compare with: a ledger for each arm.                           *)
AllowedPerArm(user, arm) ==
    /\ user \notin Items(fire.sends[arm])
    /\ fire' = [fire EXCEPT ![arm] = Tail(@), !.seen = @ \cup {user},
                            !.sends[arm] = Append(@, user)]
    /\ messaged' = messaged \cup {<<user, day, fires, arm>>}

(* DedupLedger.allow and what reconcile does with its answer.              *)
Allowed(user, arm) ==
    /\ user \notin fire.seen
    /\ fire' = [fire EXCEPT ![arm] = Tail(@), !.seen = @ \cup {user},
                            !.sends[arm] = Append(@, user)]
    /\ messaged' = messaged \cup {<<user, day, fires, arm>>}

Blocked(user, arm) ==
    /\ user \in fire.seen
    /\ fire' = [fire EXCEPT ![arm] = Tail(@), !.blocked = @ \cup {user}]
    /\ UNCHANGED messaged

Turn(arm) == /\ fire[arm] # <<>> /\ (arm = "control" => fire.shadow = <<>>)
             /\ Allowed(Head(fire[arm]), arm) \/ Blocked(Head(fire[arm]), arm)
             /\ UNCHANGED <<pct, day, fires>>

(* The slice is widened or narrowed between fires.                         *)
Ramp(p) == ~Running /\ p # pct /\ pct' = p /\ UNCHANGED <<day, fire, fires, messaged>>

NextDay == ~Running /\ day < Days /\ day' = day + 1 /\ UNCHANGED <<pct, fire, fires, messaged>>

ShadowNext ==
    \/ \E list \in Lists : Fire(ArmOf(list, "shadow"), ArmOf(list, "control"))
    \/ \E shadow, control \in Lists : Fire(shadow, control)
    \/ \E arm \in Arms : Turn(arm)
    \/ \E p \in 0..Scale : Ramp(p)
    \/ NextDay

ShadowSpec == ShadowInit /\ [][ShadowNext]_shadowVars
-----------------------------------------------------------------------------
(* "never double-send a user while both systems run": within one fire, by   *)
(* neither system nor by both, in whatever lists the user appears.          *)
OncePerFire ==
    LET all == fire.sends["shadow"] \o fire.sends["control"]
    IN  Cardinality(Items(all)) = Len(all)

(* Nobody is lost between the two systems: when a fire is over, the new     *)
(* system has served its targets and MoEngage the rest of its own, and the  *)
(* blocked users are all served.                                            *)
FireIsComplete ==
    ~Running =>
        /\ Items(fire.sends["shadow"]) = fire.targets["shadow"]
        /\ Items(fire.sends["control"]) = fire.targets["control"] \ fire.targets["shadow"]
        /\ fire.targets["shadow"] \cap fire.targets["control"] \subseteq fire.blocked
        /\ fire.blocked \subseteq fire.targets["shadow"] \cup fire.targets["control"]

ReconcileIsExact == OncePerFire /\ FireIsComplete

(* "the slice is fixed, not re-rolled": widening it takes nobody out.       *)
RampUpKeepsArm ==
    [][pct' >= pct => \A user \in Users : Arm(user, pct) = "shadow" => Arm(user, pct') = "shadow"]_shadowVars

(* "blocks a second send to the same user within the run/day" (dedup.py).   *)
OncePerDay == \A s, t \in messaged : s[1] = t[1] /\ s[2] = t[2] => s = t
=============================================================================
