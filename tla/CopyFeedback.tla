----------------------------- MODULE CopyFeedback ----------------------------
(***************************************************************************)
(* The feedback loop of the copywriter (src/src/copywriting/feedback.py)   *)
(* over a delivery log that grows, and the route /copy/select-best         *)
(* (src/src/services/content.py), which builds its records from the rows of*)
(* the request.  Variants are numbers, in the order of their names.        *)
(***************************************************************************)
EXTENDS Integers, Sequences, FiniteSets

CONSTANTS
    Variants,
    MaxLog,
    ViaRoute,   \* the records reach the ranking through the route
    NoVariant

ASSUME FeedbackAssumption ==
    Variants \subseteq Nat /\ NoVariant \notin Variants /\ MaxLog \in Nat /\ ViaRoute \in BOOLEAN

VARIABLE log

Records == [variant : Variants, sent : BOOLEAN, converted : BOOLEAN]

\* The route gives every row the status SENT.
AsReceived(r) == IF ViaRoute THEN [r EXCEPT !.sent = TRUE] ELSE r

FeedbackInit == log = <<>>
Deliver(r) == Len(log) < MaxLog /\ log' = Append(log, r)
FeedbackNext == \E r \in Records : Deliver(r)
FeedbackSpec == FeedbackInit /\ [][FeedbackNext]_log

-----------------------------------------------------------------------------
(* rank_by_performance: an order on the variants with a sent record.        *)

Only(S, l) == [i \in S |-> l[i]]
Rows(l) == [i \in DOMAIN l |-> AsReceived(l[i])]
Sent(v, l) == Cardinality({i \in DOMAIN l : l[i].variant = v /\ l[i].sent})
Conversions(v, l) ==
    Cardinality({i \in DOMAIN l : l[i].variant = v /\ l[i].sent /\ l[i].converted})
Known(l) == {v \in Variants : Sent(v, l) > 0}

\* The rate of v minus the rate of w, over the product of their sent records.
Lead(v, w, l) == Conversions(v, l) * Sent(w, l) - Conversions(w, l) * Sent(v, l)
\* Whichever was sent more comes first.
AheadByVolume(v, w, l) ==
    \/ Sent(v, l) > Sent(w, l)
    \/ Sent(v, l) = Sent(w, l) /\ v < w
Ahead(v, w, l) ==
    \/ Lead(v, w, l) > 0
    \/ Lead(v, w, l) = 0 /\ Sent(v, l) > Sent(w, l)
    \/ Lead(v, w, l) = 0 /\ Sent(v, l) = Sent(w, l) /\ v < w

Place(v, l) == 1 + Cardinality({w \in Known(l) : Ahead(w, v, l)})
Ranked(l) == [p \in 1..Cardinality(Known(l)) |-> CHOOSE v \in Known(l) : Place(v, l) = p]

SelectBest(l) == IF Known(l) = {} THEN NoVariant ELSE Ranked(l)[1]

\* epsilon_greedy: below one it exploits; at one it explores.
EpsilonGreedy(l, explore, tieBreaker) ==
    LET names == Ranked(l)
    IN  CASE names = <<>> -> NoVariant
          [] names # <<>> /\ explore /\ tieBreaker \in Known(l) -> tieBreaker
          [] names # <<>> /\ explore /\ tieBreaker \notin Known(l) ->
                 names[IF Len(names) > 1 THEN 2 ELSE 1]
          [] names # <<>> /\ ~explore -> names[1]

-----------------------------------------------------------------------------
(* Good news for the best variant, bad news for another, and news of a      *)
(* message that was never sent do not change which variant is best: the     *)
(* ranking of a log that grows never punishes a success.                    *)
GoodNewsKeepsTheBest ==
    [][log' # log =>
       LET l == Rows(log) next == Rows(log') new == next[Len(next)] best == SelectBest(l)
           good == new.variant = best /\ new.converted
           bad  == new.variant # best /\ ~new.converted /\ best # NoVariant /\ Conversions(best, l) > 0
       IN  ~new.sent \/ good \/ bad => SelectBest(next) = best]_log

(* Exploring without a preferred variant takes what would be the best if    *)
(* the best variant had never been sent.                                    *)
ExploresTheNextBest ==
    LET l      == Rows(log)
        others == {i \in DOMAIN l : l[i].variant # SelectBest(l)}
    IN  Cardinality(Known(l)) > 1 => EpsilonGreedy(l, TRUE, NoVariant) = SelectBest(Only(others, l))

(* What rank_by_performance says of its records: only those sent count.     *)
OnlySentCounts ==
    SelectBest(Rows(log)) = SelectBest(Only({i \in DOMAIN log : log[i].sent}, log))

(* Good news keeps the best variant the best, exploring takes the next best *)
(* one, and only records that were sent count.                              *)
FeedbackIsSound == GoodNewsKeepsTheBest /\ [](ExploresTheNextBest /\ OnlySentCounts)
=============================================================================
