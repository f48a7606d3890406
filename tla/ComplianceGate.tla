--------------------------- MODULE ComplianceGate ----------------------------
(***************************************************************************)
(* The route /copy/compliance: an author writes a text, a piece at a time, *)
(* has it checked, and may take the repaired text back and go on writing.  *)
(***************************************************************************)
EXTENDS Compliance

CONSTANTS Channels, Products, Pieces, MaxLength

ASSUME GateAssumption == Pieces \subseteq Seq(Characters)

VARIABLES text, channel, product, answer
gateVars == <<text, channel, product, answer>>

NoAnswer == [ok |-> FALSE, violations |-> {}, fixed_text |-> <<>>]

GateInit ==
    /\ channel \in Channels
    /\ product \in Products
    /\ text = <<>>
    /\ answer = NoAnswer

Write(piece) ==
    /\ Len(text) + Len(piece) <= MaxLength
    /\ text' = text \o piece
    /\ answer' = NoAnswer
    /\ UNCHANGED <<channel, product>>

\* The route: any string is checked, with the channel and product of the request.
Submit ==
    /\ answer' = Check(text, channel, product)
    /\ UNCHANGED <<text, channel, product>>

\* The author takes the repaired text.
Adopt ==
    /\ answer # NoAnswer
    /\ text' = answer.fixed_text
    /\ answer' = NoAnswer
    /\ UNCHANGED <<channel, product>>

GateNext == (\E piece \in Pieces : Write(piece)) \/ Submit \/ Adopt
GateSpec == GateInit /\ [][GateNext]_gateVars

-----------------------------------------------------------------------------
(* The answer fits its channel and carries the disclaimer its product       *)
(* requires, however long the text was: the truncation of `check` spares    *)
(* the disclaimer.  A text cut and repaired is never a hard failure of its  *)
(* disclaimer on a channel that has room for it.                            *)
AnswerIsShippable ==
    answer # NoAnswer =>
        /\ channel \in DOMAIN CHANNEL_MAX_LEN => Len(answer.fixed_text) <= CHANNEL_MAX_LEN[channel]
        /\ Required(product) => Mentions(answer.fixed_text, DISCLAIMER_TEXT)
        /\ "disclaimer_lost_to_truncation" \notin answer.violations

(* No text that is let through holds a banned claim, in any case, and no    *)
(* claim is split or formed by the repairs.                                 *)
NothingBannedShips == answer.ok => ~Mentions(answer.fixed_text, BANNED_CLAIM)

(* A repaired text, submitted again, is left as it is and nothing soft is   *)
(* flagged any more: the repairs of `check` do not feed on themselves.      *)
RepairIsFinal ==
    answer # NoAnswer =>
        LET again == Check(answer.fixed_text, channel, product)
        IN  again.fixed_text = answer.fixed_text /\ again.violations \subseteq HARD

(* The repaired text fits its channel with the required disclaimer, is      *)
(* final when checked again, and holds no banned claim when it is let       *)
(* through (compliance.check).                                              *)
RepairsHold == AnswerIsShippable /\ NothingBannedShips /\ RepairIsFinal

(* What the docstring of the module says of `ok`: no hard violation remains *)
(* in the text that ships.                                                  *)
OkMeansNoneRemains ==
    answer.ok => Flagged(answer.fixed_text, channel, product) \cap HARD = {}

(* What _strip_disclaimer says it takes away: a disclaimer at the end of    *)
(* the text.  When a required disclaimer is put back after a truncation,    *)
(* nothing but the disclaimer and the blanks around it stood there.         *)
OnlyTrailingIsStripped ==
    Required(product) /\ "over_length" \in answer.violations =>
        LET full == RStrip(WithDisclaimer(text, product))
            end  == SubSeq(full, Len(full) - Len(DISCLAIMER_TEXT) + 1, Len(full))
        IN  Lower(end) = Lower(DISCLAIMER_TEXT)
=============================================================================
