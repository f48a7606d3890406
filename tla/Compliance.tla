------------------------------ MODULE Compliance -----------------------------
(***************************************************************************)
(* The compliance gate of the copywriter                                   *)
(* (src/src/copywriting/compliance.py): what is flagged, what is repaired, *)
(* in the order of the code.                                               *)
(*                                                                         *)
(* A text is a sequence over a small alphabet: letters of either case, a   *)
(* space, an ellipsis.  One banned claim, "gu", stands for the list; the   *)
(* disclaimer is "Tc"; the limits and the number of letters that make a    *)
(* shout are scaled to match.  `violations` keeps the codes, as a set.     *)
(***************************************************************************)
EXTENDS Integers, Sequences, FiniteSets

CONSTANTS
    CHANNEL_MAX_LEN,        \* the limit of each channel that has one
    DISCLAIMER_PRODUCTS,
    SHOUT_MIN_LETTERS,
    Absent                    \* no channel

LowerOf == [c \in {"W", "G", "U", "T"} |->
               CASE c = "W" -> "w" [] c = "G" -> "g" [] c = "U" -> "u" [] c = "T" -> "t"]
Letters == {"w", "g", "u", "t", "c"} \cup DOMAIN LowerOf
BANNED_CLAIM    == <<"g", "u">>
DISCLAIMER_TEXT == <<"T", "c">>
Ellipsis        == <<"...">>
Characters      == Letters \cup {" ", "..."}

-----------------------------------------------------------------------------
(* Strings: lower(), `in`, rfind, rstrip and slices.                        *)

Lower(t) == [i \in DOMAIN t |-> IF t[i] \in DOMAIN LowerOf THEN LowerOf[t[i]] ELSE t[i]]
Places(p, t) == {i \in 1..(Len(t) - Len(p) + 1) : SubSeq(t, i, i + Len(p) - 1) = p}
Mentions(t, p) == Places(Lower(p), Lower(t)) # {}
Last(S) == CHOOSE x \in S \cup {0} : \A y \in S : y <= x
RStrip(t) == SubSeq(t, 1, Last({i \in DOMAIN t : t[i] # " "}))
Cut(t, n) == SubSeq(t, 1, IF n < 0 THEN 0 ELSE IF n < Len(t) THEN n ELSE Len(t))

-----------------------------------------------------------------------------
Count(t, S) == Cardinality({i \in DOMAIN t : t[i] \in S})
IsShouting(t) ==
    /\ Count(t, Letters) >= SHOUT_MIN_LETTERS
    /\ Count(t, DOMAIN LowerOf) * 10 >= Count(t, Letters) * 9

StripDisclaimer(t) ==
    IF Mentions(t, DISCLAIMER_TEXT)
    THEN RStrip(Cut(t, Last(Places(Lower(DISCLAIMER_TEXT), Lower(t))) - 1))
    ELSE t

Required(product) == product \in DISCLAIMER_PRODUCTS
Lacks(t, product) == Required(product) /\ ~Mentions(t, DISCLAIMER_TEXT)
Separator(t) == IF t # <<>> /\ t[Len(t)] = " " THEN <<>> ELSE <<" ">>
WithDisclaimer(t, product) ==
    IF Lacks(t, product) THEN t \o Separator(t) \o DISCLAIMER_TEXT ELSE t

Limit(channel, t) ==
    IF channel \in DOMAIN CHANNEL_MAX_LEN THEN CHANNEL_MAX_LEN[channel] ELSE Len(t)
Ending == <<" ">> \o DISCLAIMER_TEXT

\* A channel has room for more than an ellipsis and the disclaimer.
ASSUME ComplianceAssumption ==
    \A channel \in DOMAIN CHANNEL_MAX_LEN :
        CHANNEL_MAX_LEN[channel] \in Nat /\ CHANNEL_MAX_LEN[channel] > Len(Ending)

\* No room is kept for the ellipsis.
ShortenedOverByOne(t, product, limit) == Cut(t, limit) \o Ellipsis
Shortened(t, product, limit) ==
    Cut(IF Required(product)
        THEN RStrip(Cut(StripDisclaimer(t), limit - Len(Ending) - 1)) \o Ellipsis \o Ending
        ELSE RStrip(Cut(t, limit - 1)) \o Ellipsis,
        limit)

Fitted(t, product, limit) == IF Len(t) > limit THEN Shortened(t, product, limit) ELSE t
Fixed(t, channel, product) ==
    LET full == WithDisclaimer(t, product) IN Fitted(full, product, Limit(channel, full))

Banned(t) == Mentions(t, BANNED_CLAIM)

Flagged(t, channel, product) ==
    LET full == WithDisclaimer(t, product)
        flag(code, holds) == IF holds THEN {code} ELSE {}
    IN  flag("banned_claim", Banned(t)) \cup flag("shouting_all_caps", IsShouting(t))
        \cup flag("missing_disclaimer", Lacks(t, product))
        \cup flag("over_length", Len(full) > Limit(channel, full))
        \cup flag("disclaimer_lost_to_truncation", Lacks(Fixed(t, channel, product), product))

HARD == {"banned_claim", "shouting_all_caps", "disclaimer_lost_to_truncation"}

\* check: the result of the gate for a text.
Check(t, channel, product) ==
    [ok |-> Flagged(t, channel, product) \cap HARD = {},
     violations |-> Flagged(t, channel, product),
     fixed_text |-> Fixed(t, channel, product)]
=============================================================================
