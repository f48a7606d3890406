----------------------------- MODULE MCAudience -----------------------------
(***************************************************************************)
(* Who is addressed: the cohort engine on rules over attributes and over   *)
(* events, the natural language front end, the console's rule builder.     *)
(* The parts share no state.  A behaviour is a behaviour of one of them,   *)
(* the one in focus, while the others rest in an initial state, so that    *)
(* their state spaces add up and do not multiply.                          *)
(***************************************************************************)
EXTENDS Integers, Sequences, TLC

VARIABLES focus,
          users, events, index, phase, asked,   (* Cohort                *)
          text, happened, query                 (* FrontEnd, RuleBuilder *)

cohort == <<users, events, index, phase, asked>>
builder == <<text, happened, query>>

Num(n) == [type |-> "num", at |-> n]
Bool(b) == [type |-> "bool", at |-> IF b THEN 1 ELSE 0]
Str(n) == [type |-> "str", at |-> n]
Missing == [type |-> "none", at |-> 0]
Undated == -1
AE == Str(1)
IN_ == Str(2)

Attr(field, operator, v) ==
    [kind |-> "attribute", field |-> field, operator |-> operator, shape |-> "scalar", value |-> <<v>>]
AttrList(field, operator, vs) ==
    [kind |-> "attribute", field |-> field, operator |-> operator, shape |-> "list", value |-> vs]
AttrAlone(field, operator) ==
    [kind |-> "attribute", field |-> field, operator |-> operator, shape |-> "missing", value |-> <<>>]
Group(op, children) == [kind |-> "group", op |-> op, children |-> children]
Event(event, op, n, within, where) ==
    [kind |-> "event", event |-> event, frequency |-> [op |-> op, value |-> Num(n)],
     within |-> within, where |-> where]
Segment(match) == [match |-> match, exclude |-> <<>>]
-----------------------------------------------------------------------------
(* Attributes: two users and one event-derived tag; a field may be missing, *)
(* null, or a 1 where others have True; rules the parser refuses.           *)
NoTags == <<>>
ActiveTag == [active |-> Event("Opened", "at_least", 1, 1, <<>>)]
OpenedAt(cid, ts) == [customer_id |-> cid, event_name |-> "Opened", ts |-> ts, props |-> <<>>]

Records == {[is_kyc |-> Bool(TRUE), balance |-> Num(2), country |-> AE],
            [is_kyc |-> Bool(FALSE), balance |-> Num(1), country |-> Missing],
            [is_kyc |-> Num(1), balance |-> Num(1), country |-> IN_],
            [balance |-> Num(2), country |-> IN_],
            [is_kyc |-> Bool(TRUE), country |-> AE]}
AttributeRows == {[customer_id |-> c, record |-> r] : c \in {"u1", "u2"}, r \in Records}
AttributeLogs == {<<OpenedAt("u1", 20)>>, <<OpenedAt("u1", 4), OpenedAt("u2", 18)>>}

Simple == {Attr("is_kyc", "eq", Bool(TRUE)), Attr("is_kyc", "ne", Num(0)),
           Attr("balance", "gte", Num(2)), Attr("balance", "lt", Num(2)),
           AttrList("country", "not_in", <<AE>>), AttrList("is_kyc", "in", <<Num(1)>>),
           AttrList("balance", "between", <<Num(1), Num(1)>>),
           AttrAlone("country", "exists"), AttrAlone("is_kyc", "not_exists"),
           Attr("country", "contains", AE), AttrList("country", "ne", <<AE>>), ActiveTag.active}
Pairs == {<<a, b>> : a \in Simple, b \in {Attr("balance", "gt", Num(1)), ActiveTag.active,
                                          Attr("country", "ne", IN_)}}
Malformed == {Group("and", <<>>), Group("xor", <<AttrAlone("country", "exists")>>),
              Attr("", "eq", AE), Attr("balance", "near", Num(1)), AttrAlone("balance", "eq"),
              Attr("country", "in", AE), AttrList("balance", "between", <<Num(1)>>)}

AttributeSegments ==
    {Segment(n) : n \in Simple \cup Malformed \cup {Attr("country", "lte", Num(1)), Attr("country", "ne", Missing)}
                        \cup {Group("not", <<s>>) : s \in Simple}
                        \cup {Group("not", <<Group("not", <<s>>)>>) : s \in Simple}
                        \cup {Group(op, p) : op \in {"and", "or", "not"}, p \in Pairs}}
    \cup {[match |-> p[1], exclude |-> <<p[2]>>] : p \in Pairs}

A == INSTANCE Cohort WITH
       Now <- 20, PerDay <- 2, UserRows <- AttributeRows, EventLogs <- AttributeLogs,
       Segments <- AttributeSegments, Tags <- ActiveTag, MaxUsers <- 2
-----------------------------------------------------------------------------
(* Events: up to three of one user, on the edges of a window of a day, with *)
(* and without a time.                                                      *)
OneRow == {[customer_id |-> "u1", record |-> [balance |-> Num(1)]]}

Transfer(ts, props) == [customer_id |-> "u1", event_name |-> "Transfer", ts |-> ts, props |-> props]
TransfersAt == {Transfer(20, [amount |-> Num(1)]), Transfer(18, [amount |-> Num(2)]),
                Transfer(17, [amount |-> Num(2)]), Transfer(21, [amount |-> Num(1)]),
                Transfer(19, <<>>), Transfer(Undated, [amount |-> Num(2)])}
TransferLogs == UNION {[1..n -> TransfersAt] : n \in 0..3}

(* In turn: no more than what both evaluate alike; a missing amount, which  *)
(* only a "not" tells from a false comparison; a weekday; a wrong kind.     *)
Wheres == {<<>>, <<Attr("amount", "gte", Num(2))>>, <<Attr("hour_of_day", "lt", Num(12))>>,
           <<Group("or", <<Attr("amount", "eq", Num(2)), Attr("hour_of_day", "eq", Num(12))>>)>>,
           <<Attr("amount", "ne", Num(2))>>, <<Group("not", <<Attr("amount", "eq", Num(2))>>)>>,
           <<Attr("day_of_week", "eq", Num(3))>>, <<Attr("amount", "lt", AE)>>}
EventSegments ==
    {Segment(Event("Transfer", f[1], f[2], w, where)) :
        f \in {<<"at_least", 2>>, <<"at_most", 1>>, <<"exactly", 1>>,
               <<"min_percent", 50>>, <<"predominantly", 0>>, <<"min_percent", 101>>},
        w \in {0, 1}, where \in Wheres}
    \cup {Segment(Group("not", <<Event("Transfer", "at_least", 1, 1,
                                        <<Group("not", <<Attr("hour_of_day", "eq", Num(12))>>)>>)>>)),
          Segment(Event("Transfer", "at_least", 1, 1,
                        <<Group("not", <<Event("Transfer", "at_least", 1, 0, <<>>)>>)>>))}

E == INSTANCE Cohort WITH
       Now <- 20, PerDay <- 2, UserRows <- OneRow, EventLogs <- TransferLogs,
       Segments <- EventSegments, Tags <- NoTags, MaxUsers <- 1
-----------------------------------------------------------------------------
(* Sentences: phrases of the grammar in README.md, with and without a       *)
(* negation, and users in whom they differ.                                 *)
Phrase(topic, compare, numbers, days, times) ==
    {[topic |-> topic, negated |-> n, compare |-> compare, numbers |-> numbers,
      days |-> days, times |-> times] : n \in BOOLEAN}
Plain(phrases) == {p \in phrases : ~p.negated}

AllPhrases == UNION {Phrase("kyc", "", <<>>, 0, 0), Plain(Phrase("wallet", "", <<>>, 0, 0)),
                     Plain(Phrase("android", "", <<>>, 0, 0)), Phrase("balance", "gte", <<2>>, 0, 0),
                     Plain(Phrase("balance", "lte", <<>>, 0, 0)), Phrase("india", "", <<>>, 0, 0),
                     Phrase("transfer", "", <<1>>, 1, 0), Phrase("logout", "gte", <<2, 2>>, 2, 2),
                     Plain(Phrase("purple", "", <<>>, 0, 0))}
FewPhrases == {p \in AllPhrases : \/ p.topic \in {"kyc", "logout", "india"}
                                  \/ p.topic = "balance" /\ p.numbers # <<>> /\ ~p.negated}

User(id, kyc, wallet, platform, country, balance) ==
    [customer_id |-> id,
     record |-> [is_kyc |-> Bool(kyc), wallet_activated |-> Bool(wallet),
                 platform |-> Str(platform), country |-> Str(country), balance |-> Num(balance)]]
FourUsers == <<User("u1", TRUE, FALSE, 1, 1, 2), User("u2", TRUE, TRUE, 2, 2, 1),
               User("u3", FALSE, FALSE, 2, 1, 2), User("u4", FALSE, TRUE, 1, 2, 1)>>

Did(cid, name, ts) == [customer_id |-> cid, event_name |-> name, ts |-> ts, props |-> <<>>]
Logs == {<<>>,
         <<Did("u1", "Transfer", 18), Did("u1", "Transfer", 20), Did("u2", "Transfer", 17),
           Did("u3", "User Logout", 16), Did("u3", "User Logout", 19), Did("u4", "Transfer", 21)>>}

F == INSTANCE FrontEnd WITH
       Now <- 20, PerDay <- 2, Phrases <- AllPhrases, Joins <- {"and", "or", ",", "with"},
       Users <- FourUsers, EventLogs <- Logs, MaxPhrases <- 3, events <- happened

(* Rules as a user types them: 5, 6 and 7 are the texts "1", "2", "true".   *)
LooksLike == (5 :> Num(1)) @@ (6 :> Num(2)) @@ (7 :> Bool(TRUE))
Typed(field, operator, shape, places) ==
    [kind |-> "rule", field |-> field, operator |-> operator, shape |-> shape,
     value |-> [i \in DOMAIN places |-> Str(places[i])]]
TypedRules == {Typed("balance", "between", "text", <<5, 6>>), Typed("balance", "gt", "scalar", <<5>>),
               Typed("is_kyc", "ne", "scalar", <<7>>), Typed("country", "in", "text", <<1, 0>>),
               Typed("platform", "not_exists", "scalar", <<>>)}

B == INSTANCE RuleBuilder WITH
       Now <- 20, PerDay <- 2, Phrases <- FewPhrases, Joins <- {"and", "or", "with"},
       Users <- FourUsers, EventLogs <- Logs, MaxPhrases <- 2, Looks <- LooksLike,
       RulesTyped <- TypedRules, MaxRules <- 3, events <- happened
-----------------------------------------------------------------------------
InFocus(part) == focus = part

AudienceInit ==
    /\ \/ InFocus("attributes") /\ A!Init /\ B!BuilderInit /\ happened = <<>>
       \/ InFocus("events") /\ E!Init /\ B!BuilderInit /\ happened = <<>>
       \/ InFocus("sentences") /\ events = <<>> /\ E!Init /\ B!BuilderInit
       \/ InFocus("builder") /\ events = <<>> /\ E!Init /\ B!BuilderInit

AttributeStep == InFocus("attributes") /\ A!Next /\ UNCHANGED <<focus, builder>>
EventStep == InFocus("events") /\ E!Next /\ UNCHANGED <<focus, builder>>
SentenceStep == InFocus("sentences") /\ F!Next /\ UNCHANGED <<focus, cohort, query>>
BuilderStep == InFocus("builder") /\ B!BuilderNext /\ UNCHANGED <<focus, cohort>>

AudienceNext == AttributeStep \/ EventStep \/ SentenceStep \/ BuilderStep

AudienceSpec == AudienceInit /\ [][AudienceNext]_<<focus, cohort, builder>>
-----------------------------------------------------------------------------

(* "compile_sql(...) -> equivalent SQL" (engine.py), on rules over          *)
(* attributes.                                                              *)
SqlIsEquivalent == A!SqlIsEquivalent

(* A sentence that is not to be reviewed is a rule the parser accepts;      *)
(* phrases joined by one connective mean what each of them means alone; a   *)
(* negation selects the others, on the balance it is ignored; templates     *)
(* select whom they describe.                                               *)
SentencesMeanThePhrases ==
    InFocus("sentences") =>
        /\ F!UnreviewedIsAccepted /\ F!SeparatedMeansEach
        /\ F!NegationNegates /\ F!TemplatesSelect

(* What the builder shows of a sentence means the same as its rule, and a   *)
(* rule that is added narrows an "and" and widens an "or".                  *)
RulesComeBack ==
    /\ [](InFocus("builder") => B!TranslationRoundTrips)
    /\ B!AddedRulesCompose
=============================================================================
