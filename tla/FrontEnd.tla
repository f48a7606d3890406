------------------------------ MODULE FrontEnd ------------------------------
(***************************************************************************)
(* The two ways a rule is written without the language                     *)
(* (src/src/cohort_engine): translate turns a sentence into a segment      *)
(* (nl2sql.py), build a template's parameters (templates.py).              *)
(*                                                                         *)
(* A sentence is a sequence of phrases and the words that join them.  A    *)
(* phrase is what the matchers see of it: [topic, negated, compare,        *)
(* numbers, days, times] with the numbers in it in order, of which days    *)
(* and times (0: none) are also recognised by the word that follows them.  *)
(***************************************************************************)
EXTENDS CohortRules

(* Joins: the words that may join two phrases.                             *)
CONSTANTS Phrases, Joins, Users, EventLogs, MaxPhrases

VARIABLES text,    (* [phrases, joins]                                     *)
          events

vars == <<text, events>>

Code == [uae |-> 1, india |-> 2]
EventNamed == [logout |-> "User Logout", transfer |-> "Transfer"]
-----------------------------------------------------------------------------
Node(field, operator, shape, v) ==
    [kind |-> "attribute", field |-> field, operator |-> operator, shape |-> shape, value |-> <<v>>]
Number(n) == [type |-> "num", at |-> n]
Truth(b) == [type |-> "bool", at |-> IF b THEN 1 ELSE 0]
String(n) == [type |-> "str", at |-> n]
Joined(op, nodes) == [kind |-> "group", op |-> op, children |-> nodes]

Fired(event, times, days) ==
    [kind |-> "event", event |-> event, within |-> days, where |-> <<>>,
     frequency |-> [op |-> "at_least", value |-> Number(times)]]

(* The matchers: each gives at most one node for a clause, a sequence of   *)
(* phrases, and looks at all of it.                                        *)
Topics(clause) == {clause[i].topic : i \in DOMAIN clause}
Negated(clause) == \E i \in DOMAIN clause : clause[i].negated
Numbers(clause) == FlattenSeq([i \in DOMAIN clause |-> clause[i].numbers])

(* The first of the clause's phrases that gives days, or times.            *)
Given(clause, field, default) ==
    LET i == SelectInSeq(clause, LAMBDA p : p[field] # 0)
    IN  IF i = 0 THEN default ELSE clause[i][field]

MKyc(clause, negated) ==
    IF Topics(clause) \cap {"kyc", "unverified"} = {} THEN <<>>
    ELSE <<Node("is_kyc", "eq", "scalar", Truth(~negated /\ "unverified" \notin Topics(clause)))>>

MWallet(clause, negated) ==
    IF "wallet" \notin Topics(clause) THEN <<>>
    ELSE <<Node("wallet_activated", "eq", "scalar", Truth(~negated))>>

MPlatform(clause, negated) ==
    LET op == IF negated THEN "ne" ELSE "eq"
    IN  CASE "android" \in Topics(clause) -> <<Node("platform", op, "scalar", String(1))>>
          [] "ios" \in Topics(clause) -> <<Node("platform", op, "scalar", String(2))>>
          [] OTHER -> <<>>

(* The negation is not used.                                               *)
MBalance(clause, negated) ==
    LET said == {clause[i].compare : i \in DOMAIN clause}
        op == CASE "lte" \in said -> "lte" [] "gte" \in said -> "gte"
                [] "eq" \in said -> "eq" [] OTHER -> "gte"
    IN  IF "balance" \notin Topics(clause) \/ Numbers(clause) = <<>> THEN <<>>
        ELSE <<Node("balance", op, "scalar", Number(Numbers(clause)[1]))>>

MCountry(clause, negated) ==
    LET op == IF negated THEN "not_in" ELSE "in"
    IN  CASE "uae" \in Topics(clause) -> <<Node("country", op, "list", String(Code["uae"]))>>
          [] "india" \in Topics(clause) -> <<Node("country", op, "list", String(Code["india"]))>>
          [] OTHER -> <<>>

MEvent(clause, negated) ==
    LET name == IF "logout" \in Topics(clause) THEN "logout" ELSE "transfer"
        cond == Fired(EventNamed[name], Given(clause, "times", 1), Given(clause, "days", 0))
    IN  IF Topics(clause) \cap DOMAIN EventNamed = {} THEN <<>>
        ELSE IF negated THEN <<Joined("not", <<cond>>)>> ELSE <<cond>>

(* _match_clause: the nodes of all matchers, anded; <<>> for no match.     *)
MatchClause(clause) ==
    LET n == Negated(clause)
        hits == MKyc(clause, n) \o MWallet(clause, n) \o MPlatform(clause, n)
                  \o MBalance(clause, n) \o MCountry(clause, n) \o MEvent(clause, n)
    IN  IF Len(hits) > 1 THEN <<Joined("and", hits)>> ELSE hits

(* _split_clauses: "or" separates only where there is no "and"; then the   *)
(* comma does not.                                                         *)
Connector(t) == IF "or" \in Range(t.joins) /\ "and" \notin Range(t.joins) THEN "or" ELSE "and"

(* A bug to compare with: "or" never separates.                            *)
SeparatorsFixed(t) == {"and", ","}

Separators(t) == IF Connector(t) = "or" THEN {"or"} ELSE {"and", ","}

Clauses(t) ==
    LET ends == {i \in DOMAIN t.phrases :
                    i = Len(t.phrases) \/ t.joins[i] \in Separators(t)}
        end == SetToSortSeq(ends, <)
    IN  [k \in DOMAIN end |-> SubSeq(t.phrases, IF k = 1 THEN 1 ELSE end[k - 1] + 1, end[k])]

(* translate: reviewed when a clause was not matched, or there is none.    *)
Translate(t) ==
    LET clauses == Clauses(t)
        matches == [k \in DOMAIN clauses |-> MatchClause(clauses[k])]
        nodes == FlattenSeq(matches)
    IN  [match |-> IF Len(nodes) = 1 THEN nodes[1] ELSE Joined(Connector(t), nodes),
         requires_review |-> nodes = <<>> \/ Len(nodes) < Len(clauses)]
-----------------------------------------------------------------------------
(* The templates.                                                          *)
Kyc == Node("is_kyc", "eq", "scalar", Truth(TRUE))

HighValueWalletInactive(minBalance) ==
    Joined("and", <<Kyc, Node("balance", "gte", "scalar", Number(minBalance)),
                    Node("wallet_activated", "eq", "scalar", Truth(FALSE))>>)

DormantUsers(event, days) == Joined("not", <<Fired(event, 1, days)>>)

KycNoTransfer(days) == Joined("and", <<Kyc, DormantUsers("Transfer", days)>>)

FrequentEvent(event, times, days) == Fired(event, times, days)

CountrySegment(codes) == [Node("country", "in", "list", Null) EXCEPT !.value = codes]
-----------------------------------------------------------------------------
Init == text = [phrases |-> <<>>, joins |-> <<>>] /\ events \in EventLogs

Say(join, phrase) ==
    /\ Len(text.phrases) < MaxPhrases
    /\ text' = [phrases |-> Append(text.phrases, phrase),
                joins |-> IF text.phrases = <<>> THEN <<>> ELSE Append(text.joins, join)]
    /\ UNCHANGED events

Next == \E join \in Joins, phrase \in Phrases : Say(join, phrase)

Spec == Init /\ [][Next]_vars
-----------------------------------------------------------------------------
Selected(node) == Evaluate([match |-> node, exclude |-> <<>>], Users, events).ids
Everyone == {Users[i].customer_id : i \in DOMAIN Users}
Only(phrase) == [phrases |-> <<phrase>>, joins |-> <<>>]
Alone(phrase) == Translate(Only(phrase))

(* A translation that asks for no review is a rule the parser accepts, and *)
(* one it does not accept is always reviewed.                              *)
UnreviewedIsAccepted ==
    LET whole == Translate(text) IN whole.requires_review \/ Accepted(whole.match, FALSE)

(* The users that all, or with "or" some, of several audiences have.       *)
Together(connectives, sets) ==
    IF "or" \in connectives THEN UNION sets ELSE {u \in Everyone : \A chosen \in sets : u \in chosen}

(* What a sentence means, given what each of its phrases means alone.      *)
MeansAll(whole, each) ==
    /\ whole.requires_review = \E alone \in each : alone.requires_review
    /\ ~whole.requires_review =>
          Selected(whole.match) =
              Together(Range(text.joins), {Selected(alone.match) : alone \in each})

(* Phrases joined by "and" alone, or by "or" alone, do not disturb each    *)
(* other: the sentence selects the users that all, or some, of its phrases *)
(* select alone, and is reviewed when one of them would be.                *)
SeparatedMeansEach ==
    text.phrases # <<>> /\ Range(text.joins) \in {{}, {"and"}, {"or"}} =>
        MeansAll(Translate(text), {Alone(text.phrases[i]) : i \in DOMAIN text.phrases})

(* What a negation makes of a phrase, given what the phrase means without  *)
(* it: the others, except that the balance ignores it.                     *)
MeansNot(topic, negation, plain) ==
    ~plain.requires_review =>
        LET chosen == Selected(plain.match)
        IN  Selected(negation.match) = IF topic = "balance" THEN chosen ELSE Everyone \ chosen

(* A negated phrase selects the users that the phrase without the negation *)
(* does not, except that one on the balance ignores it.                    *)
NegationNegates ==
    \A p \in Range(text.phrases) :
        Len(text.phrases) = 1 /\ p.negated /\ p.topic # "unverified" =>
            MeansNot(p.topic, Translate(text), Alone([p EXCEPT !.negated = FALSE]))

(* Every template selects the users its docstring describes (whatever the   *)
(* sentence: one is enough).                                                *)
Occurrences(u, event, days) ==
    Cardinality({i \in DOMAIN events :
        /\ events[i].customer_id = Users[u].customer_id /\ events[i].event_name = event
        /\ events[i].ts \in (Now - days * PerDay)..Now})

IdsWhere(P(_)) == {Users[u].customer_id : u \in {v \in DOMAIN Users : P(v)}}

TemplatesSelect ==
    LET has(u, field, n) == Users[u].record[field].at = n
        promised(n) ==
          {<<KycNoTransfer(n),
             IdsWhere(LAMBDA u : has(u, "is_kyc", 1) /\ Occurrences(u, "Transfer", n) = 0)>>,
           <<DormantUsers("User Logout", n), IdsWhere(LAMBDA u : Occurrences(u, "User Logout", n) = 0)>>,
           <<FrequentEvent("Transfer", 2, n), IdsWhere(LAMBDA u : Occurrences(u, "Transfer", n) >= 2)>>,
           <<HighValueWalletInactive(n),
             IdsWhere(LAMBDA u : /\ has(u, "is_kyc", 1) /\ Users[u].record["balance"].at >= n
                                 /\ has(u, "wallet_activated", 0))>>,
           <<CountrySegment(<<String(n)>>), IdsWhere(LAMBDA u : has(u, "country", n))>>}
    IN  text.phrases = <<>> => \A n \in 1..2 : \A p \in promised(n) : Selected(p[1]) = p[2]

(* "Collect every condition recognized in the clause and AND them          *)
(* together" (nl2sql.py): phrases of one clause mean what each means alone.*)
ClauseIsConjunction ==
    text.phrases # <<>> /\ Range(text.joins) \subseteq {"with"}
      /\ (\A i \in DOMAIN text.phrases : ~Alone(text.phrases[i]).requires_review) =>
        \A u \in Everyone : u \in Selected(Translate(text).match) <=>
            \A i \in DOMAIN text.phrases : u \in Selected(Alone(text.phrases[i]).match)

(* Conditions "joined by and / or" are translated, and unrecognised ones   *)
(* are reported (README.md): every phrase of a sentence that is not to be  *)
(* reviewed is represented in its rule.                                    *)
RECURSIVE Conditions(_)
Conditions(node) == IF node.kind = "group" /\ node.op # "not"
                    THEN UNION {Conditions(node.children[i]) : i \in DOMAIN node.children}
                    ELSE {node}

NothingIsDropped ==
    text.phrases # <<>> /\ Range(text.joins) \subseteq {"and", "or"}
      /\ ~Translate(text).requires_review =>
        \A i \in DOMAIN text.phrases :
            Alone(text.phrases[i]).match \in Conditions(Translate(text).match)
=============================================================================
