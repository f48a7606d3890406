---------------------------- MODULE RuleBuilder ----------------------------
(***************************************************************************)
(* The console's rule builder (src/frontend/src/features/audience/dsl.ts): *)
(* a rule is loaded into a query the builder can show, edited there, and   *)
(* read back as a rule for the cohort engine.                              *)
(*                                                                         *)
(* A query is [kind |-> "query", combinator, not, rules]; a rule of it is  *)
(* a query, [kind |-> "rule", field, operator, shape, value] with a list   *)
(* turned into texts, or [kind |-> "raw", node].  The builder's names of   *)
(* the operators stand one for one for the language's, whose names are     *)
(* used for both.                                                          *)
(***************************************************************************)
EXTENDS FrontEnd

(* Looks: what a text that looks like a number or a boolean looks like.    *)
(* RulesTyped: the rules a user enters.                                    *)
CONSTANTS Looks, RulesTyped, MaxRules

VARIABLE query

builder == <<text, events, query>>

Valueless == {"exists", "not_exists"}
Listed == {"in", "not_in", "between"}
-----------------------------------------------------------------------------
(* Values: join spells every item of a list, coerceScalar reads a text     *)
(* that looks like something else as that.                                 *)
Spelled(v) == IF v.type = "str" THEN v
              ELSE String(CHOOSE n \in DOMAIN Looks : Looks[n] = v)

CoerceScalar(v) == IF v.type = "str" /\ v.at \in DOMAIN Looks THEN Looks[v.at] ELSE v

NonEmpty(v) == v # String(0)

AttributeToRule(node) ==
    [kind |-> "rule", field |-> node.field, operator |-> node.operator,
     shape |-> IF node.operator \in Listed THEN "text" ELSE node.shape,
     value |-> CASE node.operator \in Valueless -> <<>>
                 [] node.operator \in Listed -> [i \in DOMAIN node.value |-> Spelled(node.value[i])]
                 [] OTHER -> node.value]

RuleToDsl(rule) ==
    CASE rule.kind = "raw" -> rule.node
      [] rule.operator \in Valueless ->
           [kind |-> "attribute", field |-> rule.field, operator |-> rule.operator,
            shape |-> "missing", value |-> <<>>]
      [] rule.operator \in Listed ->
           LET items == SelectSeq(rule.value, NonEmpty)
           IN  [kind |-> "attribute", field |-> rule.field, operator |-> rule.operator,
                shape |-> "list", value |-> [i \in DOMAIN items |-> CoerceScalar(items[i])]]
      [] OTHER ->
           [kind |-> "attribute", field |-> rule.field, operator |-> rule.operator,
            shape |-> rule.shape, value |-> [i \in DOMAIN rule.value |-> CoerceScalar(rule.value[i])]]
-----------------------------------------------------------------------------
Query(combinator, not, rules) ==
    [kind |-> "query", combinator |-> combinator, not |-> not, rules |-> rules]

(* groupToQuery and nodeToRuleOrGroup: a "not" over one group is the flag  *)
(* of that group, any other "not" the flag of a group of its own.          *)
RECURSIVE NodeToQuery(_)
NodeToQuery(node) ==
    LET rules(n) == [i \in DOMAIN n.children |-> NodeToQuery(n.children[i])]
    IN  CASE node.kind = "attribute" -> AttributeToRule(node)
          [] node.kind = "event" -> [kind |-> "raw", node |-> node]
          [] node.kind = "group" ->
               IF node.op # "not" THEN Query(node.op, FALSE, rules(node))
               ELSE IF Len(node.children) = 1 /\ node.children[1].kind = "group"
                    THEN [NodeToQuery(node.children[1]) EXCEPT !.not = TRUE]
                    ELSE Query("and", TRUE, rules(node))

(* dslToQuery: a bare condition becomes a group of one.                    *)
DslToQuery(node) ==
    IF node.kind = "group" THEN NodeToQuery(node)
    ELSE Query("and", FALSE, <<NodeToQuery(node)>>)

(* A bug to compare with: every group becomes an "and".                    *)
GroupOfAnd(group, children) ==
    IF group.not THEN Joined("not", <<Joined("and", children)>>) ELSE Joined("and", children)

GroupOf(group, children) ==
    LET inner == Joined(group.combinator, children)
    IN  IF group.not THEN Joined("not", <<inner>>) ELSE inner

(* queryToDsl.                                                             *)
RECURSIVE QueryToDsl(_)
QueryToDsl(group) ==
    GroupOf(group, [i \in DOMAIN group.rules |->
                      IF group.rules[i].kind = "query" THEN QueryToDsl(group.rules[i])
                      ELSE RuleToDsl(group.rules[i])])
-----------------------------------------------------------------------------
Empty == Query("and", FALSE, <<>>)

BuilderInit == Init /\ query = Empty

Describe == Next /\ query = Empty /\ UNCHANGED query

(* handleTranslate loads what the sentence was translated to.              *)
Load == /\ text.phrases # <<>> /\ query = Empty
        /\ query' = DslToQuery(Translate(text).match)
        /\ UNCHANGED <<text, events>>

(* The builder's buttons: a rule, or a group with nothing in it yet.       *)
Add(rule) == /\ Len(query.rules) < MaxRules
             /\ query' = [query EXCEPT !.rules = Append(@, rule)]
             /\ UNCHANGED <<text, events>>

AddRule == \E rule \in RulesTyped : Add(rule)
AddGroup == Add(Empty)

(* The combinator's menu.                                                  *)
Combine == /\ \E c \in {"and", "or"} : query' = [query EXCEPT !.combinator = c]
           /\ UNCHANGED <<text, events>>

BuilderNext == Describe \/ Load \/ AddRule \/ AddGroup \/ Combine

-----------------------------------------------------------------------------
Answers(node) == [u \in DOMAIN Users |-> EvalUser([match |-> node, exclude |-> <<>>], Users[u], events)]
Back(node) == QueryToDsl(DslToQuery(node))

(* What the builder shows of a translated sentence means what the sentence *)
(* was translated to: the same users, the same errors.                     *)
TranslationRoundTrips ==
    text.phrases # <<>> => Answers(Back(Translate(text).match)) = Answers(Translate(text).match)

(* A rule added to a query shown as an "and" only narrows the audience, in *)
(* an "or" it only widens it, events and typed values included.            *)
AddedRulesCompose ==
    [][AddRule /\ ~query.not /\ query.rules # <<>> =>
            \A u \in DOMAIN Users :
               LET before == Answers(QueryToDsl(query))[u]
                   after == Answers(QueryToDsl(query'))[u]
               IN  IF query.combinator = "and" THEN after = "true" => before = "true"
                   ELSE before = "true" => after = "true"]_query

(* "the builder's output can be compiled/evaluated by the backend"         *)
(* (dsl.ts): what is shown, if anything is, is a rule the parser accepts.  *)
OutputIsAccepted == query.rules # <<>> => Accepted(QueryToDsl(query), FALSE)

(* "round-trip queryToDsl(dslToQuery(x)) === x" (dsl.test.ts), for the     *)
(* exclusion of what a sentence selects: at least it selects the others.   *)
ExclusionRoundTrips ==
    LET others == Joined("not", <<Translate(text).match>>)
    IN  text.phrases # <<>> => Answers(Back(others)) = Answers(others)
=============================================================================
