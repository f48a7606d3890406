---------------------------- MODULE CohortRules ----------------------------
(***************************************************************************)
(* The cohort rule language (src/src/cohort_engine): which specifications  *)
(* the parser accepts, and what the in-memory evaluator answers.           *)
(*                                                                         *)
(* A value is [type, at]: strings, numbers and booleans have a place in    *)
(* the order of their kind, and a boolean is Python's number 0 or 1.  Of   *)
(* the strings only the empty one, at 0, is a part of another.  A record   *)
(* is a function from fields to values.  A node is a record                *)
(*   [kind |-> "attribute", field, operator, shape, value]                 *)
(*   [kind |-> "event", event, frequency, within, where]                   *)
(*   [kind |-> "group", op, children]                                      *)
(* where shape is "missing", "scalar" or "list" (of the items of value), a *)
(* within of 0 is none, and where has at most one node.  What Python       *)
(* raises is an answer: "TypeError" or "EvaluationError".                  *)
(***************************************************************************)
EXTENDS Integers, Sequences, FiniteSets, SequencesExt

(* The reference time of the engine and the time units of a day.           *)
CONSTANTS Now, PerDay

Null == [type |-> "none", at |-> 0]
List == [type |-> "list", at |-> 0]
NoTime == -1

Comparisons == {"gt", "gte", "lt", "lte"}
ATTR_OPERATORS == Comparisons \cup
    {"eq", "ne", "in", "not_in", "exists", "not_exists", "between", "contains"}
FREQ_OPS == {"at_least", "at_most", "exactly", "min_percent", "predominantly"}
GROUP_OPS == {"and", "or", "not"}
-----------------------------------------------------------------------------
(* parse_node.  Accepted answers whether the parser takes the node.        *)
AcceptedAttribute(d) ==
    /\ d.field # ""
    /\ d.operator \in ATTR_OPERATORS
    /\ CASE d.operator \in {"exists", "not_exists"} -> TRUE
         [] d.operator \in {"in", "not_in"} -> d.shape = "list"
         [] d.operator = "between" -> d.shape = "list" /\ Len(d.value) = 2
         [] OTHER -> d.shape # "missing"

AcceptedFrequency(f) ==
    /\ f.op \in FREQ_OPS
    /\ f.op # "predominantly" => f.value.type = "num"
    /\ f.op = "min_percent" => f.value.at \in 0..100

RECURSIVE AcceptedOutside(_, _)

(* A bug to compare with: a group forgets that it stands inside a where.   *)
AcceptedOutside(d, inEventWhere) ==
    CASE d.kind = "group" ->
           /\ d.op \in GROUP_OPS /\ d.children # <<>>
           /\ \A i \in DOMAIN d.children : AcceptedOutside(d.children[i], FALSE)
      [] d.kind = "attribute" -> AcceptedAttribute(d)
      [] d.kind = "event" ->
           /\ ~inEventWhere
           /\ d.event # "" /\ AcceptedFrequency(d.frequency) /\ d.within >= 0
           /\ \A i \in DOMAIN d.where : AcceptedOutside(d.where[i], TRUE)

RECURSIVE Accepted(_, _)

Accepted(d, inEventWhere) ==
    CASE d.kind = "group" ->
           /\ d.op \in GROUP_OPS /\ d.children # <<>>
           /\ \A i \in DOMAIN d.children : Accepted(d.children[i], inEventWhere)
      [] d.kind = "attribute" -> AcceptedAttribute(d)
      [] d.kind = "event" ->
           /\ ~inEventWhere
           /\ d.event # "" /\ AcceptedFrequency(d.frequency) /\ d.within >= 0
           /\ \A i \in DOMAIN d.where : Accepted(d.where[i], TRUE)

(* parse_segment: [match |-> node, exclude |-> at most one node].          *)
AcceptedSegment(s) == /\ Accepted(s.match, FALSE)
                      /\ \A i \in DOMAIN s.exclude : Accepted(s.exclude[i], FALSE)
-----------------------------------------------------------------------------
(* Python's equality and order of values.                                  *)
Is(b) == IF b THEN "true" ELSE "false"
Numeric(v) == v.type \in {"num", "bool"}
Alike(a, b) == a.type = b.type \/ (Numeric(a) /\ Numeric(b))
Same(a, b) == Alike(a, b) /\ a.at = b.at

Compares(op, a, b) == CASE op = "gt" -> a.at > b.at
                        [] op = "gte" -> a.at >= b.at
                        [] op = "lt" -> a.at < b.at
                        [] op = "lte" -> a.at <= b.at

Ordered(op, a, b) == IF Alike(a, b) THEN Is(Compares(op, a, b)) ELSE "TypeError"

(* The comparand of an operator that takes one; the parser lets a list by. *)
Expected(cond) == IF cond.shape = "list" THEN List ELSE cond.value[1]
OneOf(v, values) == \E i \in DOMAIN values : Same(v, values[i])

Not(answer) == CASE answer = "true" -> "false" [] answer = "false" -> "true" [] OTHER -> answer

(* Python's all() and any(): the first answer that decides, or an error    *)
(* met before it.                                                          *)
FirstNot(skip, answers) == LET i == SelectInSeq(answers, LAMBDA a : a # skip)
                           IN  IF i = 0 THEN skip ELSE answers[i]

Present(field, record) == field \in DOMAIN record /\ record[field] # Null

(* _eval_attribute: a missing value satisfies no comparison.               *)
EvalAttribute(cond, record) ==
    LET actual == record[cond.field]
    IN  CASE cond.operator = "exists" -> Is(Present(cond.field, record))
          [] cond.operator = "not_exists" -> Is(~Present(cond.field, record))
          [] ~Present(cond.field, record) -> "false"
          [] cond.operator = "eq" -> Is(Same(actual, Expected(cond)))
          [] cond.operator = "ne" -> Is(~Same(actual, Expected(cond)))
          [] cond.operator \in Comparisons -> Ordered(cond.operator, actual, Expected(cond))
          [] cond.operator = "in" -> Is(OneOf(actual, cond.value))
          [] cond.operator = "not_in" -> Is(~OneOf(actual, cond.value))
          [] cond.operator = "between" ->
               FirstNot("true", <<Ordered("gte", actual, cond.value[1]),
                                  Ordered("lte", actual, cond.value[2])>>)
          [] cond.operator = "contains" ->
               Is(/\ actual.type = "str" /\ Expected(cond).type = "str"
                  /\ Expected(cond).at \in {0, actual.at})
          [] OTHER -> "EvaluationError"

(* _event_record: the properties, and where the event has a time, the      *)
(* dimensions of it; weekday() counts from Monday.                         *)
Weekday(ts) == (ts \div PerDay) % 7

EventRecord(ev) ==
    IF ev.ts = NoTime THEN ev.props
    ELSE [f \in DOMAIN ev.props \cup {"day_of_week", "hour_of_day"} |->
            CASE f = "day_of_week" -> [type |-> "num", at |-> Weekday(ev.ts)]
              [] f = "hour_of_day" -> [type |-> "num", at |-> (24 * (ev.ts % PerDay)) \div PerDay]
              [] OTHER -> ev.props[f]]

(* The events an event condition counts; a window excludes an event        *)
(* without a time.                                                         *)
InWindow(cond, ev) ==
    /\ ev.event_name = cond.event
    /\ cond.within > 0 => /\ ev.ts # NoTime
                          /\ Now - cond.within * PerDay <= ev.ts /\ ev.ts <= Now

Frequent(frequency, matching, total) ==
    LET val == frequency.value.at
    IN  CASE frequency.op = "at_least" -> matching >= val
          [] frequency.op = "at_most" -> matching <= val
          [] frequency.op = "exactly" -> matching = val
          [] frequency.op = "min_percent" -> total > 0 /\ matching * 100 >= val * total
          [] frequency.op = "predominantly" -> total > 0 /\ matching * 2 > total

(* _eval_node, and _eval_where where inWhere: there an event is an error.  *)
RECURSIVE EvalNode(_, _, _, _)

EvalEvent(cond, history) ==
    LET window == SelectSeq(history, LAMBDA ev : InWindow(cond, ev))
        answers == [i \in DOMAIN window |->
                      IF cond.where = <<>> THEN "true"
                      ELSE EvalNode(cond.where[1], EventRecord(window[i]), <<>>, TRUE)]
        raised == SelectInSeq(answers, LAMBDA a : a \notin {"true", "false"})
    IN  IF raised # 0 THEN answers[raised]
        ELSE Is(Frequent(cond.frequency, Len(SelectSeq(answers, LAMBDA a : a = "true")),
                         Len(window)))

EvalNode(node, record, history, inWhere) ==
    CASE node.kind = "attribute" -> EvalAttribute(node, record)
      [] node.kind = "event" -> IF inWhere THEN "EvaluationError" ELSE EvalEvent(node, history)
      [] node.kind = "group" ->
           LET answers == [i \in DOMAIN node.children |->
                             EvalNode(node.children[i], record, history, inWhere)]
           IN  CASE node.op = "and" -> FirstNot("true", answers)
                 [] node.op = "or" -> FirstNot("false", answers)
                 [] node.op = "not" -> Not(FirstNot("true", answers))
                 [] OTHER -> "EvaluationError"

(* evaluate_segment for one row of the user table.                         *)
EvalUser(s, user, events) ==
    LET history == SelectSeq(events, LAMBDA ev : ev.customer_id = user.customer_id)
        nodes == <<s.match>> \o s.exclude
        answers == [i \in DOMAIN nodes |-> EvalNode(nodes[i], user.record, history, FALSE)]
    IN  FirstNot("true", [i \in DOMAIN nodes |-> IF i = 1 THEN answers[1] ELSE Not(answers[i])])

Evaluate(s, users, events) ==
    LET answers == [i \in DOMAIN users |-> EvalUser(s, users[i], events)]
        raised == SelectInSeq(answers, LAMBDA a : a \notin {"true", "false"})
    IN  [raised |-> IF raised = 0 THEN "" ELSE answers[raised],
         ids |-> {users[i].customer_id : i \in {j \in DOMAIN users : answers[j] = "true"}}]
=============================================================================
