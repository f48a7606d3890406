----------------------------- MODULE CohortSql -----------------------------
(***************************************************************************)
(* The query the rules compile to (src/src/cohort_engine/sql_compiler.py), *)
(* by what a database answers to it: a predicate is true, false or         *)
(* unknown (a comparison with NULL), a row is kept when it is true, and    *)
(* EXTRACT(DOW ...) counts from Sunday.                                    *)
(***************************************************************************)
EXTENDS CohortRules

(* A column of an alias that the row does not have, or has as NULL.        *)
Column(field, record) == IF field \in DOMAIN record THEN record[field] ELSE Null

(* A comparison is unknown when a side is NULL.                            *)
Known(a, b, truth) == IF a = Null \/ b = Null THEN "unknown" ELSE Is(truth)

SqlAnd(answers) == IF "false" \in answers THEN "false"
                   ELSE IF "unknown" \in answers THEN "unknown" ELSE "true"

SqlOr(answers) == IF "true" \in answers THEN "true"
                  ELSE IF "unknown" \in answers THEN "unknown" ELSE "false"

(* _attr_sql                                                               *)
SqlAttribute(cond, record) ==
    LET col == Column(cond.field, record)
        In == SqlOr({Known(col, cond.value[i], Same(col, cond.value[i])) : i \in DOMAIN cond.value})
    IN  CASE cond.operator = "exists" -> Is(col # Null)
          [] cond.operator = "not_exists" -> Is(col = Null)
          [] cond.operator = "eq" -> Known(col, Expected(cond), Same(col, Expected(cond)))
          [] cond.operator = "ne" -> Known(col, Expected(cond), ~Same(col, Expected(cond)))
          [] cond.operator \in Comparisons ->
               Known(col, Expected(cond), Compares(cond.operator, col, Expected(cond)))
          [] cond.operator = "in" -> In
          [] cond.operator = "not_in" -> Not(In)
          [] cond.operator = "between" ->
               SqlAnd({Known(col, cond.value[1], Compares("gte", col, cond.value[1])),
                       Known(col, cond.value[2], Compares("lte", col, cond.value[2]))})
          [] cond.operator = "contains" ->
               Known(col, Expected(cond), Expected(cond).at \in {0, col.at})
          [] OTHER -> "SqlCompileError"

(* The row of the events alias: the time dimensions are EXTRACTed from ts. *)
ExtractDow(ts) == (Weekday(ts) + 1) % 7

EventRow(ev) ==
    LET rec == EventRecord(ev)
    IN  [f \in DOMAIN rec |-> IF f = "day_of_week" /\ ev.ts # NoTime
                              THEN [type |-> "num", at |-> ExtractDow(ev.ts)]
                              ELSE rec[f]]

RECURSIVE SqlNode(_, _, _, _)


(* _event_sql: a COUNT of the rows for which the conditions are true.      *)
SqlEvent(cond, history) ==
    LET window == SelectSeq(history, LAMBDA ev : InWindow(cond, ev))
        matching == SelectSeq(window, LAMBDA ev :
            cond.where = <<>> \/ SqlNode(cond.where[1], EventRow(ev), <<>>, TRUE) = "true")
    IN  Is(Frequent(cond.frequency, Len(matching), Len(window)))

(* _group_sql                                                              *)
SqlGroup(op, answers) == CASE op = "and" -> SqlAnd(answers)
                           [] op = "or" -> SqlOr(answers)
                           [] op = "not" -> Not(SqlAnd(answers))

(* _node_sql and, inWhere, _where_sql.                                     *)
SqlNode(node, record, history, inWhere) ==
    CASE node.kind = "attribute" -> SqlAttribute(node, record)
      [] node.kind = "event" -> IF inWhere THEN "SqlCompileError" ELSE SqlEvent(node, history)
      [] node.kind = "group" ->
           LET answers == {SqlNode(node.children[i], record, history, inWhere) :
                              i \in DOMAIN node.children}
           IN  IF "SqlCompileError" \in answers THEN "SqlCompileError"
               ELSE SqlGroup(node.op, answers)

(* compile_segment: match, AND NOT exclude.                                *)
SqlUser(s, user, events) ==
    LET history == SelectSeq(events, LAMBDA ev : ev.customer_id = user.customer_id)
        Sql(node) == SqlNode(node, user.record, history, FALSE)
    IN  IF s.exclude = <<>> THEN Sql(s.match)
        ELSE SqlAnd({Sql(s.match), Not(Sql(s.exclude[1]))})

SqlIds(s, users, events) ==
    {users[i].customer_id : i \in {j \in DOMAIN users : SqlUser(s, users[j], events) = "true"}}
=============================================================================
