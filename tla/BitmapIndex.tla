---------------------------- MODULE BitmapIndex ----------------------------
(***************************************************************************)
(* The inverted index (src/src/cohort_engine/bitmap_engine.py): users are  *)
(* ordinals, every field has a bitmap of the ordinals that have it and one *)
(* posting per distinct value, and a rule is answered by set operations on *)
(* them.  A dict keeps the key it met first of two that are equal: a field *)
(* that mixes True and 1 has one posting.                                  *)
(***************************************************************************)
EXTENDS CohortRules

EmptyIndex == [n |-> 0, ids |-> <<>>, present |-> <<>>, postings |-> {}, all |-> {}]

PresentFields(record) == {f \in DOMAIN record : record[f] # Null}

(* BitmapIndex.add of the next user.                                       *)
Add(index, record, customer_id) ==
    LET o == index.n
        fields == PresentFields(record)
        Holds(p) == p.field \in fields /\ Same(p.key, record[p.field])
        fresh == {f \in fields : ~\E p \in index.postings : p.field = f /\ Holds(p)}
    IN  [index EXCEPT
           !.n = o + 1,
           !.ids = Append(@, customer_id),
           !.present = [f \in DOMAIN @ \cup fields |->
               (IF f \in DOMAIN @ THEN @[f] ELSE {}) \cup (IF f \in fields THEN {o} ELSE {})],
           !.postings = {IF Holds(p) THEN [p EXCEPT !.users = @ \cup {o}] ELSE p : p \in @}
                   \cup {[field |-> f, key |-> record[f], users |-> {o}] : f \in fresh}]

Finalized(index) == [index EXCEPT !.all = 0..(index.n - 1)]
-----------------------------------------------------------------------------
(* Answers are [raised, users]: an exception that is raised, or a bitmap.  *)
Bitmap(users) == [raised |-> "", users |-> users]
Raise(exception) == [raised |-> exception, users |-> {}]

Having(index, field) == IF field \in DOMAIN index.present THEN index.present[field] ELSE {}

ValueBitmap(index, field, v) ==
    UNION {p.users : p \in {q \in index.postings : q.field = field /\ Same(q.key, v)}}

ListBitmap(index, cond) ==
    UNION {ValueBitmap(index, cond.field, cond.value[i]) : i \in DOMAIN cond.value}

(* _numeric_range: a posting whose key is no number, or a boolean, is      *)
(* skipped, so only the comparand can be of another kind.                  *)
NumericRange(index, cond) ==
    LET postings == {p \in index.postings : p.field = cond.field /\ p.key.type = "num"}
        Test(p) == IF cond.operator = "between"
                   THEN FirstNot("true", <<Ordered("gte", p.key, cond.value[1]),
                                           Ordered("lte", p.key, cond.value[2])>>)
                   ELSE Ordered(cond.operator, p.key, Expected(cond))
    IN  IF \E p \in postings : Test(p) = "TypeError" THEN Raise("TypeError")
        ELSE Bitmap(UNION {p.users : p \in {q \in postings : Test(q) = "true"}})

(* _attr_bitmap.  A list is no key of a dict: eq and ne raise on it.       *)
AttrBitmap(index, cond) ==
    CASE cond.operator = "exists" -> Bitmap(Having(index, cond.field))
      [] cond.operator = "not_exists" -> Bitmap(index.all \ Having(index, cond.field))
      [] cond.operator \in {"eq", "ne"} /\ cond.shape = "list" -> Raise("TypeError")
      [] cond.operator = "eq" -> Bitmap(ValueBitmap(index, cond.field, Expected(cond)))
      [] cond.operator = "ne" ->
           Bitmap(Having(index, cond.field) \ ValueBitmap(index, cond.field, Expected(cond)))
      [] cond.operator = "in" -> Bitmap(ListBitmap(index, cond))
      [] cond.operator = "not_in" -> Bitmap(Having(index, cond.field) \ ListBitmap(index, cond))
      [] cond.operator \in Comparisons \cup {"between"} -> NumericRange(index, cond)
      [] OTHER -> Raise("BitmapUnsupported")

(* _node_bitmap and _group_bitmap: the first child that raises does.       *)
RECURSIVE NodeBitmap(_, _)

NodeBitmap(index, node) ==
    CASE node.kind = "attribute" -> AttrBitmap(index, node)
      [] node.kind = "event" -> Raise("BitmapUnsupported")
      [] node.kind = "group" ->
           LET bms == [i \in DOMAIN node.children |-> NodeBitmap(index, node.children[i])]
               raised == SelectInSeq(bms, LAMBDA b : b.raised # "")
               meet == {o \in index.all : \A i \in DOMAIN bms : o \in bms[i].users}
           IN  CASE raised # 0 -> bms[raised]
                 [] node.op = "and" -> Bitmap(meet)
                 [] node.op = "or" -> Bitmap(UNION {bms[i].users : i \in DOMAIN bms})
                 [] node.op = "not" -> Bitmap(index.all \ meet)
                 [] OTHER -> Raise("BitmapUnsupported")

SegmentBitmap(index, s) ==
    LET match == NodeBitmap(index, s.match)
    IN  IF s.exclude = <<>> \/ match.raised # "" THEN match
        ELSE LET exclude == NodeBitmap(index, s.exclude[1])
             IN  IF exclude.raised # "" THEN exclude ELSE Bitmap(match.users \ exclude.users)

BitmapIds(index, s) == {index.ids[o + 1] : o \in SegmentBitmap(index, s).users}

EstimateSize(index, s) == Cardinality(SegmentBitmap(index, s).users)
-----------------------------------------------------------------------------
(* Every user that has a field is in exactly one of its postings.          *)
PostingsPartition(index) ==
    /\ \A f \in DOMAIN index.present :
          index.present[f] = UNION {p.users : p \in {q \in index.postings : q.field = f}}
    /\ \A p, q \in index.postings : p # q /\ p.field = q.field => p.users \cap q.users = {}
=============================================================================
