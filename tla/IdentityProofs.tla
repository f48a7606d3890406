--------------------------- MODULE IdentityProofs ---------------------------
(***************************************************************************)
(* The identity resolver, for any ids, requests and number of threads: the *)
(* theorems of Identity.  A walk that another thread's compression         *)
(* overtakes keeps to the identity it was asked for, and what the threads  *)
(* do to the forest implements the partition of CustomerIdentity.          *)
(***************************************************************************)
EXTENDS Identity, Recursion, FiniteSetTheorems

(* The pointers p never lead to a larger id.                               *)
Forest(p) == p \in [Ids -> Ids \cup {Blank}] /\ \A i \in Ids : p[i] <= i

(* The roots of the pointers p: Root, for any value of parent.             *)
Tops(p) == {i \in Ids : p[i] \in {Blank, i}}
RootIn(p) == CHOOSE r : r = [i \in Ids |-> IF p[i] \in {Blank, i} THEN i ELSE r[p[i]]]

(* The representatives depend on the pointers alone.                       *)
LEMMA RootIsRootIn == Root = RootIn(parent)
  BY DEF Root, RootIn

(* Ids are positive numbers.                                               *)
LEMMA IdsAreNumbers == Ids \in SUBSET Nat /\ Blank \notin Ids /\ \A i \in Ids : i \in Nat
  BY IdentityAssumption DEF Blank

(* A pointer that does not stop leads down.                                *)
LEMMA PointersLeadDown ==
    ASSUME NEW p, Forest(p), NEW i \in Ids, p[i] \notin {Blank, i}
    PROVE  p[i] \in Ids /\ p[i] < i
  <1>1. p[i] \in Ids /\ p[i] <= i /\ p[i] # i
    BY DEF Forest
  <1>2. p[i] \in Nat /\ i \in Nat
    BY <1>1, IdsAreNumbers
  <1>. QED
    BY <1>1, <1>2

(* The recursion that defines the roots is well-founded.                   *)
LEMMA RootDefined ==
    ASSUME NEW p, Forest(p)
    PROVE  /\ RootIn(p) \in [Ids -> Ids]
           /\ \A i \in Ids : RootIn(p)[i] = IF p[i] \in {Blank, i} THEN i ELSE RootIn(p)[p[i]]
  <1> DEFINE stop == Tops(p)
             start == [i \in Ids |-> i]
             step == [q \in Ids \X Ids |-> q[2]]
  <1>1. \A i \in Ids : i \notin stop => p[i] \in Ids /\ p[i] < i
    BY PointersLeadDown DEF Tops
  <1>2. PICK r : Obeys(r, Ids, stop, p, start, step)
    <2> HIDE DEF stop, start, step
    <2>. QED
      BY <1>1, IdsAreNumbers, RecursionSolved
  <1>3. \A i \in Ids : r[i] \in Ids
    <2>1. \A i \in Ids : i \in stop => start[i] \in Ids
      OBVIOUS
    <2>2. \A i \in Ids, x \in Ids : i \notin stop => step[<<i, x>>] \in Ids
      OBVIOUS
    <2> HIDE DEF stop, start, step
    <2>. QED
      BY <1>1, <1>2, <2>1, <2>2, IdsAreNumbers, RecursionTyped
  <1>4. \A i \in Ids : r[i] = IF p[i] \in {Blank, i} THEN i ELSE r[p[i]]
    <2> TAKE i \in Ids
    <2>1. r[i] = IF i \in stop THEN start[i] ELSE step[<<i, r[p[i]]>>]
      <3> HIDE DEF stop, start, step
      <3>. QED
        BY <1>2, Zenon DEF Obeys
    <2>2. i \in stop <=> p[i] \in {Blank, i}
      BY DEF Tops
    <2>3. start[i] = i
      OBVIOUS
    <2>4. i \notin stop => step[<<i, r[p[i]]>>] = r[p[i]]
      BY <1>1, <1>3
    <2> HIDE DEF stop, start, step
    <2>. QED
      BY <2>1, <2>2, <2>3, <2>4
  <1>5. r = [i \in Ids |-> r[i]]
    <2> HIDE DEF stop, start, step
    <2>. QED
      BY <1>2 DEF Obeys
  <1>6. r = [i \in Ids |-> IF p[i] \in {Blank, i} THEN i ELSE r[p[i]]]
    <2> HIDE DEF stop, start, step
    <2>. QED
      BY <1>4, <1>5
  <1>7. RootIn(p) = [i \in Ids |-> IF p[i] \in {Blank, i} THEN i ELSE RootIn(p)[p[i]]]
    <2> HIDE DEF stop, start, step
    <2>. QED
      BY <1>6, Zenon DEF RootIn
  <1>8. \A i \in Ids : RootIn(p)[i] = IF p[i] \in {Blank, i} THEN i ELSE RootIn(p)[p[i]]
    BY <1>7, Zenon
  <1>9. \A i \in Ids : RootIn(p)[i] \in Ids
    <2> DEFINE Odd == {i \in Ids : RootIn(p)[i] \notin Ids}
    <2>1. SUFFICES ASSUME Odd # {}
                   PROVE  FALSE
      OBVIOUS
    <2>2. PICK i \in Odd : \A j \in Odd : i <= j
      <3>1. Odd \in SUBSET Nat
        BY IdsAreNumbers
      <3> HIDE DEF Odd
      <3>. QED
        BY <2>1, <3>1, LeastNumber
    <2>3. i \in Ids /\ RootIn(p)[i] \notin Ids
      OBVIOUS
    <2>4. p[i] \notin {Blank, i} /\ RootIn(p)[i] = RootIn(p)[p[i]]
      BY <1>8, <2>3
    <2>5. p[i] \in Ids /\ p[i] < i
      BY <2>3, <2>4, PointersLeadDown
    <2>6. p[i] \in Odd
      BY <2>3, <2>4, <2>5
    <2>7. i \in Nat /\ p[i] \in Nat
      BY <2>3, <2>5, IdsAreNumbers
    <2>. QED
      BY <2>2, <2>5, <2>6, <2>7
  <1>. QED
    BY <1>7, <1>8, <1>9

(* There is only one way to assign roots to the pointers.                  *)
LEMMA RootsAreUnique ==
    ASSUME NEW p, Forest(p), NEW r,
           \A i \in Ids : r[i] = IF p[i] \in {Blank, i} THEN i ELSE r[p[i]]
    PROVE  \A i \in Ids : RootIn(p)[i] = r[i]
  <1> DEFINE Differ == {i \in Ids : RootIn(p)[i] # r[i]}
  <1>1. SUFFICES ASSUME Differ # {}
                 PROVE  FALSE
    OBVIOUS
  <1>2. PICK i \in Differ : \A j \in Differ : i <= j
    <2>1. Differ \in SUBSET Nat
      BY IdsAreNumbers
    <2> HIDE DEF Differ
    <2>. QED
      BY <1>1, <2>1, LeastNumber
  <1>3. i \in Ids /\ RootIn(p)[i] # r[i]
    OBVIOUS
  <1>4. p[i] \notin {Blank, i} /\ RootIn(p)[i] = RootIn(p)[p[i]] /\ r[i] = r[p[i]]
    BY <1>3, RootDefined
  <1>5. p[i] \in Ids /\ p[i] < i
    BY <1>3, <1>4, PointersLeadDown
  <1>6. i \in Nat /\ p[i] \in Nat
    BY <1>3, <1>5, IdsAreNumbers
  <1>7. p[i] \in Differ
    BY <1>3, <1>4, <1>5
  <1>. QED
    BY <1>2, <1>5, <1>6, <1>7

(* A root is an id no larger than those it represents, and its own root.   *)
LEMMA RootsAreTops ==
    ASSUME NEW p, Forest(p), NEW i \in Ids
    PROVE  LET r == RootIn(p)[i] IN
           r \in Ids /\ r <= i /\ p[r] \in {Blank, r} /\ RootIn(p)[r] = r
  <1> DEFINE R == RootIn(p)
             Odd == {j \in Ids : ~ (R[j] <= j /\ p[R[j]] \in {Blank, R[j]})}
  <1>1. R \in [Ids -> Ids]
        /\ \A j \in Ids : R[j] = IF p[j] \in {Blank, j} THEN j ELSE R[p[j]]
    BY RootDefined
  <1>2. Odd = {}
    <2>1. SUFFICES ASSUME Odd # {}
                   PROVE  FALSE
      OBVIOUS
    <2>2. PICK j \in Odd : \A k \in Odd : j <= k
      <3>1. Odd \in SUBSET Nat
        BY IdsAreNumbers
      <3> HIDE DEF Odd
      <3>. QED
        BY <2>1, <3>1, LeastNumber
    <2> HIDE DEF R
    <2>3. j \in Ids /\ j \in Nat /\ ~ (R[j] <= j /\ p[R[j]] \in {Blank, R[j]})
      BY IdsAreNumbers
    <2>4. p[j] \notin {Blank, j} /\ R[j] = R[p[j]]
      BY <1>1, <2>3
    <2>5. p[j] \in Ids /\ p[j] < j
      BY <2>3, <2>4, PointersLeadDown
    <2>6. p[j] \in Nat /\ R[j] \in Nat
      BY <1>1, <2>3, <2>5, IdsAreNumbers
    <2>7. p[j] \notin Odd
      BY <2>2, <2>3, <2>5, <2>6
    <2>8. R[p[j]] <= p[j] /\ p[R[p[j]]] \in {Blank, R[p[j]]}
      BY <2>5, <2>7
    <2>. QED
      BY <2>3, <2>4, <2>5, <2>6, <2>8
  <1>3. R[i] \in Ids /\ R[i] <= i /\ p[R[i]] \in {Blank, R[i]}
    <2>1. i \notin Odd
      BY <1>2
    <2>2. R[i] <= i /\ p[R[i]] \in {Blank, R[i]}
      BY <2>1
    <2> HIDE DEF R
    <2>. QED
      BY <1>1, <2>2
  <1>4. R[R[i]] = R[i]
    <2> HIDE DEF R
    <2>. QED
      BY <1>1, <1>3
  <1>. QED
    BY <1>3, <1>4

(* An id is on its own way to the root.                                    *)
LEMMA OnOwnPath ==
    ASSUME Forest(parent), NEW i \in Ids
    PROVE  OnPath(i, i)
  <1> DEFINE stop == {k \in Ids : k = i \/ parent[k] \in {Blank, k}}
             start == [k \in Ids |-> IF k = i THEN TRUE ELSE FALSE]
             step == [q \in Ids \X BOOLEAN |-> q[2]]
             Reach(r) == r = [k \in Ids |-> k = i \/ (parent[k] \notin {Blank, k} /\ r[parent[k]])]
  <1>1. \A k \in Ids : k \notin stop => parent[k] \in Ids /\ parent[k] < k
    BY PointersLeadDown
  <1>2. PICK r : Obeys(r, Ids, stop, parent, start, step)
    <2> HIDE DEF stop, start, step
    <2>. QED
      BY <1>1, IdsAreNumbers, RecursionSolved
  <1>3. \A k \in Ids : r[k] \in BOOLEAN
    <2>1. \A k \in Ids : k \in stop => start[k] \in BOOLEAN
      OBVIOUS
    <2>2. \A k \in Ids, x \in BOOLEAN : k \notin stop => step[<<k, x>>] \in BOOLEAN
      OBVIOUS
    <2> HIDE DEF stop, start, step
    <2>. QED
      BY <1>1, <1>2, <2>1, <2>2, IdsAreNumbers, RecursionTyped
  <1>4. ASSUME NEW k \in Ids
        PROVE  r[k] = (k = i \/ (parent[k] \notin {Blank, k} /\ r[parent[k]]))
    <2>1. r[k] = IF k \in stop THEN start[k] ELSE step[<<k, r[parent[k]]>>]
      <3> HIDE DEF stop, start, step
      <3>. QED
        BY <1>2, Zenon DEF Obeys
    <2>2. CASE k = i
      <3>1. k \in stop /\ start[k] = TRUE
        BY <2>2
      <3>. QED
        BY <2>1, <2>2, <3>1, Zenon
    <2>3. CASE k # i /\ parent[k] \in {Blank, k}
      <3>1. k \in stop /\ start[k] = FALSE
        BY <2>3
      <3>. QED
        BY <2>1, <2>3, <3>1, Zenon
    <2>4. CASE k # i /\ parent[k] \notin {Blank, k}
      <3>1. k \notin stop
        BY <2>4
      <3>2. parent[k] \in Ids
        BY <1>1, <3>1
      <3>3. step[<<k, r[parent[k]]>>] = r[parent[k]]
        BY <1>3, <3>2
      <3>. QED
        BY <1>3, <2>1, <2>4, <3>1, <3>2, <3>3, Zenon
    <2>. QED
      BY <2>2, <2>3, <2>4, Zenon
  <1>5. Reach(r)
    <2>1. r = [k \in Ids |-> r[k]]
      <3> HIDE DEF stop, start, step
      <3>. QED
        BY <1>2 DEF Obeys
    <2>2. [k \in Ids |-> r[k]] = [k \in Ids |-> k = i \/ (parent[k] \notin {Blank, k} /\ r[parent[k]])]
      BY <1>4, Zenon
    <2>. QED
      BY <2>1, <2>2, Zenon
  <1>6. Reach(CHOOSE f : Reach(f))
    <2> HIDE DEF Reach
    <2>. QED
      BY <1>5, Zenon
  <1>7. (CHOOSE f : Reach(f))[i]
    <2> DEFINE f == CHOOSE g : Reach(g)
    <2>1. f = [k \in Ids |-> k = i \/ (parent[k] \notin {Blank, k} /\ f[parent[k]])]
      <3> HIDE DEF f
      <3>. QED
        BY <1>6, Zenon DEF f
    <2>2. f[i] = (i = i \/ (parent[i] \notin {Blank, i} /\ f[parent[i]]))
      <3> HIDE DEF f
      <3>. QED
        BY <2>1, Zenon
    <2>. QED
      BY <2>2, Zenon
  <1>8. i <= i
    BY IdsAreNumbers
  <1>. QED
    BY <1>7, <1>8, Zenon DEF OnPath

-----------------------------------------------------------------------------
(* Whatever is pointed at is registered.                                   *)
Closed == \A i \in Ids : parent[i] # Blank => parent[parent[i]] # Blank

(* What a walk knows of the ids it holds: they are registered, they have   *)
(* one root, and while it compresses it has that root, and the id it was   *)
(* asked for hangs under it as soon as the walk has left it.               *)
WalkOK(c, p, top) ==
    /\ c.id \in Ids /\ c.node \in Ids /\ c.root \in Ids
    /\ p[c.root] # Blank /\ p[c.node] # Blank
    /\ top[c.root] = top[c.id] /\ top[c.node] = top[c.id]
    /\ c.pc \in {"climb", "compress"}
    /\ c.pc = "climb" => c.node = c.id
    /\ c.pc = "compress" => c.root = top[c.id] /\ (c.node = c.id \/ p[c.id] = c.root)

(* The strengthening of WalksStayInside that is inductive.                 *)
ResolverInv == ResolverTypeOK /\ Closed /\ \A t \in Threads : call[t] # Idle => WalkOK(call[t], parent, Root)

(* The type of the pointers makes them a forest.                           *)
LEMMA ForestFromType ==
    ASSUME ResolverTypeOK
    PROVE  Forest(parent)
  BY DEF ResolverTypeOK, Forest

(* What the roots of the current pointers are.                             *)
LEMMA RootFacts ==
    ASSUME ResolverTypeOK
    PROVE  /\ Root \in [Ids -> Ids]
           /\ \A i \in Ids : /\ Root[i] = IF parent[i] \in {Blank, i} THEN i ELSE Root[parent[i]]
                             /\ Root[i] <= i /\ Root[Root[i]] = Root[i]
                             /\ parent[Root[i]] \in {Blank, Root[i]}
                             /\ parent[i] # Blank => Root[parent[i]] = Root[i]
  <1>1. Forest(parent)
    BY ForestFromType
  <1>2. /\ RootIn(parent) \in [Ids -> Ids]
        /\ \A i \in Ids : RootIn(parent)[i] = IF parent[i] \in {Blank, i} THEN i
                                              ELSE RootIn(parent)[parent[i]]
    BY <1>1, RootDefined
  <1>3. ASSUME NEW i \in Ids
        PROVE  /\ RootIn(parent)[i] <= i
               /\ RootIn(parent)[RootIn(parent)[i]] = RootIn(parent)[i]
               /\ parent[RootIn(parent)[i]] \in {Blank, RootIn(parent)[i]}
    BY <1>1, RootsAreTops
  <1>4. ASSUME NEW i \in Ids, parent[i] # Blank
        PROVE  RootIn(parent)[parent[i]] = RootIn(parent)[i]
    BY <1>2, <1>4
  <1>. QED
    BY <1>2, <1>3, <1>4, RootIsRootIn

(* Pointers that r obeys have r for their roots.                           *)
LEMMA RootNext ==
    ASSUME parent' \in [Ids -> Ids \cup {Blank}], \A i \in Ids : parent'[i] <= i,
           NEW r, r \in [Ids -> Ids],
           \A i \in Ids : r[i] = IF parent'[i] \in {Blank, i} THEN i ELSE r[parent'[i]]
    PROVE  Root' = r
  <1>1. Forest(parent')
    BY DEF Forest
  <1>2. RootIn(parent') \in [Ids -> Ids]
    BY <1>1, RootDefined
  <1>3. \A i \in Ids : RootIn(parent')[i] = r[i]
    BY <1>1, RootsAreUnique
  <1>4. RootIn(parent') = r
    BY <1>2, <1>3
  <1>. QED
    BY <1>4 DEF Root, RootIn

(* A registered id has a registered root.                                  *)
LEMMA RootRegistered ==
    ASSUME ResolverTypeOK, Closed, NEW i \in Ids, parent[i] # Blank
    PROVE  parent[Root[i]] = Root[i]
  <1> DEFINE Odd == {j \in Ids : parent[j] # Blank /\ parent[Root[j]] = Blank}
  <1>1. ASSUME Odd # {}
        PROVE  FALSE
    <2>1. PICK j \in Odd : \A k \in Odd : j <= k
      <3>1. Odd \in SUBSET Nat
        BY IdsAreNumbers
      <3> HIDE DEF Odd
      <3>. QED
        BY <1>1, <3>1, LeastNumber
    <2>2. j \in Ids /\ parent[j] # Blank /\ parent[Root[j]] = Blank
      OBVIOUS
    <2>3. parent[j] # j
      BY <2>2, RootFacts
    <2>4. parent[j] \in Ids /\ parent[j] < j
      BY <2>2, <2>3, ForestFromType, PointersLeadDown
    <2>5. Root[parent[j]] = Root[j]
      BY <2>2, RootFacts
    <2>6. parent[j] \in Odd
      BY <2>2, <2>4, <2>5 DEF Closed
    <2>7. j \in Nat /\ parent[j] \in Nat
      BY <2>2, <2>4, IdsAreNumbers
    <2>. QED
      BY <2>1, <2>4, <2>6, <2>7
  <1>2. i \notin Odd
    BY <1>1
  <1>3. parent[Root[i]] # Blank
    BY <1>2
  <1>. QED
    BY <1>3, RootFacts
-----------------------------------------------------------------------------
(* A request names an id or nothing.                                       *)
LEMMA NamedType ==
    ASSUME ResolverTypeOK, NEW request \in Requests
    PROVE  Named(request) \in Ids \cup {Blank}
  <1>1. /\ Text(request.customer_id) \in Ids \cup {Blank}
        /\ Text(request.phone) \in Ids \cup {Blank}
    BY IdentityAssumption DEF Text
  <1>2. \A key : Mapped(key) \in Ids \cup {Blank}
    BY DEF Mapped, ResolverTypeOK
  <1>3. /\ Mapped(<<"phone", Text(request.phone)>>) \in Ids \cup {Blank}
        /\ Mapped(<<"device", Text(request.device_id)>>) \in Ids \cup {Blank}
    BY <1>2
  <1> HIDE DEF Mapped, Text
  <1>. QED
    BY <1>1, <1>3 DEF Named, Else

(* resolve registers an id; nobody's root changes.                         *)
LEMMA ResolveKeepsRoots ==
    ASSUME ResolverInv, NEW t \in Threads, NEW request \in Requests, Resolve(t, request)
    PROVE  /\ parent' \in [Ids -> Ids \cup {Blank}] /\ \A i \in Ids : parent'[i] <= i
           /\ Closed' /\ Root' = Root
           /\ \A i \in Ids : parent[i] # Blank => parent'[i] = parent[i]
  <1> DEFINE id == Named(request)
  <1>1. /\ id \in Ids
        /\ parent' = [parent EXCEPT ![id] = IF @ = Blank THEN id ELSE @]
        /\ parent \in [Ids -> Ids \cup {Blank}] /\ \A i \in Ids : parent[i] <= i
    BY NamedType DEF Resolve, Registered, ResolverInv, ResolverTypeOK
  <1> HIDE DEF id
  <1>2. \A i \in Ids : parent'[i] = IF i = id /\ parent[i] = Blank THEN i ELSE parent[i]
    BY <1>1
  <1>3. parent' \in [Ids -> Ids \cup {Blank}] /\ \A i \in Ids : parent'[i] <= i
    BY <1>1, <1>2, IdsAreNumbers
  <1>4. Closed'
    BY <1>1, <1>2, IdsAreNumbers DEF Closed, ResolverInv
  <1>5. Root' = Root
    <2>1. \A i \in Ids : Root[i] = IF parent'[i] \in {Blank, i} THEN i ELSE Root[parent'[i]]
      BY <1>2, RootFacts DEF ResolverInv
    <2>. QED
      BY <1>3, <2>1, RootFacts, RootNext DEF ResolverInv
  <1>. QED
    BY <1>2, <1>3, <1>4, <1>5

(* Hanging an id under its root changes nobody's root.                     *)
LEMMA CompressKeepsRoots ==
    ASSUME ResolverInv, NEW t \in Threads, Compress(t)
    PROVE  /\ parent' \in [Ids -> Ids \cup {Blank}] /\ \A i \in Ids : parent'[i] <= i
           /\ Closed' /\ Root' = Root
           /\ \A i \in Ids : parent[i] # Blank => parent'[i] # Blank
           /\ \A i \in Ids : parent'[i] = parent[i] \/ parent'[i] = Root[i]
  <1> DEFINE node == call[t].node
             root == call[t].root
  <1>1. WalkOK(call[t], parent, Root) /\ call[t].pc = "compress"
    BY DEF Compress, Idle, ResolverInv
  <1>2. /\ node \in Ids /\ root \in Ids /\ root = Root[node] /\ parent[node] # Blank
        /\ parent[root] # Blank
    BY <1>1 DEF WalkOK
  <1>3. parent' = [parent EXCEPT ![node] = root]
        /\ parent \in [Ids -> Ids \cup {Blank}] /\ \A i \in Ids : parent[i] <= i
    BY DEF Compress, ResolverInv, ResolverTypeOK
  <1> HIDE DEF node, root
  <1>4. \A i \in Ids : parent'[i] = IF i = node THEN Root[node] ELSE parent[i]
    BY <1>2, <1>3
  <1>5. /\ Root[node] \in Ids /\ Root[node] # Blank /\ Root[node] <= node
        /\ Root[Root[node]] = Root[node]
    BY <1>2, RootFacts, IdsAreNumbers DEF ResolverInv
  <1>6. parent' \in [Ids -> Ids \cup {Blank}] /\ \A i \in Ids : parent'[i] <= i
    BY <1>2, <1>3, <1>4, <1>5
  <1>7. \A i \in Ids : parent[i] # Blank => parent'[i] # Blank
    BY <1>4, <1>5
  <1>8. Closed'
    <2>1. ASSUME NEW i \in Ids, parent'[i] # Blank
          PROVE  parent'[parent'[i]] # Blank
      <3>1. parent'[i] \in Ids
        BY <1>6, <2>1
      <3>2. parent[parent'[i]] # Blank
        BY <1>2, <1>4, <2>1 DEF Closed, ResolverInv
      <3>. QED
        BY <1>7, <3>1, <3>2
    <2>. QED
      BY <2>1 DEF Closed
  <1>9. Root' = Root
    <2>1. \A i \in Ids : Root[i] = IF parent'[i] \in {Blank, i} THEN i ELSE Root[parent'[i]]
      BY <1>4, <1>5, RootFacts DEF ResolverInv
    <2>. QED
      BY <1>6, <2>1, RootFacts, RootNext DEF ResolverInv
  <1>. QED
    BY <1>4, <1>6, <1>7, <1>8, <1>9

(* So does compressing a whole path at once, when the table is loaded.     *)
LEMMA AddMappingKeepsRoots ==
    ASSUME ResolverInv, NEW key \in AltKeys, NEW id \in Ids, AddMapping(key, id)
    PROVE  /\ parent' \in [Ids -> Ids \cup {Blank}] /\ \A i \in Ids : parent'[i] <= i
           /\ Closed' /\ Root' = Root
  <1>1. parent' = [j \in Ids |-> IF OnPath(id, j) THEN Root[id] ELSE parent[j]]
    BY DEF AddMapping, Found
  <1>2. /\ Root \in [Ids -> Ids] /\ parent \in [Ids -> Ids \cup {Blank}]
        /\ \A i \in Ids : parent[i] <= i
    BY RootFacts DEF ResolverInv, ResolverTypeOK
  <1>3. /\ Root[id] \in Ids /\ Root[id] # Blank /\ Root[Root[id]] = Root[id]
        /\ Root[id] <= id
    BY <1>2, RootFacts, IdsAreNumbers DEF ResolverInv
  <1>4. ASSUME NEW j \in Ids
        PROVE  \/ parent'[j] = Root[id] /\ Root[j] = Root[id]
               \/ parent'[j] = parent[j]
    BY <1>1 DEF OnPath
  <1>5. parent' \in [Ids -> Ids \cup {Blank}] /\ \A i \in Ids : parent'[i] <= i
    <2>1. \A j \in Ids : parent'[j] \in Ids \cup {Blank}
      BY <1>2, <1>3, <1>4
    <2>2. \A j \in Ids : parent'[j] <= j
      BY <1>2, <1>4, RootFacts DEF ResolverInv
    <2>. QED
      BY <1>1, <2>1, <2>2
  <1>6. \A i \in Ids : parent[i] # Blank => parent'[i] # Blank
    BY <1>3, <1>4
  <1>7. parent'[Root[id]] # Blank
    <2>1. CASE parent[id] = Blank
      <3>1. OnPath(id, id) /\ Root[id] = id
        BY <2>1, OnOwnPath, ForestFromType, RootFacts DEF ResolverInv
      <3>. QED
        BY <1>1, <1>3, <3>1
    <2>2. CASE parent[id] # Blank
      <3>1. parent[Root[id]] # Blank
        BY <1>3, <2>2, RootRegistered DEF ResolverInv
      <3>. QED
        BY <1>3, <1>6, <3>1
    <2>. QED
      BY <2>1, <2>2
  <1>8. Closed'
    <2>1. ASSUME NEW i \in Ids, parent'[i] # Blank
          PROVE  parent'[parent'[i]] # Blank
      <3>1. CASE parent'[i] = Root[id]
        BY <1>7, <3>1
      <3>2. CASE parent'[i] = parent[i]
        <4>1. parent[i] # Blank /\ parent[i] \in Ids
          BY <1>2, <2>1, <3>2
        <4>2. parent[parent[i]] # Blank
          BY <4>1 DEF Closed, ResolverInv
        <4>. QED
          BY <1>6, <3>2, <4>1, <4>2
      <3>. QED
        BY <1>4, <3>1, <3>2
    <2>. QED
      BY <2>1 DEF Closed
  <1>9. Root' = Root
    <2>1. ASSUME NEW i \in Ids
          PROVE  Root[i] = IF parent'[i] \in {Blank, i} THEN i ELSE Root[parent'[i]]
      <3>1. CASE parent'[i] = Root[id] /\ Root[i] = Root[id]
        BY <1>3, <3>1
      <3>2. CASE parent'[i] = parent[i]
        BY <3>2, RootFacts DEF ResolverInv
      <3>. QED
        BY <1>4, <3>1, <3>2
    <2>. QED
      BY <1>2, <1>5, <2>1, RootNext
  <1>. QED
    BY <1>5, <1>8, <1>9

(* merge gives the two identities the smaller root, and nobody else's      *)
(* changes.                                                                *)
LEMMA MergeUnites ==
    ASSUME ResolverInv, NEW a \in Ids, NEW b \in Ids, Merge(a, b)
    PROVE  /\ parent' \in [Ids -> Ids \cup {Blank}] /\ \A i \in Ids : parent'[i] <= i
           /\ Closed' /\ Promise!Union(a, b)
  <1> DEFINE ra == Root[a]
             rb == Root[b]
             kept == IF ra <= rb THEN ra ELSE rb
             united == [i \in Ids |-> IF Root[i] \in {ra, rb} THEN kept ELSE Root[i]]
  <1>1. parent' = [j \in Ids |-> IF j \in {ra, rb} THEN kept
                                 ELSE IF OnPath(a, j) THEN ra
                                 ELSE IF OnPath(b, j) THEN rb ELSE parent[j]]
    BY DEF Merge
  <1>2. /\ Root \in [Ids -> Ids] /\ parent \in [Ids -> Ids \cup {Blank}]
        /\ \A i \in Ids : parent[i] <= i
        /\ \A i \in Ids : Root[i] <= i /\ Root[i] \in Nat /\ i \in Nat
    <2>1. /\ Root \in [Ids -> Ids] /\ parent \in [Ids -> Ids \cup {Blank}]
          /\ \A i \in Ids : parent[i] <= i
          /\ \A i \in Ids : Root[i] <= i
      BY RootFacts DEF ResolverInv, ResolverTypeOK
    <2>. QED
      BY <2>1, IdsAreNumbers
  <1>3. /\ ra \in Ids /\ rb \in Ids /\ Root[ra] = ra /\ Root[rb] = rb
        /\ ra # Blank /\ rb # Blank /\ ra \in Nat /\ rb \in Nat
    BY <1>2, RootFacts, IdsAreNumbers DEF ResolverInv
  <1>4. kept \in {ra, rb} /\ kept <= ra /\ kept <= rb
    BY <1>3
  <1>5. ASSUME NEW j \in Ids
        PROVE  \/ j \in {ra, rb} /\ parent'[j] = kept
               \/ j \notin {ra, rb} /\ parent'[j] \in {ra, rb} /\ Root[j] = parent'[j]
               \/ j \notin {ra, rb} /\ parent'[j] = parent[j]
    BY <1>1 DEF OnPath
  <1> HIDE DEF ra, rb, kept
  <1>6. parent' \in [Ids -> Ids \cup {Blank}] /\ \A i \in Ids : parent'[i] <= i
    <2>1. \A j \in Ids : parent'[j] \in Ids \cup {Blank}
      BY <1>2, <1>3, <1>4, <1>5
    <2>2. \A j \in Ids : parent'[j] <= j
      BY <1>2, <1>3, <1>4, <1>5
    <2>. QED
      BY <1>1, <2>1, <2>2
  <1>7. \A i \in Ids : parent[i] # Blank => parent'[i] # Blank
    BY <1>3, <1>4, <1>5
  <1>8. Closed'
    <2>1. parent'[ra] # Blank /\ parent'[rb] # Blank
      BY <1>3, <1>4, <1>5
    <2>2. ASSUME NEW i \in Ids, parent'[i] # Blank
          PROVE  parent'[parent'[i]] # Blank
      <3>1. CASE parent'[i] \in {ra, rb}
        BY <2>1, <3>1
      <3>2. CASE parent'[i] = parent[i]
        <4>1. parent[i] # Blank /\ parent[i] \in Ids
          BY <1>2, <2>2, <3>2
        <4>2. parent[parent[i]] # Blank
          BY <4>1 DEF Closed, ResolverInv
        <4>. QED
          BY <1>7, <3>2, <4>1, <4>2
      <3>. QED
        BY <1>4, <1>5, <3>1, <3>2
    <2>. QED
      BY <2>2 DEF Closed
  <1>9. Root' = united
    <2>1. united \in [Ids -> Ids]
      BY <1>2, <1>3, <1>4
    <2>2. ASSUME NEW i \in Ids
          PROVE  united[i] = IF parent'[i] \in {Blank, i} THEN i ELSE united[parent'[i]]
      <3>1. CASE i \in {ra, rb} /\ parent'[i] = kept
        <4>1. united[i] = kept /\ united[kept] = kept /\ kept # Blank
          BY <1>3, <1>4, <3>1
        <4> HIDE DEF united
        <4>. QED
          BY <3>1, <4>1
      <3>2. CASE i \notin {ra, rb} /\ parent'[i] \in {ra, rb} /\ Root[i] = parent'[i]
        <4>1. united[i] = kept /\ united[parent'[i]] = kept
          BY <1>3, <3>2
        <4> HIDE DEF united
        <4>. QED
          BY <1>3, <3>2, <4>1
      <3>3. CASE i \notin {ra, rb} /\ parent'[i] = parent[i]
        <4>1. CASE parent[i] \in {Blank, i}
          <5>1. Root[i] = i
            BY <4>1, RootFacts DEF ResolverInv
          <5>. QED
            BY <3>3, <4>1, <5>1
        <4>2. CASE parent[i] \notin {Blank, i}
          <5>1. Root[i] = Root[parent[i]] /\ parent[i] \in Ids
            BY <1>2, <4>2, RootFacts DEF ResolverInv
          <5>. QED
            BY <3>3, <4>2, <5>1
        <4>. QED
          BY <4>1, <4>2
      <3>. QED
        BY <1>5, <3>1, <3>2, <3>3
    <2> HIDE DEF united
    <2>. QED
      BY <1>6, <2>1, <2>2, RootNext
  <1>10. Promise!Union(a, b)
    BY <1>9 DEF Promise!Union, Promise!Smaller, ra, rb, kept
  <1>. QED
    BY <1>6, <1>8, <1>10

-----------------------------------------------------------------------------
(* A walk's knowledge survives whatever keeps the roots, the registrations *)
(* and the pointers that already lead to a root.                           *)
LEMMA WalkKept ==
    ASSUME NEW c, WalkOK(c, parent, Root), Root' = Root,
           \A i \in Ids : parent[i] # Blank => parent'[i] # Blank,
           parent[c.id] = Root[c.id] => parent'[c.id] = Root[c.id]
    PROVE  WalkOK(c, parent', Root')
  BY DEF WalkOK

(* While nobody walks there is nothing to know.                            *)
LEMMA QuietWalks ==
    ASSUME Quiet, UNCHANGED call
    PROVE  \A t \in Threads : call'[t] # Idle => WalkOK(call'[t], parent', Root')
  BY DEF Quiet

(* What a call is made of.                                                 *)
LEMMA CallType ==
    ASSUME ResolverTypeOK, NEW t \in Threads
    PROVE  call[t] \in [pc : {"idle", "climb", "compress"}, id : Ids \cup {Blank},
                        node : Ids \cup {Blank}, root : Ids \cup {Blank}]
  BY DEF ResolverTypeOK

(* resolve: the new walk starts right, the others go on.                   *)
LEMMA ResolveInv ==
    ASSUME ResolverInv, NEW t \in Threads, NEW request \in Requests, Resolve(t, request)
    PROVE  ResolverInv'
  <1> DEFINE id == Named(request)
             new == [pc |-> "climb", id |-> id, node |-> id, root |-> id]
  <1>1. /\ parent' \in [Ids -> Ids \cup {Blank}] /\ \A i \in Ids : parent'[i] <= i
        /\ Closed' /\ Root' = Root
        /\ \A i \in Ids : parent[i] # Blank => parent'[i] = parent[i]
    BY ResolveKeepsRoots
  <1>2. id \in Ids /\ id # Blank /\ parent'[id] # Blank
    BY NamedType, IdsAreNumbers DEF Resolve, Registered, ResolverInv, ResolverTypeOK
  <1>3. call' = [call EXCEPT ![t] = new] /\ mapping' = mapping
    BY DEF Resolve
  <1>4. new \in [pc : {"idle", "climb", "compress"}, id : Ids \cup {Blank},
                 node : Ids \cup {Blank}, root : Ids \cup {Blank}]
    BY <1>2
  <1>5. WalkOK(new, parent', Root')
    BY <1>2 DEF WalkOK
  <1> HIDE DEF new, id
  <1>6. ResolverTypeOK'
    BY <1>1, <1>3, <1>4 DEF ResolverTypeOK, ResolverInv
  <1>7. call'[t] = new /\ \A u \in Threads \ {t} : call'[u] = call[u]
    BY <1>3 DEF ResolverInv, ResolverTypeOK
  <1>8. ASSUME NEW u \in Threads, call'[u] # Idle
        PROVE  WalkOK(call'[u], parent', Root')
    <2>1. CASE u = t
      BY <1>5, <1>7, <2>1
    <2>2. CASE u # t
      <3> DEFINE c == call[u]
      <3>1. WalkOK(c, parent, Root) /\ call'[u] = c
        BY <1>7, <1>8, <2>2 DEF ResolverInv
      <3> HIDE DEF c
      <3>2. c.id \in Ids /\ Root[c.id] # Blank
        <4>1. c.id \in Ids
          BY <3>1 DEF WalkOK
        <4>2. Root[c.id] \in Ids
          BY <4>1, RootFacts DEF ResolverInv
        <4>. QED
          BY <4>1, <4>2, IdsAreNumbers
      <3>3. WalkOK(c, parent', Root')
        BY <1>1, <3>1, <3>2, WalkKept
      <3>. QED
        BY <3>1, <3>3
    <2>. QED
      BY <2>1, <2>2
  <1>. QED
    BY <1>1, <1>6, <1>8 DEF ResolverInv

(* One turn of the walk: the pointer followed stays within the identity.   *)
LEMMA ClimbInv ==
    ASSUME ResolverInv, NEW t \in Threads, Climb(t)
    PROVE  ResolverInv'
  <1> DEFINE c == call[t]
             next == parent[c.root]
             new == IF next = c.root THEN [c EXCEPT !.pc = "compress"] ELSE [c EXCEPT !.root = next]
  <1>1. UNCHANGED <<mapping, parent>> /\ call' = [call EXCEPT ![t] = new]
    BY DEF Climb
  <1>2. Root' = Root
    BY <1>1 DEF Root
  <1>3. WalkOK(c, parent, Root) /\ c.pc = "climb"
    BY DEF Climb, Idle, ResolverInv
  <1>4. c \in [pc : {"idle", "climb", "compress"}, id : Ids \cup {Blank},
               node : Ids \cup {Blank}, root : Ids \cup {Blank}]
    BY CallType DEF ResolverInv
  <1> HIDE DEF c
  <1>5. /\ next \in Ids /\ parent[next] # Blank /\ Root[next] = Root[c.id]
        /\ next = c.root => c.root = Root[c.id]
    <2>1. next \in Ids \cup {Blank} /\ next # Blank
      BY <1>3 DEF WalkOK, ResolverInv, ResolverTypeOK
    <2>2. parent[next] # Blank
      BY <1>3, <2>1 DEF WalkOK, ResolverInv, Closed
    <2>3. Root[next] = Root[c.root]
      BY <1>3, <2>1, RootFacts DEF WalkOK, ResolverInv
    <2>4. next = c.root => Root[c.root] = c.root
      BY <1>3, RootFacts DEF WalkOK, ResolverInv
    <2>. QED
      BY <1>3, <2>1, <2>2, <2>3, <2>4 DEF WalkOK
  <1>6. /\ new \in [pc : {"idle", "climb", "compress"}, id : Ids \cup {Blank},
                    node : Ids \cup {Blank}, root : Ids \cup {Blank}]
        /\ WalkOK(new, parent, Root)
    <2> HIDE DEF next
    <2>1. CASE next = c.root
      <3> DEFINE m == [c EXCEPT !.pc = "compress"]
      <3>1. new = m
        BY <2>1
      <3>2. m.pc = "compress" /\ m.id = c.id /\ m.node = c.node /\ m.root = c.root
            /\ m \in [pc : {"idle", "climb", "compress"}, id : Ids \cup {Blank},
                      node : Ids \cup {Blank}, root : Ids \cup {Blank}]
        BY <1>4
      <3> HIDE DEF m, new
      <3>. QED
        BY <1>3, <1>5, <2>1, <3>1, <3>2 DEF WalkOK
    <2>2. CASE next # c.root
      <3> DEFINE m == [c EXCEPT !.root = next]
      <3>1. new = m
        BY <2>2
      <3>2. m.pc = c.pc /\ m.id = c.id /\ m.node = c.node /\ m.root = next
            /\ m \in [pc : {"idle", "climb", "compress"}, id : Ids \cup {Blank},
                      node : Ids \cup {Blank}, root : Ids \cup {Blank}]
        BY <1>4, <1>5
      <3> HIDE DEF m, new
      <3>. QED
        BY <1>3, <1>5, <2>2, <3>1, <3>2 DEF WalkOK
    <2>. QED
      BY <2>1, <2>2
  <1> HIDE DEF new, next
  <1>7. call'[t] = new /\ \A u \in Threads \ {t} : call'[u] = call[u]
    BY <1>1 DEF ResolverInv, ResolverTypeOK
  <1>8. ASSUME NEW u \in Threads, call'[u] # Idle
        PROVE  WalkOK(call'[u], parent', Root')
    BY <1>1, <1>2, <1>6, <1>7, <1>8 DEF WalkOK, ResolverInv
  <1>9. ResolverTypeOK' /\ Closed'
    BY <1>1, <1>6 DEF ResolverInv, ResolverTypeOK, Closed
  <1>. QED
    BY <1>8, <1>9 DEF ResolverInv

(* One turn of the compression: an id that is under way elsewhere may be   *)
(* hung higher, never elsewhere.                                           *)
LEMMA CompressInv ==
    ASSUME ResolverInv, NEW t \in Threads, Compress(t)
    PROVE  ResolverInv'
  <1> DEFINE c == call[t]
             next == parent[c.node]
             new == [c EXCEPT !.node = next]
  <1>1. /\ parent' \in [Ids -> Ids \cup {Blank}] /\ \A i \in Ids : parent'[i] <= i
        /\ Closed' /\ Root' = Root
        /\ \A i \in Ids : parent[i] # Blank => parent'[i] # Blank
        /\ \A i \in Ids : parent'[i] = parent[i] \/ parent'[i] = Root[i]
    BY CompressKeepsRoots
  <1>2. /\ mapping' = mapping /\ call' = [call EXCEPT ![t] = new]
        /\ parent' = [parent EXCEPT ![c.node] = c.root] /\ next # c.root
    BY DEF Compress
  <1>3. WalkOK(c, parent, Root) /\ c.pc = "compress"
    BY DEF Compress, Idle, ResolverInv
  <1>4. c \in [pc : {"idle", "climb", "compress"}, id : Ids \cup {Blank},
               node : Ids \cup {Blank}, root : Ids \cup {Blank}]
    BY CallType DEF ResolverInv
  <1> HIDE DEF c
  <1>5. next \in Ids /\ parent[next] # Blank /\ Root[next] = Root[c.id]
    <2>1. next \in Ids \cup {Blank} /\ next # Blank
      BY <1>3 DEF WalkOK, ResolverInv, ResolverTypeOK
    <2>2. parent[next] # Blank
      BY <1>3, <2>1 DEF WalkOK, ResolverInv, Closed
    <2>3. Root[next] = Root[c.node]
      BY <1>3, <2>1, RootFacts DEF WalkOK, ResolverInv
    <2>. QED
      BY <1>3, <2>1, <2>2, <2>3 DEF WalkOK
  <1>6. parent'[c.id] = Root[c.id]
    <2>1. c.node = c.id => parent'[c.id] = c.root
      BY <1>2, <1>3 DEF WalkOK, ResolverInv, ResolverTypeOK
    <2>. QED
      BY <1>1, <1>3, <2>1 DEF WalkOK
  <1>7. /\ new \in [pc : {"idle", "climb", "compress"}, id : Ids \cup {Blank},
                    node : Ids \cup {Blank}, root : Ids \cup {Blank}]
        /\ new.pc = c.pc /\ new.id = c.id /\ new.node = next /\ new.root = c.root
    <2> HIDE DEF next
    <2>. QED
      BY <1>4, <1>5
  <1> HIDE DEF new, next
  <1>8. WalkOK(new, parent', Root')
    BY <1>1, <1>3, <1>5, <1>6, <1>7 DEF WalkOK
  <1>9. call'[t] = new /\ \A u \in Threads \ {t} : call'[u] = call[u]
    BY <1>2 DEF ResolverInv, ResolverTypeOK
  <1>10. ASSUME NEW u \in Threads, call'[u] # Idle
         PROVE  WalkOK(call'[u], parent', Root')
    <2>1. CASE u = t
      BY <1>8, <1>9, <2>1
    <2>2. CASE u # t
      <3> DEFINE d == call[u]
      <3>1. WalkOK(d, parent, Root) /\ call'[u] = d
        BY <1>9, <1>10, <2>2 DEF ResolverInv
      <3> HIDE DEF d
      <3>2. WalkOK(d, parent', Root')
        <4>1. d.id \in Ids
          BY <3>1 DEF WalkOK
        <4>2. parent[d.id] = Root[d.id] => parent'[d.id] = Root[d.id]
          BY <1>1, <4>1
        <4>. QED
          BY <1>1, <3>1, <4>2, WalkKept
      <3>. QED
        BY <3>1, <3>2
    <2>. QED
      BY <2>1, <2>2
  <1>11. ResolverTypeOK'
    BY <1>1, <1>2, <1>7 DEF ResolverInv, ResolverTypeOK
  <1>. QED
    BY <1>1, <1>10, <1>11 DEF ResolverInv

(* An answer ends the walk and leaves the forest alone.                    *)
LEMMA AnswerInv ==
    ASSUME ResolverInv, NEW t \in Threads, Answer(t)
    PROVE  ResolverInv'
  <1>1. UNCHANGED <<mapping, parent>> /\ call' = [call EXCEPT ![t] = Idle]
    BY DEF Answer
  <1>2. Root' = Root
    BY <1>1 DEF Root
  <1>3. Idle \in [pc : {"idle", "climb", "compress"}, id : Ids \cup {Blank},
                  node : Ids \cup {Blank}, root : Ids \cup {Blank}]
    BY DEF Idle
  <1>4. call'[t] = Idle /\ \A u \in Threads \ {t} : call'[u] = call[u]
    BY <1>1 DEF ResolverInv, ResolverTypeOK
  <1>5. ResolverTypeOK' /\ Closed'
    BY <1>1, <1>3 DEF ResolverInv, ResolverTypeOK, Closed
  <1>6. ASSUME NEW u \in Threads, call'[u] # Idle
        PROVE  WalkOK(call'[u], parent', Root')
    BY <1>1, <1>2, <1>4, <1>6 DEF WalkOK, ResolverInv
  <1>. QED
    BY <1>5, <1>6 DEF ResolverInv

(* The table is loaded, and identities merged, while nobody walks.         *)
LEMMA TableInv ==
    ASSUME ResolverInv,
           \/ \E key \in AltKeys, id \in Ids : AddMapping(key, id)
           \/ \E a, b \in Ids : Merge(a, b)
    PROVE  ResolverInv'
  <1>1. /\ parent' \in [Ids -> Ids \cup {Blank}] /\ \A i \in Ids : parent'[i] <= i
        /\ Closed'
    BY AddMappingKeepsRoots, MergeUnites
  <1>2. Quiet /\ UNCHANGED call
    BY DEF AddMapping, Merge
  <1>3. mapping' \in [AltKeys -> Ids \cup {Blank}]
    BY DEF AddMapping, Merge, ResolverInv, ResolverTypeOK
  <1>4. ResolverTypeOK'
    BY <1>1, <1>2, <1>3 DEF ResolverInv, ResolverTypeOK
  <1>. QED
    BY <1>1, <1>2, <1>4, QuietWalks DEF ResolverInv

(* Nothing registered, nobody walking.                                     *)
LEMMA ResolverInvInit ==
    ASSUME ResolverInit
    PROVE  ResolverInv /\ Promise!IdentityInit
  <1>1. ResolverTypeOK
    BY IdsAreNumbers DEF ResolverInit, ResolverTypeOK, Idle, Blank
  <1>2. Closed /\ \A t \in Threads : call[t] = Idle
    BY DEF ResolverInit, Closed
  <1>3. Root = [i \in Ids |-> i]
    <2>1. \A i \in Ids : parent[i] = Blank
      BY DEF ResolverInit
    <2>2. \A i \in Ids : Root[i] = i
      BY <1>1, <2>1, RootFacts
    <2>3. Root \in [Ids -> Ids]
      BY <1>1, RootFacts
    <2>. QED
      BY <2>2, <2>3
  <1>. QED
    BY <1>1, <1>2, <1>3 DEF ResolverInv, Promise!IdentityInit

(* Every step keeps the invariant of the resolver.                         *)
LEMMA ResolverInvStep ==
    ASSUME ResolverInv, [ResolverNext]_resolverVars
    PROVE  ResolverInv'
  <1>1. CASE UNCHANGED resolverVars
    BY <1>1 DEF ResolverInv, ResolverTypeOK, Closed, WalkOK, Root, resolverVars
  <1>2. CASE ResolverNext
    BY <1>2, TableInv, ResolveInv, ClimbInv, CompressInv, AnswerInv DEF ResolverNext
  <1>. QED
    BY <1>1, <1>2

(* Every pointer leads to a smaller id or stays, and what the threads hold *)
(* are ids, for any ids, tables, requests and number of threads.           *)
THEOREM ResolverTypeCorrect == ResolverSpec => []ResolverTypeOK
  <1>1. ResolverInv => ResolverTypeOK
    BY DEF ResolverInv
  <1>. QED
    BY <1>1, ResolverInvInit, ResolverInvStep, PTL DEF ResolverSpec

(* A walk stays within the identity it was asked for, whatever the others  *)
(* compress meanwhile, and returns its root.                               *)
THEOREM WalksAreInside == ResolverSpec => []WalksStayInside
  <1>1. ResolverInv => WalksStayInside
    BY DEF ResolverInv, WalkOK, WalksStayInside
  <1>. QED
    BY <1>1, ResolverInvInit, ResolverInvStep, PTL DEF ResolverSpec
-----------------------------------------------------------------------------
(* The forest implements the partition: a merge is a union, and no other   *)
(* step shows.                                                             *)
THEOREM ResolverImplementsPromise == ResolverSpec => ImplementsPromise
  <1>1. ASSUME ResolverInv, [ResolverNext]_resolverVars
        PROVE  (\E a, b \in Ids : Promise!Union(a, b)) \/ Root' = Root
    <2>1. CASE UNCHANGED resolverVars \/ \E t \in Threads : Climb(t) \/ Answer(t)
      <3>1. parent' = parent
        BY <2>1 DEF resolverVars, Climb, Answer
      <3>. QED
        BY <3>1 DEF Root
    <2>2. CASE \E t \in Threads : Compress(t) \/ \E request \in Requests : Resolve(t, request)
      BY <1>1, <2>2, CompressKeepsRoots, ResolveKeepsRoots
    <2>3. CASE \E key \in AltKeys, id \in Ids : AddMapping(key, id)
      BY <1>1, <2>3, AddMappingKeepsRoots
    <2>4. CASE \E a, b \in Ids : Merge(a, b)
      BY <1>1, <2>4, MergeUnites
    <2>. QED
      BY <1>1, <2>1, <2>2, <2>3, <2>4 DEF ResolverNext
  <1>2. ResolverInv /\ [ResolverNext]_resolverVars
          => [\E a, b \in Ids : Promise!Union(a, b)]_Root
    BY <1>1
  <1>. QED
    BY <1>2, ResolverInvInit, ResolverInvStep, PTL
    DEF ResolverSpec, ImplementsPromise, Promise!IdentitySpec

(* An answered id hangs right under its root.                              *)
THEOREM ResolverCompresses == ResolverSpec => AnswersAreCompressed
  <1>1. ASSUME ResolverInv, [ResolverNext]_resolverVars, NEW t \in Threads,
               call[t] # Idle, call'[t] = Idle
        PROVE  parent[call[t].id] = Root[call[t].id]
    <2>1. Answer(t)
      <3>1. CASE UNCHANGED resolverVars \/ (\E key \in AltKeys, id \in Ids : AddMapping(key, id))
                 \/ (\E a, b \in Ids : Merge(a, b))
        BY <1>1, <3>1 DEF resolverVars, AddMapping, Merge
      <3>2. ASSUME NEW u \in Threads,
                   (\E request \in Requests : Resolve(u, request)) \/ Climb(u) \/ Compress(u)
            PROVE  FALSE
        <4>1. u # t => call'[t] = call[t]
          BY <1>1, <3>2 DEF Resolve, Climb, Compress, ResolverInv, ResolverTypeOK
        <4>2. u = t => FALSE
          <5>1. ASSUME u = t
                PROVE  call'[t].pc # "idle"
            <6>1. CASE \E request \in Requests : Resolve(t, request)
              BY <1>1, <6>1 DEF Resolve
            <6>2. CASE Climb(t)
              BY <1>1, <6>2, CallType DEF Climb, ResolverInv, ResolverTypeOK
            <6>3. CASE Compress(t)
              BY <1>1, <6>3, CallType DEF Compress, ResolverInv, ResolverTypeOK
            <6>. QED
              BY <3>2, <5>1, <6>1, <6>2, <6>3
          <5>. QED
            BY <1>1, <5>1 DEF Idle
        <4>. QED
          BY <1>1, <4>1, <4>2
      <3>3. ASSUME NEW u \in Threads, Answer(u), u # t
            PROVE  FALSE
        BY <1>1, <3>3 DEF Answer, ResolverInv, ResolverTypeOK
      <3>. QED
        BY <1>1, <3>1, <3>2, <3>3 DEF ResolverNext
    <2>2. WalkOK(call[t], parent, Root) /\ call[t].pc = "compress" /\ parent[call[t].node] = call[t].root
      BY <1>1, <2>1 DEF Answer, ResolverInv
    <2>. QED
      BY <2>2 DEF WalkOK
  <1>2. ResolverInv /\ [ResolverNext]_resolverVars
          => [\A t \in Threads : call[t] # Idle /\ call'[t] = Idle
                => parent[call[t].id] = Root[call[t].id]]_resolverVars
    BY <1>1
  <1>. QED
    BY <1>2, ResolverInvInit, ResolverInvStep, PTL DEF ResolverSpec, AnswersAreCompressed

(* No step resolves fewer requests.                                        *)
THEOREM CoverageOnlyGrows == ResolverSpec => CoverageGrows
  <1>1. ASSUME ResolverInv, [ResolverNext]_resolverVars
        PROVE  Coverage(Requests)' >= Coverage(Requests)
    <2>1. \A key \in AltKeys : mapping[key] # Blank => mapping'[key] # Blank
      BY <1>1, IdsAreNumbers
      DEF ResolverInv, ResolverTypeOK, ResolverNext, resolverVars, AddMapping, Merge, Resolve,
          Climb, Compress, Answer
    <2>2. \A key : Mapped(key) # Blank => Mapped(key)' # Blank
      BY <2>1 DEF Mapped
    <2>3. ASSUME NEW r \in Requests, Named(r) # Blank
          PROVE  Named(r)' # Blank
      <3>1. /\ Mapped(<<"phone", Text(r.phone)>>) # Blank
                 => Mapped(<<"phone", Text(r.phone)>>)' # Blank
            /\ Mapped(<<"device", Text(r.device_id)>>) # Blank
                 => Mapped(<<"device", Text(r.device_id)>>)' # Blank
        BY <2>2
      <3> HIDE DEF Mapped, Text
      <3>. QED
        BY <2>3, <3>1 DEF Named, Else
    <2> DEFINE before == {r \in Requests : Named(r) # Blank}
               after == {r \in Requests : Named(r)' # Blank}
    <2>4. IsFiniteSet(after) /\ before \subseteq after
      BY <2>3, IdentityAssumption, FS_Subset
    <2>5. Cardinality(before) <= Cardinality(after)
      BY <2>4, FS_Subset
    <2>6. Cardinality(before) \in Nat /\ Cardinality(after) \in Nat
      BY <2>4, FS_Subset, FS_CardinalityType
    <2>7. Coverage(Requests) = Cardinality(before) /\ Coverage(Requests)' = Cardinality(after)
      BY DEF Coverage
    <2> HIDE DEF before, after
    <2>. QED
      BY <2>5, <2>6, <2>7
  <1>2. ResolverInv /\ [ResolverNext]_resolverVars
          => [Coverage(Requests)' >= Coverage(Requests)]_resolverVars
    BY <1>1
  <1>. QED
    BY <1>2, ResolverInvInit, ResolverInvStep, PTL DEF ResolverSpec, CoverageGrows

(* The three together, as the run checks them.                             *)
THEOREM IdentityKept == ResolverSpec => IdentityIsKept
  BY ResolverImplementsPromise, ResolverCompresses, CoverageOnlyGrows, PTL DEF IdentityIsKept
=============================================================================
