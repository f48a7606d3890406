------------------------- MODULE EngagementProofs -------------------------
(***************************************************************************)
(* What a user may be shown, proved for every value of the constants: the  *)
(* overshoot bound of TouchBudget for any number of workers, slots and any *)
(* cap; of Personalization, what a fetch may serve while experiences are   *)
(* registered, published and paused under it, for any number of operators, *)
(* request threads, keys, drafts and addresses: only what somebody asked   *)
(* to publish, and what was there when the fetch began only to its own     *)
(* audience; what an edit of a campaign does to its users' buckets; what   *)
(* the compliance gate makes of any text, that the copies generated for a  *)
(* request and the arms made of them are whole, and that the ranking of    *)
(* the variants in a log of any length never punishes a success.           *)
(***************************************************************************)
EXTENDS TouchBudget, CampaignDefinition, Personalization, Copywriting,
        ComplianceGate, CopyFeedback, Recursion, FiniteSetTheorems, TLAPS

(* Workers are finitely many, so are the holders of a slot.                *)
LEMMA HoldersFinite ==
    ASSUME NEW s
    PROVE  /\ IsFiniteSet(Holders(s))
           /\ Cardinality(Holders(s)) \in Nat
           /\ Cardinality(Holders(s)) <= Cardinality(Workers)
           /\ Cardinality(Workers) \in Nat
  <1>1. Holders(s) \in SUBSET Workers
    BY DEF Holders
  <1>. QED
    BY <1>1, BudgetAssumption, FS_Subset, FS_CardinalityType

(* BudgetTypeOK is inductive.                                              *)
LEMMA BudgetTypeStep == BudgetTypeOK /\ [BudgetNext]_budgetVars => BudgetTypeOK'
  <1> SUFFICES ASSUME BudgetTypeOK, [BudgetNext]_budgetVars
               PROVE  BudgetTypeOK'
    OBVIOUS
  <1> USE DEF BudgetTypeOK
  <1>1. ASSUME NEW w \in Workers, Open(w)
        PROVE  BudgetTypeOK'
    BY <1>1 DEF Open
  <1>2. ASSUME NEW w \in Workers, NEW s \in Slots, Touch(w, s)
        PROVE  BudgetTypeOK'
    BY <1>2 DEF Touch
  <1>3. ASSUME NEW w \in Workers, NEW s \in Slots, Drop(w, s)
        PROVE  BudgetTypeOK'
    BY <1>3 DEF Drop
  <1>4. CASE UNCHANGED budgetVars
    BY <1>4 DEF budgetVars
  <1>. QED
    BY <1>1, <1>2, <1>3, <1>4 DEF BudgetNext

(* A worker that opens holds nothing before, so a slot it takes gains one  *)
(* holder at most, and only if the slot had a touch to spare.              *)
LEMMA OpenKeepsCommitted ==
    ASSUME BudgetTypeOK, Committed, NEW w \in Workers, Open(w)
    PROVE  Committed'
  <1> SUFFICES ASSUME NEW s \in Slots
               PROVE  touches'[s] + Cardinality(Holders(s)')
                        <= Cap + Cardinality(Workers) - 1
    BY DEF Committed
  <1>1. touches'[s] = touches[s] /\ touches[s] \in Nat
    BY DEF Open, BudgetTypeOK
  <1>2. Holders(s)' \in SUBSET Workers
    BY DEF Holders
  <1>3. /\ Cardinality(Holders(s)') \in Nat
        /\ Cardinality(Holders(s)') <= Cardinality(Workers)
        /\ Cardinality(Workers) \in Nat
    BY <1>2, BudgetAssumption, FS_Subset, FS_CardinalityType
  <1>4. CASE s \in due'[w]
    <2>1. touches[s] <= Cap - 1
      BY <1>1, <1>4, BudgetAssumption DEF Open, BudgetTypeOK
    <2>. QED
      BY <1>1, <1>3, <2>1, BudgetAssumption
  <1>5. CASE s \notin due'[w]
    <2>1. Holders(s)' = Holders(s)
      BY <1>5 DEF Holders, Open, BudgetTypeOK
    <2>. QED
      BY <1>1, <2>1 DEF Committed
  <1>. QED
    BY <1>4, <1>5

(* Spending or dropping a slot gives up the holder that did it.            *)
LEMMA HolderLeaves ==
    ASSUME BudgetTypeOK, NEW w \in Workers, NEW s \in due[w],
           due' = [due EXCEPT ![w] = @ \ {s}], NEW t
    PROVE  /\ t = s => Cardinality(Holders(t)') = Cardinality(Holders(t)) - 1
           /\ t # s => Holders(t)' = Holders(t)
  <1>1. CASE t = s
    <2>1. Holders(t)' = Holders(t) \ {w} /\ w \in Holders(t)
      BY <1>1 DEF Holders, BudgetTypeOK
    <2>. QED
      BY <1>1, <2>1, HoldersFinite, FS_RemoveElement
  <1>2. CASE t # s
    BY <1>2 DEF Holders, BudgetTypeOK
  <1>. QED
    BY <1>1, <1>2

(* Committed is inductive.                                                 *)
LEMMA CommittedStep ==
    BudgetTypeOK /\ Committed /\ [BudgetNext]_budgetVars => Committed'
  <1> SUFFICES ASSUME BudgetTypeOK, Committed, [BudgetNext]_budgetVars
               PROVE  Committed'
    OBVIOUS
  <1>1. ASSUME NEW w \in Workers, Open(w)
        PROVE  Committed'
    BY <1>1, OpenKeepsCommitted
  <1>2. ASSUME NEW w \in Workers, NEW s \in Slots, Touch(w, s)
        PROVE  Committed'
    <2> SUFFICES ASSUME NEW t \in Slots
                 PROVE  touches'[t] + Cardinality(Holders(t)')
                          <= Cap + Cardinality(Workers) - 1
      BY DEF Committed
    <2>1. /\ touches[t] \in Nat
          /\ touches'[t] = IF t = s THEN touches[t] + 1 ELSE touches[t]
      BY <1>2 DEF Touch, BudgetTypeOK
    <2>2. /\ t = s => Cardinality(Holders(t)') = Cardinality(Holders(t)) - 1
          /\ t # s => Holders(t)' = Holders(t)
      BY <1>2, HolderLeaves DEF Touch
    <2>3. touches[t] + Cardinality(Holders(t)) <= Cap + Cardinality(Workers) - 1
      BY DEF Committed
    <2>. QED
      BY <2>1, <2>2, <2>3, HoldersFinite
  <1>3. ASSUME NEW w \in Workers, NEW s \in Slots, Drop(w, s)
        PROVE  Committed'
    <2> SUFFICES ASSUME NEW t \in Slots
                 PROVE  touches'[t] + Cardinality(Holders(t)')
                          <= Cap + Cardinality(Workers) - 1
      BY DEF Committed
    <2>1. touches[t] \in Nat /\ touches'[t] = touches[t]
      BY <1>3 DEF Drop, BudgetTypeOK
    <2>2. /\ t = s => Cardinality(Holders(t)') = Cardinality(Holders(t)) - 1
          /\ t # s => Holders(t)' = Holders(t)
      BY <1>3, HolderLeaves DEF Drop
    <2>3. touches[t] + Cardinality(Holders(t)) <= Cap + Cardinality(Workers) - 1
      BY DEF Committed
    <2>. QED
      BY <2>1, <2>2, <2>3, HoldersFinite, BudgetAssumption
  <1>4. CASE UNCHANGED budgetVars
    BY <1>4 DEF budgetVars, Committed, Holders
  <1>. QED
    BY <1>1, <1>2, <1>3, <1>4 DEF BudgetNext

(* Nothing is touched and nobody holds anything at the start.              *)
LEMMA BudgetInitOK == BudgetInit => BudgetTypeOK /\ Committed
  <1> SUFFICES ASSUME BudgetInit
               PROVE  BudgetTypeOK /\ Committed
    OBVIOUS
  <1>1. BudgetTypeOK
    BY DEF BudgetInit, BudgetTypeOK
  <1>2. \A s : Holders(s) = {}
    BY DEF BudgetInit, Holders
  <1>3. Cardinality(Workers) \in Nat /\ Cardinality(Workers) >= 1
    BY BudgetAssumption, FS_EmptySet, FS_CardinalityType
  <1>4. Committed
    BY <1>2, <1>3, BudgetAssumption, FS_EmptySet DEF BudgetInit, Committed
  <1>. QED
    BY <1>1, <1>4

(* Whatever the interleaving of any number of workers, a slot is touched   *)
(* at most once beyond its cap for every worker but one.                   *)
THEOREM BudgetOvershoot == BudgetSpec => []OvershootBound
  <1>1. BudgetTypeOK /\ Committed => OvershootBound
    <2> SUFFICES ASSUME BudgetTypeOK, Committed, NEW s \in Slots
                 PROVE  touches[s] <= Cap + Cardinality(Workers) - 1
      BY DEF OvershootBound
    <2>. QED
      BY HoldersFinite, BudgetAssumption DEF Committed, BudgetTypeOK
  <1>. QED
    BY BudgetInitOK, BudgetTypeStep, CommittedStep, <1>1, PTL DEF BudgetSpec
-----------------------------------------------------------------------------
(* A request names some of the keys, at least one.                         *)
RequestsNameKeys == \A r \in Requests : r.keys \in Seq(Keys) /\ r.keys # <<>>

Experience == [key : Keys, draft : UNION {Drafts[k] : k \in Keys},
               address : Addresses, status : Statuses]

(* An answer that was approved, and that its own audience decided if the   *)
(* object was there before n + 1 objects were.                             *)
Sound(a, n) ==
    a # None => /\ a.object \in approved /\ a.object \in Objects
                /\ a.object <= n => a.audience = object[a.object].draft.audience

(* The answers so far are sound; nothing is said of the set they are from. *)
Backed(result, n) == \E S : result \in Seq(S) /\ \A a \in S : Sound(a, n)

(* The objects a call may still come to: those in the store, and its own.  *)
WithinReach(c) == {o \in Objects : c.held = o \/ \E k \in Keys : store[k] = o}

(* What the cache holds at an old object's address is its own audience: no *)
(* other object had the address since, for it was never free.              *)
CacheTrue(c) ==
    \A o \in WithinReach(c) :
        o <= c.began /\ object[o].address \in DOMAIN c.cache
          => c.cache[object[o].address] = object[o].draft.audience

(* A record with the fields of a call.                                     *)
IsCall(c) == c = [pc |-> c.pc, request |-> c.request, at |-> c.at, held |-> c.held,
                  cache |-> c.cache, result |-> c.result, began |-> c.began]

CallOK(c) ==
    /\ IsCall(c)
    /\ c.pc \in {"idle", "next", "gate", "evaluate", "done"}
    /\ c.began \in Nat /\ c.began <= Len(object)
    /\ c.held \in Objects \cup {None}
    /\ c.pc \in {"next", "gate", "evaluate"} =>
         c.request \in Requests /\ c.at \in 1..Len(c.request.keys)
    /\ c.pc \in {"gate", "evaluate"} => c.held \in Objects
    /\ c.pc = "evaluate" => c.held \in approved
    /\ Backed(c.result, c.began)

StoreOK ==
    /\ object \in Seq(Experience)
    /\ store \in [Keys -> Objects \cup {None}]
    /\ publishing \in [Publishers -> Objects \cup {None}]
    /\ \A o \in Objects : object[o].status = "published" => o \in approved
    /\ \A p \in Publishers : publishing[p] # None => publishing[p] \in approved

(* No two objects that something refers to share an address.               *)
Apart == \A o, q \in Live : o # q => object[o].address # object[q].address

IInv ==
    /\ None \notin Nat
    /\ RequestsNameKeys
    /\ StoreOK
    /\ Apart
    /\ fetch = [f \in Fetchers |-> fetch[f]]
    /\ \A f \in Fetchers : CallOK(fetch[f]) /\ CacheTrue(fetch[f])
-----------------------------------------------------------------------------
(* Another sound answer keeps the answers sound.                           *)
LEMMA BackedAppend ==
    ASSUME NEW r, NEW n, Backed(r, n), NEW a, Sound(a, n)
    PROVE  Backed(Append(r, a), n)
  <1>1. PICK S : r \in Seq(S) /\ \A b \in S : Sound(b, n)
    BY DEF Backed
  <1>2. r \in Seq(S \cup {a})
    BY <1>1
  <1>3. Append(r, a) \in Seq(S \cup {a})
    BY <1>2
  <1>4. \A b \in S \cup {a} : Sound(b, n)
    BY <1>1
  <1>. QED
    BY <1>3, <1>4 DEF Backed

(* What a step of the store leaves: objects with their key, draft and      *)
(* address, and the approvals.                                             *)
Grows ==
    /\ Len(object) \in Nat /\ Len(object') \in Nat /\ Len(object) <= Len(object')
    /\ \A o \in Objects : /\ object'[o].draft = object[o].draft
                          /\ object'[o].address = object[o].address
    /\ approved \subseteq approved'

(* Sound answers stay sound.                                               *)
LEMMA BackedStays ==
    ASSUME Grows, NEW r, NEW n, Backed(r, n)
    PROVE  Backed(r, n)'
  <1>1. PICK S : r \in Seq(S) /\ \A b \in S : Sound(b, n)
    BY DEF Backed
  <1>2. ASSUME NEW b \in S
        PROVE  Sound(b, n)'
    BY <1>1, <1>2 DEF Sound, Grows, Objects
  <1>. QED
    BY <1>1, <1>2 DEF Backed

(* And so do calls, which a step of the store does not touch.              *)
LEMMA CallStays ==
    ASSUME Grows, NEW c, CallOK(c)
    PROVE  CallOK(c)'
  <1>1. Backed(c.result, c.began)'
    BY BackedStays DEF CallOK
  <1>. QED
    BY <1>1 DEF CallOK, Grows, Objects

(* If the objects within reach are the same or newer, the cache stays true. *)
LEMMA CacheStays ==
    ASSUME Grows, NEW c, c.began \in Nat, c.began <= Len(object), CacheTrue(c),
           \A k \in Keys : store'[k] = store[k] \/ store'[k] > Len(object)
    PROVE  CacheTrue(c)'
  <1> SUFFICES ASSUME NEW o \in WithinReach(c)', o <= c.began,
                      object'[o].address \in DOMAIN c.cache
               PROVE  c.cache[object'[o].address] = object'[o].draft.audience
    BY DEF CacheTrue
  <1>1. o \in Objects
    <2>1. o \in 1..Len(object') /\ Len(object) \in Nat /\ Len(object') \in Nat
      BY DEF WithinReach, Objects, Grows
    <2>. QED
      BY <2>1 DEF Objects
  <1>2. o \in WithinReach(c)
    <2>1. o \in Nat /\ o <= Len(object) /\ Len(object) \in Nat
      BY <1>1 DEF Objects, Grows
    <2>2. CASE c.held = o
      BY <1>1, <2>2 DEF WithinReach
    <2>3. ASSUME NEW k \in Keys, store'[k] = o
          PROVE  o \in WithinReach(c)
      <3>1. ~ store'[k] > Len(object)
        BY <2>1, <2>3
      <3>2. store[k] = o
        BY <2>3, <3>1
      <3>. QED
        BY <1>1, <3>2 DEF WithinReach
    <2>. QED
      BY <2>2, <2>3 DEF WithinReach
  <1>. QED
    BY <1>1, <1>2 DEF CacheTrue, Grows

(* A step of the store keeps what is said of the calls.                    *)
LEMMA CallsStay ==
    ASSUME IInv, Grows, UNCHANGED fetch,
           \A k \in Keys : store'[k] = store[k] \/ store'[k] > Len(object)
    PROVE  /\ fetch' = [f \in Fetchers |-> fetch'[f]]
           /\ \A f \in Fetchers : CallOK(fetch[f])' /\ CacheTrue(fetch[f])'
  <1>1. ASSUME NEW f \in Fetchers, NEW c, c = fetch[f]
        PROVE  CallOK(c)' /\ CacheTrue(c)'
    <2>1. CallOK(c) /\ CacheTrue(c)
      BY <1>1 DEF IInv
    <2>2. c.began \in Nat /\ c.began <= Len(object)
      BY <2>1 DEF CallOK
    <2>. QED
      BY <2>1, <2>2, CallStays, CacheStays
  <1>. QED
    BY <1>1 DEF IInv
-----------------------------------------------------------------------------
(* Registration: a draft at an address that nothing refers to.             *)
LEMMA RegisterStep ==
    ASSUME IInv, NEW key \in Keys, NEW address \in Addresses, NEW draft \in Drafts[key],
           Register(key, draft, address)
    PROVE  IInv'
  <1> DEFINE n == Len(object) + 1
             new == [key |-> key, draft |-> draft, address |-> address, status |-> "draft"]
  <1>1. /\ object' = Append(object, new) /\ store' = [store EXCEPT ![key] = n]
        /\ UNCHANGED <<publishing, fetch, approved>>
        /\ \A o \in Live : object[o].address # address
    BY DEF Register
  <1>2. object \in Seq(Experience) /\ Len(object) \in Nat
    BY DEF IInv, StoreOK
  <1>3. new \in Experience
    BY DEF Experience, Statuses
  <1>4. new.address = address /\ new.status = "draft"
    OBVIOUS
  <1> HIDE DEF new
  <1>5. /\ object' \in Seq(Experience) /\ Len(object') = n /\ object'[n] = new
        /\ \A o \in Objects : object'[o] = object[o]
    BY <1>1, <1>2, <1>3 DEF Objects
  <1>6. Objects' = Objects \cup {n} /\ n \notin Objects /\ n \in Nat
    BY <1>2, <1>5 DEF Objects
  <1>7. Grows
    <2>1. \A o \in Objects : /\ object'[o].draft = object[o].draft
                              /\ object'[o].address = object[o].address
      BY <1>5
    <2>2. Len(object') \in Nat /\ Len(object) <= Len(object')
      BY <1>2, <1>5
    <2>. QED
      BY <1>1, <1>2, <2>1, <2>2 DEF Grows
  <1>8. StoreOK'
    <2>1. store' \in [Keys -> Objects' \cup {None}]
      BY <1>1, <1>6 DEF IInv, StoreOK
    <2>2. publishing' \in [Publishers -> Objects' \cup {None}]
      BY <1>1, <1>6 DEF IInv, StoreOK
    <2>3. \A o \in Objects' : object'[o].status = "published" => o \in approved'
      BY <1>1, <1>4, <1>5, <1>6 DEF IInv, StoreOK
    <2>. QED
      BY <1>1, <1>5, <2>1, <2>2, <2>3 DEF IInv, StoreOK
  <1>9. Live' \subseteq Live \cup {n}
    <2>1. ASSUME NEW o \in Live', o # n
          PROVE  o \in Live
      <3>1. o \in Objects
        BY <1>6, <2>1 DEF Live
      <3>2. \/ \E k \in Keys : store'[k] = o
            \/ \E f \in Fetchers : fetch'[f].held = o
            \/ \E p \in Publishers : publishing'[p] = o
        BY <2>1 DEF Live
      <3>3. \A k \in Keys : store'[k] = o => store[k] = o
        BY <1>1, <2>1 DEF IInv, StoreOK
      <3>. QED
        BY <1>1, <3>1, <3>2, <3>3 DEF Live
    <2>. QED
      BY <2>1
  <1>10. Apart'
    <2>1. \A o \in Live : o \in Objects
      BY DEF Live
    <2>. QED
      BY <1>1, <1>4, <1>5, <1>9, <2>1 DEF IInv, Apart
  <1>11. \A k \in Keys : store'[k] = store[k] \/ store'[k] > Len(object)
    BY <1>1, <1>2 DEF IInv, StoreOK
  <1>. QED
    BY <1>1, <1>7, <1>8, <1>10, <1>11, CallsStay DEF IInv, RequestsNameKeys

(* A step that changes neither store nor any object's draft and address,   *)
(* and refers to nothing that was not referred to, keeps the invariant.    *)
LEMMA QuietStep ==
    ASSUME IInv, Grows, Len(object') = Len(object), UNCHANGED <<store, fetch>>,
           StoreOK',
           \A p \in Publishers : publishing'[p] \in Live \cup {None}
    PROVE  IInv'
  <1>1. Objects' = Objects
    BY DEF Objects
  <1>2. Live' \subseteq Live
    <2>1. None \notin Objects
      BY DEF IInv, Objects, Grows
    <2>. QED
      BY <1>1, <2>1 DEF Live
  <1>3. Apart'
    <2>1. \A o \in Live : o \in Objects
      BY DEF Live
    <2>. QED
      BY <1>2, <2>1 DEF IInv, Apart, Grows
  <1>. QED
    BY <1>3, CallsStay DEF IInv, RequestsNameKeys

LEMMA LookUpStep ==
    ASSUME IInv, NEW p \in Publishers, NEW key \in Keys, LookUp(p, key)
    PROVE  IInv'
  <1>1. /\ store[key] # None /\ store[key] \in Objects
        /\ publishing' = [publishing EXCEPT ![p] = store[key]]
        /\ approved' = approved \cup {store[key]}
        /\ UNCHANGED <<object, store, fetch>>
    BY DEF LookUp, IInv, StoreOK
  <1>2. Grows
    BY <1>1 DEF Grows, IInv, StoreOK
  <1>3. Objects' = Objects
    BY <1>1 DEF Objects
  <1>4. StoreOK'
    BY <1>1, <1>3 DEF IInv, StoreOK
  <1>5. \A q \in Publishers : publishing'[q] \in Live \cup {None}
    BY <1>1 DEF IInv, StoreOK, Live
  <1>. QED
    BY <1>1, <1>2, <1>4, <1>5, QuietStep

(* A status that changes is that of an object that was approved, or it     *)
(* becomes another than published.                                         *)
LEMMA StatusStep ==
    ASSUME IInv, NEW o \in Objects, NEW now \in Statuses,
           object' = [object EXCEPT ![o].status = now],
           now = "published" => o \in approved,
           UNCHANGED <<store, fetch, approved>>,
           \A p \in Publishers : publishing'[p] \in {publishing[p], None},
           publishing' = [p \in Publishers |-> publishing'[p]]
    PROVE  IInv'
  <1>1. object \in Seq(Experience) /\ Len(object) \in Nat
    BY DEF IInv, StoreOK
  <1>2. /\ object' \in Seq(Experience) /\ Len(object') = Len(object)
        /\ object'[o].status = now
        /\ \A q \in Objects : /\ object'[q].draft = object[q].draft
                              /\ object'[q].address = object[q].address
                              /\ q # o => object'[q] = object[q]
    <2>1. object[o] \in Experience
      BY <1>1 DEF Objects
    <2>2. [object[o] EXCEPT !.status = now] \in Experience
      BY <2>1 DEF Experience
    <2>3. object' = [object EXCEPT ![o] = [object[o] EXCEPT !.status = now]]
      OBVIOUS
    <2>4. /\ [object[o] EXCEPT !.status = now].status = now
          /\ [object[o] EXCEPT !.status = now].draft = object[o].draft
          /\ [object[o] EXCEPT !.status = now].address = object[o].address
      BY <2>1 DEF Experience
    <2> DEFINE r == [object[o] EXCEPT !.status = now]
    <2> HIDE DEF r
    <2>5. /\ r \in Experience /\ object' = [object EXCEPT ![o] = r]
          /\ r.status = now /\ r.draft = object[o].draft
          /\ r.address = object[o].address
      BY <2>2, <2>3, <2>4 DEF r
    <2>. QED
      BY <1>1, <2>5, SMTT(30) DEF Objects
  <1>3. Grows
    BY <1>1, <1>2 DEF Grows
  <1>4. Objects' = Objects
    BY <1>2 DEF Objects
  <1>5. StoreOK'
    BY <1>2, <1>4 DEF IInv, StoreOK
  <1>6. \A q \in Publishers : publishing'[q] \in Live \cup {None}
    BY DEF IInv, StoreOK, Live
  <1>. QED
    BY <1>2, <1>3, <1>5, <1>6, QuietStep
-----------------------------------------------------------------------------
(* A step of a fetch: the objects stay, and what it holds is in the store. *)
LEMMA FetchStep ==
    ASSUME IInv, NEW f \in Fetchers, NEW c,
           fetch' = [fetch EXCEPT ![f] = c],
           UNCHANGED <<object, store, publishing, approved>>,
           c.held \in Live \cup {None},
           CallOK(c), CacheTrue(c)
    PROVE  IInv'
  <1>1. fetch'[f] = c /\ \A g \in Fetchers \ {f} : fetch'[g] = fetch[g]
    BY DEF IInv
  <1>2. Objects' = Objects
    BY DEF Objects
  <1>3. None \notin Objects
    BY DEF IInv, StoreOK, Objects
  <1>4. Live' \subseteq Live
    BY <1>1, <1>2, <1>3 DEF Live
  <1>5. Apart'
    BY <1>4 DEF IInv, Apart
  <1>6. StoreOK'
    BY <1>2 DEF IInv, StoreOK
  <1>7. ASSUME NEW g \in Fetchers
        PROVE  CallOK(fetch[g])' /\ CacheTrue(fetch[g])'
    <2>1. CallOK(fetch'[g]) /\ CacheTrue(fetch'[g])
      BY <1>1 DEF IInv
    <2>. QED
      BY <1>2, <2>1 DEF CallOK, CacheTrue, Backed, Sound, WithinReach
  <1>8. fetch' = [g \in Fetchers |-> fetch'[g]]
    BY DEF IInv
  <1>. QED
    BY <1>5, <1>6, <1>7, <1>8 DEF IInv, RequestsNameKeys

(* A sound answer to the key at hand.                                      *)
LEMMA AnsweredOK ==
    ASSUME IInv, NEW c, CallOK(c), CacheTrue(c), c.pc \in {"next", "gate", "evaluate"},
           NEW a, Sound(a, c.began)
    PROVE  /\ CallOK(Answered(c, a)) /\ CacheTrue(Answered(c, a))
           /\ Answered(c, a).held = None
  <1> DEFINE n == Answered(c, a)
  <1>1. /\ n.pc = IF c.at = Len(c.request.keys) THEN "done" ELSE "next"
        /\ n.request = c.request /\ n.at = c.at + 1 /\ n.held = None
        /\ n.cache = c.cache /\ n.result = Append(c.result, a) /\ n.began = c.began
        /\ IsCall(n)
    <2> DEFINE m1 == [c EXCEPT !.pc = IF c.at = Len(c.request.keys) THEN "done" ELSE "next"]
               m2 == [m1 EXCEPT !.at = c.at + 1]
               m3 == [m2 EXCEPT !.held = None]
               answers == Append(c.result, a)
               m4 == [m3 EXCEPT !.result = answers]
    <2>1. n = m4
      BY DEF Answered
    <2> HIDE DEF answers
    <2>2. IsCall(c)
      BY DEF CallOK
    <2>3. /\ IsCall(m1) /\ m1.pc = IF c.at = Len(c.request.keys) THEN "done" ELSE "next"
          /\ m1.request = c.request /\ m1.at = c.at /\ m1.cache = c.cache
          /\ m1.result = c.result /\ m1.began = c.began
      BY <2>2 DEF IsCall
    <2> HIDE DEF m1
    <2>4. /\ IsCall(m2) /\ m2.pc = m1.pc /\ m2.request = c.request /\ m2.at = c.at + 1
          /\ m2.cache = c.cache /\ m2.result = c.result /\ m2.began = c.began
      BY <2>3 DEF IsCall
    <2> HIDE DEF m2
    <2>5. /\ IsCall(m3) /\ m3.pc = m1.pc /\ m3.request = c.request /\ m3.at = c.at + 1
          /\ m3.held = None /\ m3.cache = c.cache /\ m3.result = c.result
          /\ m3.began = c.began
      BY <2>4 DEF IsCall
    <2> HIDE DEF m3
    <2>6. /\ IsCall(m4) /\ m4.pc = m1.pc /\ m4.request = c.request /\ m4.at = c.at + 1
          /\ m4.held = None /\ m4.cache = c.cache /\ m4.result = answers
          /\ m4.began = c.began
      BY <2>5 DEF IsCall
    <2> HIDE DEF m4, n
    <2>. QED
      BY <2>1, <2>3, <2>6 DEF answers
  <1> HIDE DEF n
  <1>2. Backed(n.result, n.began)
    BY <1>1, BackedAppend DEF CallOK
  <1>3. n.pc = "next" => n.at \in 1..Len(n.request.keys)
    <2>1. c.request \in Requests /\ c.at \in 1..Len(c.request.keys)
      BY DEF CallOK
    <2>2. Len(c.request.keys) \in Nat
      BY <2>1 DEF IInv, RequestsNameKeys
    <2>. QED
      BY <1>1, <2>1, <2>2
  <1>4. CallOK(n)
    BY <1>1, <1>2, <1>3 DEF CallOK
  <1>5. CacheTrue(n)
    <2>1. None \notin Objects
      BY DEF IInv, StoreOK, Objects
    <2>2. WithinReach(n) \subseteq WithinReach(c)
      BY <1>1, <2>1 DEF WithinReach
    <2>. QED
      BY <1>1, <2>2 DEF CacheTrue
  <1>. QED
    BY <1>1, <1>4, <1>5 DEF n

(* A decision on an approved object by its own audience, or by any if the  *)
(* object is new, is sound.                                                *)
LEMMA DecisionSound ==
    ASSUME NEW o \in approved, o \in Objects, NEW audience, NEW asked, NEW n,
           o <= n => audience = object[o].draft.audience
    PROVE  Sound(Decision(o, audience, asked), n)
  BY DEF Decision, Sound

LEMMA GetStep ==
    ASSUME IInv, NEW f \in Fetchers, Get(f)
    PROVE  IInv'
  <1> DEFINE c == fetch[f]
             o == store[c.request.keys[c.at]]
  <1>1. /\ CallOK(c) /\ CacheTrue(c) /\ c.pc = "next"
        /\ UNCHANGED <<object, store, publishing, approved>>
        /\ fetch' = [fetch EXCEPT ![f] =
                        IF o = None THEN Answered(c, None)
                        ELSE [c EXCEPT !.pc = "gate", !.held = o]]
    BY DEF IInv, Get
  <1>2. c.request.keys[c.at] \in Keys
    <2>1. c.request \in Requests /\ c.at \in 1..Len(c.request.keys)
      BY <1>1 DEF CallOK
    <2>. QED
      BY <2>1 DEF IInv, RequestsNameKeys
  <1>3. o \in Objects \cup {None}
    BY <1>2 DEF IInv, StoreOK
  <1>4. CASE o = None
    <2>1. Sound(None, c.began)
      BY DEF Sound
    <2>2. fetch' = [fetch EXCEPT ![f] = Answered(c, None)]
      BY <1>1, <1>4
    <2> HIDE DEF c, o
    <2>3. /\ CallOK(Answered(c, None)) /\ CacheTrue(Answered(c, None))
          /\ Answered(c, None).held = None
      BY <1>1, <2>1, AnsweredOK
    <2>. QED
      BY <1>1, <2>2, <2>3, FetchStep
  <1>5. CASE o # None
    <2> DEFINE n == [c EXCEPT !.pc = "gate", !.held = o]
    <2>1. /\ n.pc = "gate" /\ n.held = o /\ n.request = c.request /\ n.at = c.at
          /\ n.cache = c.cache /\ n.result = c.result /\ n.began = c.began
          /\ IsCall(n)
      <3> DEFINE m == [c EXCEPT !.pc = "gate"]
      <3>1. n = [m EXCEPT !.held = o] /\ IsCall(c)
        BY <1>1 DEF CallOK
      <3>2. /\ IsCall(m) /\ m.pc = "gate" /\ m.request = c.request /\ m.at = c.at
            /\ m.cache = c.cache /\ m.result = c.result /\ m.began = c.began
        BY <3>1 DEF IsCall
      <3> HIDE DEF n, m, o, c
      <3>. QED
        BY <3>1, <3>2 DEF IsCall
    <2>2. fetch' = [fetch EXCEPT ![f] = n]
      BY <1>1, <1>5
    <2>3. o \in Objects /\ o \in Live
      BY <1>2, <1>3, <1>5 DEF Live
    <2> HIDE DEF n, o, c
    <2>4. CallOK(n)
      BY <1>1, <2>1, <2>3 DEF CallOK
    <2>5. CacheTrue(n)
      <3>1. WithinReach(n) \subseteq WithinReach(c)
        BY <1>2, <2>1 DEF WithinReach, o
      <3>. QED
        BY <1>1, <2>1, <3>1 DEF CacheTrue
    <2>. QED
      BY <1>1, <2>1, <2>2, <2>3, <2>4, <2>5, FetchStep
  <1>. QED
    BY <1>4, <1>5

LEMMA GateStep ==
    ASSUME IInv, NEW f \in Fetchers, Gate(f)
    PROVE  IInv'
  <1>1. /\ CallOK(fetch[f]) /\ CacheTrue(fetch[f]) /\ fetch[f].pc = "gate"
        /\ UNCHANGED <<object, store, publishing, approved>>
        /\ fetch' = [fetch EXCEPT ![f] = Answered(fetch[f], None)]
    BY DEF IInv, Gate
  <1>2. Sound(None, fetch[f].began)
    BY DEF Sound
  <1>. QED
    BY <1>1, <1>2, AnsweredOK, FetchStep

LEMMA LookStep ==
    ASSUME IInv, NEW f \in Fetchers, Look(f)
    PROVE  IInv'
  <1> DEFINE c == fetch[f]
             o == c.held
             hit == object[o].address \in DOMAIN c.cache
             audience == c.cache[object[o].address]
  <1>1. /\ CallOK(c) /\ CacheTrue(c) /\ c.pc = "gate"
        /\ object[o].status = "published"
        /\ UNCHANGED <<object, store, publishing, approved>>
        /\ fetch' = [fetch EXCEPT ![f] =
                        IF hit THEN Answered(c, Decision(o, audience, c.request))
                        ELSE [c EXCEPT !.pc = "evaluate"]]
    BY DEF IInv, Look
  <1>2. o \in Objects /\ o \in approved
    BY <1>1 DEF CallOK, IInv, StoreOK
  <1>3. CASE hit
    <2>1. o \in WithinReach(c)
      BY <1>2 DEF WithinReach
    <2>2. o <= c.began => audience = object[o].draft.audience
      BY <1>1, <1>3, <2>1 DEF CacheTrue
    <2>3. Sound(Decision(o, audience, c.request), c.began)
      BY <1>2, <2>2, DecisionSound
    <2>4. fetch' = [fetch EXCEPT ![f] = Answered(c, Decision(o, audience, c.request))]
      BY <1>1, <1>3
    <2> DEFINE n == Answered(c, Decision(o, audience, c.request))
    <2>5. CallOK(n) /\ CacheTrue(n) /\ n.held = None
      BY <1>1, <2>3, AnsweredOK
    <2>6. fetch' = [fetch EXCEPT ![f] = n]
      BY <2>4
    <2> HIDE DEF n
    <2>. QED
      BY <1>1, <2>5, <2>6, FetchStep
  <1>4. CASE ~hit
    <2> DEFINE n == [c EXCEPT !.pc = "evaluate"]
    <2>1. /\ n.pc = "evaluate" /\ n.held = o /\ n.request = c.request /\ n.at = c.at
          /\ n.cache = c.cache /\ n.result = c.result /\ n.began = c.began
          /\ IsCall(n)
      BY <1>1 DEF CallOK, IsCall
    <2>2. fetch' = [fetch EXCEPT ![f] = n]
      BY <1>1, <1>4
    <2>3. n.held \in Live
      BY <1>2, <2>1 DEF Live
    <2> HIDE DEF n
    <2>4. CallOK(n)
      BY <1>1, <1>2, <2>1 DEF CallOK
    <2>5. CacheTrue(n)
      BY <1>1, <2>1 DEF CacheTrue, WithinReach
    <2>. QED
      BY <1>1, <2>2, <2>3, <2>4, <2>5, FetchStep
  <1>. QED
    BY <1>3, <1>4

(* The audience that is remembered is right for every object that could    *)
(* still be asked for at its address: that is the one held.                *)
LEMMA EvaluateStep ==
    ASSUME IInv, NEW f \in Fetchers, Evaluate(f)
    PROVE  IInv'
  <1> DEFINE c == fetch[f]
             o == c.held
             audience == object[o].draft.audience
             cache == Remember(c.cache, object[o].address, audience)
             n == [c EXCEPT !.cache = cache]
  <1>1. /\ CallOK(c) /\ CacheTrue(c) /\ c.pc = "evaluate"
        /\ UNCHANGED <<object, store, publishing, approved>>
        /\ fetch' = [fetch EXCEPT ![f] = Answered(n, Decision(o, audience, c.request))]
    BY DEF IInv, Evaluate
  <1>2. o \in Objects /\ o \in approved /\ o \in Live
    BY <1>1 DEF CallOK, Live
  <1>3. /\ n.pc = c.pc /\ n.held = o /\ n.request = c.request /\ n.at = c.at
        /\ n.cache = cache /\ n.result = c.result /\ n.began = c.began
        /\ IsCall(n)
    BY <1>1 DEF CallOK, IsCall
  <1>4. /\ DOMAIN cache = DOMAIN c.cache \cup {object[o].address}
        /\ cache[object[o].address] = audience
        /\ \A a \in DOMAIN c.cache : a # object[o].address => cache[a] = c.cache[a]
    BY DEF Remember
  <1> HIDE DEF n, cache
  <1>5. CallOK(n)
    BY <1>1, <1>3 DEF CallOK
  <1>6. CacheTrue(n)
    <2> SUFFICES ASSUME NEW q \in WithinReach(n), q <= n.began,
                        object[q].address \in DOMAIN n.cache
                 PROVE  n.cache[object[q].address] = object[q].draft.audience
      BY DEF CacheTrue
    <2>1. q \in WithinReach(c) /\ q \in Live
      BY <1>3 DEF WithinReach, Live
    <2>2. CASE object[q].address = object[o].address
      <3>1. q = o
        BY <1>2, <2>1, <2>2 DEF IInv, Apart
      <3>. QED
        BY <1>3, <1>4, <3>1
    <2>3. CASE object[q].address # object[o].address
      BY <1>1, <1>3, <1>4, <2>1, <2>3 DEF CacheTrue
    <2>. QED
      BY <2>2, <2>3
  <1>7. Sound(Decision(o, audience, c.request), n.began)
    BY <1>2, DecisionSound
  <1> DEFINE m == Answered(n, Decision(o, audience, c.request))
  <1>8. CallOK(m) /\ CacheTrue(m) /\ m.held = None
    BY <1>1, <1>3, <1>5, <1>6, <1>7, AnsweredOK
  <1> HIDE DEF m
  <1>. QED
    BY <1>1, <1>8, FetchStep DEF m

(* The empty answer is sound.                                              *)
LEMMA NothingBacked == \A n : Backed(<<>>, n)
  <1> TAKE n
  <1>1. PICK S : S = {}
    OBVIOUS
  <1>2. <<>> \in Seq(S) /\ \A a \in S : Sound(a, n)
    BY <1>1
  <1>. QED
    BY <1>2 DEF Backed

LEMMA BeginStep ==
    ASSUME IInv, NEW f \in Fetchers, NEW asked \in Requests, Begin(f, asked)
    PROVE  IInv'
  <1> DEFINE n == [Idle EXCEPT !.pc = "next", !.request = asked, !.at = 1,
                               !.began = Len(object)]
  <1>1. fetch' = [fetch EXCEPT ![f] = n] /\ UNCHANGED <<object, store, publishing, approved>>
    BY DEF Begin
  <1>2. /\ n.pc = "next" /\ n.held = None /\ n.request = asked /\ n.at = 1
        /\ n.cache = <<>> /\ n.result = <<>> /\ n.began = Len(object)
        /\ IsCall(n)
    <2> DEFINE m1 == [Idle EXCEPT !.pc = "next"]
               m2 == [m1 EXCEPT !.request = asked]
               m3 == [m2 EXCEPT !.at = 1]
    <2>1. n = [m3 EXCEPT !.began = Len(object)]
      OBVIOUS
    <2>2. /\ IsCall(m1) /\ m1.pc = "next" /\ m1.held = None /\ m1.cache = <<>>
          /\ m1.result = <<>>
      BY DEF Idle, IsCall
    <2> HIDE DEF m1
    <2>3. /\ IsCall(m2) /\ m2.pc = "next" /\ m2.held = None /\ m2.request = asked
          /\ m2.cache = <<>> /\ m2.result = <<>>
      BY <2>2 DEF IsCall
    <2> HIDE DEF m2
    <2>4. /\ IsCall(m3) /\ m3.pc = "next" /\ m3.held = None /\ m3.request = asked
          /\ m3.at = 1 /\ m3.cache = <<>> /\ m3.result = <<>>
      BY <2>3 DEF IsCall
    <2> HIDE DEF m3, n
    <2>. QED
      BY <2>1, <2>4 DEF IsCall
  <1> HIDE DEF n
  <1>3. Len(object) \in Nat
    BY DEF IInv, StoreOK
  <1>4. 1 \in 1..Len(asked.keys)
    BY DEF IInv, RequestsNameKeys
  <1>5. CallOK(n)
    BY <1>2, <1>3, <1>4, NothingBacked DEF CallOK
  <1>6. CacheTrue(n)
    BY <1>2 DEF CacheTrue
  <1>. QED
    BY <1>1, <1>2, <1>5, <1>6, FetchStep

LEMMA ReturnStep ==
    ASSUME IInv, NEW f \in Fetchers, Return(f)
    PROVE  IInv'
  <1>1. fetch' = [fetch EXCEPT ![f] = Idle] /\ UNCHANGED <<object, store, publishing, approved>>
    BY DEF Return
  <1>2. CallOK(Idle) /\ CacheTrue(Idle) /\ Idle.held = None
    BY NothingBacked DEF CallOK, IsCall, CacheTrue, Idle, IInv, StoreOK
  <1>. QED
    BY <1>1, <1>2, FetchStep
-----------------------------------------------------------------------------
LEMMA InvariantInit ==
    ASSUME None \notin Nat, RequestsNameKeys, Init
    PROVE  IInv
  <1>1. object = <<>> /\ Objects = {}
    BY DEF Init, Objects
  <1>2. CallOK(Idle) /\ CacheTrue(Idle)
    BY <1>1, NothingBacked DEF CallOK, IsCall, CacheTrue, WithinReach, Idle
  <1>3. StoreOK /\ Apart
    BY <1>1 DEF Init, StoreOK, Apart, Live
  <1>. QED
    BY <1>2, <1>3 DEF Init, IInv

LEMMA InvariantStep == IInv /\ [Next]_vars => IInv'
  <1> SUFFICES ASSUME IInv, [Next]_vars
               PROVE  IInv'
    OBVIOUS
  <1>1. ASSUME NEW p \in Publishers, Flip(p)
        PROVE  IInv'
    <2>1. publishing[p] \in Objects /\ publishing[p] \in approved
      BY <1>1 DEF Flip, IInv, StoreOK
    <2>2. /\ object' = [object EXCEPT ![publishing[p]].status = "published"]
          /\ publishing' = [publishing EXCEPT ![p] = None]
          /\ UNCHANGED <<store, fetch, approved>>
      BY <1>1 DEF Flip
    <2>3. /\ \A q \in Publishers : publishing'[q] \in {publishing[q], None}
          /\ publishing' = [q \in Publishers |-> publishing'[q]]
      BY <2>2 DEF IInv, StoreOK
    <2>4. "published" \in Statuses
      BY DEF Statuses
    <2>. QED
      BY <2>1, <2>2, <2>3, <2>4, StatusStep
  <1>2. ASSUME NEW key \in Keys, Pause(key)
        PROVE  IInv'
    <2>1. /\ store[key] \in Objects
          /\ object' = [object EXCEPT ![store[key]].status = "paused"]
          /\ UNCHANGED <<store, publishing, fetch, approved>>
      BY <1>2 DEF Pause, IInv, StoreOK
    <2>2. publishing' = [q \in Publishers |-> publishing'[q]]
      BY <2>1 DEF IInv, StoreOK
    <2>3. "paused" \in Statuses
      BY DEF Statuses
    <2>. QED
      BY <2>1, <2>2, <2>3, StatusStep
  <1>3. CASE UNCHANGED vars
    BY <1>3 DEF vars, IInv, RequestsNameKeys, StoreOK, Apart, Live, Objects, CallOK,
                CacheTrue, WithinReach, Backed, Sound
  <1>. QED
    BY <1>1, <1>2, <1>3, RegisterStep, LookUpStep, BeginStep, GetStep, GateStep, LookStep,
       EvaluateStep, ReturnStep DEF Next

LEMMA InvariantAlways ==
    ASSUME None \notin Nat, RequestsNameKeys
    PROVE  Spec => []IInv
  <1>1. Init => IInv
    BY InvariantInit
  <1>. QED
    BY <1>1, InvariantStep, PTL DEF Spec

(* What is served is in a sound answer.                                    *)
LEMMA ServedSound ==
    ASSUME IInv, NEW f \in Fetchers, NEW a \in Served(f)
    PROVE  a # None /\ Sound(a, fetch[f].began)
  <1>1. PICK S : fetch[f].result \in Seq(S) /\ \A b \in S : Sound(b, fetch[f].began)
    BY DEF IInv, CallOK, Backed
  <1>. QED
    BY <1>1 DEF Served

(* "status gates delivery" (store.py): nobody is served an object that no  *)
(* operator asked to publish, however publishing, registering and pausing  *)
(* interleave with the fetch.                                              *)
THEOREM FetchServesApproved ==
    ASSUME None \notin Nat, RequestsNameKeys
    PROVE  Spec => []ServedWasApproved
  <1>1. IInv => ServedWasApproved
    BY ServedSound DEF ServedWasApproved, Sound
  <1>. QED
    BY <1>1, InvariantAlways, PTL

(* The cache keyed by id() goes wrong only for experiences registered      *)
(* while the fetch is under way: an address that a fetch has remembered is *)
(* not free while an older object with it can still be asked for.          *)
THEOREM FetchMistakesOnlyNewcomers ==
    ASSUME None \notin Nat, RequestsNameKeys
    PROVE  Spec => []OnlyNewcomersMistaken
  <1>1. IInv => OnlyNewcomersMistaken
    BY ServedSound DEF OnlyNewcomersMistaken, Sound
  <1>. QED
    BY <1>1, InvariantAlways, PTL
-----------------------------------------------------------------------------
(* What Variant and Campaign let through: a row of positive weights.       *)
Shares == {s \in Seq(Nat \ {0}) : Len(s) > 0}

(* The accumulated weights follow their recursion.                         *)
LEMMA Accumulates ==
    ASSUME NEW w \in Shares
    PROVE  /\ CumWeight(w) \in [0..Len(w) -> Nat]
           /\ CumWeight(w)[0] = 0
           /\ \A k \in 1..Len(w) : CumWeight(w)[k] = CumWeight(w)[k - 1] + w[k]
  <1> DEFINE N == Len(w)
             V == Nat
  <1>1. N \in Nat /\ 0 \in V /\ \A n \in 1..N, x \in V : x + w[n] \in V
    BY DEF Shares
  <1>2. CumWeight(w) = Totals(N, w)
    BY Zenon DEF CumWeight, Totals
  <1>3. /\ Totals(N, w) \in [0..N -> V] /\ Totals(N, w)[0] = 0
        /\ \A k \in 1..N : Totals(N, w)[k] = Totals(N, w)[k - 1] + w[k]
    <2> HIDE DEF N, V
    <2>. QED
      BY <1>1, RunningTotals
  <1>. QED
    BY <1>2, <1>3, Zenon

(* They rise from 0 to the total, which is positive.                       *)
LEMMA Rises ==
    ASSUME NEW w \in Shares
    PROVE  /\ \A j, k \in 0..Len(w) : j <= k => CumWeight(w)[j] <= CumWeight(w)[k]
           /\ TotalWeight(w) \in Nat /\ TotalWeight(w) > 0
           /\ \A k \in 0..Len(w) : CumWeight(w)[k] \in Nat /\ CumWeight(w)[k] <= TotalWeight(w)
  <1> DEFINE N == Len(w)
             C == CumWeight(w)
             P == {n \in 0..N : \A j \in 0..n : C[j] <= C[n]}
  <1>1. N \in Nat /\ N > 0 /\ \A n \in 1..N : w[n] \in Nat /\ w[n] > 0
    BY DEF Shares
  <1>2. /\ C \in [0..N -> Nat] /\ C[0] = 0
        /\ \A k \in 1..N : C[k] = C[k - 1] + w[k]
    BY Accumulates, Zenon
  <1> HIDE DEF N, C
  <1>3. 0 \in P
    BY <1>1, <1>2
  <1>4. ASSUME NEW n \in 1..N, n - 1 \in P
        PROVE  n \in P
    <2>1. n \in 0..N /\ n - 1 \in 0..N /\ C[n] = C[n - 1] + w[n] /\ C[n - 1] \in Nat /\ w[n] \in Nat
      BY <1>1, <1>2
    <2>2. ASSUME NEW j \in 0..n
          PROVE  C[j] <= C[n]
      <3>1. C[j] \in Nat /\ (j = n \/ j \in 0..(n - 1))
        BY <1>1, <1>2, <2>1
      <3>2. j \in 0..(n - 1) => C[j] <= C[n - 1]
        BY <1>4
      <3>. QED
        BY <2>1, <3>1, <3>2
    <2>. QED
      BY <2>1, <2>2
  <1>5. \A n \in 0..N : n \in P
    <2> HIDE DEF P
    <2>. QED
      BY <1>1, <1>3, <1>4, InductionUp
  <1>6. \A j, k \in 0..N : j <= k => C[j] <= C[k]
    BY <1>1, <1>5
  <1>7. C[N] \in Nat /\ C[N] > 0
    <2>1. C[N] = C[N - 1] + w[N] /\ C[N - 1] \in Nat /\ w[N] \in Nat /\ w[N] > 0
      BY <1>1, <1>2
    <2>. QED
      BY <2>1
  <1>8. \A k \in 0..N : C[k] \in Nat /\ C[k] <= C[N]
    BY <1>1, <1>2, <1>6
  <1>. QED
    BY <1>6, <1>7, <1>8 DEF TotalWeight, N, C

(* The product of naturals rises with a factor.                            *)
LEMMA Multiplied ==
    ASSUME NEW x \in Nat, NEW y \in Nat, NEW z \in Nat
    PROVE  /\ x * z \in Nat
           /\ x <= y => x * z <= y * z /\ z * x <= z * y
           /\ x * z = z * x /\ (x + y) * z = x * z + y * z
           /\ x < y /\ z > 0 => x * z < y * z
           /\ (x * y) * z = x * (y * z) /\ (x * y) * z = (x * z) * y
  OBVIOUS

(* A later bound lies no lower.                                            *)
LEMMA BelowRises ==
    ASSUME NEW w \in Shares, NEW c \in Share, NEW f \in Fraction,
           NEW i \in 0..Len(w), NEW j \in 0..Len(w), i <= j, Below(f, c, w, i)
    PROVE  Below(f, c, w, j)
  <1> DEFINE X == (f - c) * TotalWeight(w)
             h == Scale - c
             a == CumWeight(w)[i]
             b == CumWeight(w)[j]
  <1>1. a \in Nat /\ b \in Nat /\ a <= b /\ TotalWeight(w) \in Nat
    BY Rises
  <1>2. h \in Nat /\ X \in Int
    BY <1>1, AllocationAssumption DEF Share, Fraction
  <1>3. X < a * h
    BY DEF Below
  <1> HIDE DEF X, h, a, b
  <1>4. a * h <= b * h /\ a * h \in Nat /\ b * h \in Nat
    BY <1>1, <1>2, Multiplied
  <1>5. X < b * h
    BY <1>2, <1>3, <1>4
  <1>. QED
    BY <1>5 DEF Below, X, h, b

(* What assign returns: the control group below the hold-out's border, and *)
(* above it the variants in order, each ending at its own border.          *)
LEMMA AssignSplits ==
    ASSUME NEW w \in Shares, NEW c \in Share, NEW f \in Fraction
    PROVE  /\ f < c => Assign(f, c, w) = Control
           /\ ~ (f < c) => /\ Assign(f, c, w) \in 1..Len(w)
                           /\ \A i \in 1..(Len(w) - 1) : Below(f, c, w, i) <=> Assign(f, c, w) <= i
  <1> DEFINE K == Candidates(f, c, w)
  <1>1. Len(w) \in Nat /\ Len(w) > 0
    BY DEF Shares
  <1>2. f < c => Assign(f, c, w) = Control
    BY DEF Assign
  <1>3. K \in SUBSET Nat /\ \A i \in K : i \in 1..(Len(w) - 1)
    BY <1>1 DEF Candidates
  <1>4. \A i \in 1..(Len(w) - 1) : Below(f, c, w, i) <=> i \in K
    BY DEF Candidates
  <1>5. CASE ~ (f < c) /\ K = {}
    <2>1. Assign(f, c, w) = Len(w)
      BY <1>5 DEF Assign
    <2>2. \A i \in 1..(Len(w) - 1) : ~ (Len(w) <= i) /\ ~ Below(f, c, w, i)
      BY <1>1, <1>4, <1>5
    <2>. QED
      BY <1>1, <1>5, <2>1, <2>2
  <1>6. CASE ~ (f < c) /\ K # {}
    <2> HIDE DEF K
    <2>1. Assign(f, c, w) = Least(K)
      BY <1>6 DEF Assign, K
    <2>2. Least(K) \in K /\ \A i \in K : Least(K) <= i
      <3>1. \E m \in K : \A y \in K : m <= y
        BY <1>3, <1>6, LeastNumber
      <3>. QED
        BY <3>1, Zenon DEF Least
    <2> DEFINE m == Least(K)
    <2>3. m \in 1..(Len(w) - 1)
      BY <1>3, <2>2
    <2>4. Below(f, c, w, m)
      BY <1>4, <2>2, <2>3
    <2>5. ASSUME NEW i \in 1..(Len(w) - 1)
          PROVE  Below(f, c, w, i) <=> m <= i
      <3>1. i \in 0..Len(w) /\ m \in 0..Len(w)
        BY <1>1, <2>3
      <3>2. m <= i => Below(f, c, w, i)
        <4> HIDE DEF m
        <4>. QED
          BY <2>4, <3>1, BelowRises
      <3>. QED
        BY <1>4, <2>2, <3>2
    <2>. QED
      BY <1>1, <1>6, <2>1, <2>3, <2>5
  <1>. QED
    BY <1>1, <1>2, <1>5, <1>6

(* Users who stand further along the line never get an earlier bucket.     *)
LEMMA OrderedLayout ==
    ASSUME NEW w \in Shares, NEW c \in Share, NEW f \in Fraction, NEW g \in Fraction, f <= g
    PROVE  Assign(f, c, w) <= Assign(g, c, w)
  <1> DEFINE T == TotalWeight(w)
             a == Assign(f, c, w)
             b == Assign(g, c, w)
  <1>1. Len(w) \in Nat /\ Len(w) > 0 /\ T \in Nat
    BY Rises DEF Shares
  <1>2. f \in Nat /\ g \in Nat /\ c \in Nat
    BY AllocationAssumption DEF Fraction, Share
  <1>3. (f < c => a = 0) /\ (~ (f < c) => a \in 1..Len(w))
    BY AssignSplits DEF Control
  <1>4. (g < c => b = 0) /\ (~ (g < c) => b \in 1..Len(w))
    BY AssignSplits DEF Control
  <1>5. ASSUME ~ (f < c), ~ (g < c), b < a
        PROVE  FALSE
    <2>1. b \in 1..(Len(w) - 1) /\ ~ (a <= b)
      BY <1>1, <1>3, <1>4, <1>5
    <2>2. Below(g, c, w, b)
      BY <1>5, <2>1, AssignSplits
    <2>3. (f - c) * T <= (g - c) * T
      <3>1. f - c \in Nat /\ g - c \in Nat /\ f - c <= g - c
        BY <1>2, <1>5
      <3> HIDE DEF T
      <3>. QED
        BY <1>1, <3>1, Multiplied
    <2>4. Below(f, c, w, b)
      <3> DEFINE x == (f - c) * T
                 y == (g - c) * T
                 z == CumWeight(w)[b] * (Scale - c)
      <3>1. b \in 0..Len(w)
        BY <1>1, <2>1
      <3>2. x \in Int /\ y \in Int /\ z \in Int
        <4>1. CumWeight(w)[b] \in Nat
          BY <3>1, Rises
        <4>2. Scale - c \in Int /\ f - c \in Int /\ g - c \in Int
          BY <1>2, AllocationAssumption
        <4>. QED
          BY <1>1, <4>1, <4>2
      <3>3. y < z
        BY <2>2 DEF Below
      <3>4. x < z
        <4> HIDE DEF x, y, z
        <4>1. x <= y
          BY <2>3 DEF x, y
        <4>. QED
          BY <3>2, <3>3, <4>1
      <3>. QED
        BY <3>4 DEF Below
    <2>5. a <= b
      BY <1>5, <2>1, <2>4, AssignSplits
    <2>. QED
      BY <2>1, <2>5
  <1> HIDE DEF a, b
  <1>6. a <= b
    BY <1>1, <1>2, <1>3, <1>4, <1>5
  <1>. QED
    BY <1>6 DEF a, b

(* A larger hold-out moves nobody to a later bucket.                       *)
LEMMA MoreHeldOut ==
    ASSUME NEW w \in Shares, NEW c \in Share, NEW d \in Share, c < d, NEW f \in Fraction
    PROVE  Assign(f, d, w) <= Assign(f, c, w)
  <1> DEFINE T == TotalWeight(w)
             a == Assign(f, c, w)
             b == Assign(f, d, w)
  <1>1. Len(w) \in Nat /\ Len(w) > 0 /\ T \in Nat
    BY Rises DEF Shares
  <1>2. f \in Nat /\ c \in Nat /\ d \in Nat /\ Scale - c \in Nat /\ Scale - d \in Nat
    BY AllocationAssumption DEF Fraction, Share
  <1>3. (f < c => a = 0) /\ (~ (f < c) => a \in 1..Len(w))
    BY AssignSplits DEF Control
  <1>4. (f < d => b = 0) /\ (~ (f < d) => b \in 1..Len(w))
    BY AssignSplits DEF Control
  <1>5. ASSUME ~ (f < d), a < b
        PROVE  FALSE
    <2>1. ~ (f < c)
      BY <1>2, <1>5
    <2>2. a \in 1..(Len(w) - 1) /\ a \in 0..Len(w) /\ ~ (b <= a)
      BY <1>1, <1>3, <1>4, <1>5, <2>1
    <2>3. Below(f, c, w, a)
      BY <2>1, <2>2, AssignSplits
    <2> DEFINE q == CumWeight(w)[a]
               e == d - c
    <2>4. q \in Nat /\ q <= T
      BY <2>2, Rises
    <2>5. e \in Nat /\ f - d \in Nat /\ f - c = (f - d) + e /\ Scale - c = (Scale - d) + e
      <3>1. Scale \in Int /\ f \in Int /\ c \in Int /\ d \in Int /\ c < d /\ d <= f
        BY <1>2, <1>5, AllocationAssumption
      <3>. QED
        BY <3>1
    <2>6. (f - c) * T < q * (Scale - c)
      BY <2>3 DEF Below
    <2> HIDE DEF q, e, T
    <2>7. q * e <= e * T /\ q * e \in Nat /\ e * T \in Nat
      BY <1>1, <2>4, <2>5, Multiplied
    <2>8. /\ (f - c) * T = (f - d) * T + e * T
          /\ (f - d) * T \in Nat
      BY <1>1, <2>5, Multiplied
    <2>9. /\ q * (Scale - c) = q * (Scale - d) + q * e
          /\ q * (Scale - d) \in Nat
      BY <1>2, <2>4, <2>5, Multiplied
    <2>10. (f - d) * T < q * (Scale - d)
      BY <2>6, <2>7, <2>8, <2>9
    <2>11. Below(f, d, w, a)
      BY <2>10 DEF Below, q, T
    <2>12. b <= a
      BY <1>5, <2>2, <2>11, AssignSplits
    <2>. QED
      BY <2>2, <2>12
  <1> HIDE DEF a, b
  <1>6. b <= a
    BY <1>1, <1>2, <1>3, <1>4, <1>5
  <1>. QED
    BY <1>6 DEF a, b

(* Two rows of weights whose borders mean the same assign everybody alike. *)
LEMMA SameBorders ==
    ASSUME NEW w \in Shares, NEW v \in Shares, Len(v) = Len(w), NEW c \in Share,
           NEW f \in Fraction,
           ~ (f < c) => \A i \in 1..(Len(w) - 1) : Below(f, c, v, i) <=> Below(f, c, w, i)
    PROVE  Assign(f, c, v) = Assign(f, c, w)
  <1> DEFINE a == Assign(f, c, w)
             b == Assign(f, c, v)
             N == Len(w)
  <1>1. N \in Nat
    OBVIOUS
  <1>2. /\ f < c => a = Control
        /\ ~ (f < c) => a \in 1..N /\ \A i \in 1..(N - 1) : Below(f, c, w, i) <=> a <= i
    BY AssignSplits, Zenon
  <1>3. /\ f < c => b = Control
        /\ ~ (f < c) => b \in 1..N /\ \A i \in 1..(N - 1) : Below(f, c, v, i) <=> b <= i
    BY AssignSplits
  <1> HIDE DEF a, b
  <1>4. CASE f < c
    BY <1>2, <1>3, <1>4 DEF a, b
  <1>5. CASE ~ (f < c)
    <2>1. a \in 1..N /\ b \in 1..N
      BY <1>2, <1>3, <1>5
    <2>2. \A i \in 1..(N - 1) : a <= i <=> b <= i
      BY <1>2, <1>3, <1>5
    <2>3. a < b => a \in 1..(N - 1)
      BY <1>1, <2>1
    <2>4. b < a => b \in 1..(N - 1)
      BY <1>1, <2>1
    <2>5. a = b
      <3>1. a \in Nat /\ b \in Nat
        BY <1>1, <2>1
      <3>. QED
        BY <2>2, <2>3, <2>4, <3>1
    <2>. QED
      BY <2>5 DEF a, b
  <1>. QED
    BY <1>4, <1>5

(* Weights in the same proportion draw the same borders.                   *)
LEMMA ScaledWeights ==
    ASSUME NEW w \in Shares, NEW v \in Shares, Len(v) = Len(w), NEW c \in Share,
           NEW f \in Fraction,
           \A i, j \in 1..Len(w) : v[i] * w[j] = w[i] * v[j]
    PROVE  Assign(f, c, v) = Assign(f, c, w)
  <1> DEFINE N == Len(w)
             p == w[1]
             q == v[1]
             C == CumWeight(w)
             D == CumWeight(v)
             P == {n \in 0..N : D[n] * p = C[n] * q}
  <1>1. /\ N \in Nat /\ N > 0
        /\ \A n \in 1..N : w[n] \in Nat /\ v[n] \in Nat /\ w[n] > 0 /\ v[n] > 0
        /\ p \in Nat /\ q \in Nat /\ p > 0 /\ q > 0
    <2>1. N \in Nat /\ N > 0 /\ \A n \in 1..N : w[n] \in Nat /\ v[n] \in Nat /\ w[n] > 0 /\ v[n] > 0
      BY DEF Shares
    <2>. QED
      BY <2>1
  <1>2. /\ C \in [0..N -> Nat] /\ C[0] = 0 /\ \A k \in 1..N : C[k] = C[k - 1] + w[k]
        /\ D \in [0..N -> Nat] /\ D[0] = 0 /\ \A k \in 1..N : D[k] = D[k - 1] + v[k]
    BY Accumulates
  <1>3. \A n \in 1..N : v[n] * p = w[n] * q
    BY <1>1
  <1>4. C[N] = TotalWeight(w) /\ D[N] = TotalWeight(v)
    BY DEF TotalWeight
  <1> HIDE DEF N, p, q, C, D
  <1>5. \A n \in 0..N : n \in P
    <2>1. 0 \in P
      BY <1>1, <1>2
    <2>2. ASSUME NEW n \in 1..N, n - 1 \in P
          PROVE  n \in P
      <3>1. /\ n \in 0..N /\ C[n] = C[n - 1] + w[n] /\ D[n] = D[n - 1] + v[n]
            /\ C[n - 1] \in Nat /\ D[n - 1] \in Nat /\ w[n] \in Nat /\ v[n] \in Nat
        BY <1>1, <1>2
      <3>2. D[n - 1] * p = C[n - 1] * q /\ v[n] * p = w[n] * q
        BY <1>3, <2>2
      <3>3. /\ (D[n - 1] + v[n]) * p = D[n - 1] * p + v[n] * p
            /\ (C[n - 1] + w[n]) * q = C[n - 1] * q + w[n] * q
        <4> DEFINE dd == D[n - 1]
                   cc == C[n - 1]
                   vv == v[n]
                   ww == w[n]
        <4>1. dd \in Nat /\ cc \in Nat /\ vv \in Nat /\ ww \in Nat /\ p \in Nat /\ q \in Nat
          BY <1>1, <3>1
        <4> HIDE DEF dd, cc, vv, ww
        <4>2. (dd + vv) * p = dd * p + vv * p
          BY <4>1, Multiplied
        <4>3. (cc + ww) * q = cc * q + ww * q
          BY <4>1, Multiplied
        <4>. QED
          BY <4>2, <4>3 DEF dd, cc, vv, ww
      <3>4. D[n - 1] * p \in Nat /\ v[n] * p \in Nat
        BY <1>1, <3>1, Multiplied
      <3>. QED
        BY <3>1, <3>2, <3>3
    <2>. QED
      <3> HIDE DEF P
      <3>. QED
        BY <1>1, <2>1, <2>2, InductionUp
  <1>6. ASSUME NEW i \in 1..(N - 1), ~ (f < c)
        PROVE  Below(f, c, v, i) <=> Below(f, c, w, i)
    <2> DEFINE x == f - c
               h == Scale - c
               X == x * C[N]
               Y == C[i] * h
               Xv == x * D[N]
               Yv == D[i] * h
    <2>1. x \in Nat /\ h \in Nat
      BY <1>6, AllocationAssumption DEF Fraction, Share
    <2>2. /\ C[i] \in Nat /\ C[N] \in Nat /\ D[i] \in Nat /\ D[N] \in Nat
          /\ D[i] * p = C[i] * q /\ D[N] * p = C[N] * q
      <3>1. i \in 0..N /\ N \in 0..N
        BY <1>1
      <3>2. i \in P /\ N \in P
        BY <1>5, <3>1
      <3>3. D[i] * p = C[i] * q /\ D[N] * p = C[N] * q
        BY <3>2
      <3> HIDE DEF P
      <3>. QED
        BY <1>2, <3>1, <3>3
    <2> HIDE DEF x, h
    <2>3. X \in Nat /\ Y \in Nat /\ Xv \in Nat /\ Yv \in Nat
      BY <2>1, <2>2, Multiplied
    <2>4. Xv * p = X * q
      <3> DEFINE dd == D[N]
                 cc == C[N]
      <3> HIDE DEF dd, cc
      <3>1. dd \in Nat /\ cc \in Nat
        BY <2>2 DEF dd, cc
      <3>2. (x * dd) * p = x * (dd * p)
        BY <1>1, <2>1, <3>1, Multiplied
      <3>3. (x * cc) * q = x * (cc * q)
        BY <1>1, <2>1, <3>1, Multiplied
      <3>. QED
        BY <2>2, <3>2, <3>3 DEF dd, cc
    <2>5. Yv * p = Y * q
      <3> DEFINE dd == D[i]
                 cc == C[i]
      <3> HIDE DEF dd, cc
      <3>1. dd \in Nat /\ cc \in Nat
        BY <2>2 DEF dd, cc
      <3>2. (dd * h) * p = (dd * p) * h
        BY <1>1, <2>1, <3>1, Multiplied
      <3>3. (cc * h) * q = (cc * q) * h
        BY <1>1, <2>1, <3>1, Multiplied
      <3>. QED
        BY <2>2, <3>2, <3>3 DEF dd, cc
    <2>6. Xv < Yv <=> X < Y
      <3> HIDE DEF X, Y, Xv, Yv
      <3>1. Xv < Yv => Xv * p < Yv * p
        BY <1>1, <2>3, Multiplied
      <3>2. X < Y => X * q < Y * q
        BY <1>1, <2>3, Multiplied
      <3>3. ~ (Xv < Yv) => Yv * p <= Xv * p
        BY <1>1, <2>3, Multiplied
      <3>4. ~ (X < Y) => Y * q <= X * q
        BY <1>1, <2>3, Multiplied
      <3>5. X * q \in Nat /\ Y * q \in Nat
        BY <1>1, <2>3, Multiplied
      <3>. QED
        BY <2>4, <2>5, <3>1, <3>2, <3>3, <3>4, <3>5
    <2>. QED
      BY <1>4, <2>6 DEF Below, x, h, C, D
  <1>. QED
    BY <1>6, SameBorders DEF N

(* A variant appended only takes users from those before it.               *)
LEMMA AppendedVariant ==
    ASSUME NEW w \in Shares, NEW v \in Shares, Len(v) = Len(w) + 1,
           SubSeq(v, 1, Len(w)) = w, NEW c \in Share, NEW f \in Fraction
    PROVE  /\ Assign(f, c, w) <= Assign(f, c, v)
           /\ Assign(f, c, w) = Control <=> Assign(f, c, v) = Control
  <1> DEFINE N == Len(w)
             C == CumWeight(w)
             D == CumWeight(v)
             P == {n \in 0..N : D[n] = C[n]}
             a == Assign(f, c, w)
             b == Assign(f, c, v)
  <1>1. /\ N \in Nat /\ N > 0 /\ Len(v) = N + 1
        /\ \A n \in 1..N : w[n] \in Nat
        /\ \A n \in 1..(N + 1) : v[n] \in Nat
        /\ \A n \in 1..N : v[n] = w[n]
    <2>1. N \in Nat /\ N > 0 /\ v \in Seq(Nat) /\ w \in Seq(Nat)
      BY DEF Shares
    <2>2. ASSUME NEW n \in 1..N
          PROVE  v[n] = w[n]
      <3>1. SubSeq(v, 1, N)[n] = v[n]
        BY <2>1
      <3>. QED
        BY <3>1
    <2>. QED
      BY <2>1, <2>2
  <1>2. /\ C \in [0..N -> Nat] /\ C[0] = 0 /\ \A k \in 1..N : C[k] = C[k - 1] + w[k]
        /\ D \in [0..(N + 1) -> Nat] /\ D[0] = 0
        /\ \A k \in 1..(N + 1) : D[k] = D[k - 1] + v[k]
    BY Accumulates
  <1>3. C[N] = TotalWeight(w) /\ D[N + 1] = TotalWeight(v)
    BY DEF TotalWeight
  <1>4. /\ f < c => a = Control
        /\ ~ (f < c) => a \in 1..N /\ \A i \in 1..(N - 1) : Below(f, c, w, i) <=> a <= i
    BY AssignSplits, Zenon
  <1>5. /\ f < c => b = Control
        /\ ~ (f < c) => b \in 1..(N + 1) /\ \A i \in 1..N : Below(f, c, v, i) <=> b <= i
    <2>1. Len(v) - 1 = N
      BY <1>1
    <2>. QED
      BY <1>1, <2>1, AssignSplits
  <1>6. f < c \/ (~ (f < c) /\ f - c \in Nat /\ Scale - c \in Nat)
    BY AllocationAssumption DEF Fraction, Share
  <1> HIDE DEF N, C, D, a, b
  <1>7. \A n \in 0..N : n \in P
    <2>1. 0 \in P
      BY <1>1, <1>2
    <2>2. ASSUME NEW n \in 1..N, n - 1 \in P
          PROVE  n \in P
      BY <1>1, <1>2, <2>2
    <2>. QED
      <3> HIDE DEF P
      <3>. QED
        BY <1>1, <2>1, <2>2, InductionUp
  <1>8. ASSUME ~ (f < c)
        PROVE  a <= b
    <2>1. a \in 1..N /\ b \in 1..(N + 1)
      BY <1>4, <1>5, <1>8
    <2>2. ASSUME b < a
          PROVE  FALSE
      <3>1. b \in 1..N /\ b \in 1..(N - 1) /\ b \in 0..N
        BY <1>1, <2>1, <2>2
      <3>2. Below(f, c, v, b)
        BY <1>5, <1>8, <2>1, <3>1
      <3> DEFINE x == f - c
                 h == Scale - c
      <3>3. x \in Nat /\ h \in Nat
        BY <1>6, <1>8
      <3>4. x * D[N + 1] < D[b] * h
        BY <1>3, <3>2 DEF Below, D
      <3> HIDE DEF x, h
      <3>5. D[b] = C[b] /\ C[b] \in Nat /\ C[N] \in Nat /\ D[N + 1] \in Nat /\ C[N] <= D[N + 1]
        <4>1. N \in 0..N /\ N + 1 \in 1..(N + 1) /\ (N + 1) - 1 = N /\ N + 1 \in 0..(N + 1)
          BY <1>1
        <4>2. D[N] = C[N] /\ D[b] = C[b]
          BY <1>7, <3>1, <4>1
        <4>3. D[N + 1] = D[N] + v[N + 1] /\ v[N + 1] \in Nat
          BY <1>1, <1>2, <4>1
        <4>4. C[b] \in Nat /\ C[N] \in Nat /\ D[N + 1] \in Nat
          BY <1>2, <3>1, <4>1
        <4> HIDE DEF P
        <4>. QED
          BY <4>2, <4>3, <4>4
      <3>6. x * C[N] <= x * D[N + 1] /\ x * C[N] \in Nat /\ x * D[N + 1] \in Nat /\ C[b] * h \in Nat
        BY <3>3, <3>5, Multiplied
      <3>7. x * C[N] < C[b] * h
        BY <3>4, <3>5, <3>6
      <3>8. Below(f, c, w, b)
        BY <1>3, <3>7 DEF Below, C, x, h
      <3>9. a <= b
        BY <1>4, <1>8, <3>1, <3>8
      <3>. QED
        BY <1>1, <2>1, <2>2, <3>9
    <2>. QED
      BY <1>1, <2>1, <2>2
  <1>9. (f < c => a = 0 /\ b = 0) /\ (~ (f < c) => a # 0 /\ b # 0)
    BY <1>1, <1>4, <1>5 DEF Control
  <1>10. a <= b /\ (a = Control <=> b = Control)
    BY <1>8, <1>9 DEF Control
  <1>. QED
    BY <1>10 DEF a, b

(* X in steps of T: the first multiple that reaches it.                    *)
LEMMA Reaches ==
    ASSUME NEW T \in Nat, T > 0, NEW X \in Nat
    PROVE  \E m \in Nat : /\ X <= m * T /\ m * T < X + T
                          /\ \A k \in Nat : k < m <=> k * T < X
  <1> DEFINE Far == {m \in Nat : X <= m * T}
  <1>1. X \in Far
    <2>1. X * 1 <= X * T
      BY Multiplied
    <2>. QED
      BY <2>1
  <1>2. PICK m \in Far : \A k \in Far : m <= k
    <2>1. Far \in SUBSET Nat /\ Far # {}
      BY <1>1
    <2> HIDE DEF Far
    <2>. QED
      BY <2>1, LeastNumber
  <1>3. m \in Nat /\ X <= m * T
    OBVIOUS
  <1>4. ASSUME NEW k \in Nat
        PROVE  k < m <=> k * T < X
    <2>1. k * T \in Nat /\ m * T \in Nat
      BY <1>3, Multiplied
    <2>2. k < m => ~ (X <= k * T)
      BY <1>2, <1>3
    <2>3. ~ (k < m) => m * T <= k * T
      BY <1>3, Multiplied
    <2>. QED
      BY <1>3, <2>1, <2>2, <2>3
  <1>5. m * T < X + T
    <2>1. CASE m = 0
      BY <1>3, <2>1
    <2>2. CASE m # 0
      <3>1. m - 1 \in Nat /\ m - 1 < m /\ (m - 1) + 1 = m
        BY <1>3, <2>2
      <3>2. (m - 1) * T < X
        BY <1>4, <3>1
      <3>3. m * T = (m - 1) * T + T
        BY <3>1, Multiplied
      <3>4. (m - 1) * T \in Nat
        BY <3>1, Multiplied
      <3>. QED
        BY <3>2, <3>3, <3>4
    <2>. QED
      BY <2>1, <2>2
  <1>. QED
    BY <1>3, <1>4, <1>5

(* A bucket is the stretch of the line between two neighbouring borders.   *)
LEMMA BucketBetween ==
    ASSUME NEW w \in Shares, NEW c \in Share, NEW f \in Fraction \ {Scale}, ~ (f < c),
           NEW i \in 1..Len(w)
    PROVE  Assign(f, c, w) = i <=> Below(f, c, w, i) /\ ~ Below(f, c, w, i - 1)
  <1> DEFINE T == TotalWeight(w)
             C == CumWeight(w)
             a == Assign(f, c, w)
             N == Len(w)
             x == f - c
             h == Scale - c
  <1>1. N \in Nat /\ N > 0 /\ T \in Nat /\ T > 0
    BY Rises DEF Shares
  <1>2. C[0] = 0 /\ C[N] = T
    BY Accumulates DEF TotalWeight
  <1>3. x \in Nat /\ h \in Nat /\ x < h
    BY AllocationAssumption DEF Fraction, Share
  <1>4. a \in 1..N /\ \A k \in 1..(N - 1) : Below(f, c, w, k) <=> a <= k
    BY AssignSplits
  <1>5. Below(f, c, w, N)
    <2>1. x * T < h * T /\ h * T = T * h
      <3> HIDE DEF x, h, T
      <3>. QED
        BY <1>1, <1>3, Multiplied
    <2>. QED
      BY <1>2, <2>1 DEF Below
  <1>6. ~ Below(f, c, w, 0)
    <2>1. x * T \in Nat /\ 0 * h = 0
      <3> HIDE DEF x, h, T
      <3>. QED
        BY <1>1, <1>3, Multiplied
    <2>. QED
      BY <1>2, <2>1 DEF Below
  <1>7. Below(f, c, w, i) <=> a <= i
    <2>1. i = N \/ i \in 1..(N - 1)
      BY <1>1
    <2> HIDE DEF a, N
    <2>. QED
      BY <1>1, <1>4, <1>5, <2>1
  <1>8. Below(f, c, w, i - 1) <=> a <= i - 1
    <2>1. i - 1 = 0 \/ i - 1 \in 1..(N - 1)
      BY <1>1
    <2>2. i - 1 = 0 => ~ (a <= i - 1)
      BY <1>1, <1>4
    <2> HIDE DEF a, N
    <2>. QED
      BY <1>1, <1>4, <1>6, <2>1, <2>2
  <1>9. i \in Nat /\ a \in Nat
    BY <1>1, <1>4
  <1> HIDE DEF a
  <1>. QED
    BY <1>7, <1>8, <1>9 DEF a

(* As many points as from one border up to the next.                       *)
LEMMA IntervalSize ==
    ASSUME NEW m \in Nat, NEW n \in Nat, m <= n
    PROVE  Cardinality(m..(n - 1)) = n - m
  <1>1. Cardinality(m..(n - 1)) = IF m > n - 1 THEN 0 ELSE (n - 1) - m + 1
    BY FS_Interval
  <1>. QED
    BY <1>1

SizeOf(b, c, w) == Cardinality({f \in Fraction \ {Scale} : Assign(f, c, w) = b})

(* The control group has exactly the points below the hold-out's border.   *)
LEMMA ControlExact ==
    ASSUME NEW w \in Shares, NEW c \in Share
    PROVE  SizeOf(Control, c, w) = c
  <1> DEFINE S == {f \in Fraction \ {Scale} : Assign(f, c, w) = Control}
  <1>1. c \in Nat /\ c < Scale /\ Scale \in Nat
    BY AllocationAssumption DEF Share
  <1>2. \A f \in Fraction : f \in Nat /\ f <= Scale
    BY AllocationAssumption DEF Fraction
  <1>3. \A f \in Fraction : Assign(f, c, w) = Control <=> f < c
    <2> TAKE f \in Fraction
    <2>1. ~ (f < c) => Assign(f, c, w) \in 1..Len(w)
      BY AssignSplits
    <2>2. Len(w) \in Nat
      OBVIOUS
    <2>. QED
      BY <2>1, <2>2, AssignSplits DEF Control
  <1>4. S = 0..(c - 1)
    BY <1>1, <1>2, <1>3 DEF Fraction
  <1>5. Cardinality(S) = c - 0
    <2> HIDE DEF S
    <2>. QED
      BY <1>1, <1>4, IntervalSize
  <1>. QED
    BY <1>1, <1>5 DEF SizeOf

(* Every variant gets its share, to within one point.                      *)
LEMMA VariantFair ==
    ASSUME NEW w \in Shares, NEW c \in Share, NEW i \in 1..Len(w)
    PROVE  LET drift == SizeOf(i, c, w) * TotalWeight(w) - (Scale - c) * w[i]
           IN  -TotalWeight(w) < drift /\ drift < TotalWeight(w)
  <1> DEFINE T == TotalWeight(w)
             C == CumWeight(w)
             N == Len(w)
             h == Scale - c
             S == {f \in Fraction \ {Scale} : Assign(f, c, w) = i}
             X == C[i - 1] * h
             Y == C[i] * h
  <1>1. N \in Nat /\ N > 0 /\ T \in Nat /\ T > 0
    BY Rises DEF Shares
  <1>2. c \in Nat /\ c < Scale /\ Scale \in Nat /\ h \in Nat
    BY AllocationAssumption DEF Share
  <1>3. i \in 0..N /\ i - 1 \in 0..N
    BY <1>1
  <1>4. /\ C[i] \in Nat /\ C[i - 1] \in Nat /\ w[i] \in Nat /\ C[i] = C[i - 1] + w[i] /\ C[i] <= T
    <2>1. w[i] \in Nat
      BY DEF Shares
    <2>. QED
      BY <1>3, <2>1, Accumulates, Rises
  <1>5. X \in Nat /\ Y \in Nat /\ X <= Y /\ Y <= T * h /\ Y = X + h * w[i] /\ h * w[i] \in Nat
    <2> DEFINE x == C[i - 1]
               y == C[i]
               z == w[i]
    <2> HIDE DEF x, y, z, h, T
    <2>1. x \in Nat /\ y \in Nat /\ z \in Nat /\ y = x + z /\ y <= T /\ x <= y
      BY <1>4 DEF x, y, z
    <2>2. /\ x * h \in Nat /\ y * h \in Nat /\ x * h <= y * h /\ y * h <= T * h
          /\ (x + z) * h = x * h + z * h /\ z * h = h * z /\ h * z \in Nat
      BY <1>1, <1>2, <2>1, Multiplied
    <2>. QED
      BY <2>1, <2>2 DEF x, y, z
  <1> HIDE DEF X, Y
  <1>6. PICK lo \in Nat : X <= lo * T /\ lo * T < X + T /\ \A k \in Nat : k < lo <=> k * T < X
    BY <1>1, <1>5, Reaches
  <1>7. PICK hi \in Nat : Y <= hi * T /\ hi * T < Y + T /\ \A k \in Nat : k < hi <=> k * T < Y
    BY <1>1, <1>5, Reaches
  <1>8. lo <= hi
    <2>1. hi * T \in Nat
      BY <1>1, Multiplied
    <2>2. hi < lo => hi * T < X
      BY <1>6
    <2>. QED
      BY <1>5, <1>7, <2>1, <2>2
  <1>9. hi <= h
    <2>1. h < hi => h * T < Y
      BY <1>2, <1>7
    <2>2. h * T = T * h /\ h * T \in Nat
      <3> HIDE DEF h, T
      <3>. QED
        BY <1>1, <1>2, Multiplied
    <2> HIDE DEF h
    <2>. QED
      BY <1>2, <1>5, <2>1, <2>2
  <1>10. \A f \in Fraction \ {Scale} : f \in Nat /\ f < Scale
    BY <1>2 DEF Fraction
  <1>11. ASSUME NEW f \in Fraction \ {Scale}
         PROVE  Assign(f, c, w) = i <=> f \in (c + lo)..(c + hi - 1)
    <2>1. CASE f < c
      <3>1. Assign(f, c, w) = Control
        BY <2>1, AssignSplits
      <3>. QED
        BY <1>2, <1>10, <2>1, <3>1 DEF Control
    <2>2. CASE ~ (f < c)
      <3>1. f - c \in Nat
        BY <1>2, <1>10, <2>2
      <3>2. Below(f, c, w, i) <=> f - c < hi
        <4>1. f - c < hi <=> (f - c) * T < Y
          BY <1>7, <3>1
        <4>. QED
          BY <4>1 DEF Below, Y
      <3>3. Below(f, c, w, i - 1) <=> f - c < lo
        <4>1. f - c < lo <=> (f - c) * T < X
          BY <1>6, <3>1
        <4>. QED
          BY <4>1 DEF Below, X
      <3>4. Assign(f, c, w) = i <=> Below(f, c, w, i) /\ ~ Below(f, c, w, i - 1)
        BY <2>2, BucketBetween
      <3>. QED
        BY <1>2, <1>10, <2>2, <3>2, <3>3, <3>4
    <2>. QED
      BY <2>1, <2>2
  <1>12. S = (c + lo)..(c + hi - 1)
    <2>1. \A f \in (c + lo)..(c + hi - 1) : f \in Fraction \ {Scale}
      BY <1>2, <1>9 DEF Fraction
    <2>. QED
      BY <1>11, <2>1
  <1>13. SizeOf(i, c, w) = hi - lo
    <2>1. c + lo \in Nat /\ c + hi \in Nat /\ c + lo <= c + hi
          /\ (c + hi) - (c + lo) = hi - lo
      BY <1>2, <1>8
    <2>2. Cardinality((c + lo)..((c + hi) - 1)) = (c + hi) - (c + lo)
      <3> DEFINE m == c + lo
                 n == c + hi
      <3> HIDE DEF m, n
      <3>. QED
        BY <2>1, IntervalSize
    <2>3. (c + hi) - 1 = c + hi - 1
      BY <1>2
    <2>. QED
      BY <1>12, <2>1, <2>2, <2>3 DEF SizeOf
  <1>14. (hi - lo) * T = hi * T - lo * T /\ hi * T \in Nat /\ lo * T \in Nat
    <2>1. hi - lo \in Nat /\ (hi - lo) + lo = hi
      BY <1>8
    <2>2. /\ ((hi - lo) + lo) * T = (hi - lo) * T + lo * T
          /\ hi * T \in Nat /\ lo * T \in Nat /\ (hi - lo) * T \in Nat
      <3> HIDE DEF T
      <3>. QED
        BY <1>1, <2>1, Multiplied
    <2>. QED
      BY <2>1, <2>2
  <1> DEFINE r == (hi - lo) * T
             u == hi * T
             l == lo * T
             g == h * w[i]
  <1>15. /\ r = u - l /\ u \in Nat /\ l \in Nat /\ g \in Nat /\ Y = X + g
         /\ X <= l /\ l < X + T /\ Y <= u /\ u < Y + T
    BY <1>5, <1>6, <1>7, <1>14
  <1>16. -T < r - g /\ r - g < T
    <2> HIDE DEF r, u, l, g, T, h
    <2>. QED
      BY <1>1, <1>5, <1>15
  <1>. QED
    BY <1>13, <1>16

(* A definition that Campaign and Variant let through; nothing else ever   *)
(* comes up.                                                               *)
DefinitionTypeOK == control \in Share /\ weights \in Splits

LEMMA SplitsAreShares ==
    ASSUME NEW w \in Splits
    PROVE  w \in Shares
  <1>1. PICK n \in 1..MaxVariants : w \in [1..n -> 1..MaxWeight]
    BY Zenon DEF Splits
  <1>2. n \in Nat /\ n > 0 /\ \A k \in 1..MaxWeight : k \in Nat \ {0}
    BY CampaignAssumption
  <1>3. w \in [1..n -> Nat \ {0}]
    BY <1>1, <1>2
  <1>4. w \in Seq(Nat \ {0}) /\ Len(w) = n
    BY <1>2, <1>3
  <1>. QED
    BY <1>2, <1>4 DEF Shares

LEMMA DefinitionTyped == AllocSpec => []DefinitionTypeOK
  <1>1. AllocInit => DefinitionTypeOK
    BY DEF AllocInit, DefinitionTypeOK
  <1>2. DefinitionTypeOK /\ [Redefine]_Definition => DefinitionTypeOK'
    BY DEF DefinitionTypeOK, Redefine, Definition
  <1>. QED
    BY <1>1, <1>2, PTL DEF AllocSpec

(* Whatever the definition, its buckets lie in order and are fair.         *)
LEMMA DefinitionFair == DefinitionTypeOK => LayoutOrdered /\ SharesAreFair
  <1> SUFFICES ASSUME DefinitionTypeOK
               PROVE  LayoutOrdered /\ SharesAreFair
    OBVIOUS
  <1>1. control \in Share /\ weights \in Shares
    BY SplitsAreShares DEF DefinitionTypeOK
  <1>2. LayoutOrdered
    BY <1>1, OrderedLayout DEF LayoutOrdered, Bucket
  <1>3. SizeOf(Control, control, weights) = control
    BY <1>1, ControlExact
  <1>4. ASSUME NEW i \in 1..Len(weights)
        PROVE  LET drift == SizeOf(i, control, weights) * TotalWeight(weights)
                              - (Scale - control) * weights[i]
               IN  -TotalWeight(weights) < drift /\ drift < TotalWeight(weights)
    BY <1>1, VariantFair
  <1>5. SharesAreFair
    BY <1>3, <1>4 DEF SharesAreFair, SizeOf, Bucket
  <1>. QED
    BY <1>2, <1>5

(* Every edit of a campaign, for any line, any number of variants and any  *)
(* weights: the buckets stay in order and fair to within a point, and only *)
(* the users an edit has to move are moved (allocator.assign).             *)
THEOREM CampaignEditsMoveFew == AllocSpec => EditsMoveFewUsers
  <1> DEFINE RampUp == (control' > control /\ weights' = weights)
                          => \A f \in Fraction : Bucket(f)' <= Bucket(f)
             Scaled == (/\ control' = control /\ weights' # weights
                        /\ Len(weights') = Len(weights)
                        /\ \A i, j \in 1..Len(weights) :
                              weights'[i] * weights[j] = weights[i] * weights'[j])
                          => \A f \in Fraction : Bucket(f)' = Bucket(f)
             Appended == (/\ control' = control /\ Len(weights') = Len(weights) + 1
                          /\ SubSeq(weights', 1, Len(weights)) = weights)
                          => \A f \in Fraction : Bucket(f)' >= Bucket(f)
                                 /\ (Bucket(f) = Control <=> Bucket(f)' = Control)
  <1>1. AllocSpec => []DefinitionTypeOK
    BY DefinitionTyped
  <1>2. DefinitionTypeOK => LayoutOrdered /\ SharesAreFair
    BY DefinitionFair
  <1>3. ASSUME DefinitionTypeOK, DefinitionTypeOK'
        PROVE  RampUp /\ Scaled /\ Appended
    <2>1. control \in Share /\ weights \in Shares /\ control' \in Share /\ weights' \in Shares
      BY <1>3, SplitsAreShares DEF DefinitionTypeOK
    <2>2. RampUp
      <3>1. ASSUME control' > control, weights' = weights, NEW f \in Fraction
            PROVE  Bucket(f)' <= Bucket(f)
        <4>1. control < control'
          BY <2>1, <3>1, AllocationAssumption DEF Share
        <4>. QED
          BY <2>1, <3>1, <4>1, MoreHeldOut DEF Bucket
      <3>. QED
        BY <3>1
    <2>3. Scaled
      BY <2>1, ScaledWeights DEF Bucket
    <2>4. Appended
      <3>1. ASSUME control' = control, Len(weights') = Len(weights) + 1,
                   SubSeq(weights', 1, Len(weights)) = weights, NEW f \in Fraction
            PROVE  /\ Bucket(f)' >= Bucket(f)
                   /\ (Bucket(f) = Control <=> Bucket(f)' = Control)
        <4>1. /\ Assign(f, control, weights) <= Assign(f, control, weights')
              /\ Assign(f, control, weights) = Control
                    <=> Assign(f, control, weights') = Control
          BY <2>1, <3>1, AppendedVariant
        <4>2. Assign(f, control, weights) \in Int /\ Assign(f, control, weights') \in Int
          <5>1. ASSUME NEW w \in Shares
                PROVE  Assign(f, control, w) \in Int
            BY <2>1, AssignSplits DEF Control
          <5>. QED
            BY <2>1, <5>1
        <4>. QED
          BY <3>1, <4>1, <4>2 DEF Bucket
      <3>. QED
        BY <3>1
    <2>. QED
      BY <2>2, <2>3, <2>4
  <1>4. AllocSpec => [](LayoutOrdered /\ SharesAreFair)
    BY <1>1, <1>2, PTL
  <1>5. AllocSpec => RampUpKeepsControl
    BY <1>1, <1>3, PTL DEF AllocSpec, RampUpKeepsControl
  <1>6. AllocSpec => WeightsAreRelative
    BY <1>1, <1>3, PTL DEF AllocSpec, WeightsAreRelative
  <1>7. AllocSpec => NewVariantOnlyTakes
    BY <1>1, <1>3, PTL DEF AllocSpec, NewVariantOnlyTakes
  <1>. QED
    BY <1>4, <1>5, <1>6, <1>7 DEF EditsMoveFewUsers
-----------------------------------------------------------------------------
(* Texts: t is a text of the gate's characters, u the first letters of t.  *)
Texts == Seq(Characters)
Begins(u, t) == \E m \in 0..Len(t) : u = SubSeq(t, 1, m)

(* Two neighbouring letters, in either case: a disclaimer, a banned claim. *)
Disclaims(t) == \E i \in 1..(Len(t) - 1) : t[i] \in {"T", "t"} /\ t[i + 1] = "c"
Claims(t) == \E i \in 1..(Len(t) - 1) : t[i] \in {"G", "g"} /\ t[i + 1] \in {"U", "u"}

(* What joining, cutting and writing out texts does to their letters.      *)
LEMMA Joined ==
    ASSUME NEW S, NEW s \in Seq(S), NEW u \in Seq(S)
    PROVE  /\ s \o u \in Seq(S) /\ Len(s \o u) = Len(s) + Len(u)
           /\ \A i \in 1..Len(s) : (s \o u)[i] = s[i]
           /\ \A i \in 1..Len(u) : (s \o u)[Len(s) + i] = u[i]
  OBVIOUS

LEMMA TextsJoined ==
    ASSUME NEW s \in Texts, NEW u \in Texts
    PROVE  /\ s \o u \in Texts /\ Len(s \o u) = Len(s) + Len(u)
           /\ Len(s) \in Nat /\ Len(u) \in Nat
  BY Joined DEF Texts

LEMMA Prefixed ==
    ASSUME NEW S, NEW s \in Seq(S), NEW m \in 0..Len(s)
    PROVE  /\ SubSeq(s, 1, m) \in Seq(S) /\ Len(SubSeq(s, 1, m)) = m
           /\ \A i \in 1..m : SubSeq(s, 1, m)[i] = s[i]
           /\ m = Len(s) => SubSeq(s, 1, m) = s
  OBVIOUS

LEMMA Listed ==
    ASSUME NEW S, NEW k \in Nat, NEW s \in [1..k -> S]
    PROVE  s \in Seq(S) /\ Len(s) = k
  OBVIOUS

LEMMA Written ==
    ASSUME NEW S, NEW x \in S, NEW y \in S
    PROVE  /\ <<>> \in Seq(S) /\ Len(<<>>) = 0
           /\ <<x>> \in Seq(S) /\ Len(<<x>>) = 1 /\ <<x>>[1] = x
           /\ <<x, y>> \in Seq(S) /\ Len(<<x, y>>) = 2 /\ <<x, y>>[1] = x /\ <<x, y>>[2] = y
  OBVIOUS

(* The characters written in the definitions are characters.               *)
LEMMA PiecesAreTexts ==
    /\ DISCLAIMER_TEXT \in Texts /\ BANNED_CLAIM \in Texts /\ Ellipsis \in Texts
    /\ Ending \in Texts /\ <<" ">> \in Texts /\ <<>> \in Texts
    /\ Len(DISCLAIMER_TEXT) = 2 /\ DISCLAIMER_TEXT[1] = "T" /\ DISCLAIMER_TEXT[2] = "c"
    /\ Len(BANNED_CLAIM) = 2 /\ BANNED_CLAIM[1] = "g" /\ BANNED_CLAIM[2] = "u"
    /\ Len(Ellipsis) = 1 /\ Ellipsis[1] = "..."
    /\ Len(Ending) = 3 /\ Ending[1] \notin {"G", "g", "U", "u"} /\ Ending[2] = "T" /\ Ending[3] = "c"
  <1>1. DOMAIN LowerOf = {"W", "G", "U", "T"}
    BY DEF LowerOf
  <1>2. /\ "T" \in Characters /\ "c" \in Characters /\ "g" \in Characters
        /\ "u" \in Characters /\ " " \in Characters /\ "..." \in Characters
    BY <1>1 DEF Characters, Letters
  <1>3. /\ <<"T", "c">> \in Seq(Characters) /\ <<"g", "u">> \in Seq(Characters)
        /\ <<"...">> \in Seq(Characters) /\ <<" ">> \in Seq(Characters)
        /\ <<>> \in Seq(Characters)
    BY <1>2, Written
  <1>4. /\ DISCLAIMER_TEXT \in Texts /\ BANNED_CLAIM \in Texts /\ Ellipsis \in Texts
        /\ <<" ">> \in Texts /\ <<>> \in Texts
    BY <1>3, Zenon DEF DISCLAIMER_TEXT, BANNED_CLAIM, Ellipsis, Texts
  <1>5. /\ Len(DISCLAIMER_TEXT) = 2 /\ DISCLAIMER_TEXT[1] = "T" /\ DISCLAIMER_TEXT[2] = "c"
        /\ Len(BANNED_CLAIM) = 2 /\ BANNED_CLAIM[1] = "g" /\ BANNED_CLAIM[2] = "u"
        /\ Len(Ellipsis) = 1 /\ Ellipsis[1] = "..."
        /\ Len(<<" ">>) = 1 /\ <<" ">>[1] \notin {"G", "g", "U", "u"}
    <2>1. Len(<<" ">>) = 1 /\ <<" ">>[1] = " "
      BY <1>2, Written, Zenon
    <2>2. " " \notin {"G", "g", "U", "u"}
      BY Zenon
    <2>3. <<" ">>[1] \notin {"G", "g", "U", "u"}
      BY <2>1, <2>2, Zenon
    <2>4. /\ Len(DISCLAIMER_TEXT) = 2 /\ DISCLAIMER_TEXT[1] = "T" /\ DISCLAIMER_TEXT[2] = "c"
          /\ Len(BANNED_CLAIM) = 2 /\ BANNED_CLAIM[1] = "g" /\ BANNED_CLAIM[2] = "u"
          /\ Len(Ellipsis) = 1 /\ Ellipsis[1] = "..."
      BY DEF DISCLAIMER_TEXT, BANNED_CLAIM, Ellipsis
    <2>. QED
      BY <2>1, <2>3, <2>4, Zenon
  <1>6. ASSUME NEW d \in Seq(Characters), NEW s \in Seq(Characters), NEW e,
               e = s \o d, Len(s) = 1, Len(d) = 2
        PROVE  /\ e \in Seq(Characters) /\ Len(e) = 3
               /\ e[1] = s[1] /\ e[2] = d[1] /\ e[3] = d[2]
    <2>1. /\ e \in Seq(Characters) /\ Len(e) = Len(s) + Len(d)
          /\ \A i \in 1..Len(s) : e[i] = s[i]
          /\ \A i \in 1..Len(d) : e[Len(s) + i] = d[i]
      BY <1>6, Joined, SMTT(30)
    <2>2. 1 \in 1..Len(s) /\ 1 \in 1..Len(d) /\ 2 \in 1..Len(d)
      BY <1>6
    <2>3. e[1] = s[1] /\ e[Len(s) + 1] = d[1] /\ e[Len(s) + 2] = d[2]
      BY <2>1, <2>2
    <2>. QED
      BY <1>6, <2>1, <2>3
  <1>7. /\ Ending \in Texts
        /\ Len(Ending) = 3 /\ Ending[1] \notin {"G", "g", "U", "u"} /\ Ending[2] = "T" /\ Ending[3] = "c"
    <2>1. Ending = <<" ">> \o DISCLAIMER_TEXT
      BY DEF Ending
    <2> DEFINE s == <<" ">>
    <2>2. s \in Seq(Characters) /\ Len(s) = 1 /\ s[1] \notin {"G", "g", "U", "u"}
      BY <1>3, <1>5
    <2>3. DISCLAIMER_TEXT \in Seq(Characters)
      BY <1>4 DEF Texts
    <2>4. Ending = s \o DISCLAIMER_TEXT
      BY <2>1
    <2> HIDE DEF s
    <2>5. /\ Ending \in Seq(Characters) /\ Len(Ending) = 3
          /\ Ending[1] = s[1] /\ Ending[2] = DISCLAIMER_TEXT[1] /\ Ending[3] = DISCLAIMER_TEXT[2]
      BY <1>5, <1>6, <2>2, <2>3, <2>4
    <2>. QED
      BY <1>5, <2>2, <2>5 DEF Texts
  <1>. QED
    BY <1>4, <1>5, <1>7

(* lower() keeps the length, and sends one or two letters to each letter.  *)
LEMMA LowerLetters ==
    ASSUME NEW t \in Texts
    PROVE  /\ Lower(t) \in Texts /\ Len(Lower(t)) = Len(t)
           /\ \A i \in 1..Len(t) :
                  /\ Lower(t)[i] = "t" <=> t[i] \in {"T", "t"}
                  /\ Lower(t)[i] = "c" <=> t[i] = "c"
                  /\ Lower(t)[i] = "g" <=> t[i] \in {"G", "g"}
                  /\ Lower(t)[i] = "u" <=> t[i] \in {"U", "u"}
  <1>1. Len(t) \in Nat /\ DOMAIN t = 1..Len(t) /\ t = [i \in 1..Len(t) |-> t[i]]
    BY DEF Texts
  <1>2. \A i \in 1..Len(t) : t[i] \in Characters
    BY DEF Texts
  <1>3. /\ DOMAIN LowerOf = {"W", "G", "U", "T"}
        /\ LowerOf["T"] = "t" /\ LowerOf["W"] = "w" /\ LowerOf["G"] = "g" /\ LowerOf["U"] = "u"
    BY DEF LowerOf
  <1>4. \A i \in 1..Len(t) : Lower(t)[i] = IF t[i] \in {"W", "G", "U", "T"} THEN LowerOf[t[i]] ELSE t[i]
    BY <1>1, <1>3 DEF Lower
  <1>5. ASSUME NEW i \in 1..Len(t)
        PROVE  /\ Lower(t)[i] \in Characters
               /\ Lower(t)[i] = "t" <=> t[i] \in {"T", "t"}
               /\ Lower(t)[i] = "c" <=> t[i] = "c"
               /\ Lower(t)[i] = "g" <=> t[i] \in {"G", "g"}
               /\ Lower(t)[i] = "u" <=> t[i] \in {"U", "u"}
    <2> DEFINE x == t[i]
    <2>1. x \in {"W", "G", "U", "T", "w", "g", "u", "t", "c", " ", "..."}
      BY <1>2, <1>3 DEF Characters, Letters
    <2>2. Lower(t)[i] = IF x \in {"W", "G", "U", "T"} THEN LowerOf[x] ELSE x
      BY <1>4
    <2> DEFINE y == Lower(t)[i]
    <2>3. y = IF x \in {"W", "G", "U", "T"} THEN LowerOf[x] ELSE x
      BY <2>2
    <2> HIDE DEF x, y
    <2>4. /\ x = "T" => y = "t"
          /\ x = "W" => y = "w"
          /\ x = "G" => y = "g"
          /\ x = "U" => y = "u"
          /\ x \in {"w", "g", "u", "t", "c", " ", "..."} => y = x
      BY <1>3, <2>3
    <2>5. /\ y \in Characters
          /\ y = "t" <=> x \in {"T", "t"}
          /\ y = "c" <=> x = "c"
          /\ y = "g" <=> x \in {"G", "g"}
          /\ y = "u" <=> x \in {"U", "u"}
      BY <1>3, <2>1, <2>4 DEF Characters, Letters
    <2>. QED
      BY <2>5 DEF x, y
  <1>6. Lower(t) = [i \in 1..Len(t) |-> Lower(t)[i]]
    BY <1>1 DEF Lower
  <1>7. Lower(t) \in [1..Len(t) -> Characters]
    BY <1>5, <1>6
  <1>. QED
    BY <1>1, <1>5, <1>7 DEF Texts

(* Where a pattern of two letters is found.                                *)
LEMMA PlacesOfTwo ==
    ASSUME NEW S, NEW s \in Seq(S), NEW p \in Seq(S), Len(p) = 2
    PROVE  \A i : i \in Places(p, s) <=> i \in 1..(Len(s) - 1) /\ s[i] = p[1] /\ s[i + 1] = p[2]
  <1>1. Places(p, s) = {i \in 1..(Len(s) - 1) : SubSeq(s, i, i + 1) = p}
    <2>1. Len(s) - 2 + 1 = Len(s) - 1 /\ \A i \in Int : i + 2 - 1 = i + 1
      OBVIOUS
    <2>. QED
      BY <2>1 DEF Places
  <1>2. ASSUME NEW i \in 1..(Len(s) - 1)
        PROVE  SubSeq(s, i, i + 1) = p <=> s[i] = p[1] /\ s[i + 1] = p[2]
    <2> DEFINE q == SubSeq(s, i, i + 1)
    <2>1. q \in Seq(S) /\ Len(q) = 2 /\ q[1] = s[i] /\ q[2] = s[i + 1]
      <3>1. i \in Int /\ i + 1 \in Int /\ i >= 1 /\ i + 1 <= Len(s)
        OBVIOUS
      <3>2. q = [j \in 1..2 |-> s[i + j - 1]]
        BY <3>1
      <3>3. \A j \in 1..2 : s[i + j - 1] \in S
        BY <3>1
      <3>4. q \in [1..2 -> S]
        BY <3>2, <3>3
      <3> HIDE DEF q
      <3>5. q[1] = s[i + 1 - 1] /\ q[2] = s[i + 2 - 1]
        BY <3>2
      <3>6. q \in Seq(S) /\ Len(q) = 2
        BY <3>4, Listed
      <3>. QED
        BY <3>1, <3>5, <3>6
    <2> HIDE DEF q
    <2>2. q = p <=> q[1] = p[1] /\ q[2] = p[2]
      BY <2>1
    <2>. QED
      BY <2>1, <2>2 DEF q
  <1>. QED
    BY <1>1, <1>2

(* The gate finds the disclaimer and the banned claim by their letters.    *)
LEMMA FoundByLetters ==
    ASSUME NEW t \in Texts
    PROVE  /\ Mentions(t, DISCLAIMER_TEXT) <=> Disclaims(t)
           /\ Mentions(t, BANNED_CLAIM) <=> Claims(t)
           /\ \A d \in {DISCLAIMER_TEXT, BANNED_CLAIM} :
                  Places(Lower(d), Lower(t)) \in SUBSET (1..Len(t))
  <1>1. /\ Lower(t) \in Seq(Characters) /\ Len(Lower(t)) = Len(t)
        /\ \A i \in 1..Len(t) :
               /\ Lower(t)[i] = "t" <=> t[i] \in {"T", "t"}
               /\ Lower(t)[i] = "c" <=> t[i] = "c"
               /\ Lower(t)[i] = "g" <=> t[i] \in {"G", "g"}
               /\ Lower(t)[i] = "u" <=> t[i] \in {"U", "u"}
    BY LowerLetters DEF Texts
  <1>2. Len(t) \in Nat
    BY DEF Texts
  <1>3. ASSUME NEW d \in {DISCLAIMER_TEXT, BANNED_CLAIM}
        PROVE  /\ Lower(d) \in Seq(Characters) /\ Len(Lower(d)) = 2
               /\ d = DISCLAIMER_TEXT => Lower(d)[1] = "t" /\ Lower(d)[2] = "c"
               /\ d = BANNED_CLAIM => Lower(d)[1] = "g" /\ Lower(d)[2] = "u"
    <2>1. d \in Texts /\ Len(d) = 2
      BY PiecesAreTexts
    <2>2. Lower(d) \in Seq(Characters) /\ Len(Lower(d)) = 2
      BY <2>1, LowerLetters DEF Texts
    <2>3. /\ Lower(d)[1] = "t" <=> d[1] \in {"T", "t"}
          /\ Lower(d)[2] = "c" <=> d[2] = "c"
          /\ Lower(d)[1] = "g" <=> d[1] \in {"G", "g"}
          /\ Lower(d)[2] = "u" <=> d[2] \in {"U", "u"}
      <3>1. 1 \in 1..Len(d) /\ 2 \in 1..Len(d)
        BY <2>1
      <3>. QED
        BY <2>1, <3>1, LowerLetters
    <2>. QED
      BY <2>2, <2>3, PiecesAreTexts
  <1>4. ASSUME NEW d \in {DISCLAIMER_TEXT, BANNED_CLAIM}
        PROVE  \A i : i \in Places(Lower(d), Lower(t)) <=>
                   /\ i \in 1..(Len(t) - 1)
                   /\ Lower(t)[i] = Lower(d)[1] /\ Lower(t)[i + 1] = Lower(d)[2]
    BY <1>1, <1>3, PlacesOfTwo
  <1>5. ASSUME NEW i \in 1..(Len(t) - 1)
        PROVE  i \in 1..Len(t) /\ i + 1 \in 1..Len(t)
    BY <1>2
  <1>6. Places(Lower(DISCLAIMER_TEXT), Lower(t)) # {} <=> Disclaims(t)
    <2>1. \A i : i \in Places(Lower(DISCLAIMER_TEXT), Lower(t)) <=>
              i \in 1..(Len(t) - 1) /\ Lower(t)[i] = "t" /\ Lower(t)[i + 1] = "c"
      BY <1>3, <1>4
    <2>. QED
      BY <1>1, <1>5, <2>1 DEF Disclaims
  <1>7. Places(Lower(BANNED_CLAIM), Lower(t)) # {} <=> Claims(t)
    <2>1. \A i : i \in Places(Lower(BANNED_CLAIM), Lower(t)) <=>
              i \in 1..(Len(t) - 1) /\ Lower(t)[i] = "g" /\ Lower(t)[i + 1] = "u"
      BY <1>3, <1>4
    <2>. QED
      BY <1>1, <1>5, <2>1 DEF Claims
  <1>. QED
    BY <1>4, <1>5, <1>6, <1>7 DEF Mentions

(* The last of some places is one of them, or 0.                           *)
LEMMA LastOfPlaces ==
    ASSUME NEW n \in Nat, NEW S \in SUBSET (1..n)
    PROVE  Last(S) \in S \cup {0} /\ Last(S) \in 0..n /\ \A y \in S : y <= Last(S)
  <1> DEFINE Above == {m \in 0..n : \A y \in S : y <= m}
  <1>1. Above \in SUBSET Nat /\ n \in Above
    OBVIOUS
  <1>2. PICK m \in Above : \A k \in Above : m <= k
    <2> HIDE DEF Above
    <2>. QED
      BY <1>1, LeastNumber
  <1>3. m \in S \cup {0}
    <2>1. SUFFICES ASSUME m # 0, m \notin S
                   PROVE  FALSE
      OBVIOUS
    <2>2. m - 1 \in Above
      BY <2>1
    <2>. QED
      BY <1>2, <2>2
  <1>4. \E x \in S \cup {0} : \A y \in S : y <= x
    BY <1>3
  <1>5. Last(S) \in S \cup {0} /\ \A y \in S : y <= Last(S)
    BY <1>4, Zenon DEF Last
  <1> HIDE DEF Above
  <1>6. \A x \in S \cup {0} : x \in 0..n
    OBVIOUS
  <1>. QED
    BY <1>5, <1>6

(* The beginnings of a text: what they are, and that they hold no claim    *)
(* the text does not hold.                                                 *)
LEMMA Beginnings ==
    ASSUME NEW t \in Texts, NEW u, Begins(u, t)
    PROVE  /\ u \in Texts /\ Len(u) <= Len(t)
           /\ Claims(u) => Claims(t)
           /\ \A s : Begins(s, u) => Begins(s, t)
  <1>1. PICK m \in 0..Len(t) : u = SubSeq(t, 1, m)
    BY DEF Begins
  <1>2. u \in Seq(Characters) /\ Len(u) = m /\ \A i \in 1..m : u[i] = t[i]
    BY <1>1, Prefixed DEF Texts
  <1>3. Len(t) \in Nat
    BY DEF Texts
  <1>4. Claims(u) => Claims(t)
    <2>1. ASSUME NEW i \in 1..(m - 1)
          PROVE  i \in 1..(Len(t) - 1) /\ i \in 1..m /\ i + 1 \in 1..m
      BY <1>3
    <2>. QED
      BY <1>2, <2>1 DEF Claims
  <1>5. ASSUME NEW k \in 0..m
        PROVE  SubSeq(u, 1, k) = SubSeq(t, 1, k) /\ k \in 0..Len(t)
    <2>1. k \in 0..Len(t) /\ t \in Seq(Characters)
      BY <1>3 DEF Texts
    <2>2. /\ SubSeq(u, 1, k) \in Seq(Characters) /\ Len(SubSeq(u, 1, k)) = k
          /\ \A i \in 1..k : SubSeq(u, 1, k)[i] = u[i]
      BY <1>2, Prefixed
    <2>3. /\ SubSeq(t, 1, k) \in Seq(Characters) /\ Len(SubSeq(t, 1, k)) = k
          /\ \A i \in 1..k : SubSeq(t, 1, k)[i] = t[i]
      BY <2>1, Prefixed
    <2>4. \A i \in 1..k : SubSeq(u, 1, k)[i] = SubSeq(t, 1, k)[i]
      BY <1>2, <2>2, <2>3
    <2>. QED
      BY <2>1, <2>2, <2>3, <2>4
  <1>. QED
    BY <1>2, <1>3, <1>4, <1>5 DEF Begins, Texts

(* Slices and strips are beginnings.                                       *)
LEMMA CutBegins ==
    ASSUME NEW t \in Texts, NEW n \in Int
    PROVE  /\ Begins(Cut(t, n), t) /\ Cut(t, n) \in Texts
           /\ n >= 0 => Len(Cut(t, n)) <= n
           /\ Len(t) <= n => Cut(t, n) = t
  <1> DEFINE m == IF n < 0 THEN 0 ELSE IF n < Len(t) THEN n ELSE Len(t)
  <1>1. Len(t) \in Nat /\ t \in Seq(Characters)
    BY DEF Texts
  <1>2. m \in 0..Len(t) /\ (n >= 0 => m <= n) /\ (Len(t) <= n => m = Len(t))
    BY <1>1
  <1>3. Cut(t, n) = SubSeq(t, 1, m)
    BY DEF Cut
  <1> HIDE DEF m
  <1>4. /\ SubSeq(t, 1, m) \in Seq(Characters) /\ Len(SubSeq(t, 1, m)) = m
        /\ m = Len(t) => SubSeq(t, 1, m) = t
    BY <1>1, <1>2, Prefixed
  <1>5. Begins(Cut(t, n), t)
    BY <1>2, <1>3 DEF Begins
  <1>. QED
    BY <1>2, <1>3, <1>4, <1>5 DEF Texts

LEMMA StripBegins ==
    ASSUME NEW t \in Texts
    PROVE  Begins(RStrip(t), t) /\ Begins(StripDisclaimer(t), t)
  <1>1. ASSUME NEW s \in Texts
        PROVE  Begins(RStrip(s), s)
    <2>1. Len(s) \in Nat /\ DOMAIN s = 1..Len(s)
      BY DEF Texts
    <2>2. Last({i \in DOMAIN s : s[i] # " "}) \in 0..Len(s)
      BY <2>1, LastOfPlaces
    <2>. QED
      BY <2>2 DEF RStrip, Begins
  <1>2. Begins(t, t)
    <2>1. Len(t) \in 0..Len(t) /\ SubSeq(t, 1, Len(t)) = t
      BY DEF Texts
    <2>. QED
      BY <2>1 DEF Begins
  <1>3. Last(Places(Lower(DISCLAIMER_TEXT), Lower(t))) - 1 \in Int
    <2>1. Len(t) \in Nat /\ Places(Lower(DISCLAIMER_TEXT), Lower(t)) \in SUBSET (1..Len(t))
      BY FoundByLetters DEF Texts
    <2>. QED
      BY <2>1, LastOfPlaces
  <1> DEFINE u == Cut(t, Last(Places(Lower(DISCLAIMER_TEXT), Lower(t))) - 1)
  <1>4. u \in Texts /\ Begins(u, t)
    BY <1>3, CutBegins
  <1>5. Begins(RStrip(u), t)
    <2> HIDE DEF u
    <2>. QED
      BY <1>1, <1>4, Beginnings
  <1>6. StripDisclaimer(t) = RStrip(u) \/ StripDisclaimer(t) = t
    BY DEF StripDisclaimer
  <1> HIDE DEF u
  <1>. QED
    BY <1>1, <1>2, <1>5, <1>6

(* What is appended never completes a claim: it starts with no "u".        *)
LEMMA JoinedClaims ==
    ASSUME NEW s \in Texts, NEW u \in Texts, u # <<>> => u[1] \notin {"U", "u"}, ~Claims(u)
    PROVE  Claims(s \o u) => Claims(s)
  <1> DEFINE t == s \o u
  <1>1. /\ t \in Seq(Characters) /\ Len(t) = Len(s) + Len(u)
        /\ \A i \in 1..Len(s) : t[i] = s[i]
        /\ \A i \in 1..Len(u) : t[Len(s) + i] = u[i]
    BY Joined DEF Texts
  <1>2. Len(s) \in Nat /\ Len(u) \in Nat /\ (u = <<>> <=> Len(u) = 0)
    BY DEF Texts
  <1> HIDE DEF t
  <1>3. SUFFICES ASSUME NEW i \in 1..(Len(t) - 1), t[i] \in {"G", "g"}, t[i + 1] \in {"U", "u"}
                 PROVE  Claims(s)
    BY DEF Claims, t
  <1>4. i \in Nat /\ i >= 1 /\ i + 1 <= Len(s) + Len(u)
    BY <1>1, <1>2, <1>3
  <1>5. CASE i + 1 <= Len(s)
    <2>1. i \in 1..(Len(s) - 1) /\ i \in 1..Len(s) /\ i + 1 \in 1..Len(s)
      BY <1>2, <1>4, <1>5
    <2>2. s[i] \in {"G", "g"} /\ s[i + 1] \in {"U", "u"}
      BY <1>1, <1>3, <2>1
    <2>. QED
      BY <2>1, <2>2 DEF Claims
  <1>6. CASE i = Len(s)
    <2>1. 1 \in 1..Len(u) /\ u # <<>>
      BY <1>2, <1>4, <1>6
    <2>2. t[i + 1] = u[1]
      BY <1>1, <1>6, <2>1
    <2>. QED
      BY <1>3, <2>1, <2>2
  <1>7. CASE i > Len(s)
    <2> DEFINE j == i - Len(s)
    <2>1. /\ j \in 1..(Len(u) - 1) /\ j \in 1..Len(u) /\ j + 1 \in 1..Len(u)
          /\ Len(s) + j = i /\ Len(s) + (j + 1) = i + 1
      BY <1>2, <1>4, <1>7
    <2> HIDE DEF j
    <2>2. t[i] = u[j] /\ t[i + 1] = u[j + 1]
      BY <1>1, <2>1
    <2>3. Claims(u)
      BY <1>3, <2>1, <2>2 DEF Claims
    <2>. QED
      BY <2>3
  <1>. QED
    BY <1>2, <1>4, <1>5, <1>6, <1>7

(* A text that ends with the disclaimer mentions it.                       *)
LEMMA JoinedDisclaims ==
    ASSUME NEW s \in Texts, NEW u \in Texts, Disclaims(u)
    PROVE  Disclaims(s \o u)
  <1>1. /\ Len(s \o u) = Len(s) + Len(u)
        /\ \A i \in 1..Len(u) : (s \o u)[Len(s) + i] = u[i]
    BY Joined DEF Texts
  <1>2. Len(s) \in Nat /\ Len(u) \in Nat
    BY DEF Texts
  <1>3. PICK i \in 1..(Len(u) - 1) : u[i] \in {"T", "t"} /\ u[i + 1] = "c"
    BY DEF Disclaims
  <1> DEFINE j == Len(s) + i
  <1>4. /\ j \in 1..(Len(s \o u) - 1) /\ i \in 1..Len(u) /\ i + 1 \in 1..Len(u)
        /\ j + 1 = Len(s) + (i + 1)
    BY <1>1, <1>2
  <1>5. (s \o u)[j] = u[i] /\ (s \o u)[j + 1] = u[i + 1]
    BY <1>1, <1>4
  <1> HIDE DEF j
  <1>. QED
    BY <1>3, <1>4, <1>5 DEF Disclaims

(* The pieces a repair appends hold the disclaimer or nothing, no claim,   *)
(* and start with no "u".                                                  *)
LEMMA PiecesAppended ==
    /\ Disclaims(DISCLAIMER_TEXT) /\ Disclaims(Ending)
    /\ \A u \in {DISCLAIMER_TEXT, Ending, Ellipsis, <<" ">>, <<>>} :
           u \in Texts /\ ~Claims(u) /\ (u # <<>> => u[1] \notin {"U", "u"})
  <1>1. Disclaims(DISCLAIMER_TEXT) /\ ~Claims(DISCLAIMER_TEXT) /\ DISCLAIMER_TEXT[1] \notin {"U", "u"}
    <2>1. ASSUME NEW d, Len(d) = 2, d[1] = "T", d[2] = "c"
          PROVE  Disclaims(d) /\ ~Claims(d) /\ d[1] \notin {"U", "u"}
      BY <2>1 DEF Disclaims, Claims
    <2>2. Len(DISCLAIMER_TEXT) = 2 /\ DISCLAIMER_TEXT[1] = "T" /\ DISCLAIMER_TEXT[2] = "c"
      BY PiecesAreTexts, Zenon
    <2>. QED
      BY <2>1, <2>2, Zenon
  <1>2. Disclaims(Ending) /\ ~Claims(Ending) /\ Ending[1] \notin {"U", "u"}
    <2>1. ASSUME NEW d, Len(d) = 3, d[1] \notin {"G", "g", "U", "u"}, d[2] = "T", d[3] = "c"
          PROVE  Disclaims(d) /\ ~Claims(d) /\ d[1] \notin {"U", "u"}
      <3>1. Len(d) - 1 = 2
        BY <2>1
      <3>2. d[2] = "T" /\ d[2 + 1] = "c"
        BY <2>1
      <3>3. Disclaims(d)
        BY <3>1, <3>2 DEF Disclaims
      <3>4. \A i \in 1..2 : d[i] \notin {"G", "g"}
        BY <2>1
      <3>. QED
        BY <2>1, <3>1, <3>3, <3>4 DEF Claims
    <2>2. Len(Ending) = 3 /\ Ending[1] \notin {"G", "g", "U", "u"} /\ Ending[2] = "T" /\ Ending[3] = "c"
      BY PiecesAreTexts, Zenon
    <2>. QED
      BY <2>1, <2>2, Zenon
  <1>3. ~Claims(Ellipsis) /\ Ellipsis[1] \notin {"U", "u"}
    <2>1. ASSUME NEW d, Len(d) = 1, d[1] = "..."
          PROVE  ~Claims(d) /\ d[1] \notin {"U", "u"}
      BY <2>1 DEF Claims
    <2>2. Len(Ellipsis) = 1 /\ Ellipsis[1] = "..."
      BY PiecesAreTexts, Zenon
    <2>. QED
      BY <2>1, <2>2, Zenon
  <1>4. ~Claims(<<" ">>) /\ <<" ">>[1] \notin {"U", "u"} /\ ~Claims(<<>>)
    <2>1. \A d : Len(d) = 0 \/ Len(d) = 1 => ~Claims(d)
      BY DEF Claims
    <2>2. Len(<<" ">>) = 1 /\ Len(<<>>) = 0 /\ <<" ">>[1] = " "
      BY Written, Zenon
    <2>3. " " \notin {"U", "u"}
      BY Zenon
    <2>4. ~Claims(<<" ">>)
      BY <2>1, <2>2, Zenon
    <2>5. ~Claims(<<>>)
      BY <2>1, <2>2, Zenon
    <2>. QED
      BY <2>2, <2>3, <2>4, <2>5, Zenon
  <1>5. ASSUME NEW u \in {DISCLAIMER_TEXT, Ending, Ellipsis, <<" ">>, <<>>}
        PROVE  u \in Texts /\ ~Claims(u) /\ (u # <<>> => u[1] \notin {"U", "u"})
    BY <1>1, <1>2, <1>3, <1>4, PiecesAreTexts, Zenon
  <1>. QED
    BY <1>1, <1>2, <1>5, Zenon

(* Appending the disclaimer: it is there, once asked for, and no claim with it. *)
LEMMA DisclaimerAppended ==
    ASSUME NEW t \in Texts, NEW p
    PROVE  /\ WithDisclaimer(t, p) \in Texts
           /\ Required(p) => Disclaims(WithDisclaimer(t, p))
           /\ Claims(WithDisclaimer(t, p)) => Claims(t)
  <1>1. CASE ~Lacks(t, p)
    BY <1>1, FoundByLetters DEF WithDisclaimer, Lacks
  <1>2. CASE Lacks(t, p)
    <2> DEFINE u == t \o Separator(t)
    <2>1. Separator(t) \in {<<" ">>, <<>>}
      BY DEF Separator
    <2>2. Separator(t) \in Texts /\ u \in Texts /\ DISCLAIMER_TEXT \in Texts
      <3>1. Separator(t) \in Texts /\ DISCLAIMER_TEXT \in Texts
        BY <2>1, PiecesAreTexts
      <3>. QED
        BY <3>1, TextsJoined
    <2>3. Claims(u) => Claims(t)
      BY <2>1, <2>2, PiecesAppended, JoinedClaims
    <2>4. WithDisclaimer(t, p) = u \o DISCLAIMER_TEXT
      BY <1>2 DEF WithDisclaimer
    <2> HIDE DEF u
    <2>5. u \o DISCLAIMER_TEXT \in Texts
      BY <2>2, TextsJoined
    <2>6. Disclaims(u \o DISCLAIMER_TEXT)
      BY <2>2, PiecesAppended, JoinedDisclaims
    <2>7. Claims(u \o DISCLAIMER_TEXT) => Claims(u)
      BY <2>2, PiecesAppended, JoinedClaims
    <2>. QED
      BY <2>3, <2>4, <2>5, <2>6, <2>7
  <1>. QED
    BY <1>1, <1>2

LEMMA EndingAdded ==
    ASSUME NEW u \in Texts
    PROVE  LET v == (u \o Ellipsis) \o Ending
           IN  /\ v \in Texts /\ Len(v) = Len(u) + 4
               /\ Claims(v) => Claims(u)
               /\ Disclaims(v)
  <1> DEFINE w == u \o Ellipsis
  <1>1. /\ Ellipsis \in Texts /\ Len(Ellipsis) = 1 /\ ~Claims(Ellipsis)
        /\ Ellipsis # <<>> => Ellipsis[1] \notin {"U", "u"}
        /\ Ending \in Texts /\ Len(Ending) = 3 /\ ~Claims(Ending)
        /\ Ending # <<>> => Ending[1] \notin {"U", "u"}
        /\ Disclaims(Ending)
    BY PiecesAreTexts, PiecesAppended, Zenon
  <1>2. w \in Texts /\ Len(w) = Len(u) + Len(Ellipsis) /\ Len(u) \in Nat
    BY <1>1, TextsJoined
  <1>3. Claims(w) => Claims(u)
    BY <1>1, JoinedClaims
  <1> HIDE DEF w
  <1>4. w \o Ending \in Texts /\ Len(w \o Ending) = Len(w) + Len(Ending)
    BY <1>1, <1>2, TextsJoined
  <1>5. Claims(w \o Ending) => Claims(w)
    BY <1>1, <1>2, JoinedClaims
  <1>6. Disclaims(w \o Ending)
    BY <1>1, <1>2, JoinedDisclaims
  <1>7. Len(w \o Ending) = Len(u) + 4
    BY <1>1, <1>2, <1>4
  <1>. QED
    BY <1>3, <1>4, <1>5, <1>6, <1>7 DEF w

(* Shortening: the text fits, keeps the disclaimer where one is required   *)
(* and there is room for it, and gains no claim.                           *)
LEMMA ShortenedFits ==
    ASSUME NEW t \in Texts, NEW p, NEW n \in Nat, n > Len(Ending)
    PROVE  /\ Shortened(t, p, n) \in Texts /\ Len(Shortened(t, p, n)) <= n
           /\ Required(p) => Disclaims(Shortened(t, p, n))
           /\ Claims(Shortened(t, p, n)) => Claims(t)
  <1>0. Len(Ending) = 3 /\ Len(Ellipsis) = 1 /\ Ending \in Texts /\ Ellipsis \in Texts
    BY PiecesAreTexts, Zenon
  <1>1. CASE ~Required(p)
    <2> DEFINE u == RStrip(Cut(t, n - 1))
    <2>1. Cut(t, n - 1) \in Texts /\ Begins(Cut(t, n - 1), t)
      BY CutBegins
    <2>2. u \in Texts /\ (Claims(u) => Claims(t))
      BY <2>1, StripBegins, Beginnings
    <2>3. Shortened(t, p, n) = Cut(u \o Ellipsis, n)
      BY <1>1 DEF Shortened
    <2> HIDE DEF u
    <2>4. u \o Ellipsis \in Texts /\ (Claims(u \o Ellipsis) => Claims(u))
      <3>1. u \o Ellipsis \in Texts
        BY <1>0, <2>2, TextsJoined
      <3>. QED
        BY <1>0, <2>2, <3>1, PiecesAppended, JoinedClaims
    <2>5. /\ Begins(Cut(u \o Ellipsis, n), u \o Ellipsis)
          /\ Cut(u \o Ellipsis, n) \in Texts /\ Len(Cut(u \o Ellipsis, n)) <= n
      BY <2>4, CutBegins
    <2>. QED
      BY <1>1, <2>2, <2>3, <2>4, <2>5, Beginnings
  <1>2. CASE Required(p)
    <2> DEFINE c == Cut(StripDisclaimer(t), n - Len(Ending) - 1)
               u == RStrip(c)
               v == (u \o Ellipsis) \o Ending
    <2>1. StripDisclaimer(t) \in Texts /\ Begins(StripDisclaimer(t), t)
      BY StripBegins, Beginnings
    <2>2. n - Len(Ending) - 1 \in Nat
      BY <1>0
    <2>3. c \in Texts /\ Len(c) <= n - Len(Ending) - 1 /\ Begins(c, StripDisclaimer(t))
      BY <2>1, <2>2, CutBegins
    <2>4. Begins(c, t)
      BY <2>1, <2>3, Beginnings
    <2>5. Shortened(t, p, n) = Cut(v, n)
      BY <1>2 DEF Shortened
    <2> HIDE DEF c
    <2>6. u \in Texts /\ Len(u) <= Len(c) /\ Begins(u, c)
      BY <2>3, StripBegins, Beginnings
    <2>7. Claims(u) => Claims(t)
      BY <2>3, <2>4, <2>6, Beginnings
    <2> HIDE DEF u
    <2>8. /\ v \in Texts /\ Len(v) = Len(u) + 4
          /\ Claims(v) => Claims(u)
          /\ Disclaims(v)
      BY <2>6, EndingAdded
    <2> HIDE DEF v
    <2>10. Len(v) <= n
      <3>1. Len(u) \in Nat /\ Len(c) \in Nat
        BY <2>3, <2>6 DEF Texts
      <3>. QED
        BY <1>0, <2>3, <2>6, <2>8, <3>1
    <2>11. Cut(v, n) = v
      BY <2>8, <2>10, CutBegins
    <2>. QED
      BY <2>5, <2>7, <2>8, <2>10, <2>11
  <1>. QED
    BY <1>1, <1>2

(* What `check` makes of a text: within the limit of the channel, with the *)
(* disclaimer of the product, and without a claim it did not hold.         *)
LEMMA FixedHolds ==
    ASSUME NEW t \in Texts, NEW ch, NEW p
    PROVE  /\ Fixed(t, ch, p) \in Texts
           /\ ch \in DOMAIN CHANNEL_MAX_LEN => Len(Fixed(t, ch, p)) <= CHANNEL_MAX_LEN[ch]
           /\ Required(p) => Disclaims(Fixed(t, ch, p))
           /\ Claims(Fixed(t, ch, p)) => Claims(t)
  <1> DEFINE full == WithDisclaimer(t, p)
             n == Limit(ch, full)
  <1>1. full \in Texts /\ (Required(p) => Disclaims(full)) /\ (Claims(full) => Claims(t))
    BY DisclaimerAppended
  <1>2. Fixed(t, ch, p) = IF Len(full) > n THEN Shortened(full, p, n) ELSE full
    BY DEF Fixed, Fitted
  <1>3. Len(full) \in Nat
    BY <1>1 DEF Texts
  <1> HIDE DEF full
  <1>4. CASE ch \in DOMAIN CHANNEL_MAX_LEN
    <2>1. n = CHANNEL_MAX_LEN[ch] /\ n \in Nat /\ n > Len(Ending)
      BY <1>4, ComplianceAssumption DEF Limit
    <2> HIDE DEF n
    <2>2. /\ Shortened(full, p, n) \in Texts /\ Len(Shortened(full, p, n)) <= n
          /\ Required(p) => Disclaims(Shortened(full, p, n))
          /\ Claims(Shortened(full, p, n)) => Claims(full)
      BY <1>1, <2>1, ShortenedFits
    <2>. QED
      BY <1>1, <1>2, <1>3, <2>1, <2>2
  <1>5. CASE ch \notin DOMAIN CHANNEL_MAX_LEN
    <2>1. n = Len(full)
      BY <1>5 DEF Limit
    <2>2. Fixed(t, ch, p) = full
      BY <1>2, <1>3, <2>1
    <2>. QED
      BY <1>1, <1>5, <2>2
  <1>. QED
    BY <1>4, <1>5

(* A text that fits with its disclaimer is left as it is.                  *)
LEMMA FixedIsFinal ==
    ASSUME NEW t \in Texts, NEW ch, NEW p,
           ch \in DOMAIN CHANNEL_MAX_LEN => Len(t) <= CHANNEL_MAX_LEN[ch],
           Required(p) => Disclaims(t)
    PROVE  Fixed(t, ch, p) = t /\ Flagged(t, ch, p) \subseteq HARD
  <1>1. ~Lacks(t, p)
    BY FoundByLetters DEF Lacks
  <1>2. WithDisclaimer(t, p) = t
    BY <1>1 DEF WithDisclaimer
  <1>3. ~(Len(t) > Limit(ch, t))
    <2>1. Len(t) \in Nat
      BY DEF Texts
    <2>. QED
      BY <2>1, ComplianceAssumption DEF Limit
  <1>4. Fixed(t, ch, p) = t
    BY <1>2, <1>3 DEF Fixed, Fitted
  <1>5. Flagged(t, ch, p) \subseteq HARD
    BY <1>1, <1>2, <1>3 DEF Flagged, HARD
  <1>. QED
    BY <1>4, <1>5

(* The gate's text is a text, and its answer is the check of that text.    *)
AnswerOfText == answer = NoAnswer \/ answer = Check(text, channel, product)
GateInv == text \in Texts /\ AnswerOfText

LEMMA GateStart == GateInit => GateInv
  BY PiecesAreTexts DEF GateInit, GateInv, AnswerOfText

LEMMA GateInvStep == GateInv /\ [GateNext]_gateVars => GateInv'
  <1> SUFFICES ASSUME GateInv, [GateNext]_gateVars
               PROVE  GateInv'
    OBVIOUS
  <1> USE DEF GateInv, AnswerOfText
  <1>1. ASSUME NEW piece \in Pieces, Write(piece)
        PROVE  GateInv'
    <2>1. piece \in Texts
      BY GateAssumption DEF Texts
    <2>2. text \o piece \in Texts
      BY <2>1, TextsJoined
    <2>. QED
      BY <1>1, <2>2 DEF Write
  <1>2. CASE Submit
    BY <1>2 DEF Submit
  <1>3. CASE Adopt
    <2>1. answer.fixed_text = Fixed(text, channel, product)
      BY <1>3 DEF Adopt, Check
    <2>. QED
      BY <1>3, <2>1, FixedHolds DEF Adopt
  <1>4. CASE UNCHANGED gateVars
    BY <1>4 DEF gateVars
  <1>. QED
    BY <1>1, <1>2, <1>3, <1>4 DEF GateNext

LEMMA GateInvGivesRepairs == GateInv => RepairsHold
  <1> SUFFICES ASSUME GateInv
               PROVE  RepairsHold
    OBVIOUS
  <1>1. CASE answer = NoAnswer
    BY <1>1 DEF RepairsHold, AnswerIsShippable, NothingBannedShips, RepairIsFinal, NoAnswer
  <1>2. CASE answer = Check(text, channel, product)
    <2> DEFINE f == Fixed(text, channel, product)
    <2>1. /\ answer.ok <=> Flagged(text, channel, product) \cap HARD = {}
          /\ answer.violations = Flagged(text, channel, product)
          /\ answer.fixed_text = f
      BY <1>2 DEF Check
    <2>2. /\ f \in Texts
          /\ channel \in DOMAIN CHANNEL_MAX_LEN => Len(f) <= CHANNEL_MAX_LEN[channel]
          /\ Required(product) => Disclaims(f)
          /\ Claims(f) => Claims(text)
      BY FixedHolds DEF GateInv
    <2>3. ~Lacks(f, product)
      BY <2>2, FoundByLetters DEF Lacks
    <2>4. AnswerIsShippable
      <3>1. "disclaimer_lost_to_truncation" \notin Flagged(text, channel, product)
        BY <2>3 DEF Flagged
      <3> HIDE DEF f
      <3>. QED
        BY <2>1, <2>2, <3>1, FoundByLetters DEF AnswerIsShippable
    <2>5. NothingBannedShips
      <3>1. Banned(text) => "banned_claim" \in Flagged(text, channel, product) \cap HARD
        BY DEF Flagged, HARD
      <3>2. answer.ok => ~Claims(text)
        BY <2>1, <3>1, FoundByLetters DEF Banned, GateInv
      <3> HIDE DEF f
      <3>. QED
        BY <2>1, <2>2, <3>2, FoundByLetters DEF NothingBannedShips
    <2>6. RepairIsFinal
      <3> HIDE DEF f
      <3>1. Fixed(f, channel, product) = f /\ Flagged(f, channel, product) \subseteq HARD
        BY <2>2, FixedIsFinal
      <3>2. /\ Check(f, channel, product).fixed_text = f
            /\ Check(f, channel, product).violations \subseteq HARD
        BY <3>1 DEF Check
      <3>. QED
        BY <2>1, <3>2 DEF RepairIsFinal
    <2>. QED
      BY <2>4, <2>5, <2>6 DEF RepairsHold
  <1>. QED
    BY <1>1, <1>2 DEF GateInv, AnswerOfText

(* Whatever an author writes, has checked and takes back, a repaired text  *)
(* fits its channel with its disclaimer, is final when checked again, and  *)
(* holds no banned claim when it is let through (compliance.check): for    *)
(* every limit that has room for the disclaimer.                           *)
THEOREM GateRepairs == GateSpec => []RepairsHold
  <1>1. GateInit => GateInv
    BY GateStart
  <1>2. GateInv /\ [GateNext]_gateVars => GateInv'
    BY GateInvStep
  <1>3. GateInv => RepairsHold
    BY GateInvGivesRepairs
  <1>. QED
    BY <1>1, <1>2, <1>3, PTL DEF GateSpec
-----------------------------------------------------------------------------
(* The copies of a request: locale by locale, seed by seed.                *)

(* Dividing a number that was put together gives its parts back.           *)
LEMMA Divided ==
    ASSUME NEW n \in Nat, n >= 1, NEW a \in Nat
    PROVE  /\ a \div n \in Nat /\ a % n \in 0..(n - 1) /\ a = n * (a \div n) + (a % n)
           /\ \A k \in Nat : a < k * n => a \div n < k
           /\ \A j \in Nat, s \in 0..(n - 1) : a = j * n + s => a \div n = j /\ a % n = s
  <1> DEFINE q == a \div n
             m == a % n
  <1>1. q \in Int /\ m \in 0..(n - 1) /\ a = n * q + m
    OBVIOUS
  <1> HIDE DEF q, m
  <1>2. \A x, y \in Int : x < y => n * x + n <= n * y
    <2>1. SUFFICES ASSUME NEW x \in Int, NEW y \in Int, x < y
                   PROVE  n * x + n <= n * y
      OBVIOUS
    <2>2. y - x - 1 \in Nat
      BY <2>1
    <2>3. n * (y - x - 1) >= 0
      BY <2>2
    <2>4. n * (y - x - 1) = n * y - n * x - n
      OBVIOUS
    <2>. QED
      BY <2>3, <2>4
  <1>3. n * 0 = 0
    OBVIOUS
  <1>4. q >= 0
    <2>1. ~(q < 0)
      <3>1. SUFFICES ASSUME q < 0
                     PROVE  FALSE
        OBVIOUS
      <3>2. n * q + n <= 0
        BY <1>1, <1>2, <1>3, <3>1
      <3>3. n * q \in Int
        BY <1>1
      <3>. QED
        BY <1>1, <3>2, <3>3
    <2>. QED
      BY <1>1, <2>1
  <1>5. ASSUME NEW k \in Nat, a < k * n
        PROVE  q < k
    <2>1. SUFFICES ASSUME k <= q
                   PROVE  FALSE
      BY <1>1
    <2>2. n * k <= n * q
      <3>1. CASE k = q
        BY <3>1, <1>1
      <3>2. CASE k < q
        <4>1. n * k + n <= n * q /\ n * k \in Int /\ n * q \in Int
          BY <1>1, <1>2, <3>2
        <4>. QED
          BY <4>1
      <3>. QED
        BY <1>1, <2>1, <3>1, <3>2
    <2>3. n * k = k * n /\ n * k \in Int /\ n * q \in Int
      BY <1>1
    <2>. QED
      BY <1>1, <1>5, <2>2, <2>3
  <1>6. ASSUME NEW j \in Nat, NEW s \in 0..(n - 1), a = j * n + s
        PROVE  q = j /\ m = s
    <2>1. n * j = j * n /\ n * j \in Int /\ n * q \in Int
      BY <1>1
    <2>2. n * q + m = n * j + s
      BY <1>1, <1>6, <2>1
    <2>3. ~(q < j)
      <3>1. SUFFICES ASSUME q < j
                     PROVE  FALSE
        OBVIOUS
      <3>2. n * q + n <= n * j
        BY <1>1, <1>2, <3>1
      <3>. QED
        BY <1>1, <2>1, <2>2, <3>2
    <2>4. ~(j < q)
      <3>1. SUFFICES ASSUME j < q
                     PROVE  FALSE
        OBVIOUS
      <3>2. n * j + n <= n * q
        BY <1>1, <1>2, <3>1
      <3>. QED
        BY <1>1, <2>1, <2>2, <3>2
    <2>5. q = j
      BY <1>1, <2>3, <2>4
    <2>. QED
      BY <1>1, <2>1, <2>2, <2>5
  <1>. QED
    BY <1>1, <1>4, <1>5, <1>6 DEF q, m

LEMMA DividedBack ==
    ASSUME NEW n \in Nat, n >= 1, NEW a \in Nat, NEW q \in Nat, NEW s \in 0..(n - 1),
           a = q * n + s
    PROVE  a \div n = q /\ a % n = s
  BY Divided

(* The digest the hash came to.                                            *)
Drawn == digest \in [{"tpl", "cta"} \X SUPPORTED_LOCALES \X Seeds -> Draws]

(* A choice is one of the choices.                                         *)
LEMMA PickedIsOne ==
    ASSUME Drawn, NEW l \in SUPPORTED_LOCALES, NEW s \in Seeds, NEW kind \in {"tpl", "cta"},
           NEW S, NEW choices \in Seq(S), choices # <<>>
    PROVE  Picked(choices, kind, l, s) \in S
  <1>1. digest[<<kind, l, s>>] \in Nat
    BY CopyAssumption DEF Drawn
  <1>2. Len(choices) \in Nat /\ Len(choices) >= 1
    OBVIOUS
  <1>3. digest[<<kind, l, s>>] % Len(choices) \in 0..(Len(choices) - 1)
    BY <1>1, <1>2, Divided
  <1>4. ASSUME NEW i \in 0..(Len(choices) - 1)
        PROVE  choices[1 + i] \in S
    BY <1>2
  <1>. QED
    BY <1>3, <1>4 DEF Picked

(* What the provider writes is a text.                                     *)
LEMMA PhraseIsText ==
    ASSUME Drawn, NEW r \in CopyRequests, NEW l \in SUPPORTED_LOCALES, NEW s \in Seeds
    PROVE  Phrase(r, l, s) \in Texts
  <1> DEFINE template == Picked(TemplatesOf(r.goal)[l], "tpl", l, s)
             cta      == Picked(CTAS[l], "cta", l, s)
  <1>1. template.head \in Texts /\ template.mid \in Texts
    <2>1. PICK goal \in DOMAIN TEMPLATES : TemplatesOf(r.goal) = TEMPLATES[goal]
      BY CopyAssumption DEF TemplatesOf
    <2>2. /\ TEMPLATES[goal][l] # <<>>
          /\ TEMPLATES[goal][l] \in Seq([head : Texts, mid : Texts])
      BY CopyAssumption, Zenon DEF Texts
    <2> DEFINE S == [head : Texts, mid : Texts]
               choices == TEMPLATES[goal][l]
    <2>3. choices \in Seq(S) /\ choices # <<>> /\ template = Picked(choices, "tpl", l, s)
      BY <2>1, <2>2, Zenon
    <2> HIDE DEF S, choices, template
    <2>4. template \in S
      BY <2>3, PickedIsOne
    <2>. QED
      BY <2>4 DEF S
  <1>2. cta \in Texts
    <2>1. CTAS[l] # <<>> /\ CTAS[l] \in Seq(Texts)
      BY CopyAssumption DEF Texts
    <2>. QED
      BY <2>1, PickedIsOne
  <1>3. Prefix(r.tone, l) \in Texts
    <2>1. <<>> \in Texts
      BY PiecesAreTexts, Zenon
    <2>. QED
      BY <2>1, CopyAssumption DEF Prefix, Texts
  <1>4. Spelled[r.product] \in Texts
    BY CopyAssumption DEF Texts
  <1>5. Phrase(r, l, s) = Prefix(r.tone, l) \o template.head \o Spelled[r.product] \o template.mid \o cta
    BY DEF Phrase
  <1> HIDE DEF template, cta
  <1>6. Prefix(r.tone, l) \o template.head \in Texts
    BY <1>1, <1>3, TextsJoined
  <1>7. Prefix(r.tone, l) \o template.head \o Spelled[r.product] \in Texts
    BY <1>4, <1>6, TextsJoined
  <1>8. Prefix(r.tone, l) \o template.head \o Spelled[r.product] \o template.mid \in Texts
    BY <1>1, <1>7, TextsJoined
  <1>. QED
    BY <1>2, <1>5, <1>8, TextsJoined

(* An accepted request has locales, all supported, and seeds.              *)
LEMMA AcceptedRequest ==
    ASSUME NEW r \in CopyRequests, Acceptable(r)
    PROVE  /\ Len(r.locales) \in Nat /\ r.n \in Nat /\ r.n >= 1
           /\ DOMAIN r.locales = 1..Len(r.locales)
           /\ \A j \in 1..Len(r.locales) : r.locales[j] \in SUPPORTED_LOCALES
           /\ 0..(r.n - 1) \subseteq Seeds
  <1>1. r.locales \in Seq(STRING) /\ r.n \in Int /\ r.n <= MaxSeeds /\ r.n >= 1
    BY CopyAssumption DEF Acceptable
  <1>2. Len(r.locales) \in Nat /\ DOMAIN r.locales = 1..Len(r.locales)
    BY <1>1
  <1>3. \A j \in DOMAIN r.locales : r.locales[j] \in SUPPORTED_LOCALES
    BY DEF Acceptable, Members
  <1>4. 0..(r.n - 1) \subseteq Seeds
    BY <1>1, CopyAssumption DEF Seeds
  <1>. QED
    BY <1>1, <1>2, <1>3, <1>4

(* vs has a text of each of n seeds in each of the locales ls.             *)
Spans(vs, n, ls) ==
    /\ \E N \in Nat : DOMAIN vs = 1..N
    /\ \A i \in DOMAIN vs : vs[i].seed \in 0..(n - 1) /\ vs[i].locale \in ls
    /\ \A s \in 0..(n - 1), l \in ls : \E i \in DOMAIN vs : vs[i].seed = s /\ vs[i].locale = l

(* Each arm of as says, in every locale of ls, what vs has of one seed.    *)
Speaks(as, vs, n, ls) ==
    \A a \in DOMAIN as :
        /\ DOMAIN as[a].payload = ls
        /\ \E s \in 0..(n - 1) : \A l \in ls : \E v \in Members(vs) :
               v.locale = l /\ v.seed = s /\ v.text = as[a].payload[l]

(* The copies of an accepted request: a text of every seed in every locale, *)
(* repaired by the gate.                                                    *)
LEMMA CopiesSpan ==
    ASSUME Drawn, NEW r \in CopyRequests, Acceptable(r), NEW vs, vs = Copies(r)
    PROVE  /\ Spans(vs, r.n, Members(r.locales))
           /\ \A i \in DOMAIN vs : \E raw \in Texts :
                  vs[i].text = Fixed(raw, ChannelOf(r), r.product)
  <1> DEFINE k == Len(r.locales)
             n == r.n
  <1>1. k \in Nat /\ n \in Nat /\ n >= 1 /\ DOMAIN r.locales = 1..k
    BY AcceptedRequest
  <1>2. \A j \in 1..k : r.locales[j] \in SUPPORTED_LOCALES
    BY AcceptedRequest
  <1>3. 0..(n - 1) \subseteq Seeds
    BY AcceptedRequest
  <1>4. vs = [i \in 1..(k * n) |-> Variant(r, r.locales[1 + (i - 1) \div n], (i - 1) % n)]
    BY DEF Copies
  <1> HIDE DEF k, n
  <1>5. k * n \in Nat /\ DOMAIN vs = 1..(k * n)
    BY <1>1, <1>4
  <1>6. ASSUME NEW i \in 1..(k * n)
        PROVE  1 + (i - 1) \div n \in 1..k /\ (i - 1) % n \in 0..(n - 1)
    <2>1. i - 1 \in Nat /\ i - 1 < k * n
      BY <1>5
    <2>2. (i - 1) \div n \in Nat /\ (i - 1) \div n < k /\ (i - 1) % n \in 0..(n - 1)
      BY <1>1, <2>1, Divided
    <2>. QED
      BY <1>1, <2>2
  <1>7. ASSUME NEW i \in 1..(k * n)
        PROVE  /\ vs[i].seed = (i - 1) % n /\ vs[i].locale = r.locales[1 + (i - 1) \div n]
               /\ vs[i].text = Fixed(vs[i].raw, ChannelOf(r), r.product)
               /\ vs[i].raw = Phrase(r, r.locales[1 + (i - 1) \div n], (i - 1) % n)
    <2>1. vs[i] = Variant(r, r.locales[1 + (i - 1) \div n], (i - 1) % n)
      BY <1>4
    <2>. QED
      BY <2>1 DEF Variant, Check
  <1>8. ASSUME NEW i \in 1..(k * n)
        PROVE  /\ vs[i].seed \in 0..(n - 1) /\ vs[i].locale \in Members(r.locales)
               /\ \E raw \in Texts : vs[i].text = Fixed(raw, ChannelOf(r), r.product)
    <2> DEFINE l == r.locales[1 + (i - 1) \div n]
               s == (i - 1) % n
    <2>1. s \in 0..(n - 1) /\ s \in Seeds /\ l \in SUPPORTED_LOCALES /\ l \in Members(r.locales)
      BY <1>1, <1>2, <1>3, <1>6 DEF Members
    <2>2. /\ vs[i].seed = s /\ vs[i].locale = l /\ vs[i].raw = Phrase(r, l, s)
          /\ vs[i].text = Fixed(vs[i].raw, ChannelOf(r), r.product)
      BY <1>7
    <2> HIDE DEF l, s
    <2>3. Phrase(r, l, s) \in Texts
      BY <2>1, PhraseIsText
    <2>. QED
      BY <2>1, <2>2, <2>3
  <1>9. ASSUME NEW s \in 0..(n - 1), NEW l \in Members(r.locales)
        PROVE  \E i \in 1..(k * n) : vs[i].seed = s /\ vs[i].locale = l
    <2>1. PICK j \in 1..k : r.locales[j] = l
      BY <1>1 DEF Members
    <2> DEFINE q == j - 1
               a == q * n + s
    <2>2. a \in Nat /\ s \in Nat /\ j - 1 \in Nat
      BY <1>1
    <2>3. a < k * n
      <3>1. (k - j) * n >= 0
        <4>1. k - j \in Nat
          BY <1>1
        <4>. QED
          BY <1>1, <4>1
      <3>2. (k - j) * n = k * n - (j - 1) * n - n
        BY <1>1
      <3>3. (j - 1) * n \in Int /\ k * n \in Int /\ s < n
        BY <1>1
      <3>. QED
        BY <1>1, <3>1, <3>2, <3>3
    <2>4. a = q * n + s /\ q \in Nat
      BY <2>2
    <2> HIDE DEF a, q
    <2>5. a \div n = q /\ a % n = s
      <3>1. n \in Nat /\ n >= 1 /\ a \in Nat /\ s \in 0..(n - 1)
        BY <1>1, <2>2
      <3>. QED
        BY <2>4, <3>1, DividedBack, Zenon
    <2> DEFINE i == a + 1
    <2>6. i \in 1..(k * n) /\ i - 1 = a
      BY <1>5, <2>2, <2>3
    <2> HIDE DEF i
    <2>7. vs[i].seed = (i - 1) % n /\ vs[i].locale = r.locales[1 + (i - 1) \div n]
      BY <1>7, <2>6
    <2>8. (i - 1) % n = s /\ (i - 1) \div n = q
      BY <2>5, <2>6, Zenon
    <2>9. 1 + q = j
      BY <1>1 DEF q
    <2>10. 1 + (i - 1) \div n = j
      BY <2>8, <2>9, Zenon
    <2>11. vs[i].seed = s /\ vs[i].locale = l
      BY <2>1, <2>7, <2>8, <2>10, Zenon
    <2>. QED
      BY <2>6, <2>11
  <1>10. Spans(vs, n, Members(r.locales))
    <2>1. \E N \in Nat : DOMAIN vs = 1..N
      BY <1>5, Zenon
    <2>2. \A i \in DOMAIN vs : vs[i].seed \in 0..(n - 1) /\ vs[i].locale \in Members(r.locales)
      BY <1>5, <1>8
    <2>3. \A s \in 0..(n - 1), l \in Members(r.locales) :
              \E i \in DOMAIN vs : vs[i].seed = s /\ vs[i].locale = l
      BY <1>5, <1>9
    <2>. QED
      BY <2>1, <2>2, <2>3, Zenon DEF Spans
  <1>11. \A i \in DOMAIN vs : \E raw \in Texts :
             vs[i].text = Fixed(raw, ChannelOf(r), r.product)
    BY <1>5, <1>8
  <1>. QED
    BY <1>10, <1>11, Zenon DEF n

(* The arms of those copies: one for each seed, in every locale the text   *)
(* of that seed.                                                           *)
LEMMA ArmsSpan ==
    ASSUME NEW n \in Nat, n >= 1, NEW ls, ls # {}, NEW vs, Spans(vs, n, ls),
           NEW ids, NEW ws, NEW as, as = Arms(vs, ids, ws)
    PROVE  Speaks(as, vs, n, ls)
  <1>1. PICK N \in Nat : DOMAIN vs = 1..N
    BY DEF Spans
  <1>2. /\ \A i \in DOMAIN vs : vs[i].seed \in 0..(n - 1) /\ vs[i].locale \in ls
        /\ \A s \in 0..(n - 1), l \in ls :
               \E i \in DOMAIN vs : vs[i].seed = s /\ vs[i].locale = l
    BY Zenon DEF Spans
  <1>3. SeedsOf(vs) = 0..(n - 1)
    <2>1. \A v \in Members(vs) : v.seed \in 0..(n - 1)
      BY <1>2 DEF Members
    <2>2. ASSUME NEW s \in 0..(n - 1)
          PROVE  \E v \in Members(vs) : v.seed = s
      <3>1. PICK l \in ls : TRUE
        OBVIOUS
      <3>2. PICK i \in DOMAIN vs : vs[i].seed = s /\ vs[i].locale = l
        BY <1>2
      <3>. QED
        BY <3>2 DEF Members
    <2>3. \A s : s \in SeedsOf(vs) <=> s \in 0..(n - 1)
      BY <2>1, <2>2, Zenon DEF SeedsOf
    <2>. QED
      BY <2>3, Zenon
  <1>4. ASSUME NEW s \in 0..(n - 1)
        PROVE  Rank(s, vs) = s + 1
    <2>1. {x \in SeedsOf(vs) : x < s} = 0..(s - 1)
      BY <1>3
    <2>2. Cardinality(0..(s - 1)) = s
      <3>1. 0 \in Int /\ s - 1 \in Int
        OBVIOUS
      <3>2. Cardinality(0..(s - 1)) = IF 0 > s - 1 THEN 0 ELSE s - 1 - 0 + 1
        BY <3>1, FS_Interval
      <3>. QED
        BY <3>2
    <2>. QED
      <3>1. Cardinality({x \in SeedsOf(vs) : x < s}) = s
        BY <2>1, <2>2, Zenon
      <3>2. Rank(s, vs) = 1 + s
        BY <3>1, Zenon DEF Rank
      <3>. QED
        BY <3>2
  <1>5. Cardinality(SeedsOf(vs)) = n
    <2>1. 0 \in Int /\ n - 1 \in Int
      OBVIOUS
    <2>2. Cardinality(0..(n - 1)) = IF 0 > n - 1 THEN 0 ELSE n - 1 - 0 + 1
      BY <2>1, FS_Interval
    <2>. QED
      BY <1>3, <2>2
  <1>6. ASSUME NEW s \in 0..(n - 1)
        PROVE  /\ DOMAIN Payload(s, vs) = ls
               /\ \A l \in ls : \E v \in Members(vs) :
                      v.locale = l /\ v.seed = s /\ v.text = Payload(s, vs)[l]
    <2> DEFINE mine == {i \in DOMAIN vs : vs[i].seed = s}
               at(l) == {i \in mine : vs[i].locale = l}
    <2>1. Payload(s, vs) = [l \in {vs[i].locale : i \in mine} |-> vs[Last(at(l))].text]
      BY DEF Payload
    <2>2. {vs[i].locale : i \in mine} = ls
      <3>1. \A i \in mine : vs[i].locale \in ls
        BY <1>2
      <3>2. ASSUME NEW l \in ls
            PROVE  \E i \in mine : vs[i].locale = l
        <4>1. PICK i \in DOMAIN vs : vs[i].seed = s /\ vs[i].locale = l
          BY <1>2
        <4>2. i \in mine
          BY <4>1
        <4>. QED
          BY <4>1, <4>2
      <3> HIDE DEF mine
      <3>3. \A l : l \in {vs[i].locale : i \in mine} <=> l \in ls
        BY <3>1, <3>2, Zenon
      <3>. QED
        BY <3>3, Zenon
    <2>3. ASSUME NEW l \in ls
          PROVE  Last(at(l)) \in at(l)
      <3>1. at(l) \in SUBSET (1..N) /\ at(l) # {}
        <4>1. PICK i \in DOMAIN vs : vs[i].seed = s /\ vs[i].locale = l
          BY <1>2
        <4>2. i \in at(l)
          BY <4>1
        <4>. QED
          BY <1>1, <4>2
      <3> HIDE DEF at
      <3>2. Last(at(l)) \in at(l) \cup {0} /\ \A y \in at(l) : y <= Last(at(l))
        BY <3>1, LastOfPlaces
      <3>3. Last(at(l)) # 0
        BY <3>1, <3>2
      <3>. QED
        BY <3>2, <3>3
    <2>4. ASSUME NEW l \in ls
          PROVE  \E v \in Members(vs) : v.locale = l /\ v.seed = s /\ v.text = Payload(s, vs)[l]
      <3> DEFINE i == Last(at(l))
      <3>1. i \in DOMAIN vs /\ vs[i].seed = s /\ vs[i].locale = l
        BY <2>3
      <3>2. Payload(s, vs)[l] = vs[i].text
        BY <2>1, <2>2
      <3> HIDE DEF i
      <3>3. vs[i] \in Members(vs)
        BY <3>1 DEF Members
      <3>. QED
        BY <3>1, <3>2, <3>3
    <2>. QED
      BY <2>1, <2>2, <2>4
  <1> SUFFICES ASSUME NEW a \in DOMAIN as
               PROVE  /\ DOMAIN as[a].payload = ls
                      /\ \E s \in 0..(n - 1) : \A l \in ls : \E v \in Members(vs) :
                             v.locale = l /\ v.seed = s /\ v.text = as[a].payload[l]
    BY DEF Speaks
  <1> DEFINE seed == CHOOSE s \in SeedsOf(vs) : Rank(s, vs) = a
  <1>7. DOMAIN as = 1..n
    BY <1>5 DEF Arms
  <1>8. as[a].payload = Payload(seed, vs)
    BY <1>5, <1>7 DEF Arms
  <1>9. seed \in 0..(n - 1)
    <2>1. a - 1 \in 0..(n - 1) /\ (a - 1) + 1 = a
      BY <1>7
    <2>2. \E s \in SeedsOf(vs) : Rank(s, vs) = a
      BY <1>3, <1>4, <2>1
    <2>3. seed \in SeedsOf(vs)
      BY <2>2
    <2>. QED
      BY <1>3, <2>3
  <1> HIDE DEF seed
  <1>. QED
    BY <1>6, <1>8, <1>9

(* What the generator has produced is the copies of its request, and the   *)
(* arms are made of them.                                                  *)
Produced == Acceptable(request) /\ variants = Copies(request)
CopyInv ==
    /\ request \in CopyRequests /\ Drawn
    /\ status = Absent => arms = <<>>
    /\ variants = <<>> \/ Produced
    /\ status = "200" => Produced
    /\ arms = <<>> \/ (Produced /\ \E ids, ws : arms = Arms(variants, ids, ws))

LEMMA CopyStart == CopyInit => CopyInv
  BY CopyAssumption DEF CopyInit, CopyInv, Drawn

LEMMA CopyStep == CopyInv /\ [CopyNext]_copyVars => CopyInv'
  <1> SUFFICES ASSUME CopyInv, [CopyNext]_copyVars
               PROVE  CopyInv'
    OBVIOUS
  <1>1. CASE Generate
    <2>1. status = Absent /\ arms = <<>> /\ UNCHANGED <<request, digest, arms>>
      BY <1>1 DEF Generate, CopyInv
    <2>2. Copies(request)' = Copies(request)
      BY <2>1 DEF Copies, Variant, Phrase, Picked
    <2>3. (Acceptable(request) /\ status' = "200" /\ Produced') \/ (status' = "422" /\ variants' = <<>>)
      BY <1>1, <2>1, <2>2 DEF Generate, Produced
    <2>. QED
      BY <2>1, <2>3 DEF CopyInv, Drawn
  <1>2. ASSUME NEW ids \in ContentIds, NEW ws \in Weights, ToOrchestration(ids, ws)
        PROVE  CopyInv'
    <2>1. status = "200" /\ arms = <<>> /\ UNCHANGED <<request, digest, variants>>
      BY <1>2 DEF ToOrchestration
    <2>2. Copies(request)' = Copies(request)
      BY <2>1 DEF Copies, Variant, Phrase, Picked
    <2>3. Produced /\ Produced'
      BY <2>1, <2>2 DEF CopyInv, Produced
    <2>4. arms' = <<>> \/ (status' = "200" /\ arms' = Arms(variants', ids, ws))
      BY <1>2, <2>1 DEF ToOrchestration
    <2>5. status' = Absent => arms' = <<>>
      BY <2>4, CopyAssumption
    <2>. QED
      BY <2>1, <2>3, <2>4, <2>5 DEF CopyInv, Drawn
  <1>3. CASE UNCHANGED copyVars
    <2>1. Copies(request)' = Copies(request)
      BY <1>3 DEF copyVars, Copies, Variant, Phrase, Picked
    <2>. QED
      BY <1>3, <2>1 DEF copyVars, CopyInv, Produced, Drawn
  <1>. QED
    BY <1>1, <1>2, <1>3 DEF CopyNext

LEMMA CopyInvGivesArms == CopyInv => ArmsAreWhole
  <1> SUFFICES ASSUME CopyInv
               PROVE  ArmsAreWhole
    OBVIOUS
  <1>1. ASSUME Produced
        PROVE  /\ Spans(variants, request.n, Members(request.locales))
               /\ \A i \in DOMAIN variants : \E raw \in Texts :
                      variants[i].text = Fixed(raw, ChannelOf(request), request.product)
    <2>1. /\ request \in CopyRequests /\ Drawn /\ Acceptable(request)
          /\ variants = Copies(request)
      BY <1>1 DEF CopyInv, Produced
    <2>. QED
      BY <2>1, CopiesSpan
  <1>2. CopyFitsItsChannel
    <2>1. CASE variants = <<>>
      <3>1. Members(variants) = {}
        BY <2>1 DEF Members
      <3>. QED
        BY <3>1 DEF CopyFitsItsChannel
    <2>2. CASE Produced
      <3>1. ASSUME NEW v \in Members(variants)
            PROVE  /\ ChannelOf(request) \in DOMAIN CHANNEL_MAX_LEN =>
                          Len(v.text) <= CHANNEL_MAX_LEN[ChannelOf(request)]
                   /\ Required(request.product) => Mentions(v.text, DISCLAIMER_TEXT)
        <4>1. PICK raw \in Texts : v.text = Fixed(raw, ChannelOf(request), request.product)
          BY <1>1, <2>2 DEF Members
        <4>. QED
          BY <4>1, FixedHolds, FoundByLetters
      <3>. QED
        BY <3>1 DEF CopyFitsItsChannel, ChannelOf
    <2>. QED
      BY <2>1, <2>2 DEF CopyInv
  <1>3. ArmsSpeakEveryLocale
    <2>1. CASE arms = <<>>
      BY <2>1 DEF ArmsSpeakEveryLocale
    <2>2. ASSUME Produced, NEW ids, NEW ws, arms = Arms(variants, ids, ws)
          PROVE  ArmsSpeakEveryLocale
      <3> DEFINE n == request.n
                 ls == Members(request.locales)
      <3>1. n \in Nat /\ n >= 1 /\ 0..(n - 1) \subseteq Seeds
        BY <2>2, AcceptedRequest DEF Produced, CopyInv
      <3>2. ls # {}
        <4>1. /\ request.locales # <<>> /\ request.locales \in Seq(STRING)
          BY <2>2, CopyAssumption DEF Produced, CopyInv, Acceptable
        <4>2. 1 \in DOMAIN request.locales
          BY <4>1
        <4>. QED
          BY <4>2 DEF Members
      <3>3. Spans(variants, n, ls)
        BY <1>1, <2>2
      <3> HIDE DEF n, ls
      <3>4. Speaks(arms, variants, n, ls)
        BY <2>2, <3>1, <3>2, <3>3, ArmsSpan
      <3>. QED
        BY <3>1, <3>4 DEF ArmsSpeakEveryLocale, Speaks, ls
    <2>. QED
      BY <2>1, <2>2 DEF CopyInv
  <1>. QED
    BY <1>2, <1>3 DEF ArmsAreWhole

(* Whatever the digest draws and whatever is asked for, every arm handed to *)
(* the orchestration speaks every locale of its request with the text of   *)
(* one seed, and what leaves the generator fits its channel with its       *)
(* disclaimer (generate and to_orchestration_variants).                    *)
THEOREM CopyArmsWhole == CopySpec => []ArmsAreWhole
  <1>1. CopyInit => CopyInv
    BY CopyStart
  <1>2. CopyInv /\ [CopyNext]_copyVars => CopyInv'
    BY CopyStep
  <1>3. CopyInv => ArmsAreWhole
    BY CopyInvGivesArms
  <1>. QED
    BY <1>1, <1>2, <1>3, PTL DEF CopySpec
-----------------------------------------------------------------------------
(* The feedback loop: CopyFeedback.                                        *)

(* A delivery log, or a part of one.                                       *)
Deliveries(l) ==
    /\ IsFiniteSet(DOMAIN l)
    /\ \A i \in DOMAIN l : l[i].variant \in Variants

(* What is counted of it.                                                  *)
LEMMA FeedbackCounted ==
    ASSUME NEW l, Deliveries(l), NEW v
    PROVE  /\ Sent(v, l) \in Nat /\ Conversions(v, l) \in Nat
           /\ Conversions(v, l) <= Sent(v, l)
  <1> DEFINE S == {i \in DOMAIN l : l[i].variant = v /\ l[i].sent}
             C == {i \in DOMAIN l : l[i].variant = v /\ l[i].sent /\ l[i].converted}
  <1>1. IsFiniteSet(DOMAIN l) /\ S \in SUBSET DOMAIN l /\ C \in SUBSET S
    BY DEF Deliveries
  <1>2. IsFiniteSet(S) /\ IsFiniteSet(C) /\ Cardinality(C) <= Cardinality(S)
    BY <1>1, FS_Subset
  <1>. QED
    BY <1>2, FS_CardinalityType DEF Sent, Conversions

(* Finitely many variants are known.                                       *)
LEMMA KnownFinite ==
    ASSUME NEW l, Deliveries(l)
    PROVE  IsFiniteSet(Known(l)) /\ Cardinality(Known(l)) \in Nat
  <1> DEFINE f == [i \in DOMAIN l |-> l[i].variant]
             T == {f[i] : i \in DOMAIN l}
  <1>1. f \in Surjection(DOMAIN l, T)
    BY DEF Surjection
  <1>2. IsFiniteSet(T)
    <2> HIDE DEF f, T
    <2>. QED
      BY <1>1, FS_Surjection DEF Deliveries
  <1>3. Known(l) \in SUBSET T
    <2> SUFFICES ASSUME NEW v \in Known(l)
                 PROVE  v \in T
      OBVIOUS
    <2> DEFINE S == {i \in DOMAIN l : l[i].variant = v /\ l[i].sent}
    <2>1. Cardinality(S) > 0
      BY DEF Known, Sent
    <2>2. S # {}
      <3>1. ASSUME S = {}
            PROVE  FALSE
        <4>1. Cardinality(S) = 0
          BY <3>1, FS_EmptySet, Zenon
        <4> HIDE DEF S
        <4>. QED
          BY <2>1, <4>1
      <3>. QED
        BY <3>1
    <2>. QED
      BY <2>2
  <1>. QED
    BY <1>2, <1>3, FS_Subset, FS_CardinalityType

(* The rates of three variants, over the products of what was sent.        *)
LEMMA RatesCompare ==
    ASSUME NEW a \in Nat, NEW b \in Nat, NEW c \in Nat,
           NEW p \in Nat \ {0}, NEW q \in Nat \ {0}, NEW r \in Nat \ {0},
           a * q >= b * p, b * r >= c * q
    PROVE  /\ a * r >= c * p
           /\ a * q > b * p \/ b * r > c * q => a * r > c * p
  <1>1. /\ a * q \in Nat /\ b * p \in Nat /\ b * r \in Nat /\ c * q \in Nat
        /\ a * r \in Nat /\ c * p \in Nat
    OBVIOUS
  <1>2. \A x, y \in Nat, z \in Nat \ {0} : (x >= y <=> x * z >= y * z) /\ (x > y <=> x * z > y * z)
    OBVIOUS
  <1>3. /\ (a * q) * r >= (b * p) * r /\ (b * r) * p >= (c * q) * p
        /\ a * q > b * p => (a * q) * r > (b * p) * r
        /\ b * r > c * q => (b * r) * p > (c * q) * p
    BY <1>1, <1>2
  <1>4. /\ (a * q) * r = (a * r) * q /\ (b * p) * r = (b * r) * p /\ (c * q) * p = (c * p) * q
    OBVIOUS
  <1>5. (a * r) * q >= (c * p) * q /\ (a * q > b * p \/ b * r > c * q => (a * r) * q > (c * p) * q)
    <2> DEFINE x == (a * q) * r
               y == (b * p) * r
               z == (c * q) * p
    <2>1. x \in Nat /\ y \in Nat /\ z \in Nat
      BY <1>1
    <2>2. x >= y /\ y >= z /\ (a * q > b * p => x > y) /\ (b * r > c * q => y > z)
      BY <1>3, <1>4
    <2>3. x >= z /\ (a * q > b * p \/ b * r > c * q => x > z)
      <3> HIDE DEF x, y, z
      <3>. QED
        BY <2>1, <2>2
    <2>. QED
      BY <2>3, <1>4
  <1>. QED
    BY <1>1, <1>2, <1>5

(* Being ahead is a strict order in which any two known variants compare.  *)
LEMMA AheadIsAnOrder ==
    ASSUME NEW l, Deliveries(l)
    PROVE  /\ \A v \in Known(l) : ~Ahead(v, v, l)
           /\ \A v, w \in Known(l) : v # w => Ahead(v, w, l) \/ Ahead(w, v, l)
           /\ \A u, v, w \in Known(l) : Ahead(u, v, l) /\ Ahead(v, w, l) => Ahead(u, w, l)
  <1>1. \A v \in Known(l) : /\ v \in Nat /\ Sent(v, l) \in Nat \ {0}
                            /\ Conversions(v, l) \in Nat
    BY FeedbackCounted, FeedbackAssumption DEF Known
  <1>2. ASSUME NEW v \in Known(l), NEW w \in Known(l)
        PROVE  /\ Conversions(v, l) * Sent(w, l) \in Nat
               /\ Lead(v, w, l) = Conversions(v, l) * Sent(w, l) - Conversions(w, l) * Sent(v, l)
               /\ Lead(v, w, l) \in Int
               /\ Lead(w, v, l) = 0 - Lead(v, w, l)
    BY <1>1 DEF Lead
  <1>3. ASSUME NEW v \in Known(l)
        PROVE  ~Ahead(v, v, l)
    <2>1. Lead(v, v, l) \in Int /\ Lead(v, v, l) = 0 - Lead(v, v, l)
      BY <1>2
    <2>2. Lead(v, v, l) = 0 /\ ~(Sent(v, l) > Sent(v, l)) /\ ~(v < v)
      BY <1>1, <2>1
    <2>. QED
      BY <2>2 DEF Ahead
  <1>4. ASSUME NEW v \in Known(l), NEW w \in Known(l), v # w
        PROVE  Ahead(v, w, l) \/ Ahead(w, v, l)
    <2>1. Lead(v, w, l) \in Int /\ Lead(w, v, l) = 0 - Lead(v, w, l)
      BY <1>2
    <2>2. v \in Nat /\ w \in Nat /\ Sent(v, l) \in Nat /\ Sent(w, l) \in Nat
      BY <1>1
    <2>. QED
      BY <1>4, <2>1, <2>2 DEF Ahead
  <1>5. ASSUME NEW u \in Known(l), NEW v \in Known(l), NEW w \in Known(l),
               Ahead(u, v, l), Ahead(v, w, l)
        PROVE  Ahead(u, w, l)
    <2>a. Lead(u, v, l) \in Int /\ Lead(v, w, l) \in Int /\ Lead(u, w, l) \in Int
      BY <1>2
    <2>1. /\ Lead(u, v, l) >= 0 /\ Lead(v, w, l) >= 0
          /\ Lead(u, v, l) \in Int /\ Lead(v, w, l) \in Int /\ Lead(u, w, l) \in Int
      BY <1>5, <2>a DEF Ahead
    <2>2. /\ Lead(u, w, l) >= 0
          /\ Lead(u, v, l) > 0 \/ Lead(v, w, l) > 0 => Lead(u, w, l) > 0
      <3> DEFINE a == Conversions(u, l)  b == Conversions(v, l)  c == Conversions(w, l)
                 p == Sent(u, l)  q == Sent(v, l)  r == Sent(w, l)
      <3>1. /\ a \in Nat /\ b \in Nat /\ c \in Nat
            /\ p \in Nat \ {0} /\ q \in Nat \ {0} /\ r \in Nat \ {0}
        BY <1>1
      <3>2. /\ Lead(u, v, l) = a * q - b * p /\ Lead(v, w, l) = b * r - c * q
            /\ Lead(u, w, l) = a * r - c * p
        BY DEF Lead
      <3> HIDE DEF a, b, c, p, q, r
      <3>3. /\ a * q \in Nat /\ b * p \in Nat /\ b * r \in Nat /\ c * q \in Nat
            /\ a * r \in Nat /\ c * p \in Nat
        BY <3>1
      <3>4. a * q >= b * p /\ b * r >= c * q
        BY <2>1, <3>2, <3>3
      <3>5. /\ a * r >= c * p
            /\ a * q > b * p \/ b * r > c * q => a * r > c * p
        BY <3>1, <3>4, RatesCompare
      <3>. QED
        BY <3>2, <3>3, <3>5
    <2>3. CASE Lead(u, v, l) > 0 \/ Lead(v, w, l) > 0
      BY <2>2, <2>3 DEF Ahead
    <2>4. CASE ~(Lead(u, v, l) > 0 \/ Lead(v, w, l) > 0)
      BY <1>1, <1>5, <2>1, <2>2, <2>4 DEF Ahead
    <2>. QED
      BY <2>3, <2>4
  <1>. QED
    BY <1>3, <1>4, <1>5

(* v is ahead of all others of S.                                          *)
Tops(v, S, l) == v \in S /\ \A w \in S : w # v => Ahead(v, w, l)

(* Some known variant is ahead of all others.                              *)
LEMMA SomeoneTops ==
    ASSUME NEW l, Deliveries(l), NEW S \in SUBSET Known(l), S # {}
    PROVE  \E v \in S : Tops(v, S, l)
  <1> DEFINE before == [v \in S |-> {w \in S : Ahead(w, v, l)}]
             sizes == {Cardinality(before[v]) : v \in S}
  <1>1. IsFiniteSet(S)
    BY KnownFinite, FS_Subset
  <1>2. \A v \in S : before[v] \in SUBSET S /\ IsFiniteSet(before[v]) /\ Cardinality(before[v]) \in Nat
    <2> SUFFICES ASSUME NEW v \in S
                 PROVE  before[v] \in SUBSET S /\ IsFiniteSet(before[v]) /\ Cardinality(before[v]) \in Nat
      OBVIOUS
    <2>1. before[v] \in SUBSET S
      OBVIOUS
    <2> HIDE DEF before
    <2>. QED
      BY <1>1, <2>1, FS_Subset, FS_CardinalityType
  <1>3. PICK v \in S : \A w \in S : Cardinality(before[v]) <= Cardinality(before[w])
    <2>1. sizes \in SUBSET Nat /\ sizes # {}
      BY <1>2
    <2>2. PICK m \in sizes : \A n \in sizes : m <= n
      <3> HIDE DEF sizes
      <3>. QED
        BY <2>1, LeastNumber
    <2>. QED
      BY <2>2
  <1>4. ASSUME NEW w \in S, Ahead(w, v, l)
        PROVE  FALSE
    <2>1. w \in before[v] /\ w \notin before[w]
      BY <1>4, AheadIsAnOrder
    <2>2. before[w] \in SUBSET (before[v] \ {w})
      <3> SUFFICES ASSUME NEW u \in before[w]
                   PROVE  u \in before[v] /\ u # w
        OBVIOUS
      <3>1. u \in S /\ Ahead(u, w, l)
        OBVIOUS
      <3>2. Ahead(u, v, l)
        <4>1. u \in Known(l) /\ v \in Known(l) /\ w \in Known(l)
          BY <3>1
        <4>. QED
          BY <1>4, <3>1, <4>1, AheadIsAnOrder, Zenon
      <3>. QED
        BY <2>1, <3>1, <3>2
    <2> HIDE DEF before
    <2>3. Cardinality(before[w]) <= Cardinality(before[v]) - 1
      <3>1. /\ IsFiniteSet(before[v] \ {w})
            /\ Cardinality(before[v] \ {w}) = Cardinality(before[v]) - 1
        BY <1>2, <2>1, FS_RemoveElement
      <3>. QED
        BY <2>2, <3>1, FS_Subset
    <2>. QED
      BY <1>2, <1>3, <2>3
  <1>5. ASSUME NEW w \in S, w # v
        PROVE  Ahead(v, w, l)
    BY <1>4, <1>5, AheadIsAnOrder
  <1>. QED
    BY <1>5 DEF Tops

(* At the first place stands who is ahead of all others.                   *)
LEMMA BestTops ==
    ASSUME NEW l, Deliveries(l)
    PROVE  /\ Known(l) = {} => SelectBest(l) = NoVariant
           /\ Known(l) # {} => Tops(SelectBest(l), Known(l), l)
           /\ \A v \in Known(l) : Tops(v, Known(l), l) => SelectBest(l) = v
  <1>1. ASSUME NEW v \in Known(l)
        PROVE  Place(v, l) = 1 <=> Tops(v, Known(l), l)
    <2> DEFINE B == {w \in Known(l) : Ahead(w, v, l)}
    <2>1. IsFiniteSet(B) /\ Cardinality(B) \in Nat
      <3>1. B \in SUBSET Known(l)
        OBVIOUS
      <3>. QED
        BY <3>1, KnownFinite, FS_Subset, FS_CardinalityType
    <2>2. Place(v, l) = 1 + Cardinality(B)
      BY DEF Place
    <2>3. Cardinality(B) = 0 <=> B = {}
      BY <2>1, FS_EmptySet
    <2>4. B = {} <=> Tops(v, Known(l), l)
      <3>1. \A w \in Known(l) : w # v => (Ahead(v, w, l) <=> ~Ahead(w, v, l))
        BY AheadIsAnOrder
      <3>2. ~Ahead(v, v, l)
        BY AheadIsAnOrder
      <3>. QED
        BY <3>1, <3>2 DEF Tops
    <2> HIDE DEF B
    <2>. QED
      BY <2>1, <2>2, <2>3, <2>4
  <1>2. \A v, w \in Known(l) : Tops(v, Known(l), l) /\ Tops(w, Known(l), l) => v = w
    BY AheadIsAnOrder DEF Tops
  <1>3. ASSUME Known(l) # {}
        PROVE  /\ Tops(SelectBest(l), Known(l), l)
               /\ \A v \in Known(l) : Tops(v, Known(l), l) => SelectBest(l) = v
    <2>1. PICK v \in Known(l) : Tops(v, Known(l), l)
      BY <1>3, SomeoneTops
    <2>2. SelectBest(l) = CHOOSE w \in Known(l) : Place(w, l) = 1
      <3>1. Cardinality(Known(l)) \in Nat /\ Cardinality(Known(l)) # 0
        BY <1>3, KnownFinite, FS_EmptySet
      <3>2. 1 \in 1..Cardinality(Known(l))
        BY <3>1
      <3>. QED
        BY <1>3, <3>2 DEF SelectBest, Ranked
    <2>3. SelectBest(l) \in Known(l) /\ Place(SelectBest(l), l) = 1
      BY <1>1, <2>1, <2>2
    <2>. QED
      BY <1>1, <1>2, <2>3
  <1>. QED
    BY <1>3 DEF SelectBest

(* Logs with the same counts have the same best variant.                   *)
LEMMA SameCountsSameBest ==
    ASSUME NEW l, NEW m,
           \A v \in Variants : Sent(v, m) = Sent(v, l) /\ Conversions(v, m) = Conversions(v, l)
    PROVE  Known(m) = Known(l) /\ SelectBest(m) = SelectBest(l)
  <1>1. Known(m) = Known(l)
    BY DEF Known
  <1>2. \A v, w \in Known(l) : Ahead(v, w, m) <=> Ahead(v, w, l)
    BY DEF Ahead, Lead, Known
  <1>3. \A v \in Known(l) : Place(v, m) = Place(v, l)
    <2> SUFFICES ASSUME NEW v \in Known(l)
                 PROVE  Place(v, m) = Place(v, l)
      OBVIOUS
    <2>1. {w \in Known(m) : Ahead(w, v, m)} = {w \in Known(l) : Ahead(w, v, l)}
      BY <1>1, <1>2
    <2>. QED
      BY <2>1 DEF Place
  <1>4. Ranked(m) = Ranked(l)
    <2>1. \A p : {v \in Known(m) : Place(v, m) = p} = {v \in Known(l) : Place(v, l) = p}
      BY <1>1, <1>3
    <2>2. \A p : (CHOOSE v \in Known(m) : Place(v, m) = p) = CHOOSE v \in Known(l) : Place(v, l) = p
      BY <1>1, <1>3
    <2>. QED
      BY <1>1, <2>2 DEF Ranked
  <1>. QED
    BY <1>1, <1>4 DEF SelectBest

(* What a part of a log counts.                                            *)
LEMMA PartCounted ==
    ASSUME NEW l, Deliveries(l), NEW S \in SUBSET DOMAIN l, NEW v
    PROVE  /\ Deliveries(Only(S, l))
           /\ Sent(v, Only(S, l)) = Cardinality({i \in S : l[i].variant = v /\ l[i].sent})
           /\ Conversions(v, Only(S, l)) =
                 Cardinality({i \in S : l[i].variant = v /\ l[i].sent /\ l[i].converted})
  <1>1. DOMAIN Only(S, l) = S /\ \A i \in S : Only(S, l)[i] = l[i]
    BY DEF Only
  <1>2. Deliveries(Only(S, l))
    BY <1>1, FS_Subset DEF Deliveries
  <1>3. /\ {i \in DOMAIN Only(S, l) : Only(S, l)[i].variant = v /\ Only(S, l)[i].sent} =
              {i \in S : l[i].variant = v /\ l[i].sent}
        /\ {i \in DOMAIN Only(S, l) : /\ Only(S, l)[i].variant = v /\ Only(S, l)[i].sent
                                      /\ Only(S, l)[i].converted} =
              {i \in S : l[i].variant = v /\ l[i].sent /\ l[i].converted}
    BY <1>1
  <1>. QED
    BY <1>2, <1>3, Zenon DEF Sent, Conversions

(* The sent records alone have the same best variant.                      *)
LEMMA SentPartSameBest ==
    ASSUME NEW l, Deliveries(l)
    PROVE  SelectBest(Only({i \in DOMAIN l : l[i].sent}, l)) = SelectBest(l)
  <1> DEFINE S == {i \in DOMAIN l : l[i].sent}
  <1>1. ASSUME NEW v
        PROVE  Sent(v, Only(S, l)) = Sent(v, l) /\ Conversions(v, Only(S, l)) = Conversions(v, l)
    <2>1. S \in SUBSET DOMAIN l
      OBVIOUS
    <2>2. /\ {i \in S : l[i].variant = v /\ l[i].sent} =
                {i \in DOMAIN l : l[i].variant = v /\ l[i].sent}
          /\ {i \in S : l[i].variant = v /\ l[i].sent /\ l[i].converted} =
                {i \in DOMAIN l : l[i].variant = v /\ l[i].sent /\ l[i].converted}
      OBVIOUS
    <2> HIDE DEF S
    <2>3. /\ Sent(v, Only(S, l)) = Cardinality({i \in S : l[i].variant = v /\ l[i].sent})
          /\ Conversions(v, Only(S, l)) =
                Cardinality({i \in S : l[i].variant = v /\ l[i].sent /\ l[i].converted})
      BY <2>1, PartCounted
    <2>. QED
      BY <2>2, <2>3, Zenon DEF Sent, Conversions
  <1> HIDE DEF S
  <1>. QED
    BY <1>1, SameCountsSameBest DEF S

(* Second comes who is ahead of all but the best: the best of the others.  *)
LEMMA SecondIsNextBest ==
    ASSUME NEW l, Deliveries(l), Cardinality(Known(l)) > 1
    PROVE  EpsilonGreedy(l, TRUE, NoVariant) =
              SelectBest(Only({i \in DOMAIN l : l[i].variant # SelectBest(l)}, l))
  <1> DEFINE best == SelectBest(l)
             S == {i \in DOMAIN l : l[i].variant # best}
             others == Only(S, l)
             rest == Known(l) \ {best}
  <1>1. IsFiniteSet(Known(l)) /\ Cardinality(Known(l)) \in Nat /\ Known(l) # {}
    BY KnownFinite, FS_EmptySet
  <1>2. Tops(best, Known(l), l) /\ best \in Known(l)
    <2>1. Tops(best, Known(l), l)
      BY <1>1, BestTops
    <2>. QED
      BY <2>1 DEF Tops
  <1>3. Deliveries(others)
    BY PartCounted
  <1>4. ASSUME NEW v, v # best
        PROVE  Sent(v, others) = Sent(v, l) /\ Conversions(v, others) = Conversions(v, l)
    <2>1. /\ Sent(v, others) = Cardinality({i \in S : l[i].variant = v /\ l[i].sent})
          /\ Conversions(v, others) =
                Cardinality({i \in S : l[i].variant = v /\ l[i].sent /\ l[i].converted})
      <3>1. S \in SUBSET DOMAIN l
        OBVIOUS
      <3> HIDE DEF S
      <3>. QED
        BY <3>1, PartCounted, SMTT(30)
    <2>2. /\ {i \in S : l[i].variant = v /\ l[i].sent} =
                {i \in DOMAIN l : l[i].variant = v /\ l[i].sent}
          /\ {i \in S : l[i].variant = v /\ l[i].sent /\ l[i].converted} =
                {i \in DOMAIN l : l[i].variant = v /\ l[i].sent /\ l[i].converted}
      BY <1>4
    <2> HIDE DEF S, others
    <2>. QED
      BY <2>1, <2>2 DEF Sent, Conversions
  <1>5. Sent(best, others) = 0
    <2>1. Sent(best, others) = Cardinality({i \in S : l[i].variant = best /\ l[i].sent})
      BY PartCounted
    <2>2. {i \in S : l[i].variant = best /\ l[i].sent} = {}
      OBVIOUS
    <2> HIDE DEF S, others, best
    <2>. QED
      BY <2>1, <2>2, FS_EmptySet, Zenon
  <1>6. Known(others) = rest
    <2> HIDE DEF others, best
    <2>. QED
      BY <1>4, <1>5 DEF Known
  <1>7. \A v, w \in rest : Ahead(v, w, others) <=> Ahead(v, w, l)
    <2> HIDE DEF others, best
    <2>. QED
      BY <1>4 DEF Ahead, Lead
  <1>8. rest # {}
    <2>1. Cardinality(Known(l) \ {best}) = Cardinality(Known(l)) - 1
      BY <1>1, <1>2, FS_RemoveElement
    <2>2. Cardinality(rest) > 0
      BY <1>1, <2>1
    <2>3. ASSUME rest = {}
          PROVE  FALSE
      <3>1. Cardinality(rest) = 0
        BY <2>3, FS_EmptySet, Zenon
      <3> HIDE DEF rest
      <3>. QED
        BY <2>2, <3>1
    <2>. QED
      BY <2>3
  <1> HIDE DEF best, S, others
  <1>9. PICK u \in rest : Tops(u, rest, l)
    <2>1. rest \in SUBSET Known(l)
      OBVIOUS
    <2> HIDE DEF rest
    <2>. QED
      BY <1>8, <2>1, SomeoneTops
  <1>10. SelectBest(others) = u
    <2>1. Tops(u, Known(others), others) /\ u \in Known(others)
      BY <1>6, <1>7, <1>9 DEF Tops
    <2>. QED
      BY <1>3, <2>1, BestTops
  <1>11. ASSUME NEW v \in Known(l)
         PROVE  Place(v, l) = 2 <=> v = u
    <2> DEFINE B == {w \in Known(l) : Ahead(w, v, l)}
    <2>1. IsFiniteSet(B) /\ Cardinality(B) \in Nat
      <3>1. B \in SUBSET Known(l)
        OBVIOUS
      <3>. QED
        BY <1>1, <3>1, FS_Subset, FS_CardinalityType
    <2>2. Place(v, l) = 2 <=> \E x : B = {x}
      <3>1. Place(v, l) = 1 + Cardinality(B)
        BY DEF Place
      <3>2. Cardinality(B) = 1 <=> \E x : B = {x}
        BY <2>1, FS_Singleton
      <3> HIDE DEF B
      <3>. QED
        BY <2>1, <3>1, <3>2
    <2>3. best \in B <=> v # best
      BY <1>2, AheadIsAnOrder DEF Tops
    <2>4. v = best => B = {}
      <3>1. \A w \in Known(l) : w # best => Ahead(best, w, l)
        BY <1>2 DEF Tops
      <3>. QED
        BY <1>2, <3>1, AheadIsAnOrder
    <2>5. v = u => B = {best}
      <3>1. \A w \in rest : w # u => Ahead(u, w, l)
        BY <1>9 DEF Tops
      <3>2. ASSUME v = u, NEW w \in B, w # best
            PROVE  FALSE
        <4>1. w \in rest /\ w \in Known(l) /\ u \in Known(l) /\ Ahead(w, u, l)
          BY <3>2
        <4>2. w # u
          BY <4>1, AheadIsAnOrder
        <4>3. Ahead(u, w, l)
          BY <3>1, <4>1, <4>2
        <4>. QED
          BY <4>1, <4>3, AheadIsAnOrder, Zenon
      <3>3. v = u => best \in B
        BY <2>3
      <3> HIDE DEF B, rest
      <3>. QED
        BY <3>2, <3>3
    <2>6. ASSUME v # best, v # u
          PROVE  u \in B /\ u # best
      BY <1>9, <2>6 DEF Tops
    <2> HIDE DEF B
    <2>. QED
      BY <1>9, <2>2, <2>3, <2>4, <2>5, <2>6
  <1>12. Ranked(l)[2] = u /\ Ranked(l) # <<>> /\ Len(Ranked(l)) > 1
    <2>1. 2 \in 1..Cardinality(Known(l))
      BY <1>1
    <2>2. Ranked(l)[2] = CHOOSE v \in Known(l) : Place(v, l) = 2
      BY <2>1 DEF Ranked
    <2>3. u \in Known(l)
      BY <1>9
    <2>4. (CHOOSE v \in Known(l) : Place(v, l) = 2) = u
      BY <1>11, <2>3
    <2>5. Len(Ranked(l)) = Cardinality(Known(l)) /\ DOMAIN Ranked(l) = 1..Cardinality(Known(l))
      BY <1>1 DEF Ranked
    <2>6. Ranked(l) # <<>>
      BY <2>1, <2>5
    <2>. QED
      BY <2>2, <2>4, <2>5, <2>6
  <1>13. NoVariant \notin Known(l)
    BY FeedbackAssumption DEF Known
  <1>14. EpsilonGreedy(l, TRUE, NoVariant) = Ranked(l)[2]
    BY <1>12, <1>13 DEF EpsilonGreedy
  <1>. QED
    BY <1>10, <1>12, <1>14 DEF others, S, best

(* One result more adds one entry to one variant, sent or not.             *)
LEMMA OneEntryMore ==
    ASSUME NEW l \in Seq(Records), NEW r \in Records, NEW v
    PROVE  /\ Deliveries(l) /\ Deliveries(Append(l, r))
           /\ Sent(v, Append(l, r)) =
                 IF r.variant = v /\ r.sent THEN Sent(v, l) + 1 ELSE Sent(v, l)
           /\ Conversions(v, Append(l, r)) =
                 IF r.variant = v /\ r.sent /\ r.converted THEN Conversions(v, l) + 1
                 ELSE Conversions(v, l)
  <1> DEFINE n == Len(l) + 1
             m == Append(l, r)
             S(k) == {i \in DOMAIN k : k[i].variant = v /\ k[i].sent}
             C(k) == {i \in DOMAIN k : k[i].variant = v /\ k[i].sent /\ k[i].converted}
  <1>1. /\ DOMAIN l = 1..Len(l) /\ Len(l) \in Nat /\ n \notin DOMAIN l
        /\ DOMAIN m = DOMAIN l \cup {n} /\ m[n] = r
        /\ \A i \in DOMAIN l : m[i] = l[i]
        /\ \A i \in DOMAIN l : l[i].variant \in Variants
    <2>1. DOMAIN l = 1..Len(l) /\ Len(l) \in Nat
      OBVIOUS
    <2>2. n \notin DOMAIN l /\ DOMAIN m = 1..n /\ 1..n = 1..Len(l) \cup {n}
      BY <2>1
    <2>3. m[n] = r /\ \A i \in DOMAIN l : m[i] = l[i]
      BY <2>1
    <2>4. \A i \in DOMAIN l : l[i] \in Records
      OBVIOUS
    <2>5. \A i \in DOMAIN l : l[i].variant \in Variants
      BY <2>4 DEF Records
    <2> HIDE DEF m, n
    <2>. QED
      BY <2>1, <2>2, <2>3, <2>5
  <1>2. IsFiniteSet(DOMAIN l)
    BY <1>1, FS_Interval
  <1>3. Deliveries(l)
    BY <1>1, <1>2 DEF Deliveries
  <1>4. Deliveries(m)
    <2>1. IsFiniteSet(DOMAIN m)
      <3>1. IsFiniteSet(DOMAIN l \cup {n})
        BY <1>2, FS_AddElement
      <3> HIDE DEF m, n
      <3>. QED
        BY <1>1, <3>1
    <2>2. \A i \in DOMAIN m : m[i].variant \in Variants
      <3>1. r.variant \in Variants
        BY DEF Records
      <3> HIDE DEF m, n
      <3>. QED
        BY <1>1, <3>1
    <2> HIDE DEF m
    <2>. QED
      BY <2>1, <2>2 DEF Deliveries
  <1> HIDE DEF m, n
  <1>5. /\ S(m) = IF r.variant = v /\ r.sent THEN S(l) \cup {n} ELSE S(l)
        /\ C(m) = IF r.variant = v /\ r.sent /\ r.converted THEN C(l) \cup {n} ELSE C(l)
    BY <1>1
  <1>6. IsFiniteSet(S(l)) /\ IsFiniteSet(C(l)) /\ n \notin S(l) /\ n \notin C(l)
    BY <1>1, <1>2, FS_Subset
  <1>7. /\ Cardinality(S(l) \cup {n}) = Cardinality(S(l)) + 1
        /\ Cardinality(C(l) \cup {n}) = Cardinality(C(l)) + 1
    <2> HIDE DEF S, C
    <2>. QED
      BY <1>6, FS_AddElement
  <1>8. /\ Sent(v, m) = Cardinality(S(m)) /\ Sent(v, l) = Cardinality(S(l))
        /\ Conversions(v, m) = Cardinality(C(m)) /\ Conversions(v, l) = Cardinality(C(l))
    BY DEF Sent, Conversions
  <1> HIDE DEF S, C
  <1>. QED
    BY <1>3, <1>4, <1>5, <1>7, <1>8 DEF m

(* The best variant stays ahead of w: it gained a success.                 *)
LEMMA SuccessKeepsAhead ==
    ASSUME NEW c \in Nat, NEW s \in Nat \ {0}, NEW d \in Nat, NEW t \in Nat \ {0}, d <= t
    PROVE  /\ c * t - d * s > 0 => (c + 1) * t - d * (s + 1) > 0
           /\ c * t - d * s = 0 => (c + 1) * t - d * (s + 1) >= 0
  <1>1. (c + 1) * t = c * t + t /\ d * (s + 1) = d * s + d
    OBVIOUS
  <1>2. c * t \in Nat /\ d * s \in Nat
    OBVIOUS
  <1>. QED
    BY <1>1, <1>2

(* ... or w gained a failure.                                              *)
LEMMA FailureFallsBehind ==
    ASSUME NEW c \in Nat \ {0}, NEW s \in Nat \ {0}, NEW d \in Nat, NEW t \in Nat, d <= t,
           c * t - d * s >= 0
    PROVE  c * (t + 1) - d * s > 0
  <1>1. c * (t + 1) = c * t + c
    OBVIOUS
  <1>2. c * t \in Nat /\ d * s \in Nat
    OBVIOUS
  <1>. QED
    BY <1>1, <1>2

(* Its own success, or the failure of another, keeps the best variant best.*)
LEMMA NewsKeepTheBest ==
    ASSUME NEW l \in Seq(Records), NEW r \in Records, NEW best, best = SelectBest(l),
           \/ ~r.sent
           \/ r.variant = best /\ r.converted
           \/ r.variant # best /\ ~r.converted /\ best # NoVariant /\ Conversions(best, l) > 0
    PROVE  SelectBest(Append(l, r)) = best
  <1> DEFINE m == Append(l, r)
  <1>1. /\ Deliveries(l) /\ Deliveries(m)
        /\ \A v : /\ Sent(v, m) = IF r.variant = v /\ r.sent THEN Sent(v, l) + 1 ELSE Sent(v, l)
                  /\ Conversions(v, m) = IF r.variant = v /\ r.sent /\ r.converted
                                         THEN Conversions(v, l) + 1 ELSE Conversions(v, l)
    BY OneEntryMore
  <1>2. \A v : /\ Sent(v, l) \in Nat /\ Conversions(v, l) \in Nat
               /\ Conversions(v, l) <= Sent(v, l)
    BY <1>1, FeedbackCounted
  <1>3. r.variant \in Variants /\ r.sent \in BOOLEAN /\ r.converted \in BOOLEAN
    BY DEF Records
  <1> HIDE DEF m
  <1>4. CASE ~r.sent
    <2>1. \A v \in Variants : Sent(v, m) = Sent(v, l) /\ Conversions(v, m) = Conversions(v, l)
      BY <1>1, <1>4
    <2>. QED
      BY <2>1, SameCountsSameBest DEF m
  <1>5. CASE r.sent
    <2>1. best # NoVariant
      BY <1>3, <1>5, FeedbackAssumption
    <2>2. best \in Known(l) /\ \A w \in Known(l) : w # best => Ahead(best, w, l)
      <3>1. Known(l) # {}
        BY <1>1, <2>1, BestTops
      <3>. QED
        BY <1>1, <3>1, BestTops DEF Tops
    <2>3. best \in Nat /\ best \in Variants /\ Sent(best, l) \in Nat \ {0}
      BY <1>2, <2>2, FeedbackAssumption DEF Known
    <2>4. best \in Known(m)
      BY <1>1, <1>2, <2>3 DEF Known
    <2>5. ASSUME NEW w \in Known(m), w # best
          PROVE  Ahead(best, w, m)
      <3> DEFINE c == Conversions(best, l)  s == Sent(best, l)
                 d == Conversions(w, l)  t == Sent(w, l)
      <3>1. c \in Nat /\ s \in Nat \ {0} /\ d \in Nat /\ t \in Nat /\ d <= t
        BY <1>2, <2>3
      <3>2. CASE r.variant = best
        <4>1. /\ Sent(best, m) = s + 1 /\ Conversions(best, m) = c + 1
              /\ Sent(w, m) = t /\ Conversions(w, m) = d
          BY <1>1, <1>5, <2>5, <3>2
        <4>2. w \in Known(l) /\ t \in Nat \ {0} /\ w \in Nat
          BY <1>2, <2>5, <4>1, FeedbackAssumption DEF Known
        <4>3. Ahead(best, w, l)
          BY <2>2, <2>5, <4>2
        <4>4. /\ Lead(best, w, l) = c * t - d * s
              /\ Lead(best, w, m) = (c + 1) * t - d * (s + 1)
          BY <4>1 DEF Lead
        <4> HIDE DEF c, s, d, t
        <4>5. Lead(best, w, l) > 0 \/ (Lead(best, w, l) = 0 /\ s >= t)
          BY <2>3, <3>1, <4>2, <4>3 DEF Ahead, s, t
        <4>6. /\ Lead(best, w, l) > 0 => Lead(best, w, m) > 0
              /\ Lead(best, w, l) = 0 => Lead(best, w, m) >= 0
          BY <3>1, <4>2, <4>4, SuccessKeepsAhead
        <4>7. Lead(best, w, m) \in Int
          <5>1. (c + 1) * t \in Int /\ d * (s + 1) \in Int
            BY <3>1
          <5>. QED
            BY <4>4, <5>1
        <4>8. Sent(best, m) > Sent(w, m) \/ Lead(best, w, m) > 0
          BY <3>1, <4>1, <4>5, <4>6
        <4>9. Lead(best, w, m) > 0 \/ Lead(best, w, m) = 0
          BY <4>5, <4>6, <4>7
        <4>. QED
          BY <4>8, <4>9 DEF Ahead
      <3>3. CASE r.variant # best
        <4>1. ~r.converted /\ c > 0
          BY <1>5, <3>3
        <4>2. Sent(best, m) = s /\ Conversions(best, m) = c
          BY <1>1, <3>3
        <4>3. CASE w = r.variant
          <5>1. Sent(w, m) = t + 1 /\ Conversions(w, m) = d
            BY <1>1, <1>5, <4>1, <4>3
          <5>2. /\ Lead(best, w, l) = c * t - d * s
                /\ Lead(best, w, m) = c * (t + 1) - d * s
            BY <4>2, <5>1 DEF Lead
          <5>3. c * t - d * s >= 0
            <6>1. CASE t = 0
              <7>1. d = 0
                BY <3>1, <6>1
              <7> HIDE DEF c, s, d, t
              <7>. QED
                BY <3>1, <6>1, <7>1
            <6>2. CASE t # 0
              <7>1. w \in Known(l)
                BY <3>1, <6>2 DEF Known
              <7>2. Ahead(best, w, l)
                BY <2>2, <2>5, <7>1
              <7>3. Lead(best, w, l) > 0 \/ Lead(best, w, l) = 0
                BY <7>2 DEF Ahead
              <7> HIDE DEF c, s, d, t
              <7>4. c * t \in Nat /\ d * s \in Nat
                BY <3>1
              <7>. QED
                BY <5>2, <7>3, <7>4
            <6>. QED
              BY <6>1, <6>2
          <5> HIDE DEF c, s, d, t
          <5>4. Lead(best, w, m) > 0
            BY <3>1, <4>1, <5>2, <5>3, FailureFallsBehind
          <5>. QED
            BY <5>4 DEF Ahead
        <4>4. CASE w # r.variant
          <5>1. Sent(w, m) = Sent(w, l) /\ Conversions(w, m) = Conversions(w, l)
            BY <1>1, <4>4
          <5>2. w \in Known(l)
            BY <2>5, <5>1 DEF Known
          <5>3. Ahead(best, w, l)
            BY <2>2, <2>5, <5>2
          <5>. QED
            BY <4>2, <5>1, <5>3 DEF Ahead, Lead
        <4>. QED
          BY <4>3, <4>4
      <3>. QED
        BY <3>2, <3>3
    <2>6. Tops(best, Known(m), m)
      BY <2>4, <2>5 DEF Tops
    <2>. QED
      BY <1>1, <2>4, <2>6, BestTops DEF m
  <1>. QED
    BY <1>3, <1>4, <1>5

(* The log as the ranking receives it.                                     *)
LEMMA RowsReceived ==
    ASSUME NEW l \in Seq(Records)
    PROVE  /\ Rows(l) \in Seq(Records)
           /\ \A r \in Records : /\ AsReceived(r) \in Records
                                 /\ Rows(Append(l, r)) = Append(Rows(l), AsReceived(r))
           /\ ~ViaRoute => Rows(l) = l
  <1>1. \A r \in Records : AsReceived(r) \in Records /\ (~ViaRoute => AsReceived(r) = r)
    BY FeedbackAssumption DEF AsReceived, Records
  <1>2. Rows(l) \in Seq(Records) /\ Len(Rows(l)) = Len(l) /\ DOMAIN Rows(l) = 1..Len(l)
    BY <1>1 DEF Rows
  <1>3. ASSUME NEW r \in Records
        PROVE  Rows(Append(l, r)) = Append(Rows(l), AsReceived(r))
    <2>1. /\ DOMAIN Append(l, r) = 1..(Len(l) + 1) /\ Len(l) \in Nat
          /\ \A i \in 1..(Len(l) + 1) :
                Append(l, r)[i] = IF i = Len(l) + 1 THEN r ELSE l[i]
      OBVIOUS
    <2>2. Append(Rows(l), AsReceived(r)) =
            [i \in 1..(Len(l) + 1) |-> IF i = Len(l) + 1 THEN AsReceived(r) ELSE Rows(l)[i]]
      <3> DEFINE s == Rows(l)
                 e == AsReceived(r)
      <3>1. s \in Seq(Records) /\ Len(s) = Len(l) /\ e \in Records
        BY <1>1, <1>2
      <3> HIDE DEF s, e
      <3>2. Append(s, e) = [i \in 1..(Len(s) + 1) |-> IF i = Len(s) + 1 THEN e ELSE s[i]]
        <4>1. Append(s, e) \in Seq(Records) /\ Len(Append(s, e)) = Len(s) + 1
          BY <3>1
        <4>2. \A i \in 1..(Len(s) + 1) :
                Append(s, e)[i] = IF i = Len(s) + 1 THEN e ELSE s[i]
          BY <3>1
        <4>3. Append(s, e) \in [1..(Len(s) + 1) -> Records]
          <5> DEFINE f == Append(s, e)
          <5>1. f \in Seq(Records) /\ Len(f) = Len(s) + 1
            BY <4>1
          <5> HIDE DEF f
          <5>2. f \in [1..Len(f) -> Records]
            BY <5>1
          <5>. QED
            BY <5>1, <5>2 DEF f
        <4>. QED
          BY <4>2, <4>3, Zenon
      <3>. QED
        BY <3>1, <3>2 DEF s, e
    <2>3. \A i \in 1..(Len(l) + 1) : i # Len(l) + 1 => Rows(l)[i] = AsReceived(l[i])
      BY DEF Rows
    <2>. QED
      BY <2>1, <2>2, <2>3 DEF Rows
  <1>4. ~ViaRoute => Rows(l) = l
    <2>1. ~ViaRoute => \A i \in DOMAIN l : AsReceived(l[i]) = l[i]
      BY <1>1
    <2>. QED
      BY <2>1 DEF Rows
  <1>. QED
    BY <1>1, <1>2, <1>3, <1>4

(* Every sequence of deliveries, one after the other.                      *)
LEMMA NewsAreSound ==
    ASSUME log \in Seq(Records), [FeedbackNext]_log, log' # log
    PROVE  LET l == Rows(log)
               next == Rows(log')
               new == next[Len(next)]
               best == SelectBest(l)
           IN  \/ ~new.sent
               \/ new.variant = best /\ new.converted
               \/ /\ new.variant # best /\ ~new.converted /\ best # NoVariant
                  /\ Conversions(best, l) > 0
               => SelectBest(next) = best
  <1>1. PICK r \in Records : log' = Append(log, r)
    BY DEF FeedbackNext, Deliver
  <1>2. /\ Rows(log) \in Seq(Records) /\ AsReceived(r) \in Records
        /\ Rows(log') = Append(Rows(log), AsReceived(r))
    BY <1>1, RowsReceived
  <1>3. Rows(log')[Len(Rows(log'))] = AsReceived(r)
    BY <1>2
  <1>. QED
    BY <1>2, <1>3, NewsKeepTheBest

(* Whatever is delivered, the best of the ranking is not unseated by good  *)
(* news of its own, by bad news of another, or by news that were never     *)
(* sent, and exploring takes the next best variant.                        *)
THEOREM FeedbackRewardsSuccess == FeedbackSpec => GoodNewsKeepsTheBest /\ []ExploresTheNextBest
  <1> DEFINE Typed == log \in Seq(Records)
  <1>1. FeedbackInit => Typed
    BY DEF FeedbackInit
  <1>2. Typed /\ [FeedbackNext]_log => Typed'
    BY DEF FeedbackNext, Deliver
  <1>3. Typed => ExploresTheNextBest
    <2> SUFFICES ASSUME Typed
                 PROVE  ExploresTheNextBest
      OBVIOUS
    <2>1. Rows(log) \in Seq(Records)
      BY RowsReceived
    <2>2. Deliveries(Rows(log))
      <3>1. \A i \in DOMAIN Rows(log) : Rows(log)[i].variant \in Variants
        <4>1. \A i \in DOMAIN Rows(log) : Rows(log)[i] \in Records
          BY <2>1
        <4>. QED
          BY <4>1 DEF Records
      <3>2. DOMAIN Rows(log) = 1..Len(Rows(log)) /\ Len(Rows(log)) \in Nat
        BY <2>1
      <3>3. IsFiniteSet(DOMAIN Rows(log))
        BY <3>2, FS_Interval
      <3>. QED
        BY <3>1, <3>3 DEF Deliveries
    <2>. QED
      BY <2>2, SecondIsNextBest DEF ExploresTheNextBest
  <1>4. Typed /\ [FeedbackNext]_log =>
           [log' # log =>
             LET l == Rows(log) next == Rows(log') new == next[Len(next)] best == SelectBest(l)
                 good == new.variant = best /\ new.converted
                 bad  == /\ new.variant # best /\ ~new.converted /\ best # NoVariant
                         /\ Conversions(best, l) > 0
             IN  ~new.sent \/ good \/ bad => SelectBest(next) = best]_log
    BY NewsAreSound
  <1>. QED
    BY <1>1, <1>2, <1>3, <1>4, PTL DEF FeedbackSpec, GoodNewsKeepsTheBest

(* While the records come as delivered, and not through the route, which   *)
(* takes every one for sent, the ranking counts the sent ones alone.       *)
THEOREM FeedbackSound == ~ViaRoute => (FeedbackSpec => FeedbackIsSound)
  <1> SUFFICES ASSUME ~ViaRoute
               PROVE  FeedbackSpec => FeedbackIsSound
    OBVIOUS
  <1> DEFINE Typed == log \in Seq(Records)
  <1>1. FeedbackInit => Typed
    BY DEF FeedbackInit
  <1>2. Typed /\ [FeedbackNext]_log => Typed'
    BY DEF FeedbackNext, Deliver
  <1>3. Typed => OnlySentCounts
    <2> SUFFICES ASSUME Typed
                 PROVE  OnlySentCounts
      OBVIOUS
    <2>1. Rows(log) = log
      BY RowsReceived
    <2>2. Deliveries(log)
      <3>1. \A i \in DOMAIN log : log[i].variant \in Variants
        <4>1. \A i \in DOMAIN log : log[i] \in Records
          OBVIOUS
        <4>. QED
          BY <4>1 DEF Records
      <3>2. DOMAIN log = 1..Len(log) /\ Len(log) \in Nat
        OBVIOUS
      <3>3. IsFiniteSet(DOMAIN log)
        BY <3>2, FS_Interval
      <3>. QED
        BY <3>1, <3>3 DEF Deliveries
    <2>3. SelectBest(Only({i \in DOMAIN log : log[i].sent}, log)) = SelectBest(log)
      BY <2>2, SentPartSameBest
    <2>. QED
      BY <2>1, <2>3 DEF OnlySentCounts
  <1>. QED
    BY <1>1, <1>2, <1>3, FeedbackRewardsSuccess, PTL DEF FeedbackSpec, FeedbackIsSound
=============================================================================
