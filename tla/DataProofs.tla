----------------------------- MODULE DataProofs -----------------------------
(***************************************************************************)
(* The rate limit of the edge, the parts of the data platform behind it    *)
(* and the reports over its events, for any keys, batches, lists,          *)
(* customers, counts, logs and metrics: the theorems of ApiGateway,        *)
(* DataFoundation, Suppression, Shadow, ShadowReport, Reports, Journeys    *)
(* and Insights, and at the end those of the parts put together as MCData  *)
(* does, where no constant has a value either.                             *)
(***************************************************************************)
EXTENDS MCData, Recursion, FiniteSetTheorems

-----------------------------------------------------------------------------
(* The edge: ApiGateway.                                                   *)
EdgeTyped ==
    /\ bucket \in [Keys -> [tokens : Nat, last : Nat]]
    /\ clock \in Nat
    /\ granted \in [Keys -> Seq(Nat)]
    /\ \A key \in Keys : bucket[key].tokens <= Full /\ bucket[key].last <= clock

(* What a key has left, on top of what it was forwarded since any request  *)
(* of its own, is at most its burst and the refill up to the last update.  *)
Spent(key, i) == (Len(granted[key]) - i + 1) * Unit
RefillSince(key, i) == (bucket[key].last - granted[key][i]) * Rate

WindowsHold ==
    \A key \in Keys : \A i \in 1..Len(granted[key]) :
        bucket[key].tokens + Spent(key, i) <= Full + RefillSince(key, i)

EdgeInv == EdgeTyped /\ WindowsHold /\ RateBound
-----------------------------------------------------------------------------
(* Arithmetic the provers take one step at a time.                         *)
LEMMA Distributes == \A a, b, c \in Int : (a + b) * c = a * c + b * c
  OBVIOUS

LEMMA OneMore == \A m, u \in Int : (m + 1) * u = m * u + u
  BY Distributes

(* The smaller of two numbers.                                             *)
LEMMA MinOfTwo ==
    ASSUME NEW a \in Int, NEW b \in Int
    PROVE  Min({a, b}) \in {a, b} /\ Min({a, b}) <= a /\ Min({a, b}) <= b
<1>1. \E x \in {a, b} : \A y \in {a, b} : x <= y
  <2>1. CASE a <= b BY <2>1
  <2>2. CASE b <= a BY <2>2
  <2>3. QED BY <2>1, <2>2
<1>2. QED BY <1>1 DEF Min

LEMMA FullIsNat == Full \in Nat /\ Rate \in Nat /\ Unit \in Nat
  BY ApiGatewayAssumption DEF Full

(* What a refill is bounded by.                                            *)
LEMMA RefillIsBounded ==
    ASSUME EdgeTyped, NEW key \in Keys
    PROVE  /\ Refilled(key) \in Nat /\ Refilled(key) <= Full
           /\ Refilled(key) <= bucket[key].tokens + (clock - bucket[key].last) * Rate
<1> DEFINE elapsed == clock - bucket[key].last
<1>1. elapsed \in Nat /\ bucket[key].tokens \in Nat /\ bucket[key].last \in Nat
  BY DEF EdgeTyped
<1>2. elapsed * Rate \in Nat
  BY <1>1, FullIsNat
<1> DEFINE total == bucket[key].tokens + elapsed * Rate
<1>3. total \in Nat
  BY <1>1, <1>2
<1>4. Refilled(key) = Min({Full, total})
  BY DEF Refilled
<1> HIDE DEF total
<1>5. Min({Full, total}) \in {Full, total} /\ Min({Full, total}) <= Full /\ Min({Full, total}) <= total
  BY <1>3, FullIsNat, MinOfTwo
<1>6. Refilled(key) \in Nat /\ Refilled(key) <= Full /\ Refilled(key) <= total
  BY <1>3, <1>4, <1>5, FullIsNat
<1>7. QED BY <1>6 DEF total

(* A full bucket that has granted nothing.                                 *)
LEMMA EdgeInvInit == Init => EdgeInv
<1> SUFFICES ASSUME Init PROVE EdgeInv
  OBVIOUS
<1>1. \A key \in Keys : granted[key] = <<>>
  BY DEF Init
<1>2. EdgeTyped
  BY FullIsNat DEF Init, EdgeTyped
<1>3. QED BY <1>1, <1>2 DEF EdgeInv, WindowsHold, RateBound

(* A refill that is stored, with the tokens of the requests it pays for    *)
(* taken from it, leaves a window as tight as it was.                      *)
LEMMA RefillKeepsWindow ==
    ASSUME EdgeInv, NEW key \in Keys, NEW i \in 1..Len(granted[key])
    PROVE  Refilled(key) + Spent(key, i) <= Full + (clock - granted[key][i]) * Rate
<1> DEFINE elapsed == clock - bucket[key].last
           since == bucket[key].last - granted[key][i]
<1>1. granted[key][i] \in Nat /\ bucket[key].last \in Nat /\ bucket[key].tokens \in Nat
  BY DEF EdgeInv, EdgeTyped
<1>2. elapsed \in Int /\ since \in Int /\ clock - granted[key][i] = elapsed + since
  BY <1>1 DEF EdgeInv, EdgeTyped
<1>3. (clock - granted[key][i]) * Rate = elapsed * Rate + since * Rate
  BY <1>2, Distributes, FullIsNat
<1>4. Refilled(key) \in Nat /\ Refilled(key) <= bucket[key].tokens + elapsed * Rate
  BY RefillIsBounded DEF EdgeInv
<1>5. bucket[key].tokens + Spent(key, i) <= Full + since * Rate
  BY DEF EdgeInv, WindowsHold, RefillSince
<1>6. elapsed * Rate \in Int /\ since * Rate \in Int /\ Spent(key, i) \in Int
  <2>1. Len(granted[key]) - i + 1 \in Int
    BY DEF EdgeInv, EdgeTyped
  <2>2. QED BY <1>2, <2>1, FullIsNat DEF Spent
<1> DEFINE e == elapsed * Rate
           s == since * Rate
           p == (clock - granted[key][i]) * Rate
           sp == Spent(key, i)
           r == Refilled(key)
           t == bucket[key].tokens
<1>7. /\ e \in Int /\ s \in Int /\ sp \in Int /\ r \in Nat /\ t \in Nat
      /\ p = e + s /\ r <= t + e /\ t + sp <= Full + s
  BY <1>1, <1>3, <1>4, <1>5, <1>6
<1> HIDE DEF e, s, p, sp, r, t
<1>8. r + sp <= Full + p
  BY <1>7, FullIsNat
<1>9. QED BY <1>8 DEF r, sp, p

(* A refused request only moves the time of the refill.                    *)
LEMMA RefuseKeepsEdgeInv ==
    ASSUME EdgeInv, NEW key \in Keys, Refuse(key) PROVE EdgeInv'
<1>1. /\ bucket' = [bucket EXCEPT ![key] = [tokens |-> Refilled(key), last |-> clock]]
      /\ granted' = granted /\ clock' = clock
  BY DEF Refuse, Deny
<1>2. Refilled(key) \in Nat /\ Refilled(key) <= Full
  BY RefillIsBounded DEF EdgeInv
<1>3. EdgeTyped'
  BY <1>1, <1>2 DEF EdgeInv, EdgeTyped
<1>4. WindowsHold'
  <2> SUFFICES ASSUME NEW k \in Keys, NEW i \in 1..Len(granted[k])
               PROVE  bucket'[k].tokens + Spent(k, i)' <= Full + RefillSince(k, i)'
    BY <1>1 DEF WindowsHold
  <2>1. CASE k = key
    <3>1. bucket'[k].tokens = Refilled(key) /\ bucket'[k].last = clock
      BY <1>1, <2>1 DEF EdgeInv, EdgeTyped
    <3>2. QED BY <1>1, <2>1, <3>1, RefillKeepsWindow DEF Spent, RefillSince
  <2>2. CASE k # key
    BY <1>1, <2>2 DEF EdgeInv, EdgeTyped, WindowsHold, Spent, RefillSince
  <2>3. QED BY <2>1, <2>2
<1>5. RateBound'
  BY <1>1 DEF EdgeInv, RateBound
<1>6. QED BY <1>3, <1>4, <1>5 DEF EdgeInv

(* A forwarded request opens a window of its own and is counted in all.    *)
LEMMA ForwardKeepsEdgeInv ==
    ASSUME EdgeInv, NEW key \in Keys, Forward(key) PROVE EdgeInv'
<1> DEFINE n == Len(granted[key])
           g == Append(granted[key], clock)
<1>1. /\ bucket' = [bucket EXCEPT ![key] = [tokens |-> Refilled(key) - Unit, last |-> clock]]
      /\ granted' = [granted EXCEPT ![key] = g] /\ clock' = clock
      /\ Refilled(key) >= Unit
  BY DEF Forward, Allow
<1>2. Refilled(key) \in Nat /\ Refilled(key) <= Full
  BY RefillIsBounded DEF EdgeInv
<1>3. /\ n \in Nat /\ g \in Seq(Nat) /\ Len(g) = n + 1 /\ g[n + 1] = clock
      /\ \A i \in 1..n : g[i] = granted[key][i] /\ g[i] \in Nat
  BY DEF EdgeInv, EdgeTyped
<1>4. /\ granted'[key] = g /\ bucket'[key].tokens = Refilled(key) - Unit
      /\ bucket'[key].last = clock
      /\ \A k \in Keys \ {key} : granted'[k] = granted[k] /\ bucket'[k] = bucket[k]
  BY <1>1 DEF EdgeInv, EdgeTyped
<1>5. EdgeTyped'
  BY <1>1, <1>2, <1>3, FullIsNat DEF EdgeInv, EdgeTyped
(* The window from any request of the key to the one forwarded now.        *)
<1>6. ASSUME NEW i \in 1..(n + 1)
      PROVE  Refilled(key) + (n - i + 1) * Unit <= Full + (clock - g[i]) * Rate
  <2>1. CASE i \in 1..n
    BY <1>3, <2>1, RefillKeepsWindow DEF Spent
  <2>2. CASE i = n + 1
    <3>1. n - i + 1 = 0 /\ clock - g[i] = 0
      BY <1>3, <2>2 DEF EdgeInv, EdgeTyped
    <3>2. (n - i + 1) * Unit = 0 /\ (clock - g[i]) * Rate = 0
      BY <3>1, FullIsNat
    <3>3. QED BY <1>2, <3>2, FullIsNat
  <2>3. QED BY <1>3, <2>1, <2>2
<1>7. ASSUME NEW i \in 1..(n + 1)
      PROVE  /\ ((n + 1) - i + 1) * Unit \in Int /\ (clock - g[i]) * Rate \in Int
             /\ Refilled(key) - Unit + ((n + 1) - i + 1) * Unit <= Full + (clock - g[i]) * Rate
  <2>1. n - i + 1 \in Int /\ (n + 1) - i + 1 = (n - i + 1) + 1 /\ clock - g[i] \in Int
    BY <1>3 DEF EdgeInv, EdgeTyped
  <2>2. ((n + 1) - i + 1) * Unit = (n - i + 1) * Unit + Unit
    <3> DEFINE m == n - i + 1
    <3>1. m \in Int /\ (n + 1) - i + 1 = m + 1
      BY <2>1
    <3> HIDE DEF m
    <3>2. (m + 1) * Unit = m * Unit + Unit
      BY <3>1, OneMore, FullIsNat
    <3>3. QED BY <3>1, <3>2 DEF m
  <2>3. (n - i + 1) * Unit \in Int /\ (clock - g[i]) * Rate \in Int
    BY <2>1, FullIsNat
  <2>4. QED BY <1>2, <1>6, <2>2, <2>3, FullIsNat
<1> HIDE DEF g, n
<1>8. WindowsHold'
  <2> SUFFICES ASSUME NEW k \in Keys, NEW i \in 1..Len(granted'[k])
               PROVE  bucket'[k].tokens + Spent(k, i)' <= Full + RefillSince(k, i)'
    BY DEF WindowsHold
  <2>1. CASE k = key
    <3>1. i \in 1..(n + 1) /\ Len(granted'[k]) = n + 1
      BY <1>3, <1>4, <2>1
    <3>2. Spent(k, i)' = ((n + 1) - i + 1) * Unit
      <4>1. Spent(k, i)' = (Len(granted'[k]) - i + 1) * Unit
        BY DEF Spent
      <4> DEFINE Cost(h) == (h - i + 1) * Unit
      <4>2. Spent(k, i)' = Cost(Len(granted'[k]))
        BY <4>1
      <4>3. Cost(n + 1) = ((n + 1) - i + 1) * Unit
        OBVIOUS
      <4> HIDE DEF Cost
      <4>4. Cost(Len(granted'[k])) = Cost(n + 1)
        BY <3>1
      <4>5. QED BY <4>2, <4>3, <4>4
    <3>3. RefillSince(k, i)' = (clock - g[i]) * Rate
      <4>1. bucket'[k].last = clock /\ granted'[k] = g
        BY <1>4, <2>1
      <4>2. QED BY <4>1, Zenon DEF RefillSince
    <3>4. bucket'[k].tokens = Refilled(key) - Unit
      BY <1>4, <2>1
    <3>5. QED BY <1>7, <3>1, <3>2, <3>3, <3>4
  <2>2. CASE k # key
    BY <1>4, <2>2 DEF EdgeInv, WindowsHold, Spent, RefillSince
  <2>3. QED BY <2>1, <2>2
<1>9. RateBound'
  <2> SUFFICES ASSUME NEW k \in Keys, NEW i \in 1..Len(granted'[k]),
                      NEW j \in i..Len(granted'[k])
               PROVE  (j - i + 1) * Unit <= Full + (granted'[k][j] - granted'[k][i]) * Rate
    BY DEF RateBound
  <2>1. CASE k # key
    BY <1>4, <2>1 DEF EdgeInv, RateBound
  <2>2. CASE k = key /\ j = n + 1
    <3>1. i \in 1..(n + 1) /\ g[j] = clock
      BY <1>3, <1>4, <2>2
    <3>2. Refilled(key) - Unit \in Nat
      BY <1>1, <1>2, FullIsNat
    <3> DEFINE w == ((n + 1) - i + 1) * Unit
               p == (clock - g[i]) * Rate
               left == Refilled(key) - Unit
    <3>3. w \in Int /\ p \in Int /\ left \in Nat /\ left + w <= Full + p
      BY <1>7, <3>1, <3>2
    <3> HIDE DEF w, p, left
    <3>4. w <= Full + p
      BY <3>3, FullIsNat
    <3>5. /\ (j - i + 1) * Unit = w
          /\ (granted'[k][j] - granted'[k][i]) * Rate = p
      <4>1. granted'[k] = g /\ j = n + 1
        BY <1>4, <2>2
      <4> DEFINE Cost(h) == (h - i + 1) * Unit
                 Gain(t) == (t - g[i]) * Rate
      <4>2. (j - i + 1) * Unit = Cost(j) /\ w = Cost(n + 1)
        BY DEF w
      <4>3. (granted'[k][j] - granted'[k][i]) * Rate = Gain(g[j]) /\ p = Gain(clock)
        BY <4>1, Zenon DEF p
      <4> HIDE DEF Cost, Gain
      <4>4. Cost(j) = Cost(n + 1) /\ Gain(g[j]) = Gain(clock)
        BY <3>1, <4>1
      <4>5. QED BY <4>2, <4>3, <4>4
    <3>6. QED BY <3>4, <3>5
  <2>3. CASE k = key /\ j # n + 1
    <3>1. i \in 1..n /\ j \in i..n /\ granted[key][i] = g[i] /\ granted[key][j] = g[j]
      BY <1>3, <1>4, <2>3
    <3>2. (j - i + 1) * Unit <= Full + (granted[key][j] - granted[key][i]) * Rate
      BY <3>1 DEF EdgeInv, RateBound, n
    <3>3. QED BY <1>4, <2>3, <3>1, <3>2
  <2>4. QED BY <2>1, <2>2, <2>3
<1>10. QED BY <1>5, <1>8, <1>9 DEF EdgeInv

(* Every step keeps the invariant of the edge.                             *)
LEMMA EdgeInvStep == EdgeInv /\ [Next]_vars => EdgeInv'
<1> SUFFICES ASSUME EdgeInv, [Next]_vars PROVE EdgeInv'
  OBVIOUS
<1>1. CASE Tick
  BY <1>1 DEF Tick, EdgeInv, EdgeTyped, WindowsHold, Spent, RefillSince, RateBound
<1>2. CASE Open \/ UNCHANGED vars \/ \E key \in Keys \cup {NoKey} : Unauthenticated(key)
  <2>1. UNCHANGED <<bucket, clock, granted>>
    BY <1>2 DEF Open, Unauthenticated, vars
  <2>2. QED BY <2>1 DEF EdgeInv, EdgeTyped, WindowsHold, Spent, RefillSince, RateBound
<1>3. ASSUME NEW key \in Keys \cup {NoKey}, Forward(key) PROVE EdgeInv'
  BY <1>3, ForwardKeepsEdgeInv DEF Forward
<1>4. ASSUME NEW key \in Keys \cup {NoKey}, Refuse(key) PROVE EdgeInv'
  BY <1>4, RefuseKeepsEdgeInv DEF Refuse
<1>5. QED BY <1>1, <1>2, <1>3, <1>4 DEF Next
-----------------------------------------------------------------------------
(* Over any interval between two of its forwarded requests a key was       *)
(* forwarded its burst and the refill of that interval at most             *)
(* (api_gateway.py, _TokenBucket.allow).                                   *)
THEOREM EdgeBoundsRate == Spec => []RateBound
<1>1. Spec => []EdgeInv
  BY EdgeInvInit, EdgeInvStep, PTL DEF Spec
<1>2. EdgeInv => RateBound
  BY DEF EdgeInv
<1>3. QED BY <1>1, <1>2, PTL
-----------------------------------------------------------------------------
(* Ingestion: DataFoundation.                                              *)
Rejected == {<<ev, Reason(ev)>> : ev \in RawEvents}
PassShape == [raw : Seq(RawEvents), clean : Seq(RawEvents), quarantined : Seq(Rejected),
              deduped : Nat, seen : SUBSET {Key(ev) : ev \in RawEvents}]

(* first lists the indices S of a batch, in order, and clean their events. *)
Picks(first, clean, batch, S) ==
    /\ first \in [1..Len(clean) -> S]
    /\ \A m, n \in DOMAIN first : m < n => first[m] < first[n]
    /\ S = {first[n] : n \in DOMAIN first}
    /\ \A n \in DOMAIN first : clean[n] = batch[first[n]]

Counted(result) == Len(result.clean) + Len(result.quarantined) + result.deduped

FirstOf(batch, n) == {i \in FirstCopies(batch) : i <= n}

(* How far a pass has come with the first n events of its batch.           *)
PassOK(result, batch, n) ==
    /\ result \in PassShape /\ result.raw = batch
    /\ result.seen = {Key(batch[i]) : i \in {i \in 1..n : Reason(batch[i]) = ""}}
    /\ \E first : Picks(first, result.clean, batch, FirstOf(batch, n))
    /\ Counted(result) = n

(* One more event is kept.                                                 *)
LEMMA PickOneMore ==
    ASSUME NEW batch \in Seq(RawEvents), NEW clean \in Seq(RawEvents), NEW n \in 1..Len(batch),
           NEW S \in SUBSET (1..(n - 1)), NEW first, Picks(first, clean, batch, S)
    PROVE  \E g : Picks(g, Append(clean, batch[n]), batch, S \cup {n})
  <1> DEFINE k == Len(clean)
             more == Append(clean, batch[n])
             g == [m \in 1..(k + 1) |-> IF m <= k THEN first[m] ELSE n]
  <1>1. /\ k \in Nat /\ n \in Nat /\ DOMAIN first = 1..k /\ Len(more) = k + 1
        /\ \A m \in 1..k : more[m] = clean[m] /\ first[m] \in S
        /\ more[k + 1] = batch[n]
    <2>1. k \in Nat /\ n \in Nat /\ batch[n] \in RawEvents
      OBVIOUS
    <2>2. DOMAIN first = 1..k /\ \A m \in 1..k : first[m] \in S
      BY DEF Picks
    <2>3. Len(more) = k + 1 /\ more[k + 1] = batch[n] /\ \A m \in 1..k : more[m] = clean[m]
      BY <2>1
    <2>. QED
      BY <2>1, <2>2, <2>3
  <1>2. \A m \in 1..k : first[m] \in Nat /\ first[m] < n
    <2>1. \A x \in S : x \in 1..(n - 1)
      OBVIOUS
    <2>2. \A x \in 1..(n - 1) : x \in Nat /\ x < n
      BY <1>1
    <2> HIDE DEF k
    <2>. QED
      BY <1>1, <2>1, <2>2
  <1>3. g \in [1..Len(more) -> S \cup {n}] /\ DOMAIN g = 1..(k + 1)
    BY <1>1
  <1>4. (\A m \in 1..k : g[m] = first[m]) /\ g[k + 1] = n
    BY <1>1
  <1> HIDE DEF g, more, k
  <1>5. ASSUME NEW l \in 1..(k + 1), NEW m \in 1..(k + 1), l < m
        PROVE  g[l] < g[m]
    <2>1. l \in 1..k
      BY <1>1, <1>5
    <2>2. CASE m = k + 1
      BY <1>2, <1>4, <2>1, <2>2
    <2>3. CASE m # k + 1
      <3>1. m \in 1..k
        BY <1>1, <2>3
      <3>2. first[l] < first[m]
        BY <1>1, <1>5, <2>1, <3>1 DEF Picks
      <3>. QED
        BY <1>4, <2>1, <3>1, <3>2
    <2>. QED
      BY <2>2, <2>3
  <1>6. S \cup {n} = {g[m] : m \in 1..(k + 1)}
    <2>1. S = {first[m] : m \in 1..k}
      BY <1>1 DEF Picks
    <2>2. \A m \in 1..(k + 1) : m = k + 1 \/ m \in 1..k
      BY <1>1
    <2>3. (\A m \in 1..k : m \in 1..(k + 1)) /\ k + 1 \in 1..(k + 1)
      BY <1>1
    <2>. QED
      BY <1>4, <2>1, <2>2, <2>3
  <1>7. ASSUME NEW m \in 1..(k + 1)
        PROVE  more[m] = batch[g[m]]
    <2>1. CASE m = k + 1
      BY <1>1, <1>4, <2>1
    <2>2. CASE m # k + 1
      <3>1. m \in 1..k
        BY <1>1, <2>2
      <3>2. clean[m] = batch[first[m]]
        BY <1>1, <3>1 DEF Picks
      <3>. QED
        BY <1>1, <1>4, <3>1, <3>2
    <2>. QED
      BY <2>1, <2>2
  <1>8. Picks(g, more, batch, S \cup {n})
    BY <1>3, <1>5, <1>6, <1>7 DEF Picks
  <1>. QED
    BY <1>8 DEF more

(* What each outcome of the loop's body does to the pass.                  *)
LEMMA PassFields ==
    ASSUME NEW r \in PassShape, NEW ev \in RawEvents
    PROVE  /\ LET q == [r EXCEPT !.quarantined = Append(@, <<ev, Reason(ev)>>)]
              IN  q \in PassShape /\ q.raw = r.raw /\ q.clean = r.clean /\ q.seen = r.seen
                  /\ Counted(q) = Counted(r) + 1
           /\ LET d == [r EXCEPT !.deduped = @ + 1]
              IN  d \in PassShape /\ d.raw = r.raw /\ d.clean = r.clean /\ d.seen = r.seen
                  /\ Counted(d) = Counted(r) + 1
           /\ LET c == [r EXCEPT !.clean = Append(@, ev), !.seen = @ \cup {Key(ev)}]
              IN  c \in PassShape /\ c.raw = r.raw /\ c.clean = Append(r.clean, ev)
                  /\ c.seen = r.seen \cup {Key(ev)} /\ Counted(c) = Counted(r) + 1
  <1>1. /\ r.raw \in Seq(RawEvents) /\ r.clean \in Seq(RawEvents)
        /\ r.quarantined \in Seq(Rejected) /\ r.deduped \in Nat
        /\ r.seen \subseteq {Key(e) : e \in RawEvents}
        /\ r = [raw |-> r.raw, clean |-> r.clean, quarantined |-> r.quarantined,
                deduped |-> r.deduped, seen |-> r.seen]
    BY DEF PassShape
  <1> DEFINE rejected == Append(r.quarantined, <<ev, Reason(ev)>>)
             kept == Append(r.clean, ev)
             known == r.seen \cup {Key(ev)}
             q == [r EXCEPT !.quarantined = rejected]
             d == [r EXCEPT !.deduped = r.deduped + 1]
             c == [r EXCEPT !.clean = kept, !.seen = known]
  <1>2. rejected \in Seq(Rejected) /\ Len(rejected) = Len(r.quarantined) + 1
    <2>1. <<ev, Reason(ev)>> \in Rejected
      BY DEF Rejected
    <2>. QED
      BY <1>1, <2>1
  <1>3. kept \in Seq(RawEvents) /\ Len(kept) = Len(r.clean) + 1
    BY <1>1
  <1>4. known \subseteq {Key(e) : e \in RawEvents}
    BY <1>1
  <1>5. Len(r.clean) \in Nat /\ Len(r.quarantined) \in Nat
    BY <1>1
  <1> HIDE DEF rejected, kept, known
  <1>6. q = [raw |-> r.raw, clean |-> r.clean, quarantined |-> rejected,
             deduped |-> r.deduped, seen |-> r.seen]
    BY <1>1, SMTT(40)
  <1>7. d = [raw |-> r.raw, clean |-> r.clean, quarantined |-> r.quarantined,
             deduped |-> r.deduped + 1, seen |-> r.seen]
    BY <1>1
  <1>8. c = [raw |-> r.raw, clean |-> kept, quarantined |-> r.quarantined,
             deduped |-> r.deduped, seen |-> known]
    <2>1. c = [[r EXCEPT !.clean = kept] EXCEPT !.seen = known]
      BY <1>1, Zenon
    <2>2. [r EXCEPT !.clean = kept] = [raw |-> r.raw, clean |-> kept, quarantined |-> r.quarantined,
                                      deduped |-> r.deduped, seen |-> r.seen]
      BY <1>1
    <2> HIDE DEF c
    <2>. QED
      BY <2>1, <2>2
  <1> HIDE DEF q, d, c
  <1>9. q \in PassShape /\ q.raw = r.raw /\ q.clean = r.clean /\ q.seen = r.seen
        /\ Counted(q) = Counted(r) + 1
    BY <1>1, <1>2, <1>5, <1>6 DEF PassShape, Counted
  <1>10. d \in PassShape /\ d.raw = r.raw /\ d.clean = r.clean /\ d.seen = r.seen
         /\ Counted(d) = Counted(r) + 1
    <2>1. /\ d.raw = r.raw /\ d.clean = r.clean /\ d.seen = r.seen
          /\ d.quarantined = r.quarantined /\ d.deduped = r.deduped + 1
      BY <1>7
    <2>2. d.deduped \in Nat
      BY <1>1, <2>1
    <2>3. d \in PassShape
      BY <1>1, <1>7, <2>1, <2>2 DEF PassShape
    <2>. QED
      BY <1>1, <1>5, <2>1, <2>3 DEF Counted
  <1>11. c \in PassShape /\ c.raw = r.raw /\ c.clean = kept /\ c.seen = known
         /\ Counted(c) = Counted(r) + 1
    BY <1>1, <1>3, <1>4, <1>5, <1>8 DEF PassShape, Counted
  <1>. QED
    BY <1>9, <1>10, <1>11, Zenon DEF q, d, c, rejected, kept, known

(* One event more: whatever the event, the pass has come one further.      *)
LEMMA IngestOneOK ==
    ASSUME NEW batch \in Seq(RawEvents), NEW n \in 1..Len(batch),
           NEW result, PassOK(result, batch, n - 1)
    PROVE  PassOK(IngestOne(result, batch[n]), batch, n)
  <1> DEFINE ev == batch[n]
             after == IngestOne(result, ev)
             Valid(m) == {i \in 1..m : Reason(batch[i]) = ""}
  <1>1. /\ n \in Nat /\ n - 1 \in Nat /\ Len(batch) \in Nat /\ ev \in RawEvents
        /\ DOMAIN batch = 1..Len(batch)
    OBVIOUS
  <1>2. /\ result \in PassShape /\ result.raw = batch /\ Counted(result) = n - 1
        /\ result.seen = {Key(batch[i]) : i \in Valid(n - 1)}
    BY DEF PassOK
  <1>3. PICK first : Picks(first, result.clean, batch, FirstOf(batch, n - 1))
    BY DEF PassOK
  <1>41. \A i \in FirstCopies(batch) : i \in 1..Len(batch)
    BY <1>1, Zenon DEF FirstCopies
  <1>4. /\ FirstOf(batch, n - 1) \subseteq 1..(n - 1)
        /\ FirstOf(batch, n) = FirstOf(batch, n - 1) \cup ({n} \cap FirstCopies(batch))
    <2>1. \A i \in FirstCopies(batch) : i \in Nat /\ 1 <= i /\ i <= Len(batch)
      BY <1>1, <1>41
    <2>2. \A i \in Nat : i <= n <=> i <= n - 1 \/ i = n
      BY <1>1
    <2>3. FirstOf(batch, n - 1) \subseteq 1..(n - 1)
      BY <1>1, <2>1 DEF FirstOf
    <2>4. \A i \in FirstCopies(batch) : i <= n <=> i <= n - 1 \/ i = n
      BY <2>1, <2>2
    <2>. QED
      BY <1>1, <2>3, <2>4 DEF FirstOf
  <1>5. n \in FirstCopies(batch) <=> Reason(ev) = "" /\ Key(ev) \notin result.seen
    BY <1>1, <1>2 DEF FirstCopies
  <1>6. /\ Reason(ev) = "" => Valid(n) = Valid(n - 1) \cup {n}
        /\ Reason(ev) # "" => Valid(n) = Valid(n - 1)
    <2>1. 1..n = 1..(n - 1) \cup {n} /\ n \notin 1..(n - 1)
      BY <1>1
    <2>. QED
      BY <2>1
  <1>7. CASE Reason(ev) # ""
    <2>1. after = [result EXCEPT !.quarantined = Append(@, <<ev, Reason(ev)>>)]
      BY <1>7 DEF IngestOne
    <2>4. /\ after \in PassShape /\ after.raw = result.raw /\ Counted(after) = Counted(result) + 1
          /\ after.clean = result.clean /\ after.seen = result.seen
      <3> HIDE DEF ev, after
      <3>. QED
        BY <1>1, <1>2, <2>1, PassFields, Zenon
    <2>2. after \in PassShape /\ after.raw = batch /\ Counted(after) = n
      <3> HIDE DEF ev, after
      <3>. QED
        <4>1. Counted(after) = (n - 1) + 1
          BY <1>2, <2>4, Zenon
        <4>2. (n - 1) + 1 = n
          BY <1>1
        <4>. QED
          BY <1>2, <2>4, <4>1, <4>2, Zenon
    <2>3. FirstOf(batch, n) = FirstOf(batch, n - 1)
      BY <1>4, <1>5, <1>7
    <2>5. Valid(n) = Valid(n - 1)
      BY <1>6, <1>7
    <2> HIDE DEF after, ev
    <2>6. after.seen = {Key(batch[i]) : i \in Valid(n)}
      BY <1>2, <2>4, <2>5
    <2>. QED
      BY <1>3, <2>2, <2>3, <2>4, <2>6 DEF PassOK, after, ev
  <1>8. CASE Reason(ev) = "" /\ Key(ev) \in result.seen
    <2>1. after = [result EXCEPT !.deduped = @ + 1]
      BY <1>8 DEF IngestOne
    <2>4. /\ after \in PassShape /\ after.raw = result.raw /\ Counted(after) = Counted(result) + 1
          /\ after.clean = result.clean /\ after.seen = result.seen
      <3> HIDE DEF ev, after
      <3>. QED
        BY <1>1, <1>2, <2>1, PassFields, Zenon
    <2>2. after \in PassShape /\ after.raw = batch /\ Counted(after) = n
      <3> HIDE DEF ev, after
      <3>. QED
        <4>1. Counted(after) = (n - 1) + 1
          BY <1>2, <2>4, Zenon
        <4>2. (n - 1) + 1 = n
          BY <1>1
        <4>. QED
          BY <1>2, <2>4, <4>1, <4>2, Zenon
    <2>3. FirstOf(batch, n) = FirstOf(batch, n - 1)
      BY <1>4, <1>5, <1>8
    <2>5. Valid(n) = Valid(n - 1) \cup {n}
      BY <1>6, <1>8
    <2> HIDE DEF after
    <2>6. after.seen = {Key(batch[i]) : i \in Valid(n)}
      BY <1>2, <1>8, <2>4, <2>5
    <2> HIDE DEF ev
    <2>. QED
      BY <1>3, <2>2, <2>3, <2>4, <2>6 DEF PassOK, after, ev
  <1>9. CASE Reason(ev) = "" /\ Key(ev) \notin result.seen
    <2>1. after = [result EXCEPT !.clean = Append(@, ev), !.seen = @ \cup {Key(ev)}]
      BY <1>9 DEF IngestOne
    <2>4. /\ after \in PassShape /\ after.raw = result.raw /\ Counted(after) = Counted(result) + 1
          /\ after.clean = Append(result.clean, ev) /\ after.seen = result.seen \cup {Key(ev)}
      <3> HIDE DEF ev, after
      <3>. QED
        BY <1>1, <1>2, <2>1, PassFields, Zenon
    <2>2. after \in PassShape /\ after.raw = batch /\ Counted(after) = n
      <3> HIDE DEF ev, after
      <3>. QED
        <4>1. Counted(after) = (n - 1) + 1
          BY <1>2, <2>4, Zenon
        <4>2. (n - 1) + 1 = n
          BY <1>1
        <4>. QED
          BY <1>2, <2>4, <4>1, <4>2, Zenon
    <2>3. FirstOf(batch, n) = FirstOf(batch, n - 1) \cup {n}
      BY <1>4, <1>5, <1>9
    <2>5. Valid(n) = Valid(n - 1) \cup {n}
      BY <1>6, <1>9
    <2>6. \E g : Picks(g, Append(result.clean, ev), batch, FirstOf(batch, n))
      <3>1. result.clean \in Seq(RawEvents)
        BY <1>2 DEF PassShape
      <3>2. FirstOf(batch, n - 1) \in SUBSET (1..(n - 1))
        BY <1>4
      <3>3. \E g : Picks(g, Append(result.clean, batch[n]), batch, FirstOf(batch, n - 1) \cup {n})
        <4> DEFINE S == FirstOf(batch, n - 1)
                   clean == result.clean
        <4> HIDE DEF S, clean
        <4>1. S \in SUBSET (1..(n - 1)) /\ clean \in Seq(RawEvents) /\ Picks(first, clean, batch, S)
          BY <1>3, <3>1, <3>2, Zenon DEF S, clean
        <4>2. \E g : Picks(g, Append(clean, batch[n]), batch, S \cup {n})
          BY <4>1, PickOneMore
        <4>. QED
          BY <4>2, Zenon DEF S, clean
      <3>. QED
        BY <2>3, <3>3, Zenon
    <2> HIDE DEF after
    <2>7. after.seen = {Key(batch[i]) : i \in Valid(n)}
      BY <1>2, <2>4, <2>5
    <2> HIDE DEF ev
    <2>. QED
      BY <2>2, <2>4, <2>6, <2>7 DEF PassOK, after, ev
  <1>. QED
    BY <1>7, <1>8, <1>9

(* A whole pass.                                                           *)
LEMMA IngestedOK ==
    ASSUME NEW batch \in Seq(RawEvents)
    PROVE  PassOK(Ingested(batch), batch, Len(batch))
  <1> DEFINE N == Len(batch)
             base == [EmptyPass EXCEPT !.raw = batch]
             V == {x \in PassShape : TRUE}
             step == [q \in (1..N) \X PassShape |-> IngestOne(q[2], batch[q[1]])]
             Good(f) == f = [n \in 0..N |-> IF n = 0 THEN [EmptyPass EXCEPT !.raw = batch]
                                            ELSE IngestOne(f[n - 1], batch[n])]
             after == CHOOSE f : Good(f)
  <1>1. N \in Nat /\ \A n \in 1..N : batch[n] \in RawEvents
    OBVIOUS
  <1>2. base \in PassShape
    <2>1. /\ <<>> \in Seq(RawEvents)
          /\ <<>> \in Seq(Rejected)
      OBVIOUS
    <2>. QED
      BY <2>1 DEF PassShape, EmptyPass
  <1>3. \A n \in 1..N, x \in PassShape :
            IngestOne(x, batch[n]) \in PassShape /\ step[<<n, x>>] = IngestOne(x, batch[n])
    <2> TAKE n \in 1..N, x \in PassShape
    <2> DEFINE ev == batch[n]
    <2>1. ev \in RawEvents
      BY <1>1
    <2>2. IngestOne(x, ev) \in PassShape
      <3> HIDE DEF ev
      <3>. QED
        BY <2>1, PassFields, Zenon DEF IngestOne
    <2>. QED
      BY <2>2
  <1>4. PICK f : CountsUp(f, N, PassShape, base, step)
    <2> HIDE DEF N, step, base
    <2>. QED
      BY <1>1, <1>2, <1>3, CountingUp
  <1>5. Good(f)
    <2>1. ASSUME NEW n \in 0..N
          PROVE  f[n] = IF n = 0 THEN base ELSE IngestOne(f[n - 1], batch[n])
      <3>1. CASE n = 0
        BY <1>4, <3>1 DEF CountsUp
      <3>2. CASE n # 0
        <4>1. n \in 1..N /\ n - 1 \in 0..N
          BY <1>1, <3>2
        <4>2. f[n] = step[<<n, f[n - 1]>>] /\ f[n - 1] \in PassShape
          BY <1>4, <4>1 DEF CountsUp
        <4> HIDE DEF step, N
        <4>. QED
          BY <1>3, <3>2, <4>1, <4>2
      <3>. QED
        BY <3>1, <3>2
    <2>2. f = [n \in 0..N |-> f[n]]
      BY <1>4 DEF CountsUp
    <2> HIDE DEF N
    <2>. QED
      BY <2>1, <2>2, Zenon
  <1>6. Good(after)
    <2> HIDE DEF Good
    <2>. QED
      BY <1>5, Zenon
  <1>7. \A n \in 0..N : after[n] = IF n = 0 THEN base ELSE IngestOne(after[n - 1], batch[n])
    <2> HIDE DEF after, N
    <2>. QED
      BY <1>6, Zenon
  <1> DEFINE P == {n \in 0..N : PassOK(after[n], batch, n)}
  <1>8. \A n \in 0..N : n \in P
    <2>1. 0 \in P
      <3>1. 0 \in 0..N
        BY <1>1
      <3>2. after[0] = base
        <4> HIDE DEF after, N, base
        <4>. QED
          BY <1>7, <3>1
      <3>3. /\ base.raw = batch /\ base.clean = <<>> /\ base.quarantined = <<>>
            /\ base.deduped = 0 /\ base.seen = {}
        BY DEF EmptyPass
      <3>4. FirstOf(batch, 0) = {} /\ 1..0 = {}
        <4>1. \A i \in FirstCopies(batch) : i \in 1..Len(batch)
          <5>1. DOMAIN batch = 1..Len(batch)
            OBVIOUS
          <5>. QED
            BY <5>1, Zenon DEF FirstCopies
        <4>2. \A i \in 1..Len(batch) : ~ (i <= 0)
          BY <1>1
        <4>. QED
          BY <4>1, <4>2 DEF FirstOf
      <3>5. Picks(<<>>, <<>>, batch, {})
        BY DEF Picks
      <3>6. PassOK(base, batch, 0)
        <4> HIDE DEF base
        <4>1. Counted(base) = 0
          BY <3>3 DEF Counted
        <4>2. base.seen = {Key(batch[i]) : i \in {i \in 1..0 : Reason(batch[i]) = ""}}
          BY <3>3, <3>4
        <4>. QED
          BY <1>2, <3>3, <3>4, <3>5, <4>1, <4>2 DEF PassOK
      <3> HIDE DEF after, base, N
      <3>. QED
        BY <3>1, <3>2, <3>6
    <2>2. ASSUME NEW n \in 1..N, n - 1 \in P
          PROVE  n \in P
      <3>1. n \in 0..N /\ n # 0 /\ PassOK(after[n - 1], batch, n - 1)
        <4> HIDE DEF after
        <4>. QED
          BY <1>1, <2>2
      <3>2. after[n] = IngestOne(after[n - 1], batch[n])
        BY <1>7, <3>1, Zenon
      <3> HIDE DEF after
      <3>3. PassOK(after[n], batch, n)
        BY <3>1, <3>2, IngestOneOK
      <3>. QED
        BY <3>1, <3>3
    <2> HIDE DEF P, N
    <2>. QED
      BY <1>1, <2>1, <2>2, InductionUp
  <1>9. PassOK(after[Len(batch)], batch, Len(batch))
    <2> HIDE DEF after
    <2>1. Len(batch) \in 0..N
      BY <1>1
    <2>. QED
      BY <1>8, <2>1
  <1>. QED
    BY <1>9, Zenon DEF Ingested

(* The strengthening of IngestionIsExact that is inductive.                *)
IngestionInv ==
    /\ delivered \in Seq(RawEvents)
    /\ pass.raw \in Seq(RawEvents) /\ PassOK(pass, pass.raw, Len(pass.raw))

(* Two equal events share a key of the table, so there are fewer keys than *)
(* rows: the double rate is not zero.                                      *)
LEMMA DoublesAreAlerted ==
    ASSUME IngestionInv
    PROVE  RedeliveryIsAlerted
  <1> DEFINE N == Len(delivered)
             table == EventTable(delivered)
             TheKey(k) == TableKey(table[k])
  <1>1. SUFFICES ASSUME NEW i \in DOMAIN delivered, NEW j \in DOMAIN delivered, i # j,
                        delivered[i] = delivered[j]
                 PROVE  Duplicates(table) > 0
    BY DEF RedeliveryIsAlerted, Alerts
  <1>2. N \in Nat /\ DOMAIN delivered = 1..N
    BY DEF IngestionInv
  <1>3. table = [k \in 1..N |-> Shaped(delivered[k])]
    BY <1>2 DEF EventTable
  <1>4. DOMAIN table = 1..N /\ Len(table) = N
    <2>1. table \in Seq({Shaped(delivered[k]) : k \in 1..N})
      <3> DEFINE X == {Shaped(delivered[k]) : k \in 1..N}
      <3>1. \A k \in 1..N : Shaped(delivered[k]) \in X
        OBVIOUS
      <3> HIDE DEF X
      <3>2. table \in [1..N -> X]
        BY <1>3, <3>1
      <3>. QED
        BY <1>2, <3>2 DEF X
    <2>2. DOMAIN table = 1..N
      BY <1>3
    <2>. QED
      BY <1>2, <2>1, <2>2
  <1>5. TheKey(i) = TheKey(j)
    BY <1>1, <1>2, <1>3
  <1> HIDE DEF TheKey, table, N
  <1> DEFINE Rest == (1..N) \ {i}
             Others == {TheKey(k) : k \in Rest}
  <1>6. {TheKey(k) : k \in 1..N} = Others
    BY <1>1, <1>2, <1>5
  <1>7. IsFiniteSet(1..N) /\ Cardinality(1..N) = N /\ i \in 1..N
    BY <1>1, <1>2, FS_Interval
  <1>8. IsFiniteSet(Rest) /\ Cardinality(Rest) = N - 1
    BY <1>7, FS_RemoveElement
  <1>9. IsFiniteSet(Others) /\ Cardinality(Others) <= Cardinality(Rest)
    <2> DEFINE f == [k \in Rest |-> TheKey(k)]
    <2>1. f \in Surjection(Rest, Others)
      BY DEF Surjection
    <2> HIDE DEF f, Rest, Others
    <2>. QED
      BY <1>8, <2>1, FS_Surjection
  <1>10. Cardinality(Others) \in Nat
    <2> HIDE DEF Others
    <2>. QED
      BY <1>9, FS_CardinalityType
  <1>11. Duplicates(table) = N - Cardinality(Others)
    <2>1. Duplicates(table) = N - Cardinality({TheKey(k) : k \in 1..N})
      BY <1>4, Zenon DEF Duplicates, TheKey
    <2> HIDE DEF Others
    <2>. QED
      BY <1>6, <2>1
  <1> HIDE DEF Others, Rest
  <1>. QED
    BY <1>2, <1>8, <1>9, <1>10, <1>11

(* What the strengthening says of a whole pass.                            *)
LEMMA IngestionInvImplies ==
    IngestionInv => IngestionIsExact
  <1> SUFFICES ASSUME IngestionInv
               PROVE  IngestionIsExact
    OBVIOUS
  <1>1. PassIsExact
    <2> DEFINE batch == pass.raw
    <2>1. PassOK(pass, batch, Len(batch)) /\ batch \in Seq(RawEvents)
      BY DEF IngestionInv
    <2>2. FirstOf(batch, Len(batch)) = FirstCopies(batch)
      <3> HIDE DEF batch
      <3>1. DOMAIN batch = 1..Len(batch) /\ Len(batch) \in Nat
        BY <2>1
      <3>2. \A i \in FirstCopies(batch) : i \in 1..Len(batch)
        BY <3>1, Zenon DEF FirstCopies
      <3>3. \A i \in 1..Len(batch) : i <= Len(batch)
        BY <3>1
      <3>. QED
        BY <3>2, <3>3 DEF FirstOf
    <2>3. PICK first : Picks(first, pass.clean, batch, FirstCopies(batch))
      BY <2>1, <2>2 DEF PassOK
    <2>4. Counted(pass) = Len(batch)
      BY <2>1 DEF PassOK
    <2>. QED
      BY <2>3, <2>4, Zenon DEF PassIsExact, Picks, Counted
  <1>2. RedeliveryIsAlerted
    BY DoublesAreAlerted
  <1>. QED
    BY <1>1, <1>2 DEF IngestionIsExact

(* Before the first pass there is an empty one.                            *)
LEMMA IngestionInvInit ==
    IngestionInit => IngestionInv
  <1> SUFFICES ASSUME IngestionInit
               PROVE  IngestionInv
    OBVIOUS
  <1>1. pass = EmptyPass /\ delivered = <<>>
    BY DEF IngestionInit
  <1>2. /\ pass.raw = <<>> /\ pass.clean = <<>> /\ pass.quarantined = <<>>
        /\ pass.deduped = 0 /\ pass.seen = {}
    BY <1>1 DEF EmptyPass
  <1>3. /\ <<>> \in Seq(RawEvents)
        /\ <<>> \in Seq(Rejected)
    OBVIOUS
  <1>4. pass \in PassShape
    BY <1>1, <1>3 DEF PassShape, EmptyPass
  <1>5. Picks(<<>>, <<>>, <<>>, {}) /\ FirstOf(<<>>, 0) = {}
    BY DEF Picks, FirstOf, FirstCopies
  <1>6. Counted(pass) = 0
    BY <1>2 DEF Counted
  <1>7. pass.seen = {Key(<<>>[i]) : i \in {i \in 1..0 : Reason(<<>>[i]) = ""}}
    BY <1>2
  <1>8. PassOK(pass, <<>>, 0)
    BY <1>2, <1>4, <1>5, <1>6, <1>7 DEF PassOK
  <1>9. Len(<<>>) = 0
    OBVIOUS
  <1>. QED
    BY <1>1, <1>2, <1>3, <1>8, <1>9 DEF IngestionInv

(* A pass is exact whatever its batch; labels do not touch it.             *)
LEMMA IngestionInvNext ==
    IngestionInv /\ [IngestionNext]_ingestionVars => IngestionInv'
  <1> SUFFICES ASSUME IngestionInv, [IngestionNext]_ingestionVars
               PROVE  IngestionInv'
    OBVIOUS
  <1>1. ASSUME NEW batch \in Batches, Ingest(batch)
        PROVE  IngestionInv'
    <2>1. batch \in Seq(RawEvents)
      BY IngestionAssumption
    <2>2. pass' = Ingested(batch) /\ delivered' = delivered \o pass'.clean
      BY <1>1 DEF Ingest
    <2>3. PassOK(pass', batch, Len(batch))
      BY <2>1, <2>2, IngestedOK
    <2>4. pass'.raw = batch /\ pass'.clean \in Seq(RawEvents)
      BY <2>3 DEF PassOK, PassShape
    <2>5. delivered' \in Seq(RawEvents)
      BY <2>2, <2>4 DEF IngestionInv
    <2>. QED
      <3>1. PassOK(pass', pass'.raw, Len(pass'.raw)) /\ pass'.raw \in Seq(RawEvents)
        BY <2>1, <2>3, <2>4
      <3>. QED
        BY <2>5, <3>1 DEF IngestionInv
  <1>2. ASSUME NEW table \in LabelTables, Relabel(table)
        PROVE  IngestionInv'
    BY <1>2 DEF Relabel, IngestionInv, PassOK
  <1>3. CASE UNCHANGED ingestionVars
    BY <1>3 DEF ingestionVars, IngestionInv, PassOK
  <1>. QED
    BY <1>1, <1>2, <1>3 DEF IngestionNext

(* For any batches that are delivered in any order and number of times: a  *)
(* pass keeps exactly the first valid copy of every event, in order,       *)
(* accounts for all others, and an event delivered again raises an alert.  *)
THEOREM IngestionExact == IngestionSpec => []IngestionIsExact
  <1>1. IngestionSpec => []IngestionInv
    BY IngestionInvInit, IngestionInvNext, PTL DEF IngestionSpec
  <1>. QED
    BY <1>1, IngestionInvImplies, PTL

(* No pass over any batch makes a fresh dataset stale.                     *)
THEOREM LateEventsKeepFresh == IngestionSpec => StaysFresh
  <1> DEFINE Kept == delivered # <<>> /\ "freshness" \notin Alerts => "freshness" \notin Alerts'
  <1>1. IngestionInv /\ IngestionInv' /\ [IngestionNext]_ingestionVars => [Kept]_ingestionVars
    <2> SUFFICES ASSUME IngestionInv, IngestionInv', IngestionNext,
                        delivered # <<>>, "freshness" \in Alerts'
                 PROVE  "freshness" \in Alerts
      OBVIOUS
    <2>1. ASSUME NEW batch \in Batches, Ingest(batch)
          PROVE  \E s \in Seq(RawEvents) : delivered' = delivered \o s
      <3>1. pass'.clean \in Seq(RawEvents)
        BY DEF IngestionInv, PassOK, PassShape
      <3>. QED
        BY <2>1, <3>1 DEF Ingest
    <2>2. ASSUME NEW table \in LabelTables, Relabel(table)
          PROVE  delivered' = delivered
      BY <2>2 DEF Relabel
    <2>3. /\ DOMAIN delivered \subseteq DOMAIN delivered'
          /\ \A i \in DOMAIN delivered : delivered'[i] = delivered[i]
      <3>1. delivered \in Seq(RawEvents)
        BY DEF IngestionInv
      <3>2. CASE delivered' = delivered
        BY <3>2
      <3>3. ASSUME NEW s \in Seq(RawEvents), delivered' = delivered \o s
            PROVE  /\ DOMAIN delivered \subseteq DOMAIN delivered'
                   /\ \A i \in DOMAIN delivered : delivered'[i] = delivered[i]
        BY <3>1, <3>3
      <3>. QED
        BY <2>1, <2>2, <3>2, <3>3 DEF IngestionNext
    <2>4. Stale(EventTable(delivered)')
      BY DEF Alerts, EventTable, Stale
    <2>5. \A i \in DOMAIN delivered : Now - Shaped(delivered[i]).ts > MaxLatency
      BY <2>3, <2>4 DEF Stale, EventTable
    <2>6. EventTable(delivered) # <<>>
      <3>1. DOMAIN delivered # {}
        <4>1. delivered \in Seq(RawEvents) /\ delivered # <<>>
          BY DEF IngestionInv
        <4> DEFINE s == delivered
        <4> HIDE DEF s
        <4>2. s \in Seq(RawEvents) /\ s # <<>>
          BY <4>1 DEF s
        <4>3. DOMAIN s = 1..Len(s) /\ Len(s) \in Nat /\ Len(s) # 0
          BY <4>2
        <4>4. 1 \in DOMAIN s
          BY <4>3
        <4>. QED
          BY <4>4 DEF s
      <3>2. DOMAIN EventTable(delivered) = DOMAIN delivered
        BY DEF EventTable
      <3>. QED
        BY <3>1, <3>2
    <2>. QED
      BY <2>5, <2>6 DEF Alerts, Stale, EventTable
  <1>2. IngestionSpec => []IngestionInv
    BY IngestionInvInit, IngestionInvNext, PTL DEF IngestionSpec
  <1>. QED
    BY <1>1, <1>2, PTL DEF IngestionSpec, StaysFresh
-----------------------------------------------------------------------------
(* The suppression filter: Suppression.                                    *)
(* The strengthening of NeverKeepsConverted that is inductive: what was    *)
(* known when the list came is still known.                                *)
SuppressionInv ==
    /\ filter.left \in Seq(Customers) /\ filter.kept \in Seq(Customers)
    /\ filter.suppressed \in Seq(Customers)
    /\ filter = [left |-> filter.left, kept |-> filter.kept,
                 suppressed |-> filter.suppressed, known |-> filter.known]
    /\ filter.known \subseteq converted /\ NoCustomer \notin converted
    /\ NeverKeepsConverted

(* What the members of a lengthened list are.                              *)
LEMMA AppendMembers ==
    ASSUME NEW U, NEW s \in Seq(U), NEW u \in U, NEW V, \A i \in DOMAIN s : s[i] \in V, u \in V
    PROVE  \A i \in DOMAIN Append(s, u) : Append(s, u)[i] \in V
  <1>1. /\ Append(s, u) \in Seq(U) /\ Len(Append(s, u)) = Len(s) + 1 /\ Len(s) \in Nat
        /\ \A i \in 1..Len(s) : Append(s, u)[i] = s[i]
        /\ Append(s, u)[Len(s) + 1] = u
    OBVIOUS
  <1>. QED
    BY <1>1

(* One turn of the filter's loop: the list shrinks by the customer that    *)
(* was judged.                                                             *)
LEMMA FilterOneInv ==
    ASSUME SuppressionInv, FilterOne
    PROVE  SuppressionInv'
  <1> DEFINE customer == Head(filter.left)
             kept == IF customer \in converted THEN filter.kept ELSE Append(filter.kept, customer)
             suppressed == IF customer \in converted THEN Append(filter.suppressed, customer)
                           ELSE filter.suppressed
  <1>1. /\ filter.left # <<>> /\ converted' = converted
        /\ filter' = [filter EXCEPT !.left = Tail(@), !.kept = kept, !.suppressed = suppressed]
    BY DEF FilterOne
  <1>2. customer \in Customers /\ Tail(filter.left) \in Seq(Customers)
    BY <1>1 DEF SuppressionInv
  <1> HIDE DEF customer
  <1>3. kept \in Seq(Customers) /\ suppressed \in Seq(Customers)
    BY <1>2 DEF SuppressionInv
  <1>4. \A i \in DOMAIN kept : kept[i] \notin filter.known
    <2>1. \A i \in DOMAIN filter.kept : filter.kept[i] \in Customers \ filter.known
      BY DEF SuppressionInv, NeverKeepsConverted
    <2>2. customer \notin converted => customer \in Customers \ filter.known
      BY <1>2 DEF SuppressionInv
    <2>3. \A i \in DOMAIN kept : kept[i] \in Customers \ filter.known
      <3>1. CASE customer \in converted
        BY <2>1, <3>1
      <3>2. CASE customer \notin converted
        <4>1. kept = Append(filter.kept, customer) /\ filter.kept \in Seq(Customers)
          BY <3>2 DEF SuppressionInv
        <4> HIDE DEF kept
        <4>. QED
          BY <1>2, <2>1, <2>2, <3>2, <4>1, AppendMembers
      <3>. QED
        BY <3>1, <3>2
    <2> HIDE DEF kept
    <2>. QED
      BY <2>3
  <1>5. \A i \in DOMAIN suppressed : suppressed[i] \in converted \ {NoCustomer}
    <2>1. \A i \in DOMAIN filter.suppressed : filter.suppressed[i] \in converted \ {NoCustomer}
      BY DEF SuppressionInv, NeverKeepsConverted
    <2>2. CASE customer \in converted
      <3>1. /\ suppressed = Append(filter.suppressed, customer)
            /\ filter.suppressed \in Seq(Customers) /\ customer \in converted \ {NoCustomer}
        BY <2>2 DEF SuppressionInv
      <3> HIDE DEF suppressed
      <3>. QED
        BY <1>2, <2>1, <3>1, AppendMembers
    <2>3. CASE customer \notin converted
      BY <2>1, <2>3
    <2>. QED
      BY <2>2, <2>3
  <1> HIDE DEF kept, suppressed
  <1>6. filter' = [left |-> Tail(filter.left), kept |-> kept, suppressed |-> suppressed,
                   known |-> filter.known]
    BY <1>1 DEF SuppressionInv
  <1>. QED
    BY <1>1, <1>2, <1>3, <1>4, <1>5, <1>6 DEF SuppressionInv, NeverKeepsConverted

(* No filter is under way.                                                 *)
LEMMA SuppressionInvInit ==
    ASSUME SuppressionInit
    PROVE  SuppressionInv
  <1>1. <<>> \in Seq(Customers) /\ DOMAIN <<>> = {}
    OBVIOUS
  <1>. QED
    BY <1>1 DEF SuppressionInit, NoFilter, SuppressionInv, NeverKeepsConverted

(* Conversions only add; a filter judges by what is converted when it      *)
(* reads.                                                                  *)
LEMMA SuppressionInvStep ==
    ASSUME SuppressionInv, [SuppressionNext]_suppressionVars
    PROVE  SuppressionInv'
  <1>1. CASE UNCHANGED suppressionVars
    BY <1>1 DEF SuppressionInv, NeverKeepsConverted, suppressionVars
  <1>2. ASSUME NEW customer \in Customers, Convert(customer)
        PROVE  SuppressionInv'
    BY <1>2 DEF Convert, SuppressionInv, NeverKeepsConverted
  <1>3. ASSUME NEW targets \in Targets, StartFilter(targets)
        PROVE  SuppressionInv'
    <2>1. <<>> \in Seq(Customers) /\ DOMAIN <<>> = {} /\ targets \in Seq(Customers)
      BY SuppressionAssumption
    <2>2. filter' = [left |-> targets, kept |-> <<>>, suppressed |-> <<>>, known |-> converted]
          /\ converted' = converted
      BY <1>3 DEF StartFilter, NoFilter
    <2>. QED
      BY <2>1, <2>2 DEF SuppressionInv, NeverKeepsConverted
  <1>. QED
    BY <1>1, <1>2, <1>3, FilterOneInv DEF SuppressionNext

(* No customer known to have converted when a list came is kept, and       *)
(* nobody else is suppressed, whatever converts while the list is read.    *)
THEOREM ConvertedNeverKept == SuppressionSpec => []NeverKeepsConverted
  <1>1. SuppressionInv => NeverKeepsConverted
    BY DEF SuppressionInv
  <1>. QED
    BY <1>1, SuppressionInvInit, SuppressionInvStep, PTL DEF SuppressionSpec
-----------------------------------------------------------------------------
(* A reconcile of the two arms: Shadow.                                    *)
(* What the items of a list are.                                           *)
LEMMA ItemsOf ==
    ASSUME NEW U, NEW s \in Seq(U)
    PROVE  /\ Items(s) \subseteq U
           /\ \A u \in U : Items(Append(s, u)) = Items(s) \cup {u}
           /\ s # <<>> => /\ Head(s) \in U /\ Tail(s) \in Seq(U)
                          /\ Items(s) = {Head(s)} \cup Items(Tail(s))
  <1>1. Items(s) \subseteq U
    BY DEF Items
  <1>2. ASSUME NEW u \in U
        PROVE  Items(Append(s, u)) = Items(s) \cup {u}
    <2>1. /\ Append(s, u) \in Seq(U) /\ Len(Append(s, u)) = Len(s) + 1
          /\ \A i \in 1..Len(s) : Append(s, u)[i] = s[i]
          /\ Append(s, u)[Len(s) + 1] = u
      OBVIOUS
    <2>2. Items(Append(s, u)) \subseteq Items(s) \cup {u}
      BY <2>1 DEF Items
    <2>3. Items(s) \subseteq Items(Append(s, u)) /\ u \in Items(Append(s, u))
      BY <2>1 DEF Items
    <2>. QED
      BY <2>2, <2>3
  <1>3. ASSUME s # <<>>
        PROVE  /\ Head(s) \in U /\ Tail(s) \in Seq(U)
               /\ Items(s) = {Head(s)} \cup Items(Tail(s))
    <2>1. /\ Tail(s) \in Seq(U) /\ Len(Tail(s)) = Len(s) - 1 /\ Len(s) \in Nat \ {0}
          /\ \A i \in 1..(Len(s) - 1) : Tail(s)[i] = s[i + 1]
          /\ Head(s) = s[1] /\ Head(s) \in U
      BY <1>3
    <2>2. \A x \in Items(s) : x \in {Head(s)} \cup Items(Tail(s))
      <3> TAKE x \in Items(s)
      <3>1. PICK i \in 1..Len(s) : x = s[i]
        BY DEF Items
      <3>2. CASE i = 1
        BY <2>1, <3>1, <3>2
      <3>3. CASE i # 1
        <4>1. i - 1 \in 1..(Len(s) - 1) /\ Tail(s)[i - 1] = x
          BY <2>1, <3>1, <3>3
        <4>2. i - 1 \in DOMAIN Tail(s)
          BY <2>1, <4>1
        <4>. QED
          BY <4>1, <4>2 DEF Items
      <3>. QED
        BY <3>2, <3>3
    <2>3. \A x \in Items(Tail(s)) : x \in Items(s)
      <3> TAKE x \in Items(Tail(s))
      <3>1. PICK i \in 1..(Len(s) - 1) : x = s[i + 1]
        BY <2>1 DEF Items
      <3>2. i + 1 \in 1..Len(s)
        BY <2>1
      <3>. QED
        BY <3>1, <3>2 DEF Items
    <2>4. Head(s) \in Items(s)
      BY <2>1 DEF Items
    <2>. QED
      BY <2>1, <2>2, <2>3, <2>4
  <1>. QED
    BY <1>1, <1>2, <1>3

(* Each arm gets a list of users.                                          *)
LEMMA ArmOfType ==
    ASSUME NEW list \in Seq(Users), NEW arm
    PROVE  ArmOf(list, arm) \in Seq(Users)
  <1> DEFINE N == Len(list)
             Keep(n, x) == IF Arm(list[n], pct) = arm THEN Append(x, list[n]) ELSE x
             step == [q \in (1..N) \X Seq(Users) |-> Keep(q[1], q[2])]
             Good(f) == f = [n \in 0..N |-> IF n = 0 THEN <<>>
                                            ELSE IF Arm(list[n], pct) = arm
                                                 THEN Append(f[n - 1], list[n])
                                            ELSE f[n - 1]]
             first == CHOOSE f : Good(f)
  <1>1. N \in Nat /\ \A n \in 1..N : list[n] \in Users
    OBVIOUS
  <1>2. \A n \in 1..N, x \in Seq(Users) : Keep(n, x) \in Seq(Users) /\ step[<<n, x>>] = Keep(n, x)
    OBVIOUS
  <1>3. PICK f : CountsUp(f, N, Seq(Users), <<>>, step)
    <2>1. <<>> \in Seq(Users)
      OBVIOUS
    <2> HIDE DEF N, step, Keep
    <2>. QED
      BY <1>1, <1>2, <2>1, CountingUp
  <1>4. Good(f)
    <2>1. ASSUME NEW n \in 0..N
          PROVE  f[n] = IF n = 0 THEN <<>> ELSE Keep(n, f[n - 1])
      <3>1. CASE n = 0
        BY <1>3, <3>1 DEF CountsUp
      <3>2. CASE n # 0
        <4>1. n \in 1..N /\ n - 1 \in 0..N
          BY <1>1, <3>2
        <4>2. f[n] = step[<<n, f[n - 1]>>] /\ f[n - 1] \in Seq(Users)
          BY <1>3, <4>1 DEF CountsUp
        <4> HIDE DEF step, Keep, N
        <4>. QED
          BY <1>2, <3>2, <4>1, <4>2
      <3>. QED
        BY <3>1, <3>2
    <2>2. f = [n \in 0..N |-> f[n]]
      BY <1>3 DEF CountsUp
    <2> HIDE DEF N
    <2>. QED
      BY <2>1, <2>2, Zenon
  <1>5. Good(first)
    <2> HIDE DEF Good
    <2>. QED
      BY <1>4, Zenon
  <1>6. \A n \in 0..N : first[n] = IF n = 0 THEN <<>> ELSE Keep(n, first[n - 1])
    <2> HIDE DEF first, N
    <2>. QED
      BY <1>5, Zenon
  <1> DEFINE P == {n \in 0..N : first[n] \in Seq(Users)}
  <1>7. \A n \in 0..N : n \in P
    <2>1. 0 \in P
      <3>1. 0 \in 0..N
        BY <1>1
      <3>2. first[0] = <<>>
        <4> HIDE DEF first, N
        <4>. QED
          BY <1>6, <3>1
      <3>3. <<>> \in Seq(Users)
        OBVIOUS
      <3> HIDE DEF first
      <3>. QED
        BY <3>1, <3>2, <3>3
    <2>2. ASSUME NEW n \in 1..N, n - 1 \in P
          PROVE  n \in P
      <3>1. n \in 0..N /\ n # 0 /\ first[n - 1] \in Seq(Users)
        BY <1>1, <2>2
      <3>2. first[n] = Keep(n, first[n - 1])
        BY <1>6, <3>1, Zenon
      <3> HIDE DEF first, Keep
      <3>3. first[n] \in Seq(Users)
        BY <1>2, <3>1, <3>2
      <3>. QED
        BY <3>1, <3>3
    <2> HIDE DEF P, N
    <2>. QED
      BY <1>1, <2>1, <2>2, InductionUp
  <1>8. first[Len(list)] \in Seq(Users)
    <2> HIDE DEF first
    <2>1. Len(list) \in 0..N
      BY <1>1
    <2>. QED
      BY <1>7, <2>1
  <1>. QED
    BY <1>8, Zenon DEF ArmOf

(* The shape of a reconcile.                                               *)
FireShape == [shadow : Seq(Users), control : Seq(Users), seen : SUBSET Users,
              sends : [Arms -> Seq(Users)], blocked : SUBSET Users,
              targets : [Arms -> SUBSET Users]]

Distinct(s) == \A i, j \in DOMAIN s : s[i] = s[j] => i = j

(* How far a reconcile f has come: the ledger holds who was sent, each     *)
(* once; the shadow list is served first; of either list, the users served *)
(* or blocked and those still waiting are the targets.                     *)
FireOK(f) ==
    LET new == Items(f.sends["shadow"])
        old == Items(f.sends["control"])
    IN  /\ f.seen = new \cup old /\ new \cap old = {}
        /\ Distinct(f.sends["shadow"]) /\ Distinct(f.sends["control"])
        /\ new \cup Items(f.shadow) = f.targets["shadow"]
        /\ old \subseteq f.targets["control"]
        /\ Items(f.control) \subseteq f.targets["control"]
        /\ f.targets["control"] \subseteq Items(f.control) \cup f.seen
        /\ f.shadow # <<>> => Items(f.control) = f.targets["control"] /\ old = {}
        /\ f.targets["shadow"] \cap f.targets["control"] \subseteq f.blocked \cup Items(f.control)
        /\ f.blocked \subseteq f.targets["shadow"] \cup f.targets["control"]

(* The strengthening of ReconcileIsExact that is inductive.                *)
ShadowInv == pct \in 0..Scale /\ fire \in FireShape /\ FireOK(fire)

(* A list of distinct items has as many items as its length.               *)
LEMMA DistinctCount ==
    ASSUME NEW U, NEW s \in Seq(U), Distinct(s)
    PROVE  Cardinality(Items(s)) = Len(s)
  <1>1. Len(s) \in Nat /\ DOMAIN s = 1..Len(s)
    OBVIOUS
  <1>2. IsFiniteSet(1..Len(s)) /\ Cardinality(1..Len(s)) = Len(s)
    BY <1>1, FS_Interval
  <1>3. s \in Bijection(1..Len(s), Items(s))
    <2>1. s \in [1..Len(s) -> Items(s)]
      BY <1>1 DEF Items
    <2>2. IsInjective(s)
      BY <1>1 DEF IsInjective, Distinct
    <2>3. \A x \in Items(s) : \E i \in 1..Len(s) : s[i] = x
      BY <1>1 DEF Items
    <2>. QED
      BY <2>1, <2>2, <2>3, Zenon DEF Bijection, Injection, Surjection
  <1>4. ExistsBijection(1..Len(s), Items(s))
    BY <1>3, Zenon DEF ExistsBijection
  <1>5. Cardinality(Items(s)) = Cardinality(1..Len(s))
    BY <1>2, <1>4, FS_Bijection, Zenon
  <1>. QED
    BY <1>2, <1>5

(* Two lists of distinct items with none in common count together.         *)
LEMMA ConcatItems ==
    ASSUME NEW U, NEW s \in Seq(U), NEW t \in Seq(U), Distinct(s), Distinct(t),
           Items(s) \cap Items(t) = {}
    PROVE  Distinct(s \o t)
  <1> DEFINE c == s \o t
  <1>1. /\ c \in Seq(U) /\ Len(c) = Len(s) + Len(t)
        /\ Len(s) \in Nat /\ Len(t) \in Nat
        /\ \A i \in 1..Len(s) : c[i] = s[i]
        /\ \A i \in 1..Len(t) : c[Len(s) + i] = t[i]
    OBVIOUS
  <1> HIDE DEF c
  <1>2. ASSUME NEW i \in 1..Len(c)
        PROVE  \/ i \in 1..Len(s) /\ c[i] = s[i] /\ s[i] \in Items(s)
               \/ i - Len(s) \in 1..Len(t) /\ c[i] = t[i - Len(s)]
                  /\ t[i - Len(s)] \in Items(t)
    <2>1. CASE i <= Len(s)
      BY <1>1, <2>1 DEF Items
    <2>2. CASE i > Len(s)
      <3>1. i - Len(s) \in 1..Len(t) /\ i = Len(s) + (i - Len(s))
        BY <1>1, <2>2
      <3>2. c[i] = t[i - Len(s)]
        BY <1>1, <3>1
      <3>. QED
        BY <3>1, <3>2 DEF Items
    <2>. QED
      BY <1>1, <2>1, <2>2
  <1>3. DOMAIN s = 1..Len(s) /\ DOMAIN t = 1..Len(t)
    OBVIOUS
  <1>4. ASSUME NEW i \in 1..Len(c), NEW j \in 1..Len(c), c[i] = c[j]
        PROVE  i = j
    <2>1. CASE i \in 1..Len(s) /\ c[i] = s[i] /\ s[i] \in Items(s)
      <3>1. j \in 1..Len(s) /\ c[j] = s[j]
        BY <1>2, <1>4, <2>1
      <3>2. i \in DOMAIN s /\ j \in DOMAIN s /\ s[i] = s[j]
        BY <1>4, <1>3, <2>1, <3>1, Zenon
      <3>. QED
        BY <3>2 DEF Distinct
    <2>2. CASE i - Len(s) \in 1..Len(t) /\ c[i] = t[i - Len(s)]
                /\ t[i - Len(s)] \in Items(t)
      <3>1. j - Len(s) \in 1..Len(t) /\ c[j] = t[j - Len(s)]
        BY <1>2, <1>4, <2>2
      <3>2. i - Len(s) = j - Len(s)
        <4>1. /\ i - Len(s) \in DOMAIN t /\ j - Len(s) \in DOMAIN t
              /\ t[i - Len(s)] = t[j - Len(s)]
          BY <1>4, <1>3, <2>2, <3>1, Zenon
        <4>. QED
          BY <1>1, <1>3, <4>1, Zenon DEF Distinct
      <3>. QED
        BY <1>1, <3>2
    <2>. QED
      BY <1>2, <2>1, <2>2
  <1>5. Distinct(c)
    BY <1>1, <1>4 DEF Distinct
  <1>. QED
    BY <1>5 DEF c

(* A new item keeps a list distinct.                                       *)
LEMMA AppendDistinct ==
    ASSUME NEW U, NEW s \in Seq(U), NEW u \in U, Distinct(s), u \notin Items(s)
    PROVE  Distinct(Append(s, u))
  <1>1. /\ Append(s, u) \in Seq(U) /\ Len(Append(s, u)) = Len(s) + 1 /\ Len(s) \in Nat
        /\ \A i \in 1..Len(s) : Append(s, u)[i] = s[i] /\ s[i] \in Items(s)
        /\ Append(s, u)[Len(s) + 1] = u
    BY DEF Items
  <1>. QED
    BY <1>1 DEF Distinct

(* What the strengthening says of a fire.                                  *)
LEMMA ShadowInvIsExact ==
    ASSUME ShadowInv
    PROVE  ReconcileIsExact
  <1>1. /\ fire.sends["shadow"] \in Seq(Users) /\ fire.sends["control"] \in Seq(Users)
    BY DEF ShadowInv, FireShape, Arms
  <1>2. Distinct(fire.sends["shadow"] \o fire.sends["control"])
    BY <1>1, ConcatItems DEF ShadowInv, FireOK
  <1>3. fire.sends["shadow"] \o fire.sends["control"] \in Seq(Users)
    BY <1>1
  <1>4. OncePerFire
    BY <1>2, <1>3, DistinctCount DEF OncePerFire
  <1>5. FireIsComplete
    <2>1. ASSUME ~Running
          PROVE  Items(fire.shadow) = {} /\ Items(fire.control) = {}
      BY <2>1 DEF Running, Items
    <2>. QED
      BY <2>1 DEF FireIsComplete, ShadowInv, FireOK
  <1>. QED
    BY <1>4, <1>5 DEF ReconcileIsExact

(* A fire starts with nobody served and everybody waiting.                 *)
LEMMA FireInv ==
    ASSUME ShadowInv, NEW shadow \in Seq(Users), NEW control \in Seq(Users), Fire(shadow, control)
    PROVE  ShadowInv'
  <1> DEFINE f == [shadow |-> shadow, control |-> control, seen |-> {},
                   sends |-> [a \in Arms |-> <<>>], blocked |-> {},
                   targets |-> [shadow |-> Items(shadow), control |-> Items(control)]]
  <1>1. fire' = f /\ pct' = pct
    BY DEF Fire, NoFire
  <1>2. Items(shadow) \subseteq Users /\ Items(control) \subseteq Users /\ Items(<<>>) = {}
        /\ Distinct(<<>>) /\ <<>> \in Seq(Users)
    BY ItemsOf DEF Items, Distinct
  <1>3. f \in FireShape
    <2>1. [a \in Arms |-> <<>>] \in [Arms -> Seq(Users)]
      BY <1>2
    <2>2. [shadow |-> Items(shadow), control |-> Items(control)] \in [Arms -> SUBSET Users]
      BY <1>2 DEF Arms
    <2>. QED
      BY <2>1, <2>2 DEF FireShape
  <1>4. /\ f.shadow = shadow /\ f.control = control /\ f.seen = {} /\ f.blocked = {}
        /\ f.sends["shadow"] = <<>> /\ f.sends["control"] = <<>>
        /\ f.targets["shadow"] = Items(shadow) /\ f.targets["control"] = Items(control)
    BY DEF Arms
  <1> HIDE DEF f
  <1>5. FireOK(f)
    BY <1>2, <1>4 DEF FireOK
  <1>. QED
    BY <1>1, <1>3, <1>5 DEF ShadowInv

(* The next user of a list was not sent to in this fire.                   *)
LEMMA AllowedInv ==
    ASSUME ShadowInv, NEW arm \in Arms, fire[arm] # <<>>, arm = "control" => fire.shadow = <<>>,
           Allowed(Head(fire[arm]), arm), pct' = pct
    PROVE  ShadowInv'
  <1> DEFINE user == Head(fire[arm])
             f == fire'
  <1>1. /\ user \notin fire.seen
        /\ f = [fire EXCEPT ![arm] = Tail(@), !.seen = @ \cup {user},
                            !.sends[arm] = Append(@, user)]
    BY DEF Allowed
  <1>2. /\ fire.shadow \in Seq(Users) /\ fire.control \in Seq(Users)
        /\ fire.sends \in [Arms -> Seq(Users)] /\ fire.seen \subseteq Users
        /\ fire \in FireShape
    BY DEF ShadowInv, FireShape
  <1>3. fire[arm] \in Seq(Users) /\ fire.sends[arm] \in Seq(Users)
    BY <1>2 DEF Arms
  <1>4. /\ user \in Users /\ Tail(fire[arm]) \in Seq(Users)
        /\ Items(fire[arm]) = {user} \cup Items(Tail(fire[arm]))
        /\ Items(Append(fire.sends[arm], user)) = Items(fire.sends[arm]) \cup {user}
        /\ Append(fire.sends[arm], user) \in Seq(Users)
    BY <1>3, ItemsOf
  <1>5. Distinct(Append(fire.sends[arm], user))
    <2>1. Distinct(fire.sends[arm]) /\ user \notin Items(fire.sends[arm])
      BY <1>1 DEF ShadowInv, FireOK, Arms
    <2> HIDE DEF user
    <2>. QED
      BY <1>3, <1>4, <2>1, AppendDistinct
  <1> HIDE DEF user
  <1>6. /\ f.seen = fire.seen \cup {user} /\ f.blocked = fire.blocked /\ f.targets = fire.targets
        /\ f[arm] = Tail(fire[arm])
        /\ \A a \in Arms \ {arm} : f[a] = fire[a] /\ f.sends[a] = fire.sends[a]
        /\ f.sends[arm] = Append(fire.sends[arm], user)
        /\ f \in FireShape
    BY <1>1, <1>2, <1>3, <1>4 DEF FireShape, Arms
  <1> HIDE DEF f
  <1>7. CASE arm = "shadow"
    <2>1. /\ f.shadow = Tail(fire.shadow) /\ f.control = fire.control
          /\ f.sends["shadow"] = Append(fire.sends["shadow"], user)
          /\ f.sends["control"] = fire.sends["control"]
      BY <1>6, <1>7 DEF Arms
    <2>2. FireOK(f)
      BY <1>1, <1>4, <1>5, <1>6, <1>7, <2>1 DEF FireOK, ShadowInv
    <2>. QED
      BY <1>6, <2>2 DEF ShadowInv, f
  <1>8. CASE arm = "control"
    <2>1. /\ f.shadow = <<>> /\ fire.shadow = <<>> /\ f.control = Tail(fire.control)
          /\ f.sends["control"] = Append(fire.sends["control"], user)
          /\ f.sends["shadow"] = fire.sends["shadow"]
      BY <1>6, <1>8 DEF Arms
    <2>2. Items(<<>>) = {}
      BY DEF Items
    <2>3. FireOK(f)
      <3> DEFINE new == Items(fire.sends["shadow"])
                 old == Items(fire.sends["control"])
                 left == Items(Tail(fire.control))
                 tnew == fire.targets["shadow"]
                 told == fire.targets["control"]
      <3>1. /\ Items(f.sends["shadow"]) = new /\ Items(f.sends["control"]) = old \cup {user}
            /\ Items(f.shadow) = {} /\ Items(f.control) = left
            /\ f.targets["shadow"] = tnew /\ f.targets["control"] = told
            /\ Items(fire.shadow) = {} /\ Items(fire.control) = {user} \cup left
            /\ f.seen = fire.seen \cup {user} /\ f.blocked = fire.blocked
            /\ f.shadow = <<>>
        BY <1>4, <1>6, <1>8, <2>1, <2>2
      <3>2. Distinct(f.sends["shadow"]) /\ Distinct(f.sends["control"])
        BY <1>5, <1>8, <2>1 DEF FireOK, ShadowInv
      <3>3. /\ fire.seen = new \cup old /\ new \cap old = {} /\ user \notin fire.seen
            /\ new = tnew /\ old \subseteq told /\ {user} \cup left \subseteq told
            /\ told \subseteq {user} \cup left \cup fire.seen
            /\ tnew \cap told \subseteq fire.blocked \cup {user} \cup left
            /\ fire.blocked \subseteq tnew \cup told
        BY <1>1, <3>1 DEF FireOK, ShadowInv
      <3> HIDE DEF new, old, left, tnew, told
      <3>4. /\ f.seen = new \cup (old \cup {user}) /\ new \cap (old \cup {user}) = {}
            /\ new \cup {} = tnew /\ old \cup {user} \subseteq told /\ left \subseteq told
            /\ told \subseteq left \cup f.seen
            /\ tnew \cap told \subseteq f.blocked \cup left
            /\ f.blocked \subseteq tnew \cup told
        BY <3>1, <3>3
      <3>. QED
        BY <3>1, <3>2, <3>4 DEF FireOK
    <2>. QED
      BY <1>6, <2>3 DEF ShadowInv, f
  <1>. QED
    BY <1>7, <1>8 DEF Arms

(* The next user of a list was sent to already.                            *)
LEMMA BlockedInv ==
    ASSUME ShadowInv, NEW arm \in Arms, fire[arm] # <<>>, arm = "control" => fire.shadow = <<>>,
           Blocked(Head(fire[arm]), arm), pct' = pct
    PROVE  ShadowInv'
  <1> DEFINE user == Head(fire[arm])
             f == fire'
  <1>1. /\ user \in fire.seen
        /\ f = [fire EXCEPT ![arm] = Tail(@), !.blocked = @ \cup {user}]
    BY DEF Blocked
  <1>2. /\ fire.shadow \in Seq(Users) /\ fire.control \in Seq(Users)
        /\ fire.sends \in [Arms -> Seq(Users)] /\ fire.seen \subseteq Users
        /\ fire \in FireShape
    BY DEF ShadowInv, FireShape
  <1>3. fire[arm] \in Seq(Users)
    BY <1>2 DEF Arms
  <1>4. /\ user \in Users /\ Tail(fire[arm]) \in Seq(Users)
        /\ Items(fire[arm]) = {user} \cup Items(Tail(fire[arm]))
    BY <1>3, ItemsOf
  <1> HIDE DEF user
  <1>5. /\ f.seen = fire.seen /\ f.blocked = fire.blocked \cup {user} /\ f.targets = fire.targets
        /\ f[arm] = Tail(fire[arm]) /\ f.sends = fire.sends
        /\ \A a \in Arms \ {arm} : f[a] = fire[a]
        /\ f \in FireShape
    BY <1>1, <1>2, <1>3, <1>4 DEF FireShape, Arms
  <1> HIDE DEF f
  <1>6. CASE arm = "shadow"
    <2>1. f.shadow = Tail(fire.shadow) /\ f.control = fire.control
      BY <1>5, <1>6 DEF Arms
    <2>2. FireOK(f)
      BY <1>1, <1>4, <1>5, <1>6, <2>1 DEF FireOK, ShadowInv
    <2>. QED
      BY <1>5, <2>2 DEF ShadowInv, f
  <1>7. CASE arm = "control"
    <2>1. /\ f.shadow = <<>> /\ fire.shadow = <<>> /\ f.control = Tail(fire.control)
      BY <1>5, <1>7 DEF Arms
    <2>2. FireOK(f)
      BY <1>1, <1>4, <1>5, <1>7, <2>1 DEF FireOK, ShadowInv
    <2>. QED
      BY <1>5, <2>2 DEF ShadowInv, f
  <1>. QED
    BY <1>6, <1>7 DEF Arms

(* No fire is under way.                                                   *)
LEMMA ShadowInvInit ==
    ASSUME ShadowInit
    PROVE  ShadowInv
  <1>1. Items(<<>>) = {} /\ Distinct(<<>>) /\ <<>> \in Seq(Users)
    BY DEF Items, Distinct
  <1>2. NoFire \in FireShape
    BY <1>1 DEF NoFire, FireShape
  <1>3. FireOK(NoFire)
    BY <1>1 DEF NoFire, FireOK, Arms
  <1>. QED
    BY <1>2, <1>3 DEF ShadowInit, ShadowInv

(* Every step keeps the invariant of the fire.                             *)
LEMMA ShadowInvStep ==
    ASSUME ShadowInv, [ShadowNext]_shadowVars
    PROVE  ShadowInv'
  <1>1. CASE UNCHANGED shadowVars
    BY <1>1 DEF ShadowInv, shadowVars
  <1>2. ASSUME NEW list \in Lists, Fire(ArmOf(list, "shadow"), ArmOf(list, "control"))
        PROVE  ShadowInv'
    <2>1. list \in Seq(Users)
      BY ShadowAssumption
    <2>2. ArmOf(list, "shadow") \in Seq(Users) /\ ArmOf(list, "control") \in Seq(Users)
      BY <2>1, ArmOfType
    <2>. QED
      BY <1>2, <2>2, FireInv
  <1>3. ASSUME NEW shadow \in Lists, NEW control \in Lists, Fire(shadow, control)
        PROVE  ShadowInv'
    <2>1. shadow \in Seq(Users) /\ control \in Seq(Users)
      BY ShadowAssumption
    <2>. QED
      BY <1>3, <2>1, FireInv
  <1>4. ASSUME NEW arm \in Arms, Turn(arm)
        PROVE  ShadowInv'
    BY <1>4, AllowedInv, BlockedInv DEF Turn
  <1>5. ASSUME (\E p \in 0..Scale : Ramp(p)) \/ NextDay
        PROVE  ShadowInv'
    BY <1>5 DEF Ramp, NextDay, ShadowInv
  <1>. QED
    BY <1>1, <1>2, <1>3, <1>4, <1>5 DEF ShadowNext

(* No fire sends to a user twice, and none loses a user, whatever the      *)
(* lists, the users' positions and the number of fires.                    *)
THEOREM ReconcileExact == ShadowSpec => []ReconcileIsExact
  BY ShadowInvIsExact, ShadowInvInit, ShadowInvStep, PTL DEF ShadowSpec

(* Widening the slice takes nobody out of the shadow arm.                  *)
THEOREM RampUpOnlyAdds == ShadowSpec => RampUpKeepsArm
  <1>1. ASSUME ShadowInv, ShadowInv', pct' >= pct, NEW user \in Users, Arm(user, pct) = "shadow"
        PROVE  Arm(user, pct') = "shadow"
    <2>1. pct \in Int /\ pct' \in Int /\ Position[user] \in Nat
      BY <1>1, ShadowAssumption DEF ShadowInv
    <2>. QED
      BY <1>1, <2>1 DEF Arm
  <1>2. ShadowInv /\ ShadowInv' /\ [ShadowNext]_shadowVars
          => [pct' >= pct => \A user \in Users : Arm(user, pct) = "shadow"
                                => Arm(user, pct') = "shadow"]_shadowVars
    BY <1>1
  <1>. QED
    BY <1>2, ShadowInvInit, ShadowInvStep, PTL DEF ShadowSpec, RampUpKeepsArm
-----------------------------------------------------------------------------
(* The acceptance gate: ShadowReport.                                      *)
(* The strengthening of VerdictIsFair that is inductive.                   *)
ReportInv ==
    /\ sent \in [ReportArms -> Nat] /\ conversions \in [ReportArms -> Nat] /\ margin \in Margins
    /\ OnlySentCounts

(* Seen from the other arm, a difference has the opposite sign and the     *)
(* same variance.                                                          *)
LEMMA OtherArm ==
    ASSUME ReportInv, NEW arm \in ReportArms
    PROVE  /\ Lift(arm, 0) \in Int /\ Lift(Other(arm), 0) = -Lift(arm, 0)
           /\ Variance(arm) \in Int /\ Variance(Other(arm)) = Variance(arm)
           /\ Degenerate(Other(arm)) <=> Degenerate(arm)
  <1> DEFINE other == Other(arm)
             n == sent[arm]
             m == sent[other]
             c == conversions[arm]
             d == conversions[other]
  <1>1. /\ other \in ReportArms /\ Other(other) = arm
        /\ {arm, other} = {"control", "shadow"}
    BY DEF Other, ReportArms
  <1>2. n \in Int /\ m \in Int /\ c \in Int /\ d \in Int
        /\ sent["control"] \in Int /\ sent["shadow"] \in Int
    BY <1>1 DEF ReportInv, ReportArms
  <1> HIDE DEF n, m, c, d, other
  <1>3. \A x, y \in Int : x * y \in Int /\ x + y \in Int /\ x - y \in Int
    OBVIOUS
  <1>4. c * m \in Int /\ d * n \in Int
    BY <1>2, <1>3
  <1>5. Lift(arm, 0) = 10 * (c * m - d * n) /\ Lift(other, 0) = 10 * (d * n - c * m)
    <2>1. 0 * sent["control"] * sent["shadow"] = 0
      BY <1>2
    <2>2. /\ Lift(arm, 0) = 10 * (c * m - d * n) + 0 * sent["control"] * sent["shadow"]
          /\ Lift(other, 0) = 10 * (d * n - c * m) + 0 * sent["control"] * sent["shadow"]
      BY <1>1, Zenon DEF Lift, n, m, c, d, other
    <2>. QED
      BY <1>2, <1>4, <2>1, <2>2
  <1>6. Spread(arm) \in Int /\ Spread(other) \in Int /\ Cubed(n) \in Int /\ Cubed(m) \in Int
    <2>1. Spread(arm) = c * (n - c) /\ Spread(other) = d * (m - d)
      BY DEF Spread, n, m, c, d
    <2>. QED
      BY <1>2, <1>3, <2>1 DEF Cubed
  <1>7. /\ Variance(arm) = Spread(arm) * Cubed(m) + Spread(other) * Cubed(n)
        /\ Variance(other) = Spread(other) * Cubed(n) + Spread(arm) * Cubed(m)
    BY <1>1, Zenon DEF Variance, n, m, other
  <1>8. Spread(arm) * Cubed(m) \in Int /\ Spread(other) * Cubed(n) \in Int
    BY <1>3, <1>6
  <1>9. Variance(arm) \in Int /\ Variance(other) = Variance(arm)
    BY <1>7, <1>8
  <1>10. Lift(arm, 0) \in Int /\ Lift(other, 0) = -Lift(arm, 0)
    BY <1>4, <1>5
  <1>. QED
    BY <1>9, <1>10 DEF Degenerate, other

(* One is better exactly when the other is worse.                          *)
LEMMA SymmetricArms ==
    ASSUME ReportInv
    PROVE  ArmsAreSymmetric
  <1>1. ASSUME NEW a \in ReportArms
        PROVE  Verdict(a, 0) = "shadow_better" <=> Verdict(Other(a), 0) = "worse"
    <2> DEFINE o == Other(a)
               x == Lift(a, 0)
               y == Lift(o, 0)
    <2>1. /\ x \in Int /\ y = -x /\ Variance(o) = Variance(a)
          /\ Degenerate(o) <=> Degenerate(a)
      BY <1>1, OtherArm
    <2>2. MoreThanHalf(-y, o) <=> MoreThanHalf(x, a)
      <3>1. -y = x
        BY <2>1
      <3>2. \A p : MoreThanHalf(p, o) <=> MoreThanHalf(p, a)
        <4>1. Variance(o) = Variance(a)
          BY <2>1
        <4> DEFINE over(p, v) == p > 0 /\ 25 * p * p * sent["control"] * sent["shadow"] > 9600 * v
        <4>2. \A p : /\ MoreThanHalf(p, o) <=> over(p, Variance(o))
                     /\ MoreThanHalf(p, a) <=> over(p, Variance(a))
          BY DEF MoreThanHalf
        <4> HIDE DEF over, o
        <4>. QED
          BY <4>1, <4>2
      <3> HIDE DEF x, y, o
      <3>. QED
        BY <3>1, <3>2, Zenon
    <2>3. MoreThanHalf(x, a) => ~MoreThanHalf(y, o) /\ ~AtLeastHalf(y, o)
      <3>1. x > 0 => ~(y > 0) /\ ~(y >= 0)
        BY <2>1
      <3> HIDE DEF x, y, o
      <3>. QED
        BY <3>1 DEF MoreThanHalf, AtLeastHalf
    <2>4. Verdict(a, 0) = "shadow_better" <=> ~Degenerate(a) /\ MoreThanHalf(x, a)
      <3> HIDE DEF x, o, y
      <3>. QED
        BY DEF Verdict, x
    <2>5. Verdict(o, 0) = "worse" <=> /\ ~Degenerate(o) /\ ~MoreThanHalf(y, o)
                                      /\ ~AtLeastHalf(y, o) /\ MoreThanHalf(-y, o)
      <3> HIDE DEF x, o, y
      <3>. QED
        BY DEF Verdict, y
    <2> HIDE DEF x, y
    <2>. QED
      BY <2>1, <2>2, <2>3, <2>4, <2>5
  <1>. QED
    BY <1>1 DEF ArmsAreSymmetric

(* A verdict is on the side of zero that the rates are on.                 *)
LEMMA HonestVerdict ==
    ASSUME ReportInv
    PROVE  VerdictFollowsRates
  <1> DEFINE x == Lift("shadow", margin)
             z == Lift("shadow", 0)
             extra == margin * sent["control"] * sent["shadow"]
  <1>1. sent["control"] \in Nat /\ sent["shadow"] \in Nat /\ margin \in Nat
    BY ReportAssumption DEF ReportInv, ReportArms
  <1>2. z \in Int
    BY OtherArm DEF ReportArms
  <1>3. extra \in Nat
    <2>1. \A i, j \in Nat : i * j \in Nat
      OBVIOUS
    <2>. QED
      BY <1>1, <2>1
  <1>4. x = z + extra
    <2> DEFINE w == 10 * (conversions["shadow"] * sent[Other("shadow")]
                            - conversions[Other("shadow")] * sent["shadow"])
    <2>1. w \in Int
      <3>1. /\ conversions["shadow"] \in Int /\ sent[Other("shadow")] \in Int
            /\ conversions[Other("shadow")] \in Int /\ sent["shadow"] \in Int
        BY DEF ReportInv, ReportArms, Other
      <3>2. \A i, j \in Int : i * j \in Int
        OBVIOUS
      <3>3. /\ conversions["shadow"] * sent[Other("shadow")] \in Int
            /\ conversions[Other("shadow")] * sent["shadow"] \in Int
        BY <3>1, <3>2
      <3>. QED
        BY <3>3
    <2>2. x = w + extra /\ z = w + 0 * sent["control"] * sent["shadow"]
      BY Zenon DEF Lift
    <2>3. 0 * sent["control"] * sent["shadow"] = 0
      BY <1>1
    <2> HIDE DEF w, extra, x, z
    <2>. QED
      BY <1>3, <2>1, <2>2, <2>3
  <1> HIDE DEF x, z, extra
  <1>5. Gate \in {"shadow_better", "not_worse"} => z > 0 \/ x >= 0
    BY DEF Gate, Verdict, MoreThanHalf, AtLeastHalf, x, z
  <1>6. Gate = "worse" => -x > 0
    BY DEF Gate, Verdict, MoreThanHalf, x, z
  <1>7. /\ Gate \in {"shadow_better", "not_worse"} => x >= 0
        /\ Gate = "worse" => x < 0
    BY <1>2, <1>3, <1>4, <1>5, <1>6
  <1>. QED
    BY <1>7 DEF VerdictFollowsRates, x

(* A sent record is counted once, as sent; another is not counted.         *)
LEMMA ReportInvStep ==
    ASSUME ~ViaRoute, ReportInv, [ReportNext]_reportVars
    PROVE  ReportInv'
  <1>1. CASE UNCHANGED reportVars
    BY <1>1 DEF ReportInv, OnlySentCounts, reportVars
  <1>2. ASSUME NEW arm \in ReportArms, NEW outcome, NEW bought \in BOOLEAN,
               Record(arm, outcome, bought)
        PROVE  ReportInv'
    <2>1. IsSent(outcome) <=> outcome = "sent"
      BY DEF IsSent
    <2>2. sent' = [sent EXCEPT ![arm] = IF outcome = "sent" THEN @ + 1 ELSE @]
      BY <1>2, <2>1 DEF Record
    <2>3. reported' = [reported EXCEPT ![arm] = IF outcome = "sent" THEN @ + 1 ELSE @]
      BY <1>2 DEF Record, Deliver
    <2>4. conversions' = [conversions EXCEPT ![arm] = IF outcome = "sent" /\ bought THEN @ + 1
                                                      ELSE @]
      BY <1>2, <2>1 DEF Record
    <2>5. margin' = margin
      BY <1>2 DEF Record
    <2>. QED
      BY <2>2, <2>3, <2>4, <2>5 DEF ReportInv, OnlySentCounts
  <1>. QED
    BY <1>1, <1>2 DEF ReportNext

(* For any margins and any number of records: while records come as        *)
(* delivered, and not over the route that takes every one for sent, the    *)
(* gate counts the sent ones alone, treats the arms alike and never        *)
(* contradicts the rates.                                                  *)
THEOREM VerdictFair == ~ViaRoute => (ReportSpec => []VerdictIsFair)
  <1> SUFFICES ASSUME ~ViaRoute
               PROVE  ReportSpec => []VerdictIsFair
    OBVIOUS
  <1>1. ReportInit => ReportInv
    BY DEF ReportInit, ReportInv, OnlySentCounts
  <1>2. ReportInv => VerdictIsFair
    BY SymmetricArms, HonestVerdict DEF ReportInv, VerdictIsFair
  <1>. QED
    BY <1>1, <1>2, ReportInvStep, PTL DEF ReportSpec
-----------------------------------------------------------------------------
(* The behavioural reports: Reports.                                       *)

(* A finite set of numbers that is not empty has a greatest one: the one   *)
(* with the fewest above it.                                               *)
LEMMA GreatestExists ==
    ASSUME NEW S \in SUBSET Int, IsFiniteSet(S), S # {}
    PROVE  \E m \in S : \A y \in S : m >= y
<1> DEFINE Above(x) == {y \in S : y > x}
           Sizes == {Cardinality(Above(x)) : x \in S}
<1>1. \A x \in S : IsFiniteSet(Above(x)) /\ Cardinality(Above(x)) \in Nat
  BY FS_Subset, FS_CardinalityType
<1>2. Sizes \in SUBSET Nat /\ Sizes # {}
  BY <1>1
<1>3. PICK least \in Sizes : \A k \in Sizes : least <= k
  <2> HIDE DEF Sizes
  <2>1. QED BY <1>2, LeastNumber
<1>4. PICK m \in S : least = Cardinality(Above(m))
  BY <1>3
<1>5. ASSUME NEW y \in S, y > m PROVE FALSE
  <2>1. Above(y) \subseteq Above(m) /\ y \in Above(m) /\ y \notin Above(y)
    <3>1. \A z \in S : z \in Int
      OBVIOUS
    <3>2. \A z \in Above(y) : z \in Above(m)
      BY <1>5, <3>1
    <3>3. y \in Above(m) /\ ~(y > y)
      BY <1>5, <3>1
    <3>4. QED BY <3>2, <3>3
  <2>2. Cardinality(Above(y)) < Cardinality(Above(m))
    BY <1>1, <2>1, FS_Subset
  <2>3. least <= Cardinality(Above(y))
    BY <1>3
  <2>4. QED BY <1>1, <1>4, <2>2, <2>3
<1>6. QED BY <1>5

LEMMA MaxIsGreatest ==
    ASSUME NEW S \in SUBSET Int, IsFiniteSet(S), S # {}
    PROVE  Max(S) \in S /\ \A y \in S : y <= Max(S)
<1>1. \E m \in S : \A y \in S : m >= y
  BY GreatestExists
<1>2. Max(S) \in S /\ \A y \in S : Max(S) >= y
  BY <1>1 DEF Max
<1>3. QED BY <1>2

(* What a finite set is mapped to is finite.                               *)
LEMMA ImageIsFinite ==
    ASSUME NEW S, IsFiniteSet(S), NEW R, NEW f \in [S -> R]
    PROVE  IsFiniteSet({f[x] : x \in S})
<1> DEFINE T == {f[x] : x \in S}
<1>1. f \in Surjection(S, T)
  BY DEF Surjection
<1>2. QED BY <1>1, FS_Surjection

(* The times of some events, and the last of them.                         *)
LEMMA LastOfEvents ==
    ASSUME NEW D \in SUBSET Events, IsFiniteSet(D), D # {}
    PROVE  /\ Max({ev.ts : ev \in D}) \in Nat
           /\ \E ev \in D : ev.ts = Max({x.ts : x \in D})
           /\ \A ev \in D : ev.ts <= Max({x.ts : x \in D})
<1> DEFINE Times == {ev.ts : ev \in D}
<1>1. Times \in SUBSET Int /\ Times # {} /\ \A ev \in D : ev.ts \in Nat
  BY ReportsAssumption
<1>2. IsFiniteSet(Times)
  <2> DEFINE time == [ev \in D |-> ev.ts]
  <2>1. time \in [D -> Nat] /\ Times = {time[ev] : ev \in D}
    BY <1>1
  <2> HIDE DEF time, Times
  <2>2. QED BY <2>1, ImageIsFinite
<1>3. Max(Times) \in Times /\ \A y \in Times : y <= Max(Times)
  <2> HIDE DEF Times
  <2>1. QED BY <1>1, <1>2, MaxIsGreatest
<1>4. QED BY <1>1, <1>3
-----------------------------------------------------------------------------
BehaviourTyped ==
    /\ events \subseteq Events /\ IsFiniteSet(events)
    /\ now \in Instants

LEMMA BehaviourTypedInit == BehaviourInit => BehaviourTyped
  BY FS_EmptySet, ReportsAssumption DEF BehaviourInit, BehaviourTyped

LEMMA BehaviourTypedStep == BehaviourTyped /\ [BehaviourNext]_behaviourVars => BehaviourTyped'
<1> SUFFICES ASSUME BehaviourTyped, [BehaviourNext]_behaviourVars PROVE BehaviourTyped'
  OBVIOUS
<1>1. CASE TimePasses
  BY <1>1, ReportsAssumption DEF BehaviourTyped, TimePasses
<1>2. ASSUME NEW ev \in Events, Arrive(ev) PROVE BehaviourTyped'
  BY <1>2, FS_AddElement DEF BehaviourTyped, Arrive
<1>3. CASE UNCHANGED behaviourVars
  BY <1>3 DEF BehaviourTyped, behaviourVars
<1>4. QED BY <1>1, <1>2, <1>3 DEF BehaviourNext

LEMMA WindowIsPositive == Window \in Nat \ {0}
  BY ReportsAssumption DEF Window

LEMMA EventsAreTimed == BehaviourTyped => \A u : \A ev \in Of(u) : ev.ts \in Nat
  BY ReportsAssumption DEF BehaviourTyped, Of

LEMMA UsersAreFinite == BehaviourTyped => IsFiniteSet(KnownUsers)
<1> SUFFICES ASSUME BehaviourTyped PROVE IsFiniteSet(KnownUsers)
  OBVIOUS
<1> DEFINE customer == [ev \in events |-> ev.customer_id]
<1>1. customer \in Surjection(events, KnownUsers)
  BY DEF KnownUsers, Surjection
<1>2. IsFiniteSet(events)
  BY DEF BehaviourTyped
<1> HIDE DEF customer
<1>3. QED BY <1>1, <1>2, FS_Surjection

LEMMA LastIsLatest ==
    ASSUME BehaviourTyped, NEW u \in KnownUsers
    PROVE  /\ LastTs(u) \in Nat
           /\ \E ev \in Of(u) : ev.ts = LastTs(u)
           /\ \A ev \in Of(u) : ev.ts <= LastTs(u)
<1>1. Of(u) \in SUBSET Events /\ Of(u) \subseteq events /\ Of(u) # {}
  BY DEF BehaviourTyped, Of, KnownUsers
<1>2. IsFiniteSet(Of(u))
  BY <1>1, FS_Subset DEF BehaviourTyped
<1>3. QED BY <1>1, <1>2, LastOfEvents DEF LastTs
-----------------------------------------------------------------------------
(* The windows.                                                            *)
LEMMA OneLine == BehaviourTyped => ReportsDrawOneLine
<1> SUFFICES ASSUME BehaviourTyped PROVE ReportsDrawOneLine
  OBVIOUS
<1>1. now \in Nat /\ \A u : \A ev \in Of(u) : ev.ts \in Nat
  BY EventsAreTimed, ReportsAssumption DEF BehaviourTyped
<1>2. \A u, from : ActiveIn(u, from, now - Window - 1) => HadPrior(u)
  BY <1>1, WindowIsPositive DEF ActiveIn, HadPrior
<1>3. \A days : Retained(days) \subseteq ReturningUsers
  BY <1>2 DEF Retained, RetentionCohort, Returned, ReturningUsers, ActiveUsers
<1>4. now - (now + WindowDays) * PerDay <= 0
  <2>1. (now + WindowDays) * PerDay >= now
    BY <1>1, ReportsAssumption
  <2>2. (now + WindowDays) * PerDay \in Nat
    BY <1>1, ReportsAssumption
  <2> DEFINE reach == (now + WindowDays) * PerDay
  <2>3. reach \in Nat /\ reach >= now
    BY <2>1, <2>2
  <2> HIDE DEF reach
  <2>4. now - reach <= 0
    BY <1>1, <2>3, ReportsAssumption
  <2>5. QED BY <2>4 DEF reach
<1>5. ASSUME NEW u \in ReturningUsers PROVE u \in Retained(now)
  <2> DEFINE from == now - (now + WindowDays) * PerDay
  <2>1. PICK ev \in Of(u) : ev.ts < now - Window
    BY <1>5 DEF ReturningUsers, HadPrior
  <2>2. from <= ev.ts
    <3>1. from \in Int
      BY <1>1, ReportsAssumption
    <3>2. QED BY <1>1, <1>4, <3>1
  <2>3. ev.ts <= now - Window - 1
    BY <1>1, <2>1, WindowIsPositive
  <2>4. ActiveIn(u, from, now - Window - 1)
    BY <2>2, <2>3 DEF ActiveIn
  <2>5. QED
    BY <2>4 DEF Retained, RetentionCohort, Returned, ReturningUsers, ActiveUsers
<1>6. QED BY <1>3, <1>5 DEF ReportsDrawOneLine

LEMMA RiskMatches == BehaviourTyped => RiskMatchesActivity
<1> SUFFICES ASSUME BehaviourTyped, NEW u \in KnownUsers
             PROVE  /\ ChurnLabel(u) = "high" /\ u \in ActiveUsers => LastTs(u) = now - Window
                    /\ u \notin ActiveUsers /\ LastTs(u) <= now => ChurnLabel(u) = "high"
  BY DEF RiskMatchesActivity
<1>1. now \in Nat /\ \A ev \in Of(u) : ev.ts \in Nat
  BY EventsAreTimed, ReportsAssumption DEF BehaviourTyped
<1>2. LastTs(u) \in Nat
  BY LastIsLatest
<1>3. ChurnLabel(u) = "high" <=> LastTs(u) <= now - Window
  BY <1>1, <1>2, WindowIsPositive DEF ChurnLabel, Recency
<1>4. u \in ActiveUsers => LastTs(u) >= now - Window
  <2>1. \A ev \in Of(u) : ev.ts <= LastTs(u)
    BY LastIsLatest
  <2>2. QED BY <1>1, <1>2, <2>1, WindowIsPositive DEF ActiveUsers, ActiveIn
<1>5. u \notin ActiveUsers /\ LastTs(u) <= now => LastTs(u) < now - Window
  <2>1. PICK ev \in Of(u) : ev.ts = LastTs(u)
    BY LastIsLatest
  <2>2. QED BY <1>1, <1>2, <2>1, WindowIsPositive DEF ActiveUsers, ActiveIn
<1>6. QED BY <1>1, <1>2, <1>3, <1>4, <1>5, WindowIsPositive
-----------------------------------------------------------------------------
(* The weight of a user, and what it lacks of the full weight.             *)
LEMMA Weighted ==
    ASSUME NEW w \in Nat \ {0}, NEW b \in Nat \ {0}, NEW r \in 0..w, NEW f \in 1..b
    PROVE  /\ (w - r) * b + f * w \in 0..(2 * w * b)
           /\ (w - r) * b + f * w = 2 * w * b - (r * b + (b - f) * w)
           /\ 2 * w * b \in Nat \ {0} /\ r * b \in Nat /\ (b - f) * w \in Nat
<1>1. (w - r) * b \in Nat /\ f * w \in Nat /\ r * b \in Nat /\ (b - f) * w \in Nat
  OBVIOUS
<1>2. (w - r) * b + f * w = 2 * w * b - (r * b + (b - f) * w)
  OBVIOUS
<1>3. w * b \in Nat \ {0} /\ 2 * w * b = 2 * (w * b)
  OBVIOUS
<1>4. QED BY <1>1, <1>2, <1>3

LEMMA WeightedMonotone ==
    ASSUME NEW w \in Nat, NEW b \in Nat, NEW r \in 0..w, NEW s \in 0..w,
           NEW f \in Nat, NEW g \in Nat, r <= s, f >= g
    PROVE  (w - r) * b + f * w >= (w - s) * b + g * w
<1>1. (w - r) * b = (w - s) * b + (s - r) * b /\ f * w = g * w + (f - g) * w
  OBVIOUS
<1>2. (s - r) * b \in Nat /\ (f - g) * w \in Nat /\ (w - s) * b \in Nat /\ g * w \in Nat
  OBVIOUS
<1>3. QED BY <1>1, <1>2

(* Whole division keeps the order.                                         *)
LEMMA DivMonotone ==
    ASSUME NEW a \in Nat, NEW b \in Nat, NEW n \in Nat \ {0}, a <= b
    PROVE  a \div n <= b \div n /\ a \div n \in Nat /\ b \div n \in Nat
  OBVIOUS

(* Rounding: within one half, in order, and exact at the multiples.        *)
LEMMA Division ==
    ASSUME NEW a \in Nat, NEW b \in Nat \ {0}
    PROVE  /\ a \div b \in Nat /\ a % b \in 0..(b - 1)
           /\ a = b * (a \div b) + (a % b)
  OBVIOUS

LEMMA RoundedIsNear ==
    ASSUME NEW a \in Nat, NEW b \in Nat \ {0}
    PROVE  /\ Rounded(a, b) \in Nat
           /\ 2 * a <= 2 * (b * Rounded(a, b)) + b /\ 2 * (b * Rounded(a, b)) <= 2 * a + b
<1> DEFINE q == a \div b
           r == a % b
<1>1. q \in Nat /\ r \in 0..(b - 1) /\ a = b * q + r
  BY Division
<1>2. \/ Rounded(a, b) = q /\ 2 * r <= b
      \/ Rounded(a, b) = q + 1 /\ 2 * r >= b
  BY <1>1 DEF Rounded
<1> HIDE DEF q, r
<1>3. b * q \in Nat /\ b * (q + 1) = b * q + b
  BY <1>1
<1> DEFINE p == b * q
<1>4. p \in Nat /\ a = p + r /\ b * (q + 1) = p + b /\ b * q = p
  BY <1>1, <1>3
<1> HIDE DEF p
<1>5. CASE Rounded(a, b) = q /\ 2 * r <= b
  BY <1>1, <1>4, <1>5
<1>6. CASE Rounded(a, b) = q + 1 /\ 2 * r >= b
  BY <1>1, <1>4, <1>6
<1>7. QED BY <1>2, <1>5, <1>6

LEMMA RoundedMonotone ==
    ASSUME NEW a \in Nat, NEW c \in Nat, NEW b \in Nat \ {0}, a <= c
    PROVE  Rounded(a, b) <= Rounded(c, b)
<1> DEFINE q == a \div b
           r == a % b
           s == c \div b
           t == c % b
<1>1. /\ q \in Nat /\ r \in 0..(b - 1) /\ a = b * q + r
      /\ s \in Nat /\ t \in 0..(b - 1) /\ c = b * s + t
  BY Division
<1>2. /\ Rounded(a, b) = IF 2 * r > b \/ (2 * r = b /\ q % 2 = 1) THEN q + 1 ELSE q
      /\ Rounded(c, b) = IF 2 * t > b \/ (2 * t = b /\ s % 2 = 1) THEN s + 1 ELSE s
  BY DEF Rounded
<1>3. q <= s
  BY DivMonotone
<1> HIDE DEF q, r, s, t
<1>4. q = s => r <= t
  <2>1. ASSUME q = s PROVE r <= t
    <3>1. b * q = b * s /\ b * q \in Int
      BY <1>1, <2>1
    <3> DEFINE p == b * q
    <3>2. a = p + r /\ c = p + t /\ p \in Int
      BY <1>1, <3>1
    <3> HIDE DEF p
    <3>3. QED BY <1>1, <3>2
  <2>2. QED BY <2>1
<1>5. QED BY <1>1, <1>2, <1>3, <1>4

LEMMA RoundedWhole ==
    ASSUME NEW k \in Nat, NEW b \in Nat \ {0}
    PROVE  Rounded(k * b, b) = k
<1> DEFINE x == Rounded(k * b, b)
<1>1. k * b \in Nat
  OBVIOUS
<1>2. /\ x \in Nat
      /\ 2 * (k * b) <= 2 * (b * x) + b /\ 2 * (b * x) <= 2 * (k * b) + b
  BY <1>1, RoundedIsNear
<1> HIDE DEF x
<1>3. ~(x >= k + 1)
  <2>1. ASSUME x >= k + 1 PROVE FALSE
    <3>1. b * x >= b * (k + 1) /\ b * (k + 1) = k * b + b /\ b * x \in Nat
      BY <1>2, <2>1
    <3>2. QED BY <1>1, <1>2, <3>1
  <2>2. QED BY <2>1
<1>4. ~(x <= k - 1)
  <2>1. ASSUME x <= k - 1 PROVE FALSE
    <3>1. b * x <= b * (k - 1) /\ b * (k - 1) = k * b - b /\ b * x \in Nat
      BY <1>2, <2>1
    <3>2. QED BY <1>1, <1>2, <3>1
  <2>2. QED BY <2>1
<1>5. QED BY <1>2, <1>3, <1>4 DEF x

(* A score: within its scale, full with the full weight, and only then or  *)
(* within a ten-thousandth of it.                                          *)
Score(w, b, r, f) == Rounded(FullEngagement * ((w - r) * b + f * w), 2 * w * b)

LEMMA Scored ==
    ASSUME NEW w \in Nat \ {0}, NEW b \in Nat \ {0}, NEW r \in 0..w, NEW f \in 1..b
    PROVE  /\ Score(w, b, r, f) \in 0..FullEngagement
           /\ r = 0 /\ f = b => Score(w, b, r, f) = FullEngagement
           /\ Score(w, b, r, f) = FullEngagement =>
                 FullEngagement * r <= w /\ FullEngagement * (b - f) <= b
<1> USE DEF FullEngagement
<1> DEFINE full == 2 * w * b
           weight == (w - r) * b + f * w
           late == r * b
           less == (b - f) * w
           score == Score(w, b, r, f)
<1>0. score = Rounded(10000 * weight, full)
  BY DEF Score
<1> HIDE DEF score
<1>1. /\ full \in Nat \ {0} /\ weight \in 0..full /\ late \in Nat /\ less \in Nat
      /\ weight = full - (late + less)
  BY Weighted
<1>2. r = 0 /\ f = b => late = 0 /\ less = 0
  OBVIOUS
<1>3. full = 2 * (w * b) /\ w * b \in Nat
  OBVIOUS
<1> HIDE DEF full, weight, late, less
<1>4. /\ 10000 * weight \in Nat /\ 10000 * full \in Nat /\ 10000 * weight <= 10000 * full
      /\ Rounded(10000 * full, full) = 10000
  BY <1>1, RoundedWhole
<1>5. score \in 0..10000
  <2>1. score \in Nat
    BY <1>0, <1>1, <1>4, RoundedIsNear
  <2>2. score <= 10000
    BY <1>0, <1>1, <1>4, RoundedMonotone
  <2>3. QED BY <2>1, <2>2
<1>6. r = 0 /\ f = b => score = 10000
  <2>1. r = 0 /\ f = b => weight = full
    BY <1>1, <1>2
  <2>2. QED BY <1>0, <1>4, <2>1
<1>7. score = 10000 => 10000 * late <= w * b /\ 10000 * less <= w * b
  <2>1. 2 * (full * score) <= 2 * (10000 * weight) + full
    BY <1>0, <1>1, <1>4, RoundedIsNear
  <2>2. score = 10000 => 20000 * (late + less) <= full
    <3>1. score = 10000 => 2 * (full * 10000) <= 2 * (10000 * weight) + full
      BY <2>1
    <3>2. QED BY <1>1, <3>1
  <2> DEFINE wb == w * b
  <2>3. wb \in Nat /\ full = 2 * wb
    BY <1>3
  <2> HIDE DEF wb
  <2>4. score = 10000 => 10000 * late <= wb /\ 10000 * less <= wb
    BY <1>1, <2>2, <2>3
  <2>5. QED BY <2>4 DEF wb
<1>8. 10000 * late <= w * b => 10000 * r <= w
  <2>1. ASSUME 10000 * r >= w + 1 PROVE 10000 * late >= w * b + b
    <3>1. 10000 * late = (10000 * r) * b
      BY DEF late
    <3>2. (10000 * r) * b >= (w + 1) * b
      BY <2>1
    <3>3. (w + 1) * b = w * b + b
      OBVIOUS
    <3>4. QED BY <3>1, <3>2, <3>3
  <2>2. w * b \in Nat /\ late \in Nat
    BY <1>1
  <2>3. QED BY <2>1, <2>2
<1>9. 10000 * less <= w * b => 10000 * (b - f) <= b
  <2>1. ASSUME 10000 * (b - f) >= b + 1 PROVE 10000 * less >= w * b + w
    <3>1. 10000 * less = (10000 * (b - f)) * w
      BY DEF less
    <3>2. (10000 * (b - f)) * w >= (b + 1) * w
      BY <2>1
    <3>3. (b + 1) * w = w * b + w
      OBVIOUS
    <3>4. QED BY <3>1, <3>2, <3>3
  <2>2. w * b \in Nat /\ less \in Nat
    BY <1>1
  <2>3. QED BY <2>1, <2>2
<1>10. QED BY <1>5, <1>6, <1>7, <1>8, <1>9 DEF score

(* A user who is active has events in the window; the busiest has most.    *)
LEMMA ActivityMeasured ==
    ASSUME BehaviourTyped, NEW u \in ActiveUsers
    PROVE  /\ WindowRecency(u) \in 0..Window
           /\ Frequency(u) \in 1..Busiest /\ Busiest \in Nat \ {0}
<1>1. now \in Nat /\ Window \in Nat /\ \A v : \A ev \in Of(v) : ev.ts \in Nat
  BY EventsAreTimed, WindowIsPositive, ReportsAssumption DEF BehaviourTyped
<1>2. \A v \in ActiveUsers : /\ InWindow(v) \in SUBSET Events /\ InWindow(v) \subseteq events
                             /\ InWindow(v) # {}
  BY <1>1 DEF BehaviourTyped, InWindow, Of, ActiveUsers, ActiveIn
<1>3. \A v \in ActiveUsers : IsFiniteSet(InWindow(v))
  BY <1>2, FS_Subset DEF BehaviourTyped
<1>4. \A v \in ActiveUsers : Frequency(v) \in Nat \ {0}
  BY <1>2, <1>3, FS_CardinalityType, FS_EmptySet DEF Frequency
<1>5. WindowRecency(u) \in 0..Window
  <2> DEFINE m == Max({ev.ts : ev \in InWindow(u)})
  <2>1. m \in Nat /\ \E ev \in InWindow(u) : ev.ts = m
    BY <1>2, <1>3, LastOfEvents
  <2>2. m \in (now - Window)..now
    BY <2>1 DEF InWindow
  <2>3. WindowRecency(u) = now - m
    BY DEF WindowRecency
  <2> HIDE DEF m
  <2>4. QED BY <1>1, <2>1, <2>2, <2>3
<1> DEFINE Frequencies == {Frequency(v) : v \in ActiveUsers}
<1>6. IsFiniteSet(Frequencies)
  <2>1. IsFiniteSet(KnownUsers)
    BY UsersAreFinite
  <2>2. IsFiniteSet(ActiveUsers)
    BY <2>1, FS_Subset DEF ActiveUsers
  <2> DEFINE frequency == [v \in ActiveUsers |-> Frequency(v)]
  <2>3. frequency \in [ActiveUsers -> Nat] /\ Frequencies = {frequency[v] : v \in ActiveUsers}
    BY <1>4
  <2> HIDE DEF frequency, Frequencies
  <2>4. QED BY <2>2, <2>3, ImageIsFinite
<1>7. Frequencies \in SUBSET Int /\ Frequency(u) \in Frequencies /\ Frequencies \subseteq Nat \ {0}
  BY <1>4
<1>8. Max(Frequencies) \in Frequencies /\ \A y \in Frequencies : y <= Max(Frequencies)
  <2> HIDE DEF Frequencies
  <2>1. QED BY <1>6, <1>7, MaxIsGreatest
<1>9. Busiest \in Nat \ {0} /\ Frequency(u) <= Busiest
  BY <1>7, <1>8 DEF Busiest
<1>10. QED BY <1>4, <1>5, <1>9

LEMMA EngagementFollows == BehaviourTyped => EngagementFollowsUse
<1> SUFFICES ASSUME BehaviourTyped, NEW u \in ActiveUsers, NEW v \in ActiveUsers
             PROVE  /\ Engagement(u) \in 0..FullEngagement
                    /\ WindowRecency(u) <= WindowRecency(v) /\ Frequency(u) >= Frequency(v)
                          => Engagement(u) >= Engagement(v)
                    /\ WindowRecency(u) = 0 /\ Frequency(u) = Busiest
                          => Engagement(u) = FullEngagement
                    /\ Engagement(u) = FullEngagement =>
                          /\ FullEngagement * WindowRecency(u) <= Window
                          /\ FullEngagement * (Busiest - Frequency(u)) <= Busiest
  BY DEF EngagementFollowsUse
<1>1. /\ WindowRecency(u) \in 0..Window /\ WindowRecency(v) \in 0..Window
      /\ Frequency(u) \in 1..Busiest /\ Frequency(v) \in 1..Busiest /\ Busiest \in Nat \ {0}
      /\ Window \in Nat \ {0}
  BY ActivityMeasured, WindowIsPositive
<1>2. /\ Engagement(u) \in 0..FullEngagement
      /\ WindowRecency(u) = 0 /\ Frequency(u) = Busiest => Engagement(u) = FullEngagement
      /\ Engagement(u) = FullEngagement =>
            /\ FullEngagement * WindowRecency(u) <= Window
            /\ FullEngagement * (Busiest - Frequency(u)) <= Busiest
  <2>1. Engagement(u) = Score(Window, Busiest, WindowRecency(u), Frequency(u))
    BY DEF Engagement, Score
  <2>2. QED BY <1>1, <2>1, Scored, Zenon
<1>3. ASSUME WindowRecency(u) <= WindowRecency(v), Frequency(u) >= Frequency(v)
      PROVE  Engagement(u) >= Engagement(v)
  <2> DEFINE weight(x) == (Window - WindowRecency(x)) * Busiest + Frequency(x) * Window
             full == 2 * Window * Busiest
  <2>1. weight(u) >= weight(v)
    BY <1>1, <1>3, WeightedMonotone
  <2>2. weight(u) \in 0..full /\ weight(v) \in 0..full /\ full \in Nat \ {0}
    BY <1>1, Weighted
  <2>3. Engagement(u) = Rounded(FullEngagement * weight(u), full)
        /\ Engagement(v) = Rounded(FullEngagement * weight(v), full)
    BY DEF Engagement
  <2> HIDE DEF weight, full
  <2>4. /\ FullEngagement * weight(u) \in Nat /\ FullEngagement * weight(v) \in Nat
        /\ FullEngagement * weight(v) <= FullEngagement * weight(u)
    BY <2>1, <2>2 DEF FullEngagement
  <2>5. /\ Rounded(FullEngagement * weight(v), full) <= Rounded(FullEngagement * weight(u), full)
        /\ Rounded(FullEngagement * weight(v), full) \in Nat /\ Rounded(FullEngagement * weight(u), full) \in Nat
    BY <2>2, <2>4, RoundedMonotone, RoundedIsNear
  <2>6. QED BY <2>3, <2>5
<1>4. QED BY <1>2, <1>3
-----------------------------------------------------------------------------
(* The scores.                                                             *)
LEMMA MaxOfTwo ==
    ASSUME NEW a \in Int, NEW b \in Int
    PROVE  Max({a, b}) = IF a >= b THEN a ELSE b
<1>1. \E x \in {a, b} : \A y \in {a, b} : x >= y
  <2>1. CASE a <= b BY <2>1
  <2>2. CASE b <= a BY <2>2
  <2>3. QED BY <2>1, <2>2
<1>2. Max({a, b}) \in {a, b} /\ \A y \in {a, b} : Max({a, b}) >= y
  BY <1>1 DEF Max
<1>3. QED BY <1>2

LEMMA LesserOfTwo ==
    ASSUME NEW a \in Int, NEW b \in Int
    PROVE  Min({a, b}) = IF a <= b THEN a ELSE b
  BY MinOfTwo

(* The rank of a position: it rises with it, and is 5 at the top.          *)
LEMMA QuintileRises ==
    ASSUME NEW n \in Nat \ {0}, NEW a \in 0..n, NEW b \in 0..n, a <= b
    PROVE  Quintile(a, n) \in Int /\ Quintile(b, n) \in Int /\ Quintile(a, n) <= Quintile(b, n)
<1> DEFINE Fifth(k) == CeilDiv((k * 100) \div n, 20)
           Raised(k) == Max({1, Fifth(k)})
<1>1. (a * 100) \div n <= (b * 100) \div n /\ (a * 100) \div n \in Nat /\ (b * 100) \div n \in Nat
  <2>1. a * 100 \in Nat /\ b * 100 \in Nat /\ a * 100 <= b * 100
    OBVIOUS
  <2>2. QED BY <2>1, DivMonotone
<1>2. Fifth(a) \in Nat /\ Fifth(b) \in Nat /\ Fifth(a) <= Fifth(b)
  <2> DEFINE x == (a * 100) \div n
             y == (b * 100) \div n
  <2>1. x \in Nat /\ y \in Nat /\ x <= y
    BY <1>1
  <2> HIDE DEF x, y
  <2>2. (x + 20 - 1) \div 20 <= (y + 20 - 1) \div 20
        /\ (x + 20 - 1) \div 20 \in Nat /\ (y + 20 - 1) \div 20 \in Nat
    BY <2>1
  <2>3. QED BY <2>2 DEF CeilDiv, x, y
<1> HIDE DEF Fifth
<1>3. Raised(a) \in Nat /\ Raised(b) \in Nat /\ Raised(a) <= Raised(b)
  BY <1>2, MaxOfTwo
<1>4. Quintile(a, n) = Min({5, Raised(a)}) /\ Quintile(b, n) = Min({5, Raised(b)})
  BY DEF Quintile, Fifth
<1> HIDE DEF Raised
<1>5. QED BY <1>3, <1>4, LesserOfTwo

LEMMA QuintileTop ==
    ASSUME NEW n \in Nat \ {0}
    PROVE  Quintile(n, n) = 5
<1>1. (n * 100) \div n = 100
  OBVIOUS
<1>2. CeilDiv((n * 100) \div n, 20) = 5
  BY <1>1 DEF CeilDiv
<1>3. Max({1, 5}) = 5 /\ Min({5, 5}) = 5
  BY MaxOfTwo, LesserOfTwo
<1>4. QED BY <1>2, <1>3 DEF Quintile

(* Scores by a measure, whatever it is: the users with at most as much.    *)
LEMMA RankFollows ==
    ASSUME NEW Ranked, IsFiniteSet(Ranked), NEW value \in [Ranked -> Int],
           NEW u \in Ranked, NEW v \in Ranked, value[u] <= value[v]
    PROVE  LET below(w) == Cardinality({x \in Ranked : value[x] <= value[w]})
               n == Cardinality(Ranked)
           IN  Quintile(below(u), n) \in Int /\ Quintile(below(v), n) \in Int
               /\ Quintile(below(u), n) <= Quintile(below(v), n)
<1> DEFINE AtMost(w) == {x \in Ranked : value[x] <= value[w]}
<1>1. AtMost(u) \subseteq AtMost(v) /\ AtMost(v) \subseteq Ranked
  OBVIOUS
<1>2. IsFiniteSet(AtMost(u)) /\ IsFiniteSet(AtMost(v))
  BY FS_Subset
<1>3. /\ Cardinality(AtMost(u)) <= Cardinality(AtMost(v))
      /\ Cardinality(AtMost(v)) <= Cardinality(Ranked)
  BY <1>1, <1>2, FS_Subset
<1>4. /\ Cardinality(Ranked) \in Nat \ {0}
      /\ Cardinality(AtMost(u)) \in Nat /\ Cardinality(AtMost(v)) \in Nat
  BY <1>2, FS_CardinalityType, FS_EmptySet
<1> DEFINE a == Cardinality(AtMost(u))
           b == Cardinality(AtMost(v))
           n == Cardinality(Ranked)
<1>5. n \in Nat \ {0} /\ a \in 0..n /\ b \in 0..n /\ a <= b
  BY <1>3, <1>4
<1>6. Quintile(a, n) \in Int /\ Quintile(b, n) \in Int /\ Quintile(a, n) <= Quintile(b, n)
  <2> HIDE DEF a, b, n
  <2>1. QED BY <1>5, QuintileRises
<1>7. QED BY <1>6

LEMMA ScoresFollow == BehaviourTyped => ScoresFollowMeasures
<1> SUFFICES ASSUME BehaviourTyped, NEW u \in KnownUsers, NEW v \in KnownUsers
             PROVE  /\ Recency(u) <= Recency(v) => RScore(u) >= RScore(v)
                    /\ Count(u) >= Count(v) => FScore(u) >= FScore(v)
                    /\ (\A w \in KnownUsers : Count(w) <= Count(u)) => FScore(u) = 5
                    /\ (\A w \in KnownUsers : Money(w) <= Money(u)) => MScore(u) = 5
  BY DEF ScoresFollowMeasures
<1>1. IsFiniteSet(KnownUsers) /\ Cardinality(KnownUsers) \in Nat \ {0}
  BY UsersAreFinite, FS_CardinalityType, FS_EmptySet
<1> DEFINE recencies == [w \in KnownUsers |-> Recency(w)]
           counts == [w \in KnownUsers |-> Count(w)]
<1>2. recencies \in [KnownUsers -> Int]
  BY LastIsLatest, ReportsAssumption DEF Recency, BehaviourTyped
<1>3. counts \in [KnownUsers -> Int]
  <2>1. \A w \in KnownUsers : IsFiniteSet(Of(w))
    <3>1. \A w : Of(w) \subseteq events
      BY DEF Of
    <3>2. QED BY <3>1, FS_Subset DEF BehaviourTyped
  <2>2. QED BY <2>1, FS_CardinalityType DEF Count
<1>4. Recency(u) <= Recency(v) => RScore(u) >= RScore(v)
  <2> SUFFICES ASSUME Recency(u) <= Recency(v) PROVE RScore(u) >= RScore(v)
    OBVIOUS
  <2> DEFINE below(w) == Cardinality({x \in KnownUsers : recencies[x] <= recencies[w]})
             n == Cardinality(KnownUsers)
  <2>1. Quintile(below(u), n) \in Int /\ Quintile(below(v), n) \in Int
        /\ Quintile(below(u), n) <= Quintile(below(v), n)
    BY <1>1, <1>2, RankFollows
  <2>2. \A w \in KnownUsers : below(w) = Cardinality({x \in KnownUsers : Recency(x) <= Recency(w)})
    OBVIOUS
  <2>3. RScore(u) = 6 - Quintile(below(u), n) /\ RScore(v) = 6 - Quintile(below(v), n)
    BY <2>2 DEF RScore, Below
  <2> HIDE DEF below, n
  <2>4. QED BY <2>1, <2>3
<1>5. Count(u) >= Count(v) => FScore(u) >= FScore(v)
  <2> SUFFICES ASSUME Count(u) >= Count(v) PROVE FScore(u) >= FScore(v)
    OBVIOUS
  <2> DEFINE below(w) == Cardinality({x \in KnownUsers : counts[x] <= counts[w]})
             n == Cardinality(KnownUsers)
  <2>1. counts[v] <= counts[u]
    BY <1>3
  <2>2. Quintile(below(u), n) \in Int /\ Quintile(below(v), n) \in Int
        /\ Quintile(below(v), n) <= Quintile(below(u), n)
    <3> HIDE DEF counts
    <3>1. QED BY <1>1, <1>3, <2>1, RankFollows
  <2>3. \A w \in KnownUsers : below(w) = Cardinality({x \in KnownUsers : Count(x) <= Count(w)})
    OBVIOUS
  <2>4. FScore(u) = Quintile(below(u), n) /\ FScore(v) = Quintile(below(v), n)
    BY <2>3 DEF FScore, Below
  <2> HIDE DEF below, n
  <2>5. QED BY <2>2, <2>4
<1>6. (\A w \in KnownUsers : Count(w) <= Count(u)) => FScore(u) = 5
  <2>1. (\A w \in KnownUsers : Count(w) <= Count(u))
           => {w \in KnownUsers : Count(w) <= Count(u)} = KnownUsers
    OBVIOUS
  <2>2. QED BY <1>1, <2>1, QuintileTop DEF FScore, Below
<1>7. (\A w \in KnownUsers : Money(w) <= Money(u)) => MScore(u) = 5
  <2>1. (\A w \in KnownUsers : Money(w) <= Money(u))
           => {w \in KnownUsers : Money(w) <= Money(u)} = KnownUsers
    OBVIOUS
  <2>2. QED BY <1>1, <2>1, QuintileTop DEF MScore, Below
<1>8. QED BY <1>4, <1>5, <1>6, <1>7

(* For any events, window and length of a day: the reports draw their      *)
(* lines at the same instants, a customer at high risk is not active,      *)
(* engagement and scores follow what they measure (reports.py, metrics.py).*)
THEOREM ReportsCoherent == BehaviourSpec => []ReportsAreCoherent
<1>1. BehaviourSpec => []BehaviourTyped
  BY BehaviourTypedInit, BehaviourTypedStep, PTL DEF BehaviourSpec
<1>2. BehaviourTyped => ReportsAreCoherent
  BY OneLine, RiskMatches, EngagementFollows, ScoresFollow DEF ReportsAreCoherent
<1>3. QED BY <1>1, <1>2, PTL

(* Whatever arrives late and however time goes by, who was reported as     *)
(* returning is never reported as new (reports.py, new_vs_returning).      *)
THEOREM ReturningStays == BehaviourSpec => ReturningStaysReturning
<1>1. BehaviourSpec => []BehaviourTyped
  BY BehaviourTypedInit, BehaviourTypedStep, PTL DEF BehaviourSpec
<1>2. BehaviourTyped /\ [BehaviourNext]_behaviourVars
         => [ReturningUsers \cap NewUsers' = {}]_behaviourVars
  <2> SUFFICES ASSUME BehaviourTyped, BehaviourNext, NEW u \in ReturningUsers
               PROVE  u \notin NewUsers'
    OBVIOUS
  <2>1. events \subseteq events' /\ now \in Nat /\ now' \in Nat /\ now <= now'
    BY ReportsAssumption DEF BehaviourTyped, BehaviourNext, TimePasses, Arrive
  <2>2. PICK ev \in Of(u) : ev.ts < now - Window
    BY DEF ReturningUsers, HadPrior
  <2>3. ev \in Of(u)' /\ ev.ts \in Nat
    BY <2>1, EventsAreTimed DEF Of
  <2>4. ev.ts < now' - Window
    BY <2>1, <2>2, <2>3, WindowIsPositive
  <2>5. Window' = Window
    BY DEF Window
  <2>6. QED BY <2>3, <2>4, <2>5 DEF NewUsers, HadPrior
<1>3. QED BY <1>1, <1>2, PTL DEF BehaviourSpec, ReturningStaysReturning

(* Time alone raises the risk of a customer, if anything, and an event     *)
(* alone lowers it, also one that arrives late (metrics.py, churn_risk).   *)
THEOREM SilenceRaises == BehaviourSpec => SilenceRaisesRisk
<1> DEFINE Step == \A u \in KnownUsers :
                      IF now' > now THEN Rank(ChurnLabel(u)') >= Rank(ChurnLabel(u))
                      ELSE Rank(ChurnLabel(u)') <= Rank(ChurnLabel(u))
           Label(r) == IF 2 * r < Window THEN "low" ELSE IF r < Window THEN "medium" ELSE "high"
<1>1. BehaviourSpec => []BehaviourTyped
  BY BehaviourTypedInit, BehaviourTypedStep, PTL DEF BehaviourSpec
<1>2. \A r, s \in Int : r <= s => Rank(Label(r)) <= Rank(Label(s))
  BY WindowIsPositive DEF Rank
<1>3. BehaviourTyped /\ BehaviourNext => Step
  <2> SUFFICES ASSUME BehaviourTyped, BehaviourNext, NEW u \in KnownUsers
               PROVE  IF now' > now THEN Rank(ChurnLabel(u)') >= Rank(ChurnLabel(u))
                      ELSE Rank(ChurnLabel(u)') <= Rank(ChurnLabel(u))
    OBVIOUS
  <2>1. BehaviourTyped' /\ now \in Nat /\ now' \in Nat
    BY BehaviourTypedStep, ReportsAssumption DEF BehaviourTyped
  <2>2. LastTs(u) \in Nat /\ \E ev \in Of(u) : ev.ts = LastTs(u)
    BY LastIsLatest
  <2>3. LastTs(u)' \in Nat /\ \A ev \in Of(u)' : ev.ts <= LastTs(u)'
    <3>1. events \subseteq events'
      BY DEF BehaviourNext, TimePasses, Arrive
    <3>2. Of(u)' \in SUBSET Events /\ Of(u)' \subseteq events' /\ Of(u)' # {}
      BY <2>1, <2>2, <3>1 DEF BehaviourTyped, Of
    <3>3. IsFiniteSet(Of(u)')
      BY <2>1, <3>2, FS_Subset DEF BehaviourTyped
    <3>4. QED BY <3>2, <3>3, LastOfEvents DEF LastTs
  <2>4. ChurnLabel(u) = Label(Recency(u)) /\ ChurnLabel(u)' = Label(Recency(u)')
    BY DEF ChurnLabel, Window
  <2>5. Recency(u) = now - LastTs(u) /\ Recency(u)' = now' - LastTs(u)'
    BY DEF Recency
  <2>6. TimePasses => now' > now /\ LastTs(u)' = LastTs(u)
    BY DEF TimePasses, LastTs, Of
  <2>7. ~TimePasses => now' = now /\ LastTs(u)' >= LastTs(u)
    <3>1. ~TimePasses => now' = now /\ events \subseteq events'
      BY DEF BehaviourNext, Arrive
    <3>2. ~TimePasses => \E ev \in Of(u)' : ev.ts = LastTs(u)
      BY <2>2, <3>1 DEF Of
    <3>3. QED BY <2>2, <2>3, <3>1, <3>2
  <2> HIDE DEF Label
  <2>8. QED BY <1>2, <2>1, <2>2, <2>3, <2>4, <2>5, <2>6, <2>7
<1>4. QED BY <1>1, <1>3, PTL DEF BehaviourSpec, SilenceRaisesRisk
-----------------------------------------------------------------------------
(* Journeys: funnels over any logs.                                        *)
Clock == Nat \cup {NoTime}
Logs == Seq(Footprints)

(* A log is numbered from 1 and its times are natural numbers.             *)
LEMMA LoggedTimes ==
    ASSUME NEW log \in Logs
    PROVE  /\ DOMAIN log = 1..Len(log) /\ Len(log) \in Nat
           /\ \A i \in DOMAIN log : log[i].ts \in Nat
  <1>1. DOMAIN log = 1..Len(log) /\ Len(log) \in Nat
    BY DEF Logs
  <1>2. \A i \in DOMAIN log : log[i] \in Footprints
    BY DEF Logs
  <1>. QED
    BY <1>1, <1>2, JourneysAssumption

(* The times of a step are those of its occurrences, and no others.        *)
LEMMA StepTimes ==
    ASSUME NEW log \in Logs, NEW c, NEW name
    PROVE  /\ TimesOf(log, c, name) \in SUBSET Nat
           /\ \A i \in Occurrences(log, c, name) :
                 i \in DOMAIN log /\ log[i].ts \in Nat /\ log[i].ts \in TimesOf(log, c, name)
           /\ \A t \in TimesOf(log, c, name) : \E i \in Occurrences(log, c, name) : log[i].ts = t
  BY LoggedTimes, Zenon DEF TimesOf, Occurrences

(* A set of times that is not empty has an earliest.                       *)
LEMMA EarliestOf ==
    ASSUME NEW times \in SUBSET Nat, times # {}
    PROVE  Earliest(times) \in times /\ \A t \in times : Earliest(times) <= t
  <1>1. \E t \in times : \A u \in times : t <= u
    BY LeastNumber
  <1>. QED
    BY <1>1, Zenon DEF Earliest

(* The mark of no time is not a time.                                      *)
LEMMA NoTimeIsNone == NoTime \notin Nat
  BY DEF NoTime

InTime(t, deadline) == deadline = NoTime \/ t <= deadline

(* What a step matches is the earliest occurrence not before the last      *)
(* match and in time; it matches nothing only where there is none.         *)
LEMMA MatchIsEarliest ==
    ASSUME NEW times \in SUBSET Nat, NEW prev \in Nat, NEW deadline
    PROVE  /\ Match(times, prev, deadline) \in Clock
           /\ Match(times, prev, deadline) # NoTime =>
                 /\ Match(times, prev, deadline) \in times
                 /\ Match(times, prev, deadline) >= prev
                 /\ InTime(Match(times, prev, deadline), deadline)
           /\ \A t \in times : t >= prev /\ InTime(t, deadline) =>
                 Match(times, prev, deadline) # NoTime /\ Match(times, prev, deadline) <= t
  <1> DEFINE valid == {t \in times : t >= prev /\ (deadline = NoTime \/ t <= deadline)}
             m == Match(times, prev, deadline)
  <1>1. m = IF valid = {} THEN NoTime ELSE Earliest(valid)
    BY Zenon DEF Match
  <1>2. valid \in SUBSET Nat
    OBVIOUS
  <1>3. valid # {} => Earliest(valid) \in valid /\ \A t \in valid : Earliest(valid) <= t
    <2> HIDE DEF valid
    <2>. QED
      BY <1>2, EarliestOf
  <1>4. \A t \in times : t >= prev /\ InTime(t, deadline) => t \in valid
    BY DEF InTime
  <1>5. \A t \in valid : t \in times /\ t >= prev /\ InTime(t, deadline) /\ t \in Nat
    BY DEF InTime
  <1> HIDE DEF valid, m
  <1>6. CASE valid = {}
    BY <1>1, <1>4, <1>6 DEF Clock, m
  <1>7. CASE valid # {}
    <2>1. m = Earliest(valid) /\ m \in valid /\ m \in Nat /\ \A t \in valid : m <= t
      BY <1>1, <1>3, <1>5, <1>7
    <2>2. m # NoTime
      BY <2>1, NoTimeIsNone
    <2>. QED
      BY <1>4, <1>5, <2>1, <2>2 DEF Clock, m
  <1>. QED
    BY <1>6, <1>7

(* The deadline is the window of the earliest entry, so it is kept         *)
(* exactly when no entry is further away than the window.                  *)
LEMMA DeadlineIsFirstWindow ==
    ASSUME NEW log \in Logs, NEW c, NEW steps, NEW within \in Clock,
           within = NoTime \/ Occurrences(log, c, steps[1]) # {}, NEW x \in Nat
    PROVE  InTime(x, Deadline(log, c, steps, within)) <=>
              (within # NoTime =>
                 \A e \in Occurrences(log, c, steps[1]) : x <= log[e].ts + within)
  <1> DEFINE entries == TimesOf(log, c, steps[1])
             E == Occurrences(log, c, steps[1])
             d == Deadline(log, c, steps, within)
  <1>1. d = IF within = NoTime \/ entries = {} THEN NoTime ELSE Earliest(entries) + within
    BY Zenon DEF Deadline
  <1>2. /\ entries \in SUBSET Nat
        /\ \A i \in E : log[i].ts \in Nat /\ log[i].ts \in entries
        /\ \A t \in entries : \E i \in E : log[i].ts = t
    BY StepTimes
  <1> HIDE DEF entries, E, d
  <1>3. CASE within = NoTime
    BY <1>1, <1>3 DEF InTime, d
  <1>4. CASE within # NoTime
    <2>1. within \in Nat /\ E # {}
      BY <1>4 DEF Clock, E
    <2>2. entries # {}
      BY <1>2, <2>1
    <2>3. Earliest(entries) \in entries /\ \A t \in entries : Earliest(entries) <= t
      BY <1>2, <2>2, EarliestOf
    <2>4. d = Earliest(entries) + within /\ Earliest(entries) \in Nat
      BY <1>1, <1>2, <1>4, <2>2, <2>3
    <2>5. d # NoTime
      BY <2>1, <2>4 DEF NoTime
    <2>6. InTime(x, d) <=> x <= Earliest(entries) + within
      BY <2>4, <2>5 DEF InTime
    <2>7. PICK first \in E : log[first].ts = Earliest(entries)
      BY <1>2, <2>3
    <2>8. (\A e \in E : x <= log[e].ts + within) <=> x <= Earliest(entries) + within
      <3>1. \A e \in E : log[e].ts \in Nat /\ Earliest(entries) <= log[e].ts
        BY <1>2, <2>3
      <3>. QED
        BY <2>1, <2>4, <2>7, <3>1
    <2>. QED
      BY <1>4, <2>6, <2>8 DEF E, d
  <1>. QED
    BY <1>3, <1>4

(* The steps a customer matches, one after the other.                      *)
LEMMA MatchedInOrder ==
    ASSUME NEW log \in Logs, NEW c, NEW steps, Len(steps) \in Nat, NEW deadline
    PROVE  LET M == MatchedSteps(log, c, steps, deadline)
           IN  /\ M \in [0..Len(steps) -> Clock] /\ M[0] = 0
               /\ \A k \in 1..Len(steps) :
                     M[k] = IF M[k - 1] = NoTime THEN NoTime
                            ELSE Match(TimesOf(log, c, steps[k]), M[k - 1], deadline)
  <1> DEFINE N == Len(steps)
             T(k) == TimesOf(log, c, steps[k])
             Follow(k, x) == IF x = NoTime THEN NoTime ELSE Match(T(k), x, deadline)
             step == [q \in (1..N) \X Clock |-> Follow(q[1], q[2])]
             Good(f) == f = [k \in 0..N |-> IF k = 0 THEN 0 ELSE IF f[k - 1] = NoTime THEN NoTime
                                            ELSE Match(TimesOf(log, c, steps[k]), f[k - 1], deadline)]
             M == MatchedSteps(log, c, steps, deadline)
  <1>1. \A k \in 1..N, x \in Clock : step[<<k, x>>] = Follow(k, x) /\ Follow(k, x) \in Clock
    <2>1. \A k \in 1..N, x \in Clock : step[<<k, x>>] = Follow(k, x)
      <3> HIDE DEF N, Follow
      <3>. QED
        OBVIOUS
    <2>2. ASSUME NEW k \in 1..N, NEW x \in Clock
          PROVE  Follow(k, x) \in Clock
      <3>1. CASE x = NoTime
        BY <3>1
      <3>2. CASE x # NoTime
        <4>1. x \in Nat
          BY <3>2 DEF Clock
        <4>2. T(k) \in SUBSET Nat
          BY StepTimes
        <4> HIDE DEF T
        <4>. QED
          BY <3>2, <4>1, <4>2, MatchIsEarliest
      <3>. QED
        BY <3>1, <3>2
    <2>. QED
      BY <2>1, <2>2
  <1>2. 0 \in Clock /\ N \in Nat
    BY DEF Clock
  <1>3. PICK f : CountsUp(f, N, Clock, 0, step)
    <2> HIDE DEF N, step, Follow
    <2>. QED
      BY <1>1, <1>2, CountingUp
  <1>4. /\ f \in [0..N -> Clock] /\ f[0] = 0
        /\ \A k \in 1..N : f[k] = Follow(k, f[k - 1])
    <2>1. /\ f \in [0..N -> Clock] /\ f[0] = 0
          /\ \A k \in 1..N : f[k] = step[<<k, f[k - 1]>>]
      BY <1>3 DEF CountsUp
    <2>2. \A k \in 1..N : f[k - 1] \in Clock
      <3> HIDE DEF N
      <3>. QED
        BY <1>2, <2>1
    <2> HIDE DEF N, step, Follow
    <2>. QED
      BY <1>1, <2>1, <2>2
  <1>5. Good(f)
    <2>1. ASSUME NEW k \in 0..N
          PROVE  f[k] = IF k = 0 THEN 0 ELSE IF f[k - 1] = NoTime THEN NoTime
                        ELSE Match(TimesOf(log, c, steps[k]), f[k - 1], deadline)
      <3>1. CASE k = 0
        BY <1>4, <3>1
      <3>2. CASE k # 0
        <4>1. k \in 1..N
          <5> HIDE DEF N
          <5>. QED
            BY <1>2, <3>2
        <4>2. f[k] = Follow(k, f[k - 1])
          <5> HIDE DEF N, Follow
          <5>. QED
            BY <1>4, <4>1
        <4>. QED
          BY <3>2, <4>2, Zenon
      <3>. QED
        BY <3>1, <3>2
    <2>2. f = [k \in 0..N |-> f[k]]
      BY <1>4
    <2>. QED
      BY <2>1, <2>2, Zenon
  <1>6. Good(M)
    <2>1. M = CHOOSE g : Good(g)
      BY Zenon DEF MatchedSteps
    <2> HIDE DEF Good, M
    <2>. QED
      BY <1>5, <2>1, Zenon
  <1>7. /\ M = [k \in 0..N |-> M[k]] /\ M[0] = 0
        /\ \A k \in 1..N : M[k] = Follow(k, M[k - 1])
    <2>1. \A k \in 0..N : M[k] = IF k = 0 THEN 0 ELSE Follow(k, M[k - 1])
      <3> HIDE DEF M, N
      <3>. QED
        BY <1>6, Zenon
    <2>2. 0 \in 0..N /\ \A k \in 1..N : k \in 0..N /\ k # 0
      <3> HIDE DEF N
      <3>. QED
        BY <1>2
    <2>3. M = [k \in 0..N |-> M[k]]
      <3> HIDE DEF M, N
      <3>. QED
        BY <1>6, Zenon
    <2> HIDE DEF M, N, Follow
    <2>. QED
      BY <2>1, <2>2, <2>3, Zenon
  <1>8. M = f
    <2>1. \A k \in 1..N : M[k - 1] \in Clock => M[k] = step[<<k, M[k - 1]>>]
      <3> HIDE DEF M, N, Follow, step
      <3>. QED
        BY <1>1, <1>7, Zenon
    <2> HIDE DEF N, step, Follow, M
    <2>. QED
      BY <1>2, <1>3, <1>7, <2>1, CountedOnce, SMTT(40)
  <1> HIDE DEF M, Follow
  <1>9. M \in [0..N -> Clock]
    BY <1>4, <1>8
  <1>. QED
    BY <1>7, <1>9, Zenon DEF M, Follow

(* A way through the first k steps, in time for a deadline.                *)
Way(log, c, steps, deadline, k, w) ==
    \A i \in 1..k : /\ w[i] \in Occurrences(log, c, steps[i])
                    /\ i > 1 => log[w[i - 1]].ts <= log[w[i]].ts
                    /\ InTime(log[w[i]].ts, deadline)

(* Wherever a way leads, the greedy match has been, and no later.          *)
LEMMA GreedyKeepsUp ==
    ASSUME NEW log \in Logs, NEW c, NEW steps, Len(steps) \in Nat, NEW deadline,
           NEW k \in 1..Len(steps), NEW w, Way(log, c, steps, deadline, k, w)
    PROVE  MatchedSteps(log, c, steps, deadline)[k] # NoTime
  <1> DEFINE N == Len(steps)
             T(i) == TimesOf(log, c, steps[i])
             M == MatchedSteps(log, c, steps, deadline)
             t(i) == log[w[i]].ts
             P == {i \in 0..k : M[i] # NoTime /\ (i > 0 => M[i] <= t(i))}
  <1>1. /\ M \in [0..N -> Clock] /\ M[0] = 0
        /\ \A i \in 1..N : M[i] = IF M[i - 1] = NoTime THEN NoTime
                                  ELSE Match(T(i), M[i - 1], deadline)
    BY MatchedInOrder
  <1>2. ASSUME NEW i \in 1..k
        PROVE  /\ t(i) \in Nat /\ t(i) \in T(i) /\ InTime(t(i), deadline)
               /\ i > 1 => t(i - 1) <= t(i)
    BY StepTimes DEF Way
  <1>3. \A i \in 1..N : T(i) \in SUBSET Nat
    BY StepTimes
  <1>4. N \in Nat /\ k \in 1..N
    OBVIOUS
  <1> HIDE DEF N, T, M, t
  <1>5. 0 \in P
    BY <1>1, <1>4 DEF NoTime
  <1>6. ASSUME NEW i \in 1..k, i - 1 \in P
        PROVE  i \in P
    <2>1. i \in 1..N /\ i - 1 \in 0..N /\ i \in 0..k
      BY <1>4
    <2>2. M[i - 1] \in Nat /\ M[i - 1] # NoTime
      BY <1>1, <1>6, <2>1 DEF Clock
    <2>3. t(i) >= M[i - 1]
      <3>1. CASE i = 1
        BY <1>1, <1>2, <3>1
      <3>2. CASE i # 1
        <4>1. i > 1 /\ i - 1 \in 1..k /\ M[i - 1] <= t(i - 1)
          BY <1>4, <1>6, <3>2
        <4>. QED
          BY <1>2, <2>2, <4>1
      <3>. QED
        BY <3>1, <3>2
    <2>4. M[i] = Match(T(i), M[i - 1], deadline)
      BY <1>1, <2>1, <2>2
    <2>5. Match(T(i), M[i - 1], deadline) # NoTime /\ Match(T(i), M[i - 1], deadline) <= t(i)
      BY <1>2, <1>3, <2>1, <2>2, <2>3, MatchIsEarliest
    <2>. QED
      BY <2>1, <2>4, <2>5
  <1>7. \A i \in 0..k : i \in P
    <2> HIDE DEF P
    <2>. QED
      BY <1>4, <1>5, <1>6, InductionUp
  <1>. QED
    BY <1>4, <1>7 DEF M

(* What is matched was matched one step after the other.                   *)
LEMMA MatchedBefore ==
    ASSUME NEW log \in Logs, NEW c, NEW steps, Len(steps) \in Nat, NEW deadline,
           NEW k \in 1..Len(steps), MatchedSteps(log, c, steps, deadline)[k] # NoTime
    PROVE  \A i \in 0..k : MatchedSteps(log, c, steps, deadline)[i] # NoTime
  <1> DEFINE N == Len(steps)
             M == MatchedSteps(log, c, steps, deadline)
             P == {j \in 0..k : M[k - j] # NoTime}
  <1>1. \A i \in 1..N : M[i] # NoTime => M[i - 1] # NoTime
    <2>1. \A i \in 1..N : M[i] = IF M[i - 1] = NoTime THEN NoTime
                                 ELSE Match(TimesOf(log, c, steps[i]), M[i - 1], deadline)
      BY MatchedInOrder
    <2> HIDE DEF M, N
    <2>. QED
      BY <2>1, Zenon
  <1>2. M[k] # NoTime /\ N \in Nat /\ k \in 1..N
    OBVIOUS
  <1> HIDE DEF M, N
  <1>3. 0 \in P
    BY <1>2
  <1>4. ASSUME NEW j \in 1..k, j - 1 \in P
        PROVE  j \in P
    <2>1. k - (j - 1) \in 1..N /\ (k - (j - 1)) - 1 = k - j /\ j \in 0..k
      BY <1>2
    <2>2. M[k - (j - 1)] # NoTime
      BY <1>4
    <2>. QED
      BY <1>1, <2>1, <2>2
  <1>5. \A j \in 0..k : j \in P
    <2> HIDE DEF P
    <2>. QED
      BY <1>2, <1>3, <1>4, InductionUp
  <1>6. ASSUME NEW i \in 0..k
        PROVE  M[i] # NoTime
    <2>1. k - i \in 0..k /\ k - (k - i) = i
      BY <1>2
    <2>. QED
      BY <1>5, <2>1
  <1>. QED
    BY <1>6 DEF M

(* The matched steps are a way.                                            *)
LEMMA GreedyIsAWay ==
    ASSUME NEW log \in Logs, NEW c, NEW steps, Len(steps) \in Nat, NEW deadline,
           NEW k \in 1..Len(steps), MatchedSteps(log, c, steps, deadline)[k] # NoTime
    PROVE  \E w \in [1..k -> DOMAIN log] : Way(log, c, steps, deadline, k, w)
  <1> DEFINE N == Len(steps)
             T(i) == TimesOf(log, c, steps[i])
             M == MatchedSteps(log, c, steps, deadline)
             O(i) == Occurrences(log, c, steps[i])
             w == [i \in 1..k |-> CHOOSE p \in O(i) : log[p].ts = M[i]]
  <1>1. /\ M \in [0..N -> Clock] /\ M[0] = 0
        /\ \A i \in 1..N : M[i] = IF M[i - 1] = NoTime THEN NoTime
                                  ELSE Match(T(i), M[i - 1], deadline)
    BY MatchedInOrder
  <1>2. \A i \in 0..k : M[i] # NoTime
    BY MatchedBefore
  <1>3. \A i \in 1..N : T(i) \in SUBSET Nat /\ \A x \in T(i) : \E p \in O(i) : log[p].ts = x
    BY StepTimes
  <1>4. N \in Nat /\ k \in 1..N
    OBVIOUS
  <1>5. \A i \in 1..N : \A p \in O(i) : p \in DOMAIN log
    BY StepTimes
  <1>6. ASSUME NEW i \in 1..k
        PROVE  M[i] \in T(i) /\ M[i] >= M[i - 1] /\ InTime(M[i], deadline)
    <2> HIDE DEF N, T, M, w
    <2>1. i \in 1..N /\ i - 1 \in 0..k /\ i - 1 \in 0..N /\ i \in 0..k
      BY <1>4
    <2>2. M[i - 1] \in Nat /\ M[i - 1] # NoTime /\ M[i] # NoTime
      BY <1>1, <1>2, <2>1 DEF Clock
    <2>3. M[i] = Match(T(i), M[i - 1], deadline)
      BY <1>1, <2>1, <2>2
    <2>. QED
      BY <1>3, <2>1, <2>2, <2>3, MatchIsEarliest
  <1>7. ASSUME NEW i \in 1..k
        PROVE  w[i] \in O(i) /\ log[w[i]].ts = M[i]
    <2>1. w[i] = CHOOSE p \in O(i) : log[p].ts = M[i]
      <3> HIDE DEF O, M
      <3>. QED
        OBVIOUS
    <2> HIDE DEF N, T, M, w, O
    <2>2. i \in 1..N
      BY <1>4
    <2>3. \E p \in O(i) : log[p].ts = M[i]
      BY <1>3, <1>6, <2>2
    <2>. QED
      BY <2>1, <2>3, Zenon
  <1>8. w \in [1..k -> DOMAIN log]
    <2>1. \A i \in 1..k : w[i] \in DOMAIN log
      <3> HIDE DEF O, w, N
      <3>. QED
        BY <1>4, <1>5, <1>7
    <2>2. w = [i \in 1..k |-> w[i]]
      OBVIOUS
    <2> HIDE DEF w
    <2>. QED
      BY <2>1, <2>2, Zenon
  <1>9. Way(log, c, steps, deadline, k, w)
    <2> SUFFICES ASSUME NEW i \in 1..k
                 PROVE  /\ w[i] \in O(i) /\ InTime(log[w[i]].ts, deadline)
                        /\ i > 1 => log[w[i - 1]].ts <= log[w[i]].ts
      BY DEF Way
    <2>1. i > 1 => i - 1 \in 1..k
      BY <1>4
    <2> HIDE DEF w, O, M, T
    <2>2. i > 1 => log[w[i - 1]].ts = M[i - 1]
      BY <1>7, <2>1
    <2>3. M[i] \in Nat /\ M[i - 1] \in Nat
      <3>1. i \in 0..N /\ i - 1 \in 0..N /\ i \in 0..k /\ i - 1 \in 0..k
        BY <1>4
      <3>. QED
        BY <1>1, <1>2, <3>1 DEF Clock
    <2>. QED
      BY <1>6, <1>7, <2>2, <2>3
  <1> HIDE DEF w
  <1>. QED
    BY <1>8, <1>9

(* So a step is matched exactly when some way leads to it.                 *)
LEMMA MatchedIfWalked ==
    ASSUME NEW log \in Logs, NEW c, NEW steps, Len(steps) \in Nat, NEW within \in Clock,
           NEW k \in 1..Len(steps)
    PROVE  Walks(log, c, steps, within, k) <=>
              MatchedSteps(log, c, steps, Deadline(log, c, steps, within))[k] # NoTime
  <1> DEFINE d == Deadline(log, c, steps, within)
             E == Occurrences(log, c, steps[1])
             M == MatchedSteps(log, c, steps, d)
             Legs(w) == \A i \in 1..k :
                 /\ w[i] \in Occurrences(log, c, steps[i])
                 /\ i > 1 => log[w[i - 1]].ts <= log[w[i]].ts
                 /\ within # NoTime => \A e \in E : log[w[i]].ts <= log[e].ts + within
  <1>1. Walks(log, c, steps, within, k) <=> \E w \in [1..k -> DOMAIN log] : Legs(w)
    BY Zenon DEF Walks
  <1>2. ASSUME NEW w, E # {}
        PROVE  Legs(w) <=> Way(log, c, steps, d, k, w)
    <2>1. ASSUME NEW i \in 1..k, w[i] \in Occurrences(log, c, steps[i])
          PROVE  InTime(log[w[i]].ts, d) <=>
                    (within # NoTime => \A e \in E : log[w[i]].ts <= log[e].ts + within)
      <3>1. log[w[i]].ts \in Nat
        BY <2>1, StepTimes
      <3>. QED
        BY <1>2, <3>1, DeadlineIsFirstWindow
    <2> HIDE DEF d, E
    <2>. QED
      BY <2>1, Zenon DEF Way
  <1>3. 1 \in 1..k
    OBVIOUS
  <1>4. ASSUME NEW w, Legs(w) \/ Way(log, c, steps, d, k, w)
        PROVE  E # {}
    <2>1. w[1] \in E
      <3> HIDE DEF E, d
      <3>. QED
        BY <1>3, <1>4 DEF Way, E
    <2>. QED
      BY <2>1
  <1>5. ASSUME NEW w \in [1..k -> DOMAIN log], Legs(w)
        PROVE  M[k] # NoTime
    <2>1. Way(log, c, steps, d, k, w)
      <3> HIDE DEF Legs, d, E
      <3>. QED
        BY <1>2, <1>4, <1>5
    <2> HIDE DEF d
    <2>. QED
      BY <2>1, GreedyKeepsUp
  <1>6. ASSUME M[k] # NoTime
        PROVE  \E w \in [1..k -> DOMAIN log] : Legs(w)
    <2>1. PICK w \in [1..k -> DOMAIN log] : Way(log, c, steps, d, k, w)
      <3> HIDE DEF d
      <3>. QED
        BY <1>6, GreedyIsAWay
    <2>2. Legs(w)
      <3> HIDE DEF Legs, d, E
      <3>. QED
        BY <1>2, <1>4, <2>1
    <2> HIDE DEF Legs
    <2>. QED
      BY <2>2
  <1> HIDE DEF Legs, M
  <1>. QED
    BY <1>1, <1>5, <1>6, Zenon DEF M

(* The steps a user reached are the first ones, and those some way leads to. *)
LEMMA ReachedAreWalked ==
    ASSUME NEW log \in Logs, NEW c, NEW steps, Len(steps) \in Nat, NEW within \in Clock
    PROVE  /\ Reached(log, c, steps, within) \in 0..Len(steps)
           /\ {k \in 1..Len(steps) : Walks(log, c, steps, within, k)}
                 = 1..Reached(log, c, steps, within)
  <1> DEFINE N == Len(steps)
             d == Deadline(log, c, steps, within)
             M == MatchedSteps(log, c, steps, d)
             S == {k \in 1..N : M[k] # NoTime}
  <1>1. Reached(log, c, steps, within) = Cardinality(S)
    BY Zenon DEF Reached
  <1>2. ASSUME NEW k \in 2..N, k \in S
        PROVE  k - 1 \in S
    <2>1. k \in 1..N /\ k - 1 \in 1..N /\ k - 1 \in 0..k /\ M[k] # NoTime
      BY <1>2
    <2>2. \A i \in 0..k : M[i] # NoTime
      <3> HIDE DEF d
      <3>. QED
        BY <2>1, MatchedBefore
    <2> HIDE DEF M
    <2>. QED
      BY <2>1, <2>2
  <1>3. S = 1..Cardinality(S) /\ Cardinality(S) \in 0..N
    <2>1. S \in SUBSET (1..N) /\ N \in Nat
      OBVIOUS
    <2> HIDE DEF S, N
    <2>. QED
      BY <1>2, <2>1, PrefixCount
  <1>4. S = {k \in 1..N : Walks(log, c, steps, within, k)}
    <2>1. \A k \in 1..N : Walks(log, c, steps, within, k) <=> M[k] # NoTime
      BY MatchedIfWalked
    <2> HIDE DEF M
    <2>. QED
      BY <2>1
  <1> HIDE DEF S
  <1>. QED
    BY <1>1, <1>3, <1>4

(* A log that grows keeps its customers, and every way without a window.   *)
LEMMA WaysLast ==
    ASSUME NEW log \in Logs, NEW ev \in Footprints, NEW c, NEW steps, NEW k \in Nat,
           Walks(log, c, steps, NoTime, k)
    PROVE  Walks(Append(log, ev), c, steps, NoTime, k)
  <1> DEFINE longer == Append(log, ev)
  <1>1. /\ DOMAIN log \subseteq DOMAIN longer
        /\ \A i \in DOMAIN log : longer[i] = log[i]
    <2>1. /\ Len(log) \in Nat /\ DOMAIN log = 1..Len(log)
          /\ Len(longer) = Len(log) + 1 /\ DOMAIN longer = 1..Len(longer)
          /\ \A i \in 1..Len(log) : longer[i] = log[i]
      BY DEF Logs
    <2> HIDE DEF longer
    <2>. QED
      BY <2>1
  <1> HIDE DEF longer
  <1>2. PICK w \in [1..k -> DOMAIN log] : \A i \in 1..k :
           /\ w[i] \in Occurrences(log, c, steps[i])
           /\ i > 1 => log[w[i - 1]].ts <= log[w[i]].ts
    BY Zenon DEF Walks
  <1>3. w \in [1..k -> DOMAIN longer]
    BY <1>1
  <1>4. \A name : Occurrences(log, c, name) \subseteq Occurrences(longer, c, name)
    BY <1>1 DEF Occurrences
  <1>5. ASSUME NEW i \in 1..k
        PROVE  /\ w[i] \in Occurrences(longer, c, steps[i])
               /\ i > 1 => longer[w[i - 1]].ts <= longer[w[i]].ts
    <2>1. w[i] \in DOMAIN log /\ (i > 1 => w[i - 1] \in DOMAIN log)
      OBVIOUS
    <2>. QED
      BY <1>1, <1>2, <1>4, <2>1
  <1>6. \E v \in [1..k -> DOMAIN longer] : \A i \in 1..k :
           /\ v[i] \in Occurrences(longer, c, steps[i])
           /\ i > 1 => longer[v[i - 1]].ts <= longer[v[i]].ts
    BY <1>3, <1>5
  <1>. QED
    BY <1>6, Zenon DEF Walks, longer

(* A log that grows loses no customer and no occurrence.                   *)
LEMMA CustomersStay ==
    ASSUME NEW log \in Logs, NEW ev
    PROVE  /\ CustomersOf(log) \subseteq CustomersOf(Append(log, ev))
           /\ IsFiniteSet(CustomersOf(log))
  <1>1. /\ Len(log) \in Nat /\ DOMAIN log = 1..Len(log)
        /\ Len(Append(log, ev)) = Len(log) + 1
        /\ DOMAIN Append(log, ev) = 1..Len(Append(log, ev))
        /\ \A i \in 1..Len(log) : Append(log, ev)[i] = log[i]
    BY DEF Logs
  <1>2. DOMAIN log \subseteq DOMAIN Append(log, ev)
    BY <1>1
  <1>3. CustomersOf(log) \subseteq CustomersOf(Append(log, ev))
    <2> DEFINE longer == Append(log, ev)
    <2> HIDE DEF longer
    <2>1. \A i \in DOMAIN log : longer[i].customer_id = log[i].customer_id /\ i \in DOMAIN longer
      BY <1>1, <1>2 DEF longer
    <2>2. CustomersOf(log) \subseteq CustomersOf(longer)
      BY <2>1 DEF CustomersOf
    <2>. QED
      BY <2>2 DEF longer
  <1>4. IsFiniteSet(CustomersOf(log))
    <2> DEFINE C == CustomersOf(log)
               f == [i \in 1..Len(log) |-> log[i].customer_id]
    <2>1. C = {log[i].customer_id : i \in 1..Len(log)}
      BY <1>1 DEF CustomersOf
    <2>2. f \in Surjection(1..Len(log), C)
      <3> HIDE DEF C
      <3>1. f \in [1..Len(log) -> C]
        BY <2>1
      <3>2. \A x \in C : \E i \in 1..Len(log) : f[i] = x
        BY <2>1
      <3>. QED
        BY <3>1, <3>2 DEF Surjection
    <2>3. IsFiniteSet(1..Len(log))
      BY <1>1, FS_Interval
    <2> HIDE DEF f, C
    <2>4. IsFiniteSet(C)
      BY <2>2, <2>3, FS_Surjection
    <2>. QED
      BY <2>4 DEF C
  <1>. QED
    BY <1>3, <1>4

(* A log that grows takes no customer out of a step.                       *)
LEMMA FunnelGrows ==
    ASSUME NEW log \in Logs, NEW ev \in Footprints, NEW steps \in Funnels,
           NEW k \in 1..Len(steps)
    PROVE  StepCounts(log, steps, NoTime)[k] <= StepCounts(Append(log, ev), steps, NoTime)[k]
  <1> DEFINE longer == Append(log, ev)
             A == ReachedBy(log, steps, NoTime, k)
             B == ReachedBy(longer, steps, NoTime, k)
  <1>1. longer \in Logs
    BY DEF Logs
  <1>2. Len(steps) \in Nat /\ k \in Nat /\ NoTime \in Clock
    BY JourneysAssumption DEF Clock
  <1>3. ASSUME NEW l \in Logs, NEW c
        PROVE  /\ Reached(l, c, steps, NoTime) \in 0..Len(steps)
               /\ Walks(l, c, steps, NoTime, k) <=> k \in 1..Reached(l, c, steps, NoTime)
    <2>1. /\ Reached(l, c, steps, NoTime) \in 0..Len(steps)
          /\ {n \in 1..Len(steps) : Walks(l, c, steps, NoTime, n)}
                = 1..Reached(l, c, steps, NoTime)
      BY <1>2, ReachedAreWalked
    <2>. QED
      BY <2>1
  <1>4. \A l \in Logs : \A c :
           Reached(l, c, steps, NoTime) >= k <=> Walks(l, c, steps, NoTime, k)
    <2> SUFFICES ASSUME NEW l \in Logs, NEW c
                 PROVE  Reached(l, c, steps, NoTime) >= k <=> Walks(l, c, steps, NoTime, k)
      OBVIOUS
    <2> DEFINE r == Reached(l, c, steps, NoTime)
    <2>1. r \in 0..Len(steps) /\ (Walks(l, c, steps, NoTime, k) <=> k \in 1..r)
      BY <1>3
    <2> HIDE DEF r
    <2>2. r >= k <=> k \in 1..r
      BY <1>2, <2>1
    <2>. QED
      BY <2>1, <2>2 DEF r
  <1> HIDE DEF longer
  <1>5. ASSUME NEW c \in A
        PROVE  c \in B
    <2>1. c \in CustomersOf(log) /\ Reached(log, c, steps, NoTime) >= k
      BY DEF ReachedBy
    <2>2. c \in CustomersOf(longer)
      BY <2>1, CustomersStay DEF longer
    <2>3. Walks(longer, c, steps, NoTime, k)
      BY <1>2, <1>4, <2>1, WaysLast DEF longer
    <2>4. Reached(longer, c, steps, NoTime) >= k
      BY <1>1, <1>4, <2>3
    <2>. QED
      BY <2>2, <2>4 DEF ReachedBy
  <1>6. IsFiniteSet(B)
    <2>1. IsFiniteSet(CustomersOf(longer)) /\ B \in SUBSET CustomersOf(longer)
      BY <1>1, CustomersStay DEF ReachedBy
    <2> HIDE DEF B
    <2>. QED
      BY <2>1, FS_Subset
  <1>7. Cardinality(A) <= Cardinality(B)
    <2> HIDE DEF A, B
    <2>. QED
      BY <1>5, <1>6, FS_Subset
  <1>8. /\ StepCounts(log, steps, NoTime)[k] = Cardinality(A)
        /\ StepCounts(longer, steps, NoTime)[k] = Cardinality(B)
    BY DEF StepCounts
  <1> HIDE DEF A, B
  <1>. QED
    BY <1>7, <1>8 DEF longer

(* Both logs hold what was recorded.                                       *)
JourneyTyped == journey \in Logs /\ touches \in Seq(Touches)

(* The log and the touches have their types in every state.                *)
LEMMA JourneyTypedAlways == JourneySpec => []JourneyTyped
  <1>1. JourneyInit => JourneyTyped
    BY DEF JourneyInit, JourneyTyped, Logs
  <1>2. JourneyTyped /\ [JourneyNext]_journeyVars => JourneyTyped'
    <2> SUFFICES ASSUME JourneyTyped, [JourneyNext]_journeyVars
                 PROVE  JourneyTyped'
      OBVIOUS
    <2>1. ASSUME NEW ev \in Footprints, Happen(ev)
          PROVE  JourneyTyped'
      BY <2>1 DEF JourneyTyped, Logs, Happen
    <2>2. ASSUME NEW rec \in Touches, Touch(rec)
          PROVE  JourneyTyped'
      BY <2>2 DEF JourneyTyped, Logs, Touch
    <2>3. CASE UNCHANGED journeyVars
      BY <2>3 DEF JourneyTyped, Logs, journeyVars
    <2>. QED
      BY <2>1, <2>2, <2>3 DEF JourneyNext
  <1>. QED
    BY <1>1, <1>2, PTL DEF JourneySpec

(* The greedy match reaches every step some choice of occurrences          *)
(* reaches.                                                                *)
LEMMA FunnelsAreGreedy == JourneyTyped => GreedyIsDeepest
  <1> SUFFICES ASSUME JourneyTyped, NEW c \in CustomersOf(journey), NEW steps \in Funnels,
                      NEW within \in Windows
               PROVE  {k \in 1..Len(steps) : Walks(journey, c, steps, within, k)}
                         = 1..Reached(journey, c, steps, within)
    BY DEF GreedyIsDeepest
  <1>1. journey \in Logs /\ Len(steps) \in Nat /\ within \in Clock
    BY JourneysAssumption DEF JourneyTyped, Clock
  <1>. QED
    BY <1>1, ReachedAreWalked

(* Funnels, for any events, steps and windows: the greedy match of          *)
(* compute_funnel is as deep as any way through the events, and without a   *)
(* window no event, however late, takes a user back.                        *)
THEOREM FunnelsAreDeepest == JourneySpec => []GreedyIsDeepest /\ FunnelOnlyGrows
  <1>1. JourneyTyped /\ [JourneyNext]_journeyVars =>
           [\A steps \in Funnels : \A k \in 1..Len(steps) :
               StepCounts(journey, steps, NoTime)[k]
                  <= StepCounts(journey', steps, NoTime)[k]]_journeyVars
    <2> SUFFICES ASSUME JourneyTyped, [JourneyNext]_journeyVars, journeyVars' # journeyVars,
                        NEW steps \in Funnels, NEW k \in 1..Len(steps)
                 PROVE  StepCounts(journey, steps, NoTime)[k]
                           <= StepCounts(journey', steps, NoTime)[k]
      OBVIOUS
    <2>1. journey \in Logs
      BY DEF JourneyTyped
    <2>2. ASSUME NEW ev \in Footprints, Happen(ev)
          PROVE  StepCounts(journey, steps, NoTime)[k] <= StepCounts(journey', steps, NoTime)[k]
      <3>1. journey' = Append(journey, ev)
        BY <2>2 DEF Happen
      <3>. QED
        BY <2>1, <3>1, FunnelGrows
    <2>3. ASSUME NEW rec \in Touches, Touch(rec)
          PROVE  StepCounts(journey, steps, NoTime)[k] <= StepCounts(journey', steps, NoTime)[k]
      <3>1. journey' = journey
        BY <2>3 DEF Touch
      <3>2. StepCounts(journey, steps, NoTime)[k] \in Nat
        <4>1. StepCounts(journey, steps, NoTime)[k] = Cardinality(ReachedBy(journey, steps, NoTime, k))
          BY DEF StepCounts
        <4>2. /\ IsFiniteSet(CustomersOf(journey))
              /\ ReachedBy(journey, steps, NoTime, k) \in SUBSET CustomersOf(journey)
          BY <2>1, CustomersStay DEF ReachedBy
        <4>. QED
          BY <4>1, <4>2, FS_Subset, FS_CardinalityType
      <3>. QED
        BY <3>1, <3>2
    <2>. QED
      BY <2>2, <2>3 DEF JourneyNext
  <1>. QED
    BY <1>1, JourneyTypedAlways, FunnelsAreGreedy, PTL DEF JourneySpec, FunnelOnlyGrows

-----------------------------------------------------------------------------
(* Attribution over any logs.                                              *)
TouchLogs == Seq(Touches)

(* Touches are numbered from 1 and have natural times.                     *)
LEMMA TouchTimes ==
    ASSUME NEW log \in TouchLogs
    PROVE  /\ DOMAIN log = 1..Len(log) /\ Len(log) \in Nat
           /\ \A i \in DOMAIN log : log[i].ts \in Nat
  <1>1. DOMAIN log = 1..Len(log) /\ Len(log) \in Nat
    BY DEF TouchLogs
  <1>2. \A i \in DOMAIN log : log[i] \in Touches
    BY DEF TouchLogs
  <1>. QED
    BY <1>1, <1>2, JourneysAssumption

(* The order of a stable sort by time is total.                            *)
LEMMA SortedIsTotal ==
    ASSUME NEW log \in TouchLogs
    PROVE  \A i, j, k \in DOMAIN log :
              /\ Sorted(log, i, i)
              /\ Sorted(log, i, j) \/ Sorted(log, j, i)
              /\ Sorted(log, i, j) /\ Sorted(log, j, i) => i = j
              /\ Sorted(log, i, j) /\ Sorted(log, j, k) => Sorted(log, i, k)
  <1> SUFFICES ASSUME NEW i \in DOMAIN log, NEW j \in DOMAIN log, NEW k \in DOMAIN log
               PROVE  /\ Sorted(log, i, i)
                      /\ Sorted(log, i, j) \/ Sorted(log, j, i)
                      /\ Sorted(log, i, j) /\ Sorted(log, j, i) => i = j
                      /\ Sorted(log, i, j) /\ Sorted(log, j, k) => Sorted(log, i, k)
    OBVIOUS
  <1>1. /\ i \in Nat /\ j \in Nat /\ k \in Nat
        /\ log[i].ts \in Nat /\ log[j].ts \in Nat /\ log[k].ts \in Nat
    BY TouchTimes
  <1>. QED
    BY <1>1 DEF Sorted

(* By a model, i goes before all the touches of E.                         *)
Extreme(log, E, model, i) ==
    \A j \in E : IF model = "first_touch" THEN Sorted(log, i, j) ELSE Sorted(log, j, i)

(* Eligible touches, once sorted by time, have a first and a last.         *)
LEMMA SomeIsExtreme ==
    ASSUME NEW log \in TouchLogs, NEW E \in SUBSET DOMAIN log, E # {}, NEW model
    PROVE  \E i \in E : Extreme(log, E, model, i)
  <1> DEFINE n == Len(log)
             F(k) == E \cap (1..k)
             P == {k \in 0..n : F(k) = {} \/ \E i \in F(k) : Extreme(log, F(k), model, i)}
  <1>1. n \in Nat /\ DOMAIN log = 1..n
    BY TouchTimes
  <1>2. 0 \in P
    BY <1>1
  <1>3. ASSUME NEW k \in 1..n, k - 1 \in P
        PROVE  k \in P
    <2>1. k \in 0..n
      BY <1>1
    <2>2. CASE k \notin E
      <3>1. F(k) = F(k - 1)
        BY <2>2
      <3> HIDE DEF F, n
      <3>. QED
        BY <1>3, <2>1, <3>1
    <2>3. CASE k \in E
      <3>1. F(k) = F(k - 1) \cup {k} /\ k \in DOMAIN log
        BY <1>1, <2>3
      <3>2. F(k - 1) \subseteq DOMAIN log
        OBVIOUS
      <3> HIDE DEF F, n
      <3>3. CASE F(k - 1) = {}
        <4>1. Extreme(log, F(k), model, k)
          BY <3>1, <3>3, SortedIsTotal DEF Extreme
        <4>. QED
          BY <2>1, <3>1, <4>1
      <3>4. CASE F(k - 1) # {}
        <4>1. PICK i \in F(k - 1) : Extreme(log, F(k - 1), model, i)
          BY <1>3, <3>4
        <4>2. i \in DOMAIN log
          BY <3>2
        <4>3. \/ Extreme(log, F(k), model, i)
              \/ Extreme(log, F(k), model, k)
          <5>1. CASE model = "first_touch"
            <6>1. CASE Sorted(log, i, k)
              BY <3>1, <4>1, <5>1, <6>1 DEF Extreme
            <6>2. CASE Sorted(log, k, i)
              BY <3>1, <3>2, <4>1, <4>2, <5>1, <6>2, SortedIsTotal DEF Extreme
            <6>. QED
              BY <3>1, <4>2, <6>1, <6>2, SortedIsTotal
          <5>2. CASE model # "first_touch"
            <6>1. CASE Sorted(log, k, i)
              BY <3>1, <4>1, <5>2, <6>1 DEF Extreme
            <6>2. CASE Sorted(log, i, k)
              BY <3>1, <3>2, <4>1, <4>2, <5>2, <6>2, SortedIsTotal DEF Extreme
            <6>. QED
              BY <3>1, <4>2, <6>1, <6>2, SortedIsTotal
          <5>. QED
            BY <5>1, <5>2
        <4>. QED
          BY <2>1, <3>1, <4>3
      <3>. QED
        BY <3>3, <3>4
    <2>. QED
      BY <2>2, <2>3
  <1>4. \A k \in 0..n : k \in P
    <2> HIDE DEF P, n
    <2>. QED
      BY <1>1, <1>2, <1>3, InductionUp
  <1>5. F(n) = E /\ n \in 0..n
    BY <1>1
  <1>6. n \in P
    <2> HIDE DEF P, n
    <2>. QED
      BY <1>4, <1>5
  <1> HIDE DEF F, n
  <1>. QED
    BY <1>5, <1>6

(* The chosen touch is the extreme one, and the only one.                  *)
LEMMA ChosenIsExtreme ==
    ASSUME NEW log \in TouchLogs, NEW E \in SUBSET DOMAIN log, E # {}, NEW model
    PROVE  /\ Chosen(log, E, model) \in E /\ Extreme(log, E, model, Chosen(log, E, model))
           /\ \A i \in E : Extreme(log, E, model, i) => i = Chosen(log, E, model)
  <1> DEFINE x == Chosen(log, E, model)
  <1>1. x = CHOOSE i \in E : Extreme(log, E, model, i)
    BY Zenon DEF Chosen, Extreme
  <1>2. x \in E /\ Extreme(log, E, model, x)
    <2> HIDE DEF x
    <2>. QED
      BY <1>1, SomeIsExtreme, Zenon
  <1> HIDE DEF x
  <1>3. ASSUME NEW i \in E, Extreme(log, E, model, i)
        PROVE  i = x
    <2>1. Sorted(log, i, x) /\ Sorted(log, x, i)
      BY <1>2, <1>3 DEF Extreme
    <2>. QED
      BY <1>2, <2>1, SortedIsTotal
  <1>. QED
    BY <1>2, <1>3 DEF x

(* The conversions of a log are finitely many, and so are any of them.     *)
LEMMA ConversionsAreFinite ==
    ASSUME NEW trail \in Logs, NEW C \in SUBSET Conversions(trail)
    PROVE  IsFiniteSet(C) /\ Cardinality(C) \in Nat
  <1>1. IsFiniteSet(1..Len(trail)) /\ C \in SUBSET (1..Len(trail))
    <2>1. Len(trail) \in Nat /\ DOMAIN trail = 1..Len(trail)
      BY LoggedTimes
    <2>2. Conversions(trail) \in SUBSET DOMAIN trail
      BY DEF Conversions
    <2>. QED
      BY <2>1, <2>2, FS_Interval
  <1>. QED
    BY <1>1, FS_Subset, FS_CardinalityType

(* Every conversion with an eligible touch is credited to one campaign.    *)
LEMMA CreditsAreShared ==
    ASSUME NEW trail \in Logs, NEW log \in TouchLogs, NEW model
    PROVE  /\ \A c : Credits(trail, log, c, model) \in SUBSET Conversions(trail)
           /\ \A c, d : c # d =>
                 Credits(trail, log, c, model) \cap Credits(trail, log, d, model) = {}
           /\ \A i \in Conversions(trail) :
                 Eligible(log, trail[i]) # {} <=>
                    \E c \in Campaigns(log) : i \in Credits(trail, log, c, model)
  <1> DEFINE E(i) == Eligible(log, trail[i])
             by(i) == log[Chosen(log, E(i), model)].campaign_id
  <1>1. \A c : Credits(trail, log, c, model) = {i \in Conversions(trail) : E(i) # {} /\ by(i) = c}
    BY Zenon DEF Credits
  <1>2. ASSUME NEW i \in Conversions(trail), E(i) # {}
        PROVE  by(i) \in Campaigns(log)
    <2>1. E(i) \in SUBSET Sent(log) /\ Sent(log) \in SUBSET DOMAIN log
      BY DEF Eligible, Sent
    <2> DEFINE x == Chosen(log, E(i), model)
    <2>2. x \in E(i)
      <3> HIDE DEF E
      <3>. QED
        BY <1>2, <2>1, ChosenIsExtreme
    <2> HIDE DEF x, E
    <2>3. x \in Sent(log)
      BY <2>1, <2>2
    <2>4. log[x].campaign_id \in Campaigns(log)
      BY <2>3 DEF Campaigns
    <2>. QED
      BY <2>4 DEF x
  <1> HIDE DEF E, by
  <1>3. \A c : Credits(trail, log, c, model) \in SUBSET Conversions(trail)
    BY <1>1
  <1>4. \A c, d : c # d => Credits(trail, log, c, model) \cap Credits(trail, log, d, model) = {}
    BY <1>1
  <1>5. \A i \in Conversions(trail) :
           E(i) # {} <=> \E c \in Campaigns(log) : i \in Credits(trail, log, c, model)
    BY <1>1, <1>2
  <1>. QED
    BY <1>3, <1>4, <1>5 DEF E

(* The campaigns of a list of touches are finitely many.                   *)
LEMMA CampaignsAreFinite ==
    ASSUME NEW log \in TouchLogs
    PROVE  IsFiniteSet(Campaigns(log)) /\ IsFiniteSet(Sent(log))
  <1> DEFINE S == Sent(log)
             C == Campaigns(log)
             f == [i \in S |-> log[i].campaign_id]
  <1>1. S \in SUBSET (1..Len(log)) /\ IsFiniteSet(1..Len(log))
    <2>1. Len(log) \in Nat /\ DOMAIN log = 1..Len(log)
      BY TouchTimes
    <2>2. S \in SUBSET DOMAIN log
      BY DEF Sent
    <2> HIDE DEF S
    <2>. QED
      BY <2>1, <2>2, FS_Interval
  <1>2. C = {log[i].campaign_id : i \in S}
    BY DEF Campaigns
  <1> HIDE DEF S, C
  <1>3. IsFiniteSet(S)
    BY <1>1, FS_Subset
  <1>4. f \in Surjection(S, C)
    <2>1. f \in [S -> C]
      BY <1>2
    <2>2. \A x \in C : \E i \in S : f[i] = x
      BY <1>2
    <2>. QED
      BY <2>1, <2>2 DEF Surjection
  <1> HIDE DEF f
  <1>5. IsFiniteSet(C)
    BY <1>3, <1>4, FS_Surjection
  <1>. QED
    BY <1>3, <1>5 DEF S, C

(* The library's sum over the campaigns is one of Sums.                    *)
LEMMA CreditsAreSummed ==
    ASSUME NEW trail, NEW log \in TouchLogs, NEW m
    PROVE  LET S == Campaigns(log)
               g == [c \in S |-> Credited(trail, log, c, m)]
           IN  \E f : /\ Sums(f, SUBSET S, g)
                      /\ TotalCredited(trail, log, m) = f[S]
  <1> DEFINE S == Campaigns(log)
             g == [c \in S |-> Credited(trail, log, c, m)]
             P(f) == f = [s \in SUBSET S |-> IF s = {} THEN 0
                             ELSE Credited(trail, log, Pick(s), m) + f[s \ {Pick(s)}]]
  <1>1. TotalCredited(trail, log, m) = (CHOOSE f : P(f))[S]
    BY Zenon DEF TotalCredited, MapThenSumSet, MapThenFoldSet, Pick
  <1>2. IsFiniteSet(S)
    BY CampaignsAreFinite
  <1>3. PICK h : Sums(h, SUBSET S, g)
    <2> HIDE DEF S, g
    <2>. QED
      BY <1>2, SumsExist
  <1>4. \A f : P(f) <=> Sums(f, SUBSET S, g)
    <2>1. ASSUME NEW s \in SUBSET S, s # {}
          PROVE  g[Pick(s)] = Credited(trail, log, Pick(s), m)
      <3>1. Pick(s) \in S
        BY <2>1 DEF Pick
      <3> HIDE DEF S
      <3>. QED
        BY <3>1
    <2> HIDE DEF S, g
    <2>2. ASSUME NEW f
          PROVE  [s \in SUBSET S |-> IF s = {} THEN 0
                     ELSE Credited(trail, log, Pick(s), m) + f[s \ {Pick(s)}]]
                   = [s \in SUBSET S |-> IF s = {} THEN 0 ELSE g[Pick(s)] + f[s \ {Pick(s)}]]
      BY <2>1, Zenon
    <2>. QED
      BY <2>2, Zenon DEF Sums
  <1> HIDE DEF P, S, g
  <1>5. P(CHOOSE f : P(f))
    BY <1>3, <1>4, Zenon
  <1>. QED
    BY <1>1, <1>4, <1>5, Zenon DEF S, g

(* What the campaigns are credited with is what was credited at all.       *)
LEMMA ConversionsAddUp ==
    ASSUME NEW trail \in Logs, NEW log \in TouchLogs, NEW m
    PROVE  TotalCredited(trail, log, m) + Cardinality(Unattributed(trail, log))
              = Cardinality(Conversions(trail))
  <1> DEFINE S == Campaigns(log)
             g == [c \in S |-> Credited(trail, log, c, m)]
             A == [c \in S |-> Credits(trail, log, c, m)]
             total == TotalCredited(trail, log, m)
             All == UNION {A[c] : c \in S}
             U == Unattributed(trail, log)
             C == Conversions(trail)
  <1>1. PICK f : Sums(f, SUBSET S, g) /\ total = f[S]
    BY CreditsAreSummed, Zenon
  <1>2. IsFiniteSet(S)
    BY CampaignsAreFinite
  <1>3. /\ \A c : Credits(trail, log, c, m) \in SUBSET C
        /\ \A c, d : c # d => Credits(trail, log, c, m) \cap Credits(trail, log, d, m) = {}
        /\ \A i \in C : Eligible(log, trail[i]) # {} <=>
              \E c \in S : i \in Credits(trail, log, c, m)
    BY CreditsAreShared
  <1>4. \A c \in S : A[c] = Credits(trail, log, c, m) /\ g[c] = Credited(trail, log, c, m)
    <2> HIDE DEF S
    <2>. QED
      OBVIOUS
  <1>5. /\ \A c \in S : IsFiniteSet(A[c]) /\ g[c] = Cardinality(A[c])
        /\ \A c, d \in S : c # d => A[c] \cap A[d] = {}
    <2> HIDE DEF S, A, g
    <2>1. \A c \in S : IsFiniteSet(A[c]) /\ g[c] = Cardinality(A[c])
      BY <1>3, <1>4, ConversionsAreFinite DEF Credited, C
    <2>2. \A c, d \in S : c # d => A[c] \cap A[d] = {}
      BY <1>3, <1>4
    <2>. QED
      BY <2>1, <2>2
  <1>6. IsFiniteSet(All) /\ total = Cardinality(All)
    <2>1. IsFiniteSet(All) /\ f[S] = Cardinality(All)
      <3> HIDE DEF S, A, g
      <3>. QED
        BY <1>1, <1>2, <1>5, SumOfDisjoint
    <2> HIDE DEF total, All, S
    <2>. QED
      BY <1>1, <2>1
  <1>7. C = All \cup U /\ All \cap U = {}
    <2>1. U = {i \in C : Eligible(log, trail[i]) = {}}
      BY DEF Unattributed
    <2>2. \A i : i \in All <=> \E c \in S : i \in Credits(trail, log, c, m)
      <3> HIDE DEF S, A
      <3>. QED
        BY <1>4
    <2> HIDE DEF All, U, C, S
    <2>. QED
      BY <1>3, <2>1, <2>2
  <1>8. IsFiniteSet(U) /\ Cardinality(U) \in Nat /\ Cardinality(All) \in Nat
    <2>1. U \in SUBSET C
      BY DEF Unattributed
    <2> HIDE DEF All, U, C
    <2>. QED
      BY <1>6, <2>1, ConversionsAreFinite, FS_CardinalityType DEF C
  <1> HIDE DEF total, All, U, C
  <1>9. Cardinality({}) = 0
    BY FS_EmptySet, Zenon
  <1>10. Cardinality(All \cup U) = Cardinality(All) + Cardinality(U) - Cardinality({})
    BY <1>6, <1>7, <1>8, FS_Union
  <1>11. total + Cardinality(U) = Cardinality(C)
    BY <1>6, <1>7, <1>8, <1>9, <1>10
  <1>. QED
    BY <1>11 DEF total, U, C, S

(* Each conversion is credited to one campaign or to none.                 *)
LEMMA EveryConversionIsCounted == JourneyTyped => EveryConversionCounts
  <1> SUFFICES ASSUME JourneyTyped, NEW m \in Models
               PROVE  /\ TotalCredited(journey, touches, m)
                            + Cardinality(Unattributed(journey, touches))
                               = Cardinality(Conversions(journey))
                      /\ \A c \in Campaigns(touches) : Credited(journey, touches, c, m) <=
                            Cardinality({i \in Conversions(journey) : Lasting(c, journey[i])})
    BY Zenon DEF EveryConversionCounts
  <1>1. journey \in Logs /\ touches \in TouchLogs
    BY DEF JourneyTyped, TouchLogs
  <1>2. TotalCredited(journey, touches, m) + Cardinality(Unattributed(journey, touches))
           = Cardinality(Conversions(journey))
    BY <1>1, ConversionsAddUp
  <1>3. ASSUME NEW c \in Campaigns(touches)
        PROVE  Credited(journey, touches, c, m) <=
                  Cardinality({i \in Conversions(journey) : Lasting(c, journey[i])})
    <2> DEFINE A == Credits(journey, touches, c, m)
               B == {i \in Conversions(journey) : Lasting(c, journey[i])}
    <2>1. ASSUME NEW i \in A
          PROVE  i \in B
      <3> DEFINE E == Eligible(touches, journey[i])
                 x == Chosen(touches, E, m)
      <3>1. i \in Conversions(journey) /\ E # {} /\ touches[x].campaign_id = c
        BY DEF Credits
      <3>2. E \in SUBSET DOMAIN touches
        BY DEF Eligible, Sent
      <3>3. x \in E
        <4> HIDE DEF E
        <4>. QED
          BY <1>1, <3>1, <3>2, ChosenIsExtreme
      <3>4. journey[i].ts \in Nat
        BY <1>1, <3>1, LoggedTimes DEF Conversions
      <3> HIDE DEF x
      <3>5. /\ x \in DOMAIN touches /\ touches[x].status = "sent"
            /\ touches[x].customer_id = journey[i].customer_id
            /\ touches[x].ts <= journey[i].ts /\ journey[i].ts - touches[x].ts <= Hours
        BY <3>3 DEF Eligible, Sent
      <3> HIDE DEF E
      <3>6. touches[x].ts \in Nat /\ Hours \in Nat
        BY <1>1, <3>5, TouchTimes, JourneysAssumption
      <3>7. touches[x].ts \in (journey[i].ts - Hours)..journey[i].ts
        BY <3>4, <3>5, <3>6
      <3>8. Lasting(c, journey[i])
        BY <3>1, <3>5, <3>7 DEF Lasting, x
      <3>. QED
        BY <3>1, <3>8
    <2>2. B \in SUBSET Conversions(journey)
      OBVIOUS
    <2> HIDE DEF A, B
    <2>3. Cardinality(A) <= Cardinality(B)
      BY <1>1, <2>1, <2>2, ConversionsAreFinite, FS_Subset
    <2>. QED
      BY <2>3 DEF A, B, Credited
  <1>. QED
    BY <1>2, <1>3

(* The records of a campaign and the users they were sent to.              *)
LEMMA ReportsAlwaysAgree == JourneyTyped => ReportsAgree
  <1> SUFFICES ASSUME JourneyTyped, NEW c \in Campaigns(touches)
               PROVE  /\ Stats(touches, c).sent >= Cardinality(SentUsers(touches, c))
                      /\ Stats(touches, c).sent = Cardinality(SentUsers(touches, c)) <=>
                            \A i, j \in Impressions(touches, c) :
                                i # j => touches[i].customer_id # touches[j].customer_id
    BY DEF ReportsAgree
  <1> DEFINE I == Impressions(touches, c)
             U == SentUsers(touches, c)
             f == [i \in I |-> touches[i].customer_id]
  <1>1. touches \in TouchLogs
    BY DEF JourneyTyped, TouchLogs
  <1>2. I \in SUBSET Sent(touches)
    BY DEF Impressions
  <1>3. U = {touches[i].customer_id : i \in I}
    BY DEF SentUsers
  <1>4. Stats(touches, c).sent = Cardinality(I)
    BY DEF Stats
  <1> HIDE DEF I, U
  <1>5. IsFiniteSet(I) /\ Cardinality(I) \in Nat
    BY <1>1, <1>2, CampaignsAreFinite, FS_Subset, FS_CardinalityType
  <1>6. f \in Surjection(I, U)
    <2>1. f \in [I -> U]
      BY <1>3
    <2>2. \A x \in U : \E i \in I : f[i] = x
      BY <1>3
    <2>. QED
      BY <2>1, <2>2 DEF Surjection
  <1>7. f \in Injection(I, U) <=>
           \A i, j \in I : i # j => touches[i].customer_id # touches[j].customer_id
    <2>1. f \in [I -> U] /\ \A i \in I : f[i] = touches[i].customer_id
      BY <1>3
    <2> HIDE DEF f
    <2>. QED
      BY <2>1, Zenon DEF Injection, IsInjective
  <1> HIDE DEF f
  <1>8. /\ Cardinality(U) <= Cardinality(I)
        /\ Cardinality(U) = Cardinality(I) <=> f \in Injection(I, U)
        /\ IsFiniteSet(U)
    BY <1>5, <1>6, FS_Surjection
  <1>9. Cardinality(U) \in Nat
    BY <1>8, FS_CardinalityType
  <1>. QED
    BY <1>4, <1>5, <1>7, <1>8, <1>9 DEF I, U

(* Funnels and attribution, for any events, touches, steps and windows: the *)
(* greedy match is the deepest, every conversion counts once and the two    *)
(* reports of a campaign agree.                                             *)
THEOREM JourneysCounted == JourneySpec => []JourneysAreCounted
  BY JourneyTypedAlways, FunnelsAreGreedy, EveryConversionIsCounted, ReportsAlwaysAgree, PTL
  DEF JourneysAreCounted

(* The model does not look at r beside the touches of E.                   *)
Overlooked(log, r, E, model) ==
    \A i \in E : IF model = "first_touch" THEN r.ts > log[i].ts ELSE r.ts < log[i].ts

(* A touch that the model does not look at changes no choice.              *)
LEMMA ChoiceIsKept ==
    ASSUME NEW log \in TouchLogs, NEW r \in Touches, NEW ev, NEW model,
           Eligible(log, ev) # {}, Overlooked(log, r, Eligible(log, ev), model)
    PROVE  /\ Eligible(Append(log, r), ev) # {}
           /\ Chosen(Append(log, r), Eligible(Append(log, r), ev), model)
                 = Chosen(log, Eligible(log, ev), model)
           /\ Append(log, r)[Chosen(log, Eligible(log, ev), model)].campaign_id
                 = log[Chosen(log, Eligible(log, ev), model)].campaign_id
  <1> DEFINE longer == Append(log, r)
             n == Len(log) + 1
             E == Eligible(log, ev)
             F == Eligible(longer, ev)
             x == Chosen(log, E, model)
  <1>1. /\ longer \in TouchLogs /\ DOMAIN log \subseteq DOMAIN longer
        /\ \A i \in DOMAIN log : longer[i] = log[i] /\ i <= n /\ i \in Nat
        /\ longer[n] = r /\ n \in DOMAIN longer /\ n \in Nat
        /\ \A i \in DOMAIN longer : i # n => i \in DOMAIN log
    <2>1. /\ Len(log) \in Nat /\ DOMAIN log = 1..Len(log) /\ longer \in TouchLogs
          /\ Len(longer) = n /\ DOMAIN longer = 1..Len(longer)
          /\ \A i \in 1..Len(log) : longer[i] = log[i]
          /\ longer[n] = r
      BY DEF TouchLogs
    <2> HIDE DEF longer
    <2>. QED
      BY <2>1
  <1> HIDE DEF longer, n
  <1>2. E \in SUBSET DOMAIN log /\ F \in SUBSET DOMAIN longer
    BY DEF Eligible, Sent
  <1>3. E \subseteq F /\ \A i \in F : i # n => i \in E
    BY <1>1 DEF Eligible, Sent
  <1>4. \A i \in DOMAIN log : log[i].ts \in Nat
    BY TouchTimes
  <1>5. r.ts \in Nat
    BY JourneysAssumption
  <1> HIDE DEF E, F, x
  <1>6. x \in E /\ Extreme(log, E, model, x)
    BY <1>2, ChosenIsExtreme DEF x, E
  <1>7. Extreme(longer, F, model, x)
    <2> SUFFICES ASSUME NEW j \in F
                 PROVE  IF model = "first_touch" THEN Sorted(longer, x, j)
                                                 ELSE Sorted(longer, j, x)
      BY DEF Extreme
    <2>1. CASE j = n
      <3>1. /\ longer[j].ts = r.ts /\ longer[x].ts = log[x].ts
            /\ IF model = "first_touch" THEN r.ts > log[x].ts ELSE r.ts < log[x].ts
        BY <1>1, <1>2, <1>6, <2>1 DEF E, Overlooked
      <3>2. log[x].ts \in Nat
        BY <1>2, <1>4, <1>6
      <3>. QED
        BY <1>5, <3>1, <3>2 DEF Sorted
    <2>2. CASE j # n
      <3>1. j \in E /\ longer[j] = log[j] /\ longer[x] = log[x]
        BY <1>1, <1>2, <1>3, <1>6, <2>2
      <3>2. IF model = "first_touch" THEN Sorted(log, x, j) ELSE Sorted(log, j, x)
        BY <1>6, <3>1 DEF Extreme
      <3>. QED
        BY <3>1, <3>2 DEF Sorted
    <2>. QED
      BY <2>1, <2>2
  <1>8. x \in F
    BY <1>3, <1>6
  <1>9. Chosen(longer, F, model) = x
    BY <1>1, <1>2, <1>7, <1>8, ChosenIsExtreme
  <1>10. longer[x].campaign_id = log[x].campaign_id
    BY <1>1, <1>2, <1>6
  <1>. QED
    BY <1>8, <1>9, <1>10 DEF E, F, x, longer

(* A touch that is not the extreme one a model reads takes no credit by it.*)
LEMMA CreditIsKept ==
    ASSUME NEW trail \in Logs, NEW log \in TouchLogs, NEW r \in Touches, NEW c, NEW model,
           \A i \in Sent(log) : log[i].customer_id = r.customer_id =>
               IF model = "first_touch" THEN r.ts > log[i].ts ELSE r.ts < log[i].ts
    PROVE  Credited(trail, log, c, model) <= Credited(trail, Append(log, r), c, model)
  <1> DEFINE longer == Append(log, r)
             A == Credits(trail, log, c, model)
             B == Credits(trail, longer, c, model)
  <1>1. /\ DOMAIN log \subseteq DOMAIN longer
        /\ \A i \in DOMAIN log : longer[i] = log[i]
        /\ \A i \in DOMAIN longer : i \notin DOMAIN log => longer[i] = r
    <2>1. /\ Len(log) \in Nat /\ DOMAIN log = 1..Len(log)
          /\ DOMAIN longer = 1..(Len(log) + 1)
          /\ \A i \in 1..Len(log) : longer[i] = log[i]
          /\ longer[Len(log) + 1] = r
      BY DEF TouchLogs
    <2> HIDE DEF longer
    <2>. QED
      BY <2>1
  <1>2. ASSUME NEW i \in A
        PROVE  i \in B
    <2> DEFINE ev == trail[i]
               E == Eligible(log, ev)
               F == Eligible(longer, ev)
               x == Chosen(log, E, model)
    <2>1. i \in Conversions(trail) /\ E # {} /\ log[x].campaign_id = c
      BY DEF Credits
    <2>2. CASE ev.customer_id = r.customer_id
      <3>1. Overlooked(log, r, E, model)
        BY <2>2 DEF Eligible, Overlooked
      <3> HIDE DEF longer
      <3>2. F # {} /\ Chosen(longer, F, model) = x /\ longer[x].campaign_id = log[x].campaign_id
        <4> HIDE DEF ev
        <4>1. log \in TouchLogs /\ r \in Touches
          OBVIOUS
        <4>2. Eligible(log, ev) # {} /\ Overlooked(log, r, Eligible(log, ev), model)
          BY <2>1, <3>1
        <4>3. /\ Eligible(Append(log, r), ev) # {}
              /\ Chosen(Append(log, r), Eligible(Append(log, r), ev), model)
                    = Chosen(log, Eligible(log, ev), model)
              /\ Append(log, r)[Chosen(log, Eligible(log, ev), model)].campaign_id
                    = log[Chosen(log, Eligible(log, ev), model)].campaign_id
          BY <4>1, <4>2, ChoiceIsKept, ZenonT(40)
        <4>. QED
          BY <4>3, Zenon DEF longer
      <3>. QED
        BY <2>1, <3>2, Zenon DEF Credits
    <2>3. CASE ev.customer_id # r.customer_id
      <3> HIDE DEF longer
      <3>1. F = E
        <4> HIDE DEF ev
        <4>. QED
          BY <1>1, <2>3 DEF Eligible, Sent
      <3>2. E \in SUBSET DOMAIN log
        BY DEF Eligible, Sent
      <3>3. \A j, k \in E : Sorted(longer, j, k) <=> Sorted(log, j, k)
        <4> HIDE DEF E
        <4>. QED
          BY <1>1, <3>2 DEF Sorted
      <3>4. longer \in TouchLogs
        BY DEF TouchLogs, longer
      <3> HIDE DEF E, F, x, ev
      <3>5. x \in E /\ Extreme(log, E, model, x)
        BY <2>1, <3>2, ChosenIsExtreme DEF x
      <3>6. Extreme(longer, E, model, x)
        BY <3>3, <3>5 DEF Extreme
      <3>7. Chosen(longer, E, model) = x
        BY <1>1, <2>1, <3>2, <3>4, <3>5, <3>6, ChosenIsExtreme
      <3>8. longer[x].campaign_id = c
        BY <1>1, <2>1, <3>2, <3>5
      <3>9. F # {} /\ longer[Chosen(longer, F, model)].campaign_id = c
        BY <2>1, <3>1, <3>7, <3>8
      <3>. QED
        BY <2>1, <3>9, Zenon DEF Credits, F, ev
    <2>. QED
      BY <2>2, <2>3
  <1>3. B \in SUBSET Conversions(trail)
    BY DEF Credits
  <1> HIDE DEF A, B, longer
  <1>4. Cardinality(A) <= Cardinality(B)
    BY <1>2, <1>3, ConversionsAreFinite, FS_Subset
  <1>. QED
    BY <1>4 DEF A, B, Credited, longer

(* The two models are mirror images, for any logs: a touch older than all   *)
(* of the customer's costs no campaign a conversion by last touch, and a    *)
(* younger one none by first touch.                                         *)
THEOREM ModelsMirrored == JourneySpec => ModelsAreMirrored
  <1>1. JourneyTyped /\ [JourneyNext]_journeyVars =>
          [\A c \in Campaigns(touches), r \in Touches :
             touches' = Append(touches, r) =>
                LET own == {i \in Sent(touches) : touches[i].customer_id = r.customer_id}
                    Kept(m) == Credited(journey, touches, c, m)
                                  <= Credited(journey', touches', c, m)
                IN  /\ (\A i \in own : r.ts < touches[i].ts) => Kept("last_touch")
                    /\ (\A i \in own : r.ts > touches[i].ts) => Kept("first_touch")]_journeyVars
    <2> SUFFICES ASSUME JourneyTyped, [JourneyNext]_journeyVars, journeyVars' # journeyVars,
                        NEW c \in Campaigns(touches), NEW r \in Touches,
                        touches' = Append(touches, r)
                 PROVE  LET own == {i \in Sent(touches) : touches[i].customer_id = r.customer_id}
                            Kept(m) == Credited(journey, touches, c, m)
                                          <= Credited(journey', touches', c, m)
                        IN  /\ (\A i \in own : r.ts < touches[i].ts) => Kept("last_touch")
                            /\ (\A i \in own : r.ts > touches[i].ts) => Kept("first_touch")
      OBVIOUS
    <2>1. journey \in Logs /\ touches \in TouchLogs
      BY DEF JourneyTyped, TouchLogs
    <2>2. touches' # touches
      <3>1. Len(Append(touches, r)) = Len(touches) + 1 /\ Len(touches) \in Nat
        BY <2>1 DEF TouchLogs
      <3>. QED
        BY <3>1
    <2>3. journey' = journey
      BY <2>2 DEF JourneyNext, Happen, Touch, journeyVars
    <2> DEFINE own == {i \in Sent(touches) : touches[i].customer_id = r.customer_id}
    <2>4. (\A i \in own : r.ts < touches[i].ts) =>
             Credited(journey, touches, c, "last_touch")
                <= Credited(journey, Append(touches, r), c, "last_touch")
      BY <2>1, CreditIsKept
    <2>5. (\A i \in own : r.ts > touches[i].ts) =>
             Credited(journey, touches, c, "first_touch")
                <= Credited(journey, Append(touches, r), c, "first_touch")
      BY <2>1, CreditIsKept
    <2>. QED
      BY <2>3, <2>4, <2>5
  <1>. QED
    BY <1>1, JourneyTypedAlways, PTL DEF JourneySpec, ModelsAreMirrored
-----------------------------------------------------------------------------
(* Insights over any metric of whole numbers.                              *)

(* The totals of a series, and of its squares.                             *)
LEMMA SeriesAddsUp ==
    ASSUME NEW s \in Seq(Int)
    PROVE  /\ SumUpTo(s) \in [0..Len(s) -> Int]
           /\ SumUpTo(s)[0] = 0
           /\ \A k \in 1..Len(s) : SumUpTo(s)[k] = SumUpTo(s)[k - 1] + s[k]
  <1> DEFINE N == Len(s)
             V == Int
  <1>1. N \in Nat /\ 0 \in V /\ \A n \in 1..N, x \in V : x + s[n] \in V
    OBVIOUS
  <1>2. SumUpTo(s) = Totals(N, s)
    BY Zenon DEF SumUpTo, Totals
  <1>3. /\ Totals(N, s) \in [0..N -> V] /\ Totals(N, s)[0] = 0
        /\ \A k \in 1..N : Totals(N, s)[k] = Totals(N, s)[k - 1] + s[k]
    <2> HIDE DEF N, V
    <2>. QED
      BY <1>1, RunningTotals
  <1>. QED
    BY <1>2, <1>3, Zenon

(* The squares of a series of numbers are a series of numbers.             *)
LEMMA SquaresAreASeries ==
    ASSUME NEW s \in Seq(Int)
    PROVE  /\ Squares(s) \in Seq(Int) /\ Len(Squares(s)) = Len(s)
           /\ \A i \in 1..Len(s) : Squares(s)[i] = s[i] * s[i]
  <1>1. \A i \in 1..Len(s) : s[i] * s[i] \in Int
    OBVIOUS
  <1>2. DOMAIN s = 1..Len(s) /\ Len(s) \in Nat
    OBVIOUS
  <1>3. Squares(s) \in [1..Len(s) -> Int]
    BY <1>1, <1>2 DEF Squares
  <1>. QED
    BY <1>2, <1>3 DEF Squares

(* The sums insights are drawn from are numbers.                           *)
LEMMA InsightNumbers ==
    ASSUME NEW s \in Seq(Int)
    PROVE  /\ Sum(s) \in Int /\ Sum(Squares(s)) \in Int /\ Scatter(s) \in Int
           /\ \A i \in 1..Len(s) : s[i] \in Int /\ Deviation(s[i], s) \in Int
           /\ \A x \in Int : Deviation(x, s) \in Int
  <1>1. Len(s) \in Nat /\ Len(s) \in 0..Len(s)
    OBVIOUS
  <1>2. Sum(s) \in Int
    BY <1>1, SeriesAddsUp DEF Sum
  <1>3. Sum(Squares(s)) \in Int
    BY <1>1, SeriesAddsUp, SquaresAreASeries DEF Sum
  <1>4. \A a, b \in Int : a * b \in Int
    OBVIOUS
  <1>. QED
    BY <1>1, <1>2, <1>3, <1>4 DEF Scatter, Deviation

(* A square that is multiplied out.                                        *)
LEMMA SquareOut ==
    ASSUME NEW n \in Int, NEW x \in Int, NEW S \in Int
    PROVE  Square(n * x - S) = (n * n) * (x * x) - 2 * ((n * S) * x) + S * S
  BY DEF Square

(* A square is a natural number.                                           *)
LEMMA SquareIsNat == \A k \in Int : Square(k) \in Nat
  <1>1. \A k \in Int : k * k >= 0
    OBVIOUS
  <1>. QED
    BY <1>1 DEF Square

(* The square of a longer distance is larger.                              *)
LEMMA SquareGrows ==
    ASSUME NEW a \in Nat, NEW b \in Nat
    PROVE  (a <= b => Square(a) <= Square(b)) /\ (a < b => Square(a) < Square(b))
  <1>1. a <= b => a * a <= a * b /\ a * b <= b * b
    OBVIOUS
  <1>2. a < b => a * a <= a * b /\ a * b < b * b
    OBVIOUS
  <1>. QED
    BY <1>1, <1>2 DEF Square

(* Chebyshev: points whose deviation reaches T squared are few, for the    *)
(* squares of all deviations add up to n times the scatter.                *)
LEMMA FewAreFarOut ==
    ASSUME NEW s \in Seq(Int), NEW T \in Nat, NEW I \in SUBSET (1..Len(s)),
           \A i \in I : Square(Deviation(s[i], s)) >= T
    PROVE  /\ IsFiniteSet(I) /\ Cardinality(I) \in Nat
           /\ Cardinality(I) * T <= Len(s) * Scatter(s)
  <1> DEFINE n == Len(s)
             S == Sum(s)
             P == SumUpTo(s)
             Q == SumUpTo(Squares(s))
             A == n * n
             B == n * S
             C == S * S
             E(k) == A * Q[k] - 2 * (B * P[k]) + k * C
             D(k) == Square(Deviation(s[k], s))
             J(k) == I \cap (1..k)
             Good == {k \in 0..n : Cardinality(J(k)) * T <= E(k)}
  <1>1. n \in Nat /\ S \in Int /\ \A k \in 1..n : s[k] \in Int
    <2>1. n \in Nat /\ \A k \in 1..n : s[k] \in Int
      OBVIOUS
    <2>2. S \in Int
      BY InsightNumbers, Zenon
    <2>. QED
      BY <2>1, <2>2, Zenon
  <1>2. A \in Int /\ B \in Int /\ C \in Int
    <2> HIDE DEF n, S
    <2>. QED
      BY <1>1
  <1>3. /\ P \in [0..n -> Int] /\ P[0] = 0 /\ \A k \in 1..n : P[k] = P[k - 1] + s[k]
    BY SeriesAddsUp
  <1>4. /\ Q \in [0..n -> Int] /\ Q[0] = 0
        /\ \A k \in 1..n : Q[k] = Q[k - 1] + s[k] * s[k]
    <2>1. /\ Q \in [0..Len(Squares(s)) -> Int] /\ Q[0] = 0
          /\ \A k \in 1..Len(Squares(s)) : Q[k] = Q[k - 1] + Squares(s)[k]
      BY SeriesAddsUp, SquaresAreASeries
    <2>. QED
      BY <2>1, SquaresAreASeries
  <1>5. \A k \in 1..n : D(k) = A * (s[k] * s[k]) - 2 * (B * s[k]) + C
    <2> SUFFICES ASSUME NEW k \in 1..n
                 PROVE  D(k) = A * (s[k] * s[k]) - 2 * (B * s[k]) + C
      OBVIOUS
    <2> DEFINE x == s[k]
    <2>1. D(k) = Square(n * x - S)
      BY DEF Deviation
    <2>2. x \in Int /\ n \in Int
      <3> HIDE DEF n
      <3>. QED
        BY <1>1
    <2> HIDE DEF n, S, D, x
    <2>3. Square(n * x - S) = (n * n) * (x * x) - 2 * ((n * S) * x) + S * S
      BY <1>1, <2>2, SquareOut
    <2>. QED
      BY <2>1, <2>3 DEF x
  <1>6. \A k \in 1..n : E(k) = E(k - 1) + D(k)
    <2> SUFFICES ASSUME NEW k \in 1..n
                 PROVE  E(k) = E(k - 1) + D(k)
      OBVIOUS
    <2> DEFINE x == s[k]
               q == Q[k - 1]
               p == P[k - 1]
    <2>1. k \in Int /\ k - 1 \in 0..n /\ x \in Int /\ q \in Int /\ p \in Int
      <3> HIDE DEF n, P, Q
      <3>. QED
        BY <1>1, <1>3, <1>4
    <2>2. E(k) = A * (q + x * x) - 2 * (B * (p + x)) + k * C
      <3> HIDE DEF A, B, C, n, P, Q
      <3>. QED
        BY <1>3, <1>4
    <2>3. E(k - 1) = A * q - 2 * (B * p) + (k - 1) * C
      OBVIOUS
    <2>4. D(k) = A * (x * x) - 2 * (B * x) + C
      <3> HIDE DEF A, B, C, n, D
      <3>. QED
        BY <1>5
    <2> HIDE DEF A, B, C, E, D, n, P, Q, x, q, p
    <2>5. /\ A * (q + x * x) = A * q + A * (x * x)
          /\ B * (p + x) = B * p + B * x
          /\ k * C = (k - 1) * C + C
      BY <1>2, <2>1
    <2>6. x * x \in Int
      BY <2>1
    <2>7. /\ A * q \in Int /\ A * (x * x) \in Int /\ B * p \in Int /\ B * x \in Int
          /\ (k - 1) * C \in Int
      BY <1>2, <2>1, <2>6
    <2> DEFINE f == A * q   g == A * (x * x)   h == B * p   i == B * x   j == (k - 1) * C
    <2>8. f \in Int /\ g \in Int /\ h \in Int /\ i \in Int /\ j \in Int /\ C \in Int
      BY <1>2, <2>7
    <2>9. E(k) = (f + g) - 2 * (h + i) + (j + C)
      BY <2>2, <2>5, Zenon
    <2>10. E(k - 1) = f - 2 * h + j /\ D(k) = g - 2 * i + C
      BY <2>3, <2>4, Zenon
    <2> HIDE DEF f, g, h, i, j
    <2>. QED
      BY <2>8, <2>9, <2>10
  <1>7. \A k \in 0..n : E(k) \in Int
    <2> SUFFICES ASSUME NEW k \in 0..n
                 PROVE  E(k) \in Int
      OBVIOUS
    <2> HIDE DEF A, B, C, P, Q
    <2>1. k \in Int /\ P[k] \in Int /\ Q[k] \in Int
      BY <1>1, <1>3, <1>4
    <2>. QED
      BY <1>2, <2>1
  <1>8. E(n) = n * Scatter(s)
    <2>1. P[n] = S /\ Q[n] = Sum(Squares(s))
      BY SquaresAreASeries DEF Sum
    <2> DEFINE R == Sum(Squares(s))
    <2>2. Scatter(s) = n * R - S * S
      BY DEF Scatter
    <2>3. R \in Int
      BY <1>1, <1>4, <2>1
    <2>4. E(n) = A * R - 2 * (B * S) + n * C
      <3> HIDE DEF A, B, C, P, Q, R, S, n
      <3>. QED
        BY <2>1 DEF R
    <2> HIDE DEF E, R, S, n
    <2>5. A * R = n * (n * R) /\ B * S = n * (S * S)
      BY <1>1, <2>3
    <2> HIDE DEF A, B
    <2>6. n * (n * R - S * S) = n * (n * R) - n * (S * S)
      BY <1>1, <2>3
    <2>7. n * (n * R) \in Int /\ n * (S * S) \in Int
      BY <1>1, <2>3
    <2>. QED
      BY <2>2, <2>4, <2>5, <2>6, <2>7
  <1>9. \A k \in 0..n : IsFiniteSet(J(k)) /\ Cardinality(J(k)) \in Nat
    <2>1. \A k \in 0..n : IsFiniteSet(1..k)
      BY <1>1, FS_Interval
    <2>. QED
      BY <2>1, FS_Subset, FS_CardinalityType
  <1>10. 0 \in Good
    <2>1. J(0) = {}
      OBVIOUS
    <2>2. Cardinality(J(0)) = 0
      BY <2>1, FS_EmptySet, Zenon
    <2>3. E(0) = 0
      <3> HIDE DEF A, B, C, P, Q
      <3>. QED
        BY <1>2, <1>3, <1>4
    <2> HIDE DEF J, E, n
    <2>. QED
      BY <1>1, <2>2, <2>3
  <1>11. ASSUME NEW k \in 1..n, k - 1 \in Good
         PROVE  k \in Good
    <2>1. k - 1 \in 0..n /\ k \in 0..n
      BY <1>1
    <2>2. D(k) \in Nat
      <3>1. Deviation(s[k], s) \in Int
        BY <1>1, InsightNumbers
      <3>. QED
        BY <3>1, SquareIsNat
    <2>3. k \in I => D(k) >= T /\ J(k) = J(k - 1) \cup {k}
      OBVIOUS
    <2>4. k \notin J(k - 1)
      OBVIOUS
    <2>5. k \notin I => J(k) = J(k - 1)
      OBVIOUS
    <2>6. k \in I => Cardinality(J(k)) = Cardinality(J(k - 1)) + 1
      <3> HIDE DEF J, n
      <3>. QED
        BY <1>9, <2>1, <2>3, <2>4, FS_AddElement
    <2> DEFINE c == Cardinality(J(k - 1))
    <2>7. c \in Nat /\ c * T <= E(k - 1)
      <3> HIDE DEF J, E, n
      <3>. QED
        BY <1>9, <1>11, <2>1
    <2>8. E(k) = E(k - 1) + D(k) /\ E(k - 1) \in Int
      <3> HIDE DEF E, n, D
      <3>. QED
        BY <1>6, <1>7, <2>1
    <2>9. Cardinality(J(k)) * T <= E(k)
      <3>1. CASE k \in I
        <4> HIDE DEF J, E, D
        <4>1. (c + 1) * T = c * T + T /\ c * T \in Int
          <5> HIDE DEF c
          <5>. QED
            BY <2>7
        <4>2. Cardinality(J(k)) = c + 1
          BY <2>6, <3>1
        <4>3. D(k) >= T
          BY <2>3, <3>1
        <4> HIDE DEF c
        <4>. QED
          BY <2>2, <2>7, <2>8, <4>1, <4>2, <4>3
      <3>2. CASE k \notin I
        <4>1. Cardinality(J(k)) = c
          BY <2>5, <3>2
        <4> HIDE DEF J, E, D, c
        <4>2. c * T \in Int
          BY <2>7
        <4>. QED
          BY <2>2, <2>7, <2>8, <4>1, <4>2
      <3>. QED
        BY <3>1, <3>2
    <2> HIDE DEF J, E, n
    <2>. QED
      BY <2>1, <2>9
  <1>12. \A k \in 0..n : k \in Good
    <2> HIDE DEF Good, n
    <2>. QED
      BY <1>1, <1>10, <1>11, InductionUp
  <1>13. J(n) = I
    OBVIOUS
  <1>14. n \in 0..n
    BY <1>1
  <1>15. Cardinality(J(n)) * T <= E(n)
    <2> HIDE DEF J, E, n
    <2>. QED
      BY <1>12, <1>14
  <1> HIDE DEF J, E, n
  <1>. QED
    BY <1>8, <1>9, <1>13, <1>14, <1>15 DEF n

(* What multiplies both sides may be dropped.                              *)
LEMMA Cancels ==
    ASSUME NEW a \in Int, NEW b \in Int, NEW v \in Nat, v # 0, a * v <= b * v
    PROVE  a <= b
  <1>1. a > b => a >= b + 1
    OBVIOUS
  <1>2. a >= b + 1 => a * v >= (b + 1) * v
    OBVIOUS
  <1>3. (b + 1) * v = b * v + v /\ b * v \in Int /\ a * v \in Int
    OBVIOUS
  <1>. QED
    BY <1>1, <1>2, <1>3

(* The scatter of a series is never negative.                              *)
LEMMA ScatterIsNat ==
    ASSUME NEW s \in Seq(Int)
    PROVE  Scatter(s) \in Nat
  <1> DEFINE n == Len(s)
             V == Scatter(s)
  <1>1. n \in Nat /\ V \in Int
    BY InsightNumbers
  <1>2. CASE n = 0
    <2>1. Sum(s) = 0
      BY <1>2, SeriesAddsUp DEF Sum
    <2>2. Sum(Squares(s)) \in Int
      BY InsightNumbers
    <2>3. V = 0 * Sum(Squares(s)) - 0 * 0
      BY <1>2, <2>1 DEF Scatter
    <2> HIDE DEF V
    <2>. QED
      BY <2>2, <2>3 DEF V
  <1>3. CASE n # 0
    <2>1. 0 \in Nat /\ {} \in SUBSET (1..Len(s)) /\ \A i \in {} : Square(Deviation(s[i], s)) >= 0
      OBVIOUS
    <2>2. Cardinality({}) * 0 <= n * V
      BY <2>1, FewAreFarOut
    <2>3. 0 <= n * V
      BY <2>2, FS_EmptySet
    <2> HIDE DEF n, V
    <2>4. V < 0 => n * V < 0
      BY <1>1, <1>3
    <2>5. n * V \in Int
      BY <1>1
    <2>6. V \in Nat
      BY <1>1, <2>3, <2>4, <2>5
    <2>. QED
      BY <2>6 DEF V
  <1>. QED
    BY <1>2, <1>3

(* The points that detect_insights reports, and the set it reports.        *)
OutOf(s, t, above) == {j \in DOMAIN s : Beyond(s[j], s, t) \/ s[j] \in above}

LEMMA ReportedPoints ==
    ASSUME NEW s \in Seq(Int), NEW t \in Nat, NEW above \in SUBSET Boundary(s, t)
    PROVE  /\ OutOf(s, t, above) \in SUBSET (1..Len(s))
           /\ Detected(s, t, above) =
                 IF Scatter(s) = 0 THEN {} ELSE {Insight(i, s) : i \in OutOf(s, t, above)}
           /\ \A i \in OutOf(s, t, above) : Square(Deviation(s[i], s)) >= t * t * Scatter(s)
  <1>1. Scatter(s) \in Int /\ \A i \in 1..Len(s) : Deviation(s[i], s) \in Int
    BY InsightNumbers
  <1>2. t * t * Scatter(s) \in Int
    BY <1>1
  <1>3. OutOf(s, t, above) \in SUBSET (1..Len(s))
    BY DEF OutOf
  <1>4. ASSUME NEW i \in OutOf(s, t, above)
        PROVE  Square(Deviation(s[i], s)) >= t * t * Scatter(s)
    <2>1. Square(Deviation(s[i], s)) \in Nat
      BY <1>1, <1>3, SquareIsNat
    <2>2. CASE Beyond(s[i], s, t)
      BY <1>2, <2>1, <2>2 DEF Beyond
    <2>3. CASE s[i] \in above
      <3>1. s[i] \in Boundary(s, t)
        BY <2>3
      <3>2. PICK j \in DOMAIN s : s[j] = s[i] /\ Square(Deviation(s[j], s)) = t * t * Scatter(s)
        BY <3>1 DEF Boundary
      <3>. QED
        BY <1>2, <2>1, <3>2
    <2>. QED
      BY <2>2, <2>3 DEF OutOf
  <1>5. Detected(s, t, above) =
           IF Scatter(s) = 0 THEN {} ELSE {Insight(i, s) : i \in OutOf(s, t, above)}
    BY Zenon DEF Detected, OutOf
  <1>. QED
    BY <1>3, <1>4, <1>5

(* Of n points at most n / t^2 are t deviations away or more.              *)
LEMMA FewAreDetected ==
    ASSUME NEW s \in Seq(Int), NEW t \in Nat, NEW above \in SUBSET Boundary(s, t)
    PROVE  Cardinality(Detected(s, t, above)) * (t * t) <= Len(s)
  <1> DEFINE I == OutOf(s, t, above)
             V == Scatter(s)
             n == Len(s)
             F == Detected(s, t, above)
  <1>1. t * t \in Nat /\ n \in Nat /\ V \in Nat
    BY ScatterIsNat
  <1>2. CASE V = 0
    <2>1. F = {}
      BY <1>2, ReportedPoints
    <2>2. Cardinality(F) = 0
      BY <2>1, FS_EmptySet, Zenon
    <2> HIDE DEF F, n
    <2>3. 0 * (t * t) <= n
      BY <1>1
    <2>. QED
      BY <2>2, <2>3 DEF F, n
  <1>3. CASE V # 0
    <2> DEFINE T == t * t * V
               c == Cardinality(I)
    <2>1. T \in Nat
      <3> HIDE DEF V
      <3>. QED
        BY <1>1
    <2>2. I \in SUBSET (1..Len(s)) /\ \A i \in I : Square(Deviation(s[i], s)) >= T
      BY ReportedPoints
    <2>3. IsFiniteSet(I) /\ c \in Nat /\ c * T <= n * V
      <3> HIDE DEF I, T
      <3>. QED
        BY <2>1, <2>2, FewAreFarOut
    <2>4. c * (t * t) <= n
      <3> DEFINE w == t * t
      <3>1. w \in Nat /\ T = w * V
        BY <1>1
      <3> HIDE DEF c, T, n, V, w
      <3>2. c * T = (c * w) * V /\ c * w \in Int
        BY <1>1, <2>3, <3>1
      <3>3. (c * w) * V <= n * V
        BY <2>3, <3>2
      <3>4. c * w <= n
        BY <1>1, <1>3, <3>2, <3>3, Cancels
      <3>. QED
        BY <3>4 DEF w
    <2>5. F = {Insight(i, s) : i \in I}
      BY <1>3, ReportedPoints
    <2>6. IsFiniteSet(F) /\ Cardinality(F) <= c /\ Cardinality(F) \in Nat
      <3> DEFINE f == [i \in I |-> Insight(i, s)]
      <3>1. f \in Surjection(I, F)
        <4> HIDE DEF I, F
        <4>1. f \in [I -> F]
          BY <2>5
        <4>2. \A x \in F : \E i \in I : f[i] = x
          BY <2>5
        <4>. QED
          BY <4>1, <4>2 DEF Surjection
      <3> HIDE DEF I, F, f
      <3>. QED
        BY <2>3, <3>1, FS_Surjection, FS_CardinalityType
    <2> DEFINE d == Cardinality(F)
               w == t * t
    <2>7. d * w <= c * w /\ d * w \in Int /\ c * w \in Int
      <3> HIDE DEF c, d, w
      <3>1. d \in Nat /\ c \in Nat /\ d <= c /\ w \in Nat
        BY <1>1, <2>3, <2>6 DEF d, w
      <3>. QED
        BY <3>1
    <2>8. c * w <= n
      BY <2>4
    <2> HIDE DEF c, d, w, n
    <2>9. d * w <= n
      BY <1>1, <2>7, <2>8
    <2>. QED
      BY <2>9 DEF d, w, n
  <1>. QED
    BY <1>2, <1>3

(* A point that is reported is an extreme on its side.                     *)
LEMMA ReportedAreExtreme ==
    ASSUME NEW s \in Seq(Int), NEW t \in Nat \ {0}, NEW above \in SUBSET Boundary(s, t),
           NEW f \in Detected(s, t, above)
    PROVE  /\ f.direction # "flat"
           /\ \A j \in DOMAIN s :
                 \/ f.direction = "up"   /\ s[j] < s[f.index]
                 \/ f.direction = "down" /\ s[j] > s[f.index]
                 \/ [index |-> j, direction |-> f.direction] \in Detected(s, t, above)
  <1> DEFINE I == OutOf(s, t, above)
             V == Scatter(s)
             T == t * t * V
             n == Len(s)
             D(i) == Deviation(s[i], s)
  <1>1. /\ n \in Nat /\ V \in Nat /\ V # 0 /\ I \in SUBSET (1..n) /\ DOMAIN s = 1..n
        /\ Detected(s, t, above) = {Insight(i, s) : i \in I}
        /\ \A i \in I : Square(D(i)) >= T
    BY ReportedPoints, ScatterIsNat
  <1>2. PICK i \in I : f = Insight(i, s)
    <2> HIDE DEF I
    <2>. QED
      BY <1>1
  <1>3. T \in Nat /\ T > 0
    <2> DEFINE w == t * t
    <2>1. w \in Nat /\ w > 0
      OBVIOUS
    <2> HIDE DEF V, w
    <2>2. w * V > 0 /\ w * V \in Nat
      BY <1>1, <2>1
    <2>. QED
      BY <2>2 DEF w
  <1>4. i \in 1..n /\ n \in Nat /\ n > 0 /\ D(i) \in Int /\ s[i] \in Int
    <2>1. i \in 1..n
      <3> HIDE DEF I, n
      <3>. QED
        BY <1>1
    <2>2. n \in Nat /\ n > 0
      BY <2>1
    <2>3. s[i] \in Int /\ D(i) \in Int
      BY <2>1, InsightNumbers
    <2>. QED
      BY <2>1, <2>2, <2>3
  <1>5. D(i) # 0
    <2>1. Square(D(i)) >= T
      BY <1>1
    <2>2. Square(0) = 0
      BY DEF Square
    <2> HIDE DEF D, T
    <2>. QED
      BY <1>3, <2>1, <2>2
  <1>6. /\ f.index = i
        /\ f.direction = IF D(i) > 0 THEN "up" ELSE IF D(i) < 0 THEN "down" ELSE "flat"
    BY <1>2 DEF Insight, Sign
  <1>7. f.direction # "flat"
    <2> HIDE DEF D
    <2>. QED
      BY <1>4, <1>5, <1>6
  <1>8. ASSUME NEW j \in DOMAIN s,
               ~ (f.direction = "up"   /\ s[j] < s[f.index]),
               ~ (f.direction = "down" /\ s[j] > s[f.index])
        PROVE  [index |-> j, direction |-> f.direction] \in Detected(s, t, above)
    <2>1. s[j] \in Int /\ D(j) \in Int /\ j \in 1..n
      BY <1>1, InsightNumbers
    <2>2. D(j) - D(i) = n * (s[j] - s[i])
      <3> DEFINE S == Sum(s)
      <3>1. S \in Int
        BY InsightNumbers
      <3>2. D(j) = n * s[j] - S /\ D(i) = n * s[i] - S
        BY DEF Deviation
      <3> DEFINE x == s[i]
                 y == s[j]
      <3> HIDE DEF D, n, S, x, y
      <3>3. x \in Int /\ y \in Int
        BY <1>4, <2>1 DEF x, y
      <3>4. n * (y - x) = n * y - n * x /\ n * y \in Int /\ n * x \in Int
        BY <1>4, <3>3
      <3>5. D(j) = n * y - S /\ D(i) = n * x - S
        BY <3>2 DEF x, y
      <3>6. D(j) - D(i) = n * (y - x)
        BY <3>1, <3>4, <3>5
      <3>. QED
        BY <3>6 DEF x, y
    <2>3. /\ s[j] > s[i] => n * (s[j] - s[i]) > 0
          /\ s[j] < s[i] => n * (s[j] - s[i]) < 0
          /\ s[j] = s[i] => n * (s[j] - s[i]) = 0
      <3> DEFINE d == s[j] - s[i]
      <3>1. d \in Int
        BY <1>4, <2>1
      <3> HIDE DEF d, n
      <3>2. (d > 0 => n * d > 0) /\ (d < 0 => n * d < 0) /\ (d = 0 => n * d = 0)
        BY <1>4, <3>1
      <3>3. (s[j] > s[i] => d > 0) /\ (s[j] < s[i] => d < 0) /\ (s[j] = s[i] => d = 0)
        BY <1>4, <2>1 DEF d
      <3>. QED
        BY <3>2, <3>3, Zenon DEF d
    <2>4. \/ s[j] = s[i] /\ D(j) = D(i)
          \/ /\ Square(D(j)) > Square(D(i))
             /\ D(i) > 0 => D(j) > 0
             /\ D(i) < 0 => D(j) < 0
      <3>1. CASE D(i) > 0
        <4>1. s[j] >= s[i]
          <5> HIDE DEF D
          <5>. QED
            BY <1>4, <1>6, <1>8, <2>1, <3>1
        <4>2. s[j] > s[i] => D(j) > D(i)
          <5> HIDE DEF D, n
          <5>. QED
            BY <1>4, <2>1, <2>2, <2>3
        <4>3. s[j] = s[i] => D(j) = D(i)
          OBVIOUS
        <4> HIDE DEF D
        <4>4. D(j) > D(i) => Square(D(j)) > Square(D(i))
          BY <1>4, <2>1, <3>1, SquareGrows
        <4>. QED
          BY <1>4, <2>1, <3>1, <4>1, <4>2, <4>3, <4>4
      <3>2. CASE D(i) < 0
        <4>1. s[j] <= s[i]
          <5> HIDE DEF D
          <5>. QED
            BY <1>4, <1>6, <1>8, <2>1, <3>2
        <4>2. s[j] < s[i] => D(j) < D(i)
          <5> HIDE DEF D, n
          <5>. QED
            BY <1>4, <2>1, <2>2, <2>3
        <4>3. s[j] = s[i] => D(j) = D(i)
          OBVIOUS
        <4> HIDE DEF D
        <4>4. D(j) < D(i) => Square(D(j)) > Square(D(i))
          <5>1. ASSUME D(j) < D(i)
                PROVE  Square(0 - D(j)) > Square(0 - D(i))
            BY <1>4, <2>1, <3>2, <5>1, SquareGrows
          <5>2. \A k \in Int : Square(0 - k) = Square(k)
            BY DEF Square
          <5>. QED
            BY <1>4, <2>1, <5>1, <5>2
        <4>. QED
          BY <1>4, <2>1, <3>2, <4>1, <4>2, <4>3, <4>4
      <3>. QED
        <4> HIDE DEF D
        <4>. QED
          BY <1>4, <1>5, <3>1, <3>2
    <2>5. j \in I
      <3>1. CASE s[j] = s[i]
        BY <3>1 DEF OutOf, Beyond
      <3>2. CASE Square(D(j)) > Square(D(i))
        <4>1. Square(D(i)) >= T
          BY <1>1
        <4>2. Square(D(i)) \in Nat /\ Square(D(j)) \in Nat
          <5> HIDE DEF D
          <5>. QED
            BY <1>4, <2>1, SquareIsNat
        <4>3. Square(D(j)) > T
          <5> HIDE DEF D, T
          <5>. QED
            BY <1>3, <3>2, <4>1, <4>2
        <4>4. Beyond(s[j], s, t)
          BY <4>3 DEF Beyond
        <4>. QED
          BY <4>4 DEF OutOf
      <3>. QED
        <4> HIDE DEF D, I
        <4>. QED
          BY <2>4, <3>1, <3>2
    <2>6. Insight(j, s) = [index |-> j, direction |-> f.direction]
      <3>1. Sign(D(j)) = f.direction
        <4> HIDE DEF D
        <4>. QED
          BY <1>4, <1>5, <1>6, <2>1, <2>4 DEF Sign
      <3>. QED
        BY <3>1 DEF Insight
    <2>. QED
      <3> HIDE DEF I
      <3>. QED
        BY <1>1, <2>5, <2>6
  <1>. QED
    BY <1>7, <1>8

(* What is found was found by detect_insights in the series as it stands.  *)
InsightInv ==
    /\ series \in Seq(Int) /\ threshold \in Nat \ {0}
    /\ found # {} => \E above \in SUBSET Boundary(series, threshold) :
                         found = Detected(series, threshold, above)

(* The strengthening holds in every state.                                 *)
LEMMA InsightInvAlways == InsightSpec => []InsightInv
  <1>1. InsightInit => InsightInv
    BY DEF InsightInit, InsightInv
  <1>2. InsightInv /\ [InsightNext]_insightVars => InsightInv'
    <2> SUFFICES ASSUME InsightInv, [InsightNext]_insightVars
                 PROVE  InsightInv'
      OBVIOUS
    <2>1. ASSUME NEW x \in Values, Observe(x)
          PROVE  InsightInv'
      BY <2>1, InsightsAssumption DEF Observe, InsightInv
    <2>2. ASSUME NEW t \in Thresholds, NEW labelled \in {0, 2},
                 NEW above \in SUBSET Boundary(series, t), Ask(t, labelled, above)
          PROVE  InsightInv'
      <3>1. series' = series /\ threshold' = t /\ t \in Nat \ {0} /\ series \in Seq(Int)
        BY <2>2, InsightsAssumption DEF Ask, InsightInv
      <3>2. found' = {} \/ found' = Detected(series, t, above)
        BY <2>2 DEF Ask
      <3>3. found' # {} => \E a \in SUBSET Boundary(series, t) : found' = Detected(series, t, a)
        BY <3>2, Zenon
      <3>4. (\E a \in SUBSET Boundary(series, threshold) : found = Detected(series, threshold, a))'
              <=> \E a \in SUBSET Boundary(series, t) : found' = Detected(series, t, a)
        BY <3>1, Zenon
      <3>. QED
        BY <3>1, <3>3, <3>4, Zenon DEF InsightInv
    <2>3. CASE UNCHANGED insightVars
      BY <2>3, Zenon DEF insightVars, InsightInv
    <2>. QED
      BY <2>1, <2>2, <2>3 DEF InsightNext
  <1>. QED
    BY <1>1, <1>2, PTL DEF InsightSpec

(* And it gives both properties.                                           *)
LEMMA FoundIsFewAndExtreme == InsightInv => ExtremesAreReported /\ FewStandOut
  <1> SUFFICES ASSUME InsightInv
               PROVE  ExtremesAreReported /\ FewStandOut
    OBVIOUS
  <1>1. series \in Seq(Int) /\ threshold \in Nat \ {0} /\ Len(series) \in Nat
    BY DEF InsightInv
  <1>2. CASE found = {}
    <2>1. Cardinality(found) = 0
      BY <1>2, FS_EmptySet, Zenon
    <2>2. 0 * (threshold * threshold) <= Len(series)
      BY <1>1
    <2>. QED
      BY <1>2, <2>1, <2>2 DEF ExtremesAreReported, FewStandOut
  <1>3. CASE found # {}
    <2>1. PICK above \in SUBSET Boundary(series, threshold) :
             found = Detected(series, threshold, above)
      BY <1>3, Zenon DEF InsightInv
    <2>2. FewStandOut
      BY <1>1, <2>1, FewAreDetected DEF FewStandOut
    <2>3. \A f \in Detected(series, threshold, above) :
             /\ f.direction # "flat"
             /\ \A j \in DOMAIN series :
                   \/ f.direction = "up"   /\ series[j] < series[f.index]
                   \/ f.direction = "down" /\ series[j] > series[f.index]
                   \/ [index |-> j, direction |-> f.direction]
                         \in Detected(series, threshold, above)
      BY <1>1, ReportedAreExtreme
    <2>4. ExtremesAreReported
      BY <2>1, <2>3, Zenon DEF ExtremesAreReported
    <2>. QED
      BY <2>2, <2>4
  <1>. QED
    BY <1>2, <1>3

(* detect_insights, of any metric of whole numbers and at any threshold:   *)
(* what it reports is an extreme with all that is as far out, and at most  *)
(* one point in t * t is reported (Chebyshev's inequality).                *)
THEOREM FewInsightsAndExtreme == InsightSpec => [](ExtremesAreReported /\ FewStandOut)
  BY InsightInvAlways, FoundIsFewAndExtreme, PTL

(* compare_periods read in either order, of measures that are not negative. *)
LEMMA ComparedBackwards ==
    ASSUME NEW x \in Nat, NEW y \in Nat
    PROVE  LET there == Compare(x, y)  back == Compare(y, x)
           IN  /\ <<there.direction, back.direction>> \in
                      {<<"up", "down">>, <<"down", "up">>, <<"flat", "flat">>}
               /\ there.direction = "down" /\ there.notable => back.notable
               /\ back.notable \/ there.notable => x # y
  <1> DEFINE d == y - x
             e == x - y
  <1>1. d \in Int /\ e \in Int /\ e = 0 - d
    OBVIOUS
  <1>2. Square(d) = Square(e)
    BY DEF Square
  <1>3. /\ Compare(x, y).direction = IF x = 0 THEN IF y > 0 THEN "up" ELSE "flat" ELSE Sign(d * x)
        /\ Compare(x, y).notable = IF x = 0 THEN y # 0 ELSE Square(d) * 25 >= Square(x)
        /\ Compare(y, x).direction = IF y = 0 THEN IF x > 0 THEN "up" ELSE "flat" ELSE Sign(e * y)
        /\ Compare(y, x).notable = IF y = 0 THEN x # 0 ELSE Square(e) * 25 >= Square(y)
    BY DEF Compare
  <1>4. \A k \in Int, m \in Nat : m # 0 =>
           Sign(k * m) = IF k > 0 THEN "up" ELSE IF k < 0 THEN "down" ELSE "flat"
    <2> SUFFICES ASSUME NEW k \in Int, NEW m \in Nat, m # 0
                 PROVE  Sign(k * m) = IF k > 0 THEN "up" ELSE IF k < 0 THEN "down" ELSE "flat"
      OBVIOUS
    <2>1. /\ k > 0 => k * m > 0
          /\ k < 0 => k * m < 0
          /\ k = 0 => k * m = 0
      OBVIOUS
    <2>. QED
      BY <2>1 DEF Sign
  <1>5. Compare(x, y).direction = IF d > 0 THEN "up" ELSE IF d < 0 THEN "down" ELSE "flat"
    <2>1. CASE x = 0
      BY <1>3, <2>1
    <2>2. CASE x # 0
      <3> HIDE DEF d, e
      <3>. QED
        BY <1>1, <1>3, <1>4, <2>2
    <2>. QED
      BY <2>1, <2>2
  <1>6. Compare(y, x).direction = IF e > 0 THEN "up" ELSE IF e < 0 THEN "down" ELSE "flat"
    <2>1. CASE y = 0
      BY <1>3, <2>1
    <2>2. CASE y # 0
      <3> HIDE DEF d, e
      <3>. QED
        BY <1>1, <1>3, <1>4, <2>2
    <2>. QED
      BY <2>1, <2>2
  <1>7. <<Compare(x, y).direction, Compare(y, x).direction>> \in
             {<<"up", "down">>, <<"down", "up">>, <<"flat", "flat">>}
    <2> HIDE DEF d, e
    <2>. QED
      BY <1>1, <1>5, <1>6
  <1>8. Compare(x, y).direction = "down" /\ Compare(x, y).notable => Compare(y, x).notable
    <2> SUFFICES ASSUME Compare(x, y).direction = "down", Compare(x, y).notable
                 PROVE  Compare(y, x).notable
      OBVIOUS
    <2>1. y < x
      <3>1. d < 0
        <4> HIDE DEF d, e
        <4>. QED
          BY <1>1, <1>5
      <3>. QED
        BY <3>1
    <2>2. Square(d) * 25 >= Square(x)
      <3> HIDE DEF d, e
      <3>. QED
        BY <1>3, <2>1
    <2>3. Square(y) <= Square(x) /\ Square(x) \in Nat /\ Square(y) \in Nat
      BY <2>1, SquareGrows, SquareIsNat
    <2>4. Square(d) \in Nat
      BY <1>1, SquareIsNat
    <2>5. CASE y = 0
      BY <1>3, <2>1, <2>5
    <2>6. CASE y # 0
      <3> HIDE DEF d, e
      <3>1. Square(e) * 25 >= Square(y)
        BY <1>2, <2>2, <2>3, <2>4
      <3>. QED
        BY <1>3, <2>6, <3>1
    <2>. QED
      BY <2>5, <2>6
  <1>9. Compare(y, x).notable \/ Compare(x, y).notable => x # y
    <2> SUFFICES ASSUME x = y
                 PROVE  ~ Compare(y, x).notable /\ ~ Compare(x, y).notable
      OBVIOUS
    <2>1. Square(d) = 0 /\ Square(e) = 0
      BY DEF Square
    <2>2. x # 0 => Square(x) > 0 /\ Square(y) > 0
      <3>1. x # 0 => x * x > 0
        OBVIOUS
      <3>. QED
        BY <3>1 DEF Square
    <2>3. CASE x = 0
      BY <1>3, <2>3
    <2>4. CASE x # 0
      <3>1. /\ Compare(x, y).notable = (Square(d) * 25 >= Square(x))
            /\ Compare(y, x).notable = (Square(e) * 25 >= Square(y))
        <4> HIDE DEF d, e
        <4>. QED
          BY <1>3, <2>4
      <3> HIDE DEF d, e
      <3>2. /\ ~ (Square(d) * 25 >= Square(x))
            /\ ~ (Square(e) * 25 >= Square(y))
        BY <2>1, <2>2, <2>4, SquareIsNat
      <3>. QED
        BY <3>1, <3>2, Zenon
    <2>. QED
      BY <2>3, <2>4
  <1>. QED
    BY <1>7, <1>8, <1>9

(* The observations are of Values.                                         *)
OfValues == series \in Seq(Values)

(* A series holds values and nothing else.                                 *)
LEMMA ObservedAreValues == InsightSpec => []OfValues
  <1>1. InsightInit => OfValues
    BY DEF InsightInit, OfValues
  <1>2. OfValues /\ [InsightNext]_insightVars => OfValues'
    BY DEF InsightNext, Observe, Ask, insightVars, OfValues
  <1>. QED
    BY <1>1, <1>2, PTL DEF InsightSpec

(* Insights over a metric that is not negative, as counts and amounts are: *)
(* all of the above, and two periods read backwards turn the direction.    *)
THEOREM InsightsHold == Values \subseteq Nat => (InsightSpec => []InsightsStandOut)
  <1>1. ASSUME Values \subseteq Nat, OfValues
        PROVE  ReadBackwards
    <2>1. SUFFICES ASSUME Len(series) >= 2
                   PROVE  ReadBackwards
      BY DEF ReadBackwards
    <2>2. series[Len(series) - 1] \in Nat /\ series[Len(series)] \in Nat
      <3>1. Len(series) \in Nat /\ \A i \in 1..Len(series) : series[i] \in Values
        BY <1>1 DEF OfValues
      <3>2. Len(series) - 1 \in 1..Len(series) /\ Len(series) \in 1..Len(series)
        BY <2>1, <3>1
      <3>. QED
        BY <1>1, <3>1, <3>2
    <2>. QED
      BY <2>2, ComparedBackwards DEF ReadBackwards
  <1>2. ASSUME Values \subseteq Nat
        PROVE  OfValues /\ ExtremesAreReported /\ FewStandOut => InsightsStandOut
    BY <1>1, <1>2 DEF InsightsStandOut
  <1>3. ASSUME Values \subseteq Nat
        PROVE  InsightSpec => []InsightsStandOut
    BY <1>2, <1>3, FewInsightsAndExtreme, ObservedAreValues, PTL
  <1>. QED
    BY <1>3

-----------------------------------------------------------------------------
(* The composition: its behaviours are behaviours of every part.           *)
PartSteps ==
    /\ [Next]_vars /\ [IngestionNext]_ingestionVars
    /\ [SuppressionNext]_suppressionVars /\ [ShadowNext]_shadowVars
    /\ [ReportNext]_reportVars /\ [BehaviourNext]_behaviourVars
    /\ [JourneyNext]_journeyVars /\ [InsightNext]_insightVars

(* A step of the composition is a step or a stutter of every part.         *)
LEMMA StepsOfParts == [DataNext]_dataVars => PartSteps
  <1> SUFFICES ASSUME [DataNext]_dataVars
               PROVE  PartSteps
    OBVIOUS
  <1> USE DEF PartSteps, Resting, dataPlatformVars
  <1>1. CASE Edge
    BY <1>1 DEF Edge
  <1>2. CASE ResolverStep
    BY <1>2 DEF ResolverStep
  <1>3. CASE IngestionStep
    BY <1>3 DEF IngestionStep
  <1>4. CASE SuppressionStep
    BY <1>4 DEF SuppressionStep
  <1>5. CASE ShadowStep
    BY <1>5 DEF ShadowStep
  <1>6. CASE ReportStep
    BY <1>6 DEF ReportStep
  <1>7. CASE JourneyStep
    BY <1>7 DEF JourneyStep
  <1>8. CASE BehaviourStep
    BY <1>8 DEF BehaviourStep
  <1>9. CASE InsightStep
    BY <1>9 DEF InsightStep
  <1>10. CASE UNCHANGED dataVars
    BY <1>10 DEF dataVars
  <1>. QED
    BY <1>1, <1>2, <1>3, <1>4, <1>5, <1>6, <1>7, <1>8, <1>9, <1>10 DEF DataNext

(* So a behaviour of the composition is one of each part.                  *)
LEMMA PartsRun ==
    DataSpec => /\ Spec /\ IngestionSpec /\ SuppressionSpec /\ ShadowSpec
                /\ ReportSpec /\ BehaviourSpec /\ JourneySpec /\ InsightSpec
  <1>1. DataInit => /\ Init /\ IngestionInit /\ SuppressionInit /\ ShadowInit
                    /\ ReportInit /\ BehaviourInit /\ JourneyInit /\ InsightInit
    BY DEF DataInit
  <1>. QED
    BY <1>1, StepsOfParts, PTL
    DEF DataSpec, PartSteps, Spec, IngestionSpec, SuppressionSpec, ShadowSpec,
        ReportSpec, BehaviourSpec, JourneySpec, InsightSpec

(* The composition keeps what each part keeps: no key outruns its rate,     *)
(* every batch is counted exactly, no converted customer stays on a list,   *)
(* the shadow ledger reconciles, funnels, attribution and reports add up.   *)
THEOREM PlatformIsSafe ==
    DataSpec => [](/\ RateBound /\ IngestionIsExact /\ NeverKeepsConverted
                   /\ ReconcileIsExact /\ JourneysAreCounted /\ ReportsAreCoherent)
  BY PartsRun, EdgeBoundsRate, IngestionExact, ConvertedNeverKept, ReconcileExact,
     JourneysCounted, ReportsCoherent, PTL

(* The composition, whatever its parts are given: what arrives late - an    *)
(* event, a touch, a wider slice, silence - takes back nothing that holds.  *)
THEOREM LateNewsHarmless == DataSpec => LateNewsIsHarmless
  BY PartsRun, LateEventsKeepFresh, RampUpOnlyAdds, FunnelsAreDeepest, ModelsMirrored,
     ReturningStays, SilenceRaises, PTL DEF LateNewsIsHarmless
=============================================================================
