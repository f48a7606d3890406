------------------------------ MODULE Identity ------------------------------
(***************************************************************************)
(* The identity resolver (src/src/data_foundation/id_mapping.py) behind    *)
(* the route /identity/resolve (src/src/services/data_platform.py): the    *)
(* data team's mapping and a union-find forest, shared without a lock by   *)
(* the threads that answer requests.  A resolve walks the forest pointer   *)
(* by pointer and then compresses its path; the table is loaded, and       *)
(* identities merged, while no request is under way (no route does it).    *)
(***************************************************************************)
EXTENDS Integers, FiniteSets

(* Ids: the canonical ids, in the order of their strings; a phone number   *)
(* is an id too, since an unmapped phone resolves to itself.               *)
(* Phones: those the data team may map to another id.                      *)
(* Requests: identifiers, each an id, Blank (absent or "") or Null.        *)
(* Ids are positive numbers, Phones are among them, Devices are not.       *)
(* NoneId: the id spelt "None".                                            *)
CONSTANTS Ids, Phones, Devices, Threads, Requests, Null, NoneId

Blank == 0

ASSUME IdentityAssumption ==
    /\ Ids \subseteq Nat \ {Blank} /\ Phones \subseteq Ids /\ NoneId \in Ids
    /\ IsFiniteSet(Requests)
    /\ \A r \in Requests : r.customer_id \in Ids \cup {Blank, Null}
                         /\ r.phone \in Ids \cup {Blank, Null}

VARIABLES mapping,  (* alternative identifier -> id, Blank when it has none *)
          parent,   (* union-find pointers, Blank for an id never seen      *)
          call      (* what each thread is doing                            *)

resolverVars == <<mapping, parent, call>>

AltKeys == ({"phone"} \X Phones) \cup ({"device"} \X Devices)

Idle == [pc |-> "idle", id |-> Blank, node |-> Blank, root |-> Blank]

ResolverInit ==
    /\ mapping = [k \in AltKeys |-> Blank]
    /\ parent = [i \in Ids |-> Blank]
    /\ call = [t \in Threads |-> Idle]

-----------------------------------------------------------------------------
(* The route's str(v): null is spelt "None" and is no longer absent.       *)
Text(v) == IF v = Null THEN NoneId ELSE v

(* _mapping.get                                                            *)
Mapped(key) == IF key \in AltKeys THEN mapping[key] ELSE Blank

(* The first that is not Blank.                                            *)
Else(a, b) == IF a # Blank THEN a ELSE b

Named(request) ==
    Else(Text(request.customer_id),
         Else(Else(Mapped(<<"phone", Text(request.phone)>>), Text(request.phone)),
              Mapped(<<"device", Text(request.device_id)>>)))

(* coverage: how many of a list of requests resolve.                       *)
Coverage(requests) == Cardinality({r \in requests : Named(r) # Blank})

(* setdefault(node, node)                                                  *)
Registered(node) == [parent EXCEPT ![node] = IF @ = Blank THEN node ELSE @]

(* The representative of an id, and the ids on its way there.              *)
Root == LET r[i \in Ids] == IF parent[i] \in {Blank, i} THEN i ELSE r[parent[i]] IN r

OnPath(i, j) == Root[i] = Root[j] /\ j <= i /\
    LET reach[k \in Ids] == k = j \/ (parent[k] \notin {Blank, k} /\ reach[parent[k]]) IN reach[i]

(* _find run alone: every id on the path is hung under the root.           *)
Found(i) == [j \in Ids |-> IF OnPath(i, j) THEN Root[i] ELSE parent[j]]

Quiet == \A t \in Threads : call[t] = Idle

AddMapping(key, id) ==
    /\ Quiet
    /\ mapping' = [mapping EXCEPT ![key] = id]
    /\ parent' = Found(id)
    /\ UNCHANGED call

(* A bug to compare with: the ids linked instead of their roots.           *)
MergeWithoutFind(a, b) ==
    /\ Quiet /\ a < b
    /\ parent' = [parent EXCEPT ![a] = IF @ = Blank THEN a ELSE @, ![b] = a]
    /\ UNCHANGED <<mapping, call>>

Merge(a, b) ==
    /\ Quiet
    /\ LET ra == Root[a]
           rb == Root[b]
           kept == IF ra <= rb THEN ra ELSE rb
       IN  parent' = [j \in Ids |->
               IF j \in {ra, rb} THEN kept
               ELSE IF OnPath(a, j) THEN ra
               ELSE IF OnPath(b, j) THEN rb ELSE parent[j]]
    /\ UNCHANGED <<mapping, call>>

-----------------------------------------------------------------------------
(* resolve, up to the first read of the forest.  A request that names      *)
(* nothing is answered None at once and changes nothing.                   *)
Resolve(t, request) ==
    /\ call[t] = Idle
    /\ Named(request) # Blank
    /\ LET id == Named(request)
       IN  /\ parent' = Registered(id)
           /\ call' = [call EXCEPT ![t] = [pc |-> "climb", id |-> id, node |-> id, root |-> id]]
    /\ UNCHANGED mapping

(* Bugs to compare with: the loop taken for an "if"; its test made on the   *)
(* node the walk started from.                                             *)
ClimbOnce(t) ==
    /\ call[t].pc = "climb"
    /\ call' = [call EXCEPT ![t] = [@ EXCEPT !.pc = "compress", !.root = parent[@]]]
    /\ UNCHANGED <<mapping, parent>>

ClimbTestsNode(t) ==
    /\ call[t].pc = "climb"
    /\ LET next == parent[call[t].root]
       IN  call' = [call EXCEPT ![t] = IF next = @.node THEN [@ EXCEPT !.pc = "compress"]
                                       ELSE [@ EXCEPT !.root = next]]
    /\ UNCHANGED <<mapping, parent>>

(* One turn of the loop that looks for the root.                           *)
Climb(t) ==
    /\ call[t].pc = "climb"
    /\ LET next == parent[call[t].root]
       IN  call' = [call EXCEPT ![t] = IF next = @.root THEN [@ EXCEPT !.pc = "compress"]
                                       ELSE [@ EXCEPT !.root = next]]
    /\ UNCHANGED <<mapping, parent>>

(* One turn of the loop that compresses the path.                          *)
Compress(t) ==
    /\ call[t].pc = "compress" /\ parent[call[t].node] # call[t].root
    /\ parent' = [parent EXCEPT ![call[t].node] = call[t].root]
    /\ call' = [call EXCEPT ![t].node = parent[call[t].node]]
    /\ UNCHANGED mapping

(* The representative is returned.                                         *)
Answer(t) ==
    /\ call[t].pc = "compress" /\ parent[call[t].node] = call[t].root
    /\ call' = [call EXCEPT ![t] = Idle]
    /\ UNCHANGED <<mapping, parent>>

ResolverNext ==
    \/ \E key \in AltKeys, id \in Ids : AddMapping(key, id)
    \/ \E a, b \in Ids : Merge(a, b)
    \/ \E t \in Threads : \/ \E request \in Requests : Resolve(t, request)
                          \/ Climb(t) \/ Compress(t) \/ Answer(t)

(* Every request thread keeps running.                                     *)
ResolverFairness == \A t \in Threads : WF_resolverVars(Climb(t) \/ Compress(t) \/ Answer(t))

ResolverSpec == ResolverInit /\ [][ResolverNext]_resolverVars /\ ResolverFairness
-----------------------------------------------------------------------------
(* Every pointer leads to a smaller id or stays: no walk can go in circles. *)
ResolverTypeOK ==
    /\ mapping \in [AltKeys -> Ids \cup {Blank}]
    /\ parent \in [Ids -> Ids \cup {Blank}] /\ \A i \in Ids : parent[i] <= i
    /\ call \in [Threads -> [pc : {"idle", "climb", "compress"}, id : Ids \cup {Blank},
                             node : Ids \cup {Blank}, root : Ids \cup {Blank}]]

(* Whatever the other threads compress meanwhile, a walk stays within the   *)
(* identity of the id it was asked for, and what it returns is the root.    *)
WalksStayInside ==
    \A t \in Threads : call[t] # Idle =>
        /\ Root[call[t].root] = Root[call[t].id] /\ Root[call[t].node] = Root[call[t].id]
        /\ call[t].pc = "compress" => call[t].root = Root[call[t].id]

(* The forest implements the partition: merging is the only step that       *)
(* changes what an id resolves to, and path compression never shows.        *)
Promise == INSTANCE CustomerIdentity WITH representative <- Root
ImplementsPromise == Promise!IdentitySpec

(* An answered id hangs right under its root: the next walk is one step.    *)
AnswersAreCompressed ==
    [][\A t \in Threads : call[t] # Idle /\ call'[t] = Idle
          => parent[call[t].id] = Root[call[t].id]]_resolverVars

(* Coverage, "how much of the footprint is identity-resolved", is never     *)
(* lost by loading more of the mapping or by merging.                       *)
CoverageGrows == [][Coverage(Requests)' >= Coverage(Requests)]_resolverVars

(* Merging is the only step that changes what an id resolves to; an         *)
(* answered id hangs right under its root; loading more of the mapping, or  *)
(* merging, never resolves fewer requests.                                  *)
IdentityIsKept == ImplementsPromise /\ AnswersAreCompressed /\ CoverageGrows

(* Every resolve comes back: no interleaving leaves a thread going round.   *)
ResolvesReturn == \A t \in Threads : call[t] # Idle ~> call[t] = Idle

(* "Returns None if nothing is resolvable" (id_mapping.py): a request whose *)
(* identifiers are all null or blank names nobody.  The route spells null   *)
(* "None", which is an id like any other.                                   *)
NullNamesNobody ==
    [][\A t \in Threads, r \in Requests :
          (\A f \in DOMAIN r : r[f] \in {Null, Blank}) => ~Resolve(t, r)]_resolverVars
=============================================================================
