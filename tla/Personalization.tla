-------------------------- MODULE Personalization --------------------------
(***************************************************************************)
(* One-to-one experiences (src/src/personalization, and the routes of      *)
(* src/src/services/personalization.py): operators register, publish and   *)
(* pause experiences while request threads fetch several of them.  Nothing *)
(* is locked: publish looks an object up and flips its status later, and a *)
(* fetch keeps the audiences it evaluated under the id() of the            *)
(* specification, an address that is free again once a registration has    *)
(* replaced the experience.                                                *)
(***************************************************************************)
EXTENDS Allocation, FiniteSetsExt

(* Drafts: what may be registered under each key: audience, control_pct,   *)
(* weights, and each variation's locales.  Frac: stable_fraction of a key  *)
(* and a customer.  Requests: identifiers, keys and locale of a fetch.     *)
(* Addresses: where a specification may live.                              *)
CONSTANTS Keys, Drafts, Frac, Fetchers, Publishers, Requests, Addresses,
          MaxObjects, MaxFetches, None

Statuses == {"draft", "published", "paused"}
DefaultLocale == "default"

VARIABLES object,     (* every Experience created, in order                *)
          store,      (* key -> the object registered under it, or None    *)
          publishing, (* publisher -> the object it has looked up, or None *)
          fetch,      (* fetcher -> its call                               *)
          fetches,    (* fetches begun                                     *)
          approved    (* history: objects some publish was called for      *)

vars == <<object, store, publishing, fetch, fetches, approved>>

Objects == 1..Len(object)

Idle == [pc |-> "idle", request |-> None, at |-> 0, held |-> None, cache |-> <<>>,
         result |-> <<>>, began |-> 0]

Init == /\ object = <<>>
        /\ store = [k \in Keys |-> None]
        /\ publishing = [p \in Publishers |-> None]
        /\ fetch = [f \in Fetchers |-> Idle]
        /\ fetches = 0
        /\ approved = {}

(* The objects something still refers to: their specifications' addresses  *)
(* are taken.                                                              *)
Live == {o \in Objects : \/ \E k \in Keys : store[k] = o
                         \/ \E f \in Fetchers : fetch[f].held = o
                         \/ \E p \in Publishers : publishing[p] = o}

-----------------------------------------------------------------------------
(* POST /experiences: a draft, in place of whatever the key had.           *)
Register(key, draft, address) ==
    /\ Len(object) < MaxObjects
    /\ address \notin {object[o].address : o \in Live}
    /\ object' = Append(object, [key |-> key, draft |-> draft, address |-> address,
                                 status |-> "draft"])
    /\ store' = [store EXCEPT ![key] = Len(object) + 1]
    /\ UNCHANGED <<publishing, fetch, fetches, approved>>

(* publish, in two steps: the lookup, then the flip.                       *)
LookUp(p, key) ==
    /\ publishing[p] = None /\ store[key] # None
    /\ publishing' = [publishing EXCEPT ![p] = store[key]]
    /\ approved' = approved \cup {store[key]}
    /\ UNCHANGED <<object, store, fetch, fetches>>

(* A bug to compare with: the flip looks the key up again.                 *)
FlipByKey(p) ==
    /\ publishing[p] # None
    /\ object' = [object EXCEPT ![store[object[publishing[p]].key]].status = "published"]
    /\ publishing' = [publishing EXCEPT ![p] = None]
    /\ UNCHANGED <<store, fetch, fetches, approved>>

Flip(p) ==
    /\ publishing[p] # None
    /\ object' = [object EXCEPT ![publishing[p]].status = "published"]
    /\ publishing' = [publishing EXCEPT ![p] = None]
    /\ UNCHANGED <<store, fetch, fetches, approved>>

Pause(key) ==
    /\ store[key] # None
    /\ object' = [object EXCEPT ![store[key]].status = "paused"]
    /\ UNCHANGED <<store, publishing, fetch, fetches, approved>>

-----------------------------------------------------------------------------
(* resolve_customer_id                                                     *)
CustomerOf(ids) ==
    IF ids.customer_id # None THEN ids.customer_id
    ELSE IF ids.u_mb # None THEN ids.u_mb ELSE ids.u_em

(* fetch: a request that names no customer is refused and changes nothing. *)
Begin(f, request) ==
    /\ fetch[f].pc = "idle" /\ fetches < MaxFetches
    /\ CustomerOf(request.ids) # None
    /\ fetch' = [fetch EXCEPT ![f] = [Idle EXCEPT !.pc = "next", !.request = request, !.at = 1,
                                                 !.began = Len(object)]]
    /\ fetches' = fetches + 1
    /\ UNCHANGED <<object, store, publishing, approved>>

(* payload_for                                                             *)
PayloadFor(locales, locale) ==
    IF locale \in locales THEN locale
    ELSE IF DefaultLocale \in locales THEN DefaultLocale ELSE None

(* What a customer of the audience gets of an object: nothing when held    *)
(* out, else a variation's payload.                                        *)
Decision(o, audience, request) ==
    LET draft == object[o].draft
        customer == CustomerOf(request.ids)
        bucket == Assign(Frac[object[o].key][customer], draft.control, draft.weights)
    IN  IF customer \notin audience \/ bucket = Control THEN None
        ELSE [object |-> o, variation |-> bucket, audience |-> audience,
              locale |-> PayloadFor(draft.locales[bucket], request.locale)]

Answered(call, answer) ==
    [call EXCEPT !.pc = IF call.at = Len(call.request.keys) THEN "done" ELSE "next",
                 !.at = @ + 1, !.held = None,
                 !.result = Append(@, answer)]

(* The next key is looked up; a missing one is answered None.              *)
Get(f) ==
    /\ fetch[f].pc = "next"
    /\ LET o == store[fetch[f].request.keys[fetch[f].at]]
       IN  fetch' = [fetch EXCEPT ![f] =
               IF o = None THEN Answered(@, None) ELSE [@ EXCEPT !.pc = "gate", !.held = o]]
    /\ UNCHANGED <<object, store, publishing, fetches, approved>>

(* Not published: nothing.                                                 *)
Gate(f) ==
    /\ fetch[f].pc = "gate" /\ object[fetch[f].held].status # "published"
    /\ fetch' = [fetch EXCEPT ![f] = Answered(@, None)]
    /\ UNCHANGED <<object, store, publishing, fetches, approved>>

(* The audience of this address is in the cache, or has to be evaluated.   *)
Look(f) ==
    /\ fetch[f].pc = "gate"
    /\ LET o == fetch[f].held
       IN  /\ object[o].status = "published"
           /\ fetch' = [fetch EXCEPT ![f] =
                IF object[o].address \in DOMAIN @.cache
                THEN Answered(@, Decision(o, @.cache[object[o].address], @.request))
                ELSE [@ EXCEPT !.pc = "evaluate"]]
    /\ UNCHANGED <<object, store, publishing, fetches, approved>>

(* A bug to compare with: one cached audience for every specification.     *)
RememberForAll(cache, address, audience) == [a \in Addresses |-> audience]

Remember(cache, address, audience) ==
    [a \in DOMAIN cache \cup {address} |-> IF a = address THEN audience ELSE cache[a]]

(* The specification held is evaluated, remembered and used.               *)
Evaluate(f) ==
    /\ fetch[f].pc = "evaluate"
    /\ LET call == fetch[f]
           o == call.held
           audience == object[o].draft.audience
           cache == Remember(call.cache, object[o].address, audience)
       IN  fetch' = [fetch EXCEPT ![f] = Answered([call EXCEPT !.cache = cache],
                                                  Decision(o, audience, call.request))]
    /\ UNCHANGED <<object, store, publishing, fetches, approved>>

Return(f) ==
    /\ fetch[f].pc = "done"
    /\ fetch' = [fetch EXCEPT ![f] = Idle]
    /\ UNCHANGED <<object, store, publishing, fetches, approved>>

Next == \/ \E key \in Keys, address \in Addresses : \E draft \in Drafts[key] :
               Register(key, draft, address)
        \/ \E p \in Publishers : Flip(p) \/ \E key \in Keys : LookUp(p, key)
        \/ \E key \in Keys : Pause(key)
        \/ \E f \in Fetchers : \/ \E request \in Requests : Begin(f, request)
                               \/ Get(f) \/ Gate(f) \/ Look(f) \/ Evaluate(f) \/ Return(f)

(* The request threads keep running.                                       *)
Spec == Init /\ [][Next]_vars
             /\ \A f \in Fetchers : WF_vars(Get(f) \/ Gate(f) \/ Look(f) \/ Evaluate(f) \/ Return(f))
-----------------------------------------------------------------------------
TypeOK ==
    /\ \A o \in Objects : object[o].status \in Statuses /\ object[o].draft \in Drafts[object[o].key]
    /\ \A k \in Keys : store[k] \in {None} \cup {o \in Objects : object[o].key = k}
    /\ \A o, q \in Live : o # q => object[o].address # object[q].address
    /\ \A f \in Fetchers : /\ fetch[f].held \in {None} \cup Objects
                          /\ fetch[f].pc # "idle" =>
                               Len(fetch[f].result) = fetch[f].at - 1

Served(f) == {fetch[f].result[i] : i \in DOMAIN fetch[f].result} \ {None}

(* "status gates delivery": no customer is served an object that nobody     *)
(* asked to publish; a publish of what the key held before does not count,  *)
(* however late it comes.                                                   *)
ServedWasApproved == \A f \in Fetchers : \A a \in Served(f) : a.object \in approved

(* The customer of a held-out or other audience never sees an experience    *)
(* that was there when the fetch began: only one registered meanwhile can   *)
(* be judged by the cached audience of another.                             *)
OnlyNewcomersMistaken ==
    \A f \in Fetchers : \A a \in Served(f) :
        a.object <= fetch[f].began => a.audience = object[a.object].draft.audience

(* Every fetch comes back, whatever is replaced under it.                   *)
FetchesReturn == \A f \in Fetchers : fetch[f].pc # "idle" ~> fetch[f].pc = "idle"

(* "cache identical spec objects within this fetch" (service.py): what is   *)
(* served was decided by the audience of its own specification.             *)
CacheIsPerSpec ==
    \A f \in Fetchers : \A a \in Served(f) : a.audience = object[a.object].draft.audience
=============================================================================
