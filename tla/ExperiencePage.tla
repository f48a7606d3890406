--------------------------- MODULE ExperiencePage ---------------------------
(***************************************************************************)
(* The console's personalization page (src/frontend/src/features/          *)
(* personalization/PersonalizationPage.tsx) with the store behind it: the  *)
(* experiences registered in this session, and their publication.  Any     *)
(* request may be answered late, or have its answer lost after the store   *)
(* has done what it asks.                                                  *)
(***************************************************************************)
EXTENDS Integers, Sequences, FiniteSets, SequencesExt

CONSTANTS Keys, MaxCalls

VARIABLES key,            \* the key in the form
          experiences,    \* the rows, [key, status]
          registering,    \* the form's request under way: a call (<<>>: none)
          publishing,     \* publications under way
          publishingKey,  \* the key whose button shows that it is loading
          store,          \* the status of each key in the store
          sent            \* how many calls were made

experienceVars == <<key, experiences, registering, publishing, publishingKey, store, sent>>

(* A call is [id, key, done]: done once the store has dealt with it.       *)
NoKey == "none"     (* no key *)
Rows(k) == {i \in DOMAIN experiences : experiences[i].key = k}

ASSUME ExperienceAssumption == NoKey \notin Keys

ExperienceInit ==
    /\ key = NoKey /\ experiences = <<>>
    /\ registering = <<>> /\ publishing = {} /\ publishingKey = NoKey
    /\ store = [k \in Keys |-> NoKey] /\ sent = 0
-----------------------------------------------------------------------------
Call(k) == [id |-> sent + 1, key |-> k, done |-> FALSE]

Type == /\ \E k \in Keys : key' = k
        /\ UNCHANGED <<experiences, registering, publishing, publishingKey, store, sent>>

(* A bug to compare with: a key that is there already is registered again. *)
RegisterAgain ==
    /\ key # NoKey /\ registering = <<>> /\ sent < MaxCalls
    /\ registering' = <<Call(key)>> /\ sent' = sent + 1
    /\ UNCHANGED <<key, experiences, publishing, publishingKey, store>>

(* register, up to its await.                                              *)
Register ==
    /\ key # NoKey /\ registering = <<>> /\ sent < MaxCalls
    /\ Rows(key) = {}
    /\ registering' = <<Call(key)>> /\ sent' = sent + 1
    /\ UNCHANGED <<key, experiences, publishing, publishingKey, store>>

(* The store replaces what it has with a draft.                            *)
StoreRegisters ==
    /\ registering # <<>> /\ ~registering[1].done
    /\ store' = [store EXCEPT ![registering[1].key] = "draft"]
    /\ registering' = <<[registering[1] EXCEPT !.done = TRUE]>>
    /\ UNCHANGED <<key, experiences, publishing, publishingKey, sent>>

(* The rest of register.  The row and the reset form use the key that the  *)
(* form had when the request was sent.                                     *)
RegisterReturns ==
    /\ registering # <<>> /\ registering[1].done
    /\ experiences' = <<[key |-> registering[1].key, status |-> "draft"]>> \o experiences
    /\ key' = NoKey
    /\ registering' = <<>>
    /\ UNCHANGED <<publishing, publishingKey, store, sent>>

(* An error: the request was refused, or its answer is lost.               *)
RegisterFails ==
    /\ registering # <<>>
    /\ registering' = <<>>
    /\ UNCHANGED <<key, experiences, publishing, publishingKey, store, sent>>

(* publish, of a draft whose button is not loading.                        *)
Publish(k) ==
    /\ \E i \in Rows(k) : experiences[i].status = "draft"
    /\ publishingKey # k /\ sent < MaxCalls
    /\ publishing' = publishing \cup {Call(k)} /\ sent' = sent + 1
    /\ publishingKey' = k
    /\ UNCHANGED <<key, experiences, registering, store>>

(* The store publishes what it has; an unknown key is refused.             *)
StorePublishes(call) ==
    /\ ~call.done
    /\ store[call.key] # NoKey
    /\ store' = [store EXCEPT ![call.key] = "published"]
    /\ publishing' = (publishing \ {call}) \cup {[call EXCEPT !.done = TRUE]}
    /\ UNCHANGED <<key, experiences, registering, publishingKey, sent>>

(* The rest of publish: the row changes after a success, and whichever     *)
(* button was loading no longer is.                                        *)
PublishReturns(call) ==
    /\ publishing' = publishing \ {call}
    /\ publishingKey' = NoKey
    /\ \/ /\ call.done
          /\ experiences' = [i \in DOMAIN experiences |->
                IF experiences[i].key = call.key
                THEN [experiences[i] EXCEPT !.status = "published"] ELSE experiences[i]]
       \/ UNCHANGED experiences
    /\ UNCHANGED <<key, registering, store, sent>>

ExperienceNext ==
    \/ Type \/ Register \/ StoreRegisters \/ RegisterReturns \/ RegisterFails
    \/ \E k \in Keys : Publish(k)
    \/ \E call \in publishing : StorePublishes(call) \/ PublishReturns(call)

ExperienceSpec == ExperienceInit /\ [][ExperienceNext]_experienceVars
-----------------------------------------------------------------------------
(* What the page shows as published is published, and what it shows as a   *)
(* draft is there: no order of answers, and no answer that is lost and     *)
(* asked for again, leaves a row that the store contradicts.               *)
RowsAreTrue ==
    \A i \in DOMAIN experiences :
        LET stored == store[experiences[i].key]
        IN  IF experiences[i].status = "published" THEN stored = "published" ELSE stored # NoKey
=============================================================================
