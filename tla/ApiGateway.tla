----------------------------- MODULE ApiGateway -----------------------------
(***************************************************************************)
(* The edge (src/src/api_gateway.py): every request under /api needs a     *)
(* non-empty application key and a token of that key's bucket.  The        *)
(* middleware runs on one event loop and awaits nothing before it has      *)
(* decided, so a request is one step.  Time is a number of ticks, Unit of  *)
(* them to the second; a token is Unit units, so a tick refills Rate units *)
(* and the code's division disappears (its rounding is not modelled).      *)
(***************************************************************************)
EXTENDS Integers, Sequences, FiniteSetsExt

(* MaxClock and MaxGrants bound the exploration.                           *)
CONSTANTS Keys, Rate, Unit, MaxClock, MaxGrants

ASSUME ApiGatewayAssumption == Rate \in Nat \ {0} /\ Unit \in Nat \ {0}

VARIABLES bucket,   (* key -> tokens, in units, and the time of the refill *)
          clock,
          granted,  (* history: when each key's requests were forwarded    *)
          status    (* the answer to the last request                      *)

vars == <<bucket, clock, granted, status>>

NoKey == ""
Full == Rate * Unit

Init == /\ bucket = [k \in Keys |-> [tokens |-> Full, last |-> 0]]
        /\ clock = 0
        /\ granted = [k \in Keys |-> <<>>]
        /\ status = 200

(* min(rate, tokens + elapsed * rate / per).  A key not seen yet starts    *)
(* full at its first request, which is what a full bucket refills to.      *)
Refilled(key) == Min({Full, bucket[key].tokens + (clock - bucket[key].last) * Rate})

(* _TokenBucket.allow                                                      *)
Allow(key) ==
    /\ Refilled(key) >= Unit
    /\ bucket' = [bucket EXCEPT ![key] = [tokens |-> Refilled(key) - Unit, last |-> clock]]

Deny(key) ==
    /\ Refilled(key) < Unit
    /\ bucket' = [bucket EXCEPT ![key] = [tokens |-> Refilled(key), last |-> clock]]

(* _edge: outside /api nothing is asked.                                   *)
Open == status' = 200 /\ UNCHANGED <<bucket, clock, granted>>

Unauthenticated(key) ==
    key = NoKey /\ status' = 401 /\ UNCHANGED <<bucket, clock, granted>>

Forward(key) ==
    /\ key # NoKey /\ Len(granted[key]) < MaxGrants
    /\ Allow(key)
    /\ granted' = [granted EXCEPT ![key] = Append(@, clock)]
    /\ status' = 200 /\ UNCHANGED clock

(* A bug to compare with: the request is forwarded all the same.           *)
RefuseNot(key) ==
    /\ key # NoKey /\ Len(granted[key]) < MaxGrants
    /\ Deny(key)
    /\ granted' = [granted EXCEPT ![key] = Append(@, clock)]
    /\ status' = 200 /\ UNCHANGED clock

Refuse(key) ==
    /\ key # NoKey
    /\ Deny(key)
    /\ status' = 429 /\ UNCHANGED <<clock, granted>>

(* time.monotonic                                                          *)
Tick == clock < MaxClock /\ clock' = clock + 1 /\ UNCHANGED <<bucket, granted, status>>

Next == Tick \/ Open \/ \E key \in Keys \cup {NoKey} :
            Unauthenticated(key) \/ Forward(key) \/ Refuse(key)

Spec == Init /\ [][Next]_vars
-----------------------------------------------------------------------------
TypeOK ==
    /\ bucket \in [Keys -> [tokens : 0..Full, last : 0..clock]]
    /\ clock \in 0..MaxClock /\ status \in {200, 401, 429}

(* Whatever comes between, unauthenticated, refused and other keys'         *)
(* requests included: from any forwarded request of a key to any later one  *)
(* it was forwarded at most its burst and what the time between refilled.   *)
RateBound ==
    \A key \in Keys : \A i \in 1..Len(granted[key]) : \A j \in i..Len(granted[key]) :
        (j - i + 1) * Unit <= Full + (granted[key][j] - granted[key][i]) * Rate
=============================================================================
