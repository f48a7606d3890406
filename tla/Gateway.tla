------------------------------ MODULE Gateway ------------------------------
(***************************************************************************)
(* The messaging gateway (src/src/messaging): the one object every request *)
(* thread sends through.  A send of one message is two steps of its        *)
(* thread, because the bytecode interpreter may switch threads between     *)
(* them: the checks that end in drawing a token, and the delivery that     *)
(* ends in appending a record to the shared log.  RateLimiter.allow itself *)
(* is one step: it holds no call or loop at which CPython may switch.      *)
(* The channels, the delivery statuses and what a touch record says about  *)
(* a user are the contract of src/src/growth_common, which messaging       *)
(* shares with orchestration and analytics.                                *)
(***************************************************************************)
EXTENDS Integers, Sequences, FiniteSets

CONSTANTS
    Users,      \* customer ids, numbered in their sorting order
    Campaigns,  \* campaign ids
    Days,       \* calendar days a caller may pass as "now"
    Variants,   \* positions of a campaign's variants
    Callers,    \* threads that may be inside send_batch
    OptOut,     \* Gateway.opt_out
    Profile,    \* the dataset's delivery attributes of each user
    Adapters,   \* channels that have an adapter installed
    Refused,    \* <<channel, user>>: turned down by an adapter of the caller's own
    Limited,    \* is a RateLimiter installed?
    Capacity,   \* its capacity
    NoRequest   \* what a thread that is in no delivery works on

Channel == {"push", "sms", "in_app"}

(* What an HTTP body may name as its channel: any string.  One name that   *)
(* is no channel stands for all of those.                                  *)
RequestChannel == Channel \cup {"unknown"}

Status == {"sent", "failed", "suppressed_optout", "suppressed_unreachable",
           "capped", "heldout_control"}

Attributes == [uninstalled: BOOLEAN, token: BOOLEAN, phone: BOOLEAN, stale: BOOLEAN]

Request == [user: Users, campaign: Campaigns, channel: RequestChannel,
            day: Days, variant: Variants]

ASSUME GatewayAssumption ==
    /\ Users \subseteq Nat
    /\ IsFiniteSet(Callers)
    /\ Profile \in [Users -> Attributes]
    /\ Adapters \subseteq Channel
    /\ Adapters # {}  \* Gateway takes an empty dict for "the default adapters"
    /\ Refused \subseteq Channel \X Users
    /\ Limited \in BOOLEAN
    /\ Capacity \in Nat
    /\ NoRequest \notin Request

VARIABLES
    log,         \* Gateway.log, in order
    tokens,      \* RateLimiter._tokens
    inflight,    \* the request each thread has drawn a token for
    windowStart, \* history: length of the log at the last refill
    carried      \* history: requests that were in flight at that refill

gatewayVars == <<log, tokens, inflight, windowStart, carried>>

Reason == {"opt_out", "app_uninstalled", "no_push_token", "stale_last_active",
           "rate_limited", "all_channels_failed", "none"}

Record == [user: Users, campaign: Campaigns, channel: RequestChannel, day: Days,
           variant: Variants, status: Status, reason: Reason, primary: RequestChannel]

GatewayTypeOK ==
    /\ log \in Seq(Record)
    /\ tokens \in 0..Capacity
    /\ inflight \in [Callers -> Request \cup {NoRequest}]
    /\ windowStart \in 0..Len(log)
    /\ carried \in 0..Cardinality(Callers)

GatewayInit ==
    /\ log = <<>>
    /\ tokens = Capacity
    /\ inflight = [c \in Callers |-> NoRequest]
    /\ windowStart = 0
    /\ carried = 0
-----------------------------------------------------------------------------
(* The positions of records (a sequence) at which user u was really        *)
(* messaged on day d: the only records that consume a user's daily budget. *)
SentTo(records, u, d) ==
    {i \in DOMAIN records : /\ records[i].user = u
                            /\ records[i].day = d
                            /\ records[i].status = "sent"}

(* The same, restricted to the touches of one campaign.                    *)
SentBy(records, u, c, d) == {i \in SentTo(records, u, d) : records[i].campaign = c}
-----------------------------------------------------------------------------
(* A bug to compare with: the staleness test forgotten.                    *)
UnreachableReasonNoStale(u, ch) ==
    IF Profile[u].uninstalled THEN "app_uninstalled"
    ELSE IF ch = "push" /\ ~Profile[u].token THEN "no_push_token"
    ELSE "none"

(* Gateway._unreachable_reason, "none" for None.                           *)
UnreachableReason(u, ch) ==
    IF Profile[u].uninstalled THEN "app_uninstalled"
    ELSE IF ch = "push" /\ ~Profile[u].token THEN "no_push_token"
    ELSE IF Profile[u].stale THEN "stale_last_active"
    ELSE "none"

(* An adapter of ch is installed and its provider takes the message.  The  *)
(* stock adapters ask for a token or a phone number; one that a caller     *)
(* installs in their place may turn down more users (adapters.py: outcomes *)
(* are deterministic).                                                     *)
Accepts(u, ch) ==
    /\ ch \in Adapters
    /\ <<ch, u>> \notin Refused
    /\ ch = "push" => Profile[u].token
    /\ ch = "sms" => Profile[u].phone

(* A bug to compare with: in-app, which always accepts, tried before sms.  *)
FallbackRankSwapped == [push |-> 1, sms |-> 3, in_app |-> 2]

FallbackRank == [push |-> 1, sms |-> 2, in_app |-> 3]

(* The channel that delivers when at least one does: the primary one, else *)
(* the first of the fallback order that accepts.                           *)
DeliveringChannel(u, primary) ==
    IF Accepts(u, primary) THEN primary
    ELSE CHOOSE ch \in Channel :
            /\ Accepts(u, ch)
            /\ \A other \in Channel :
                   Accepts(u, other) => FallbackRank[ch] <= FallbackRank[other]

(* Gateway._record                                                         *)
Recorded(req, ch, status, reason) ==
    Append(log, [user |-> req.user, campaign |-> req.campaign, channel |-> ch,
                 day |-> req.day, variant |-> req.variant, status |-> status,
                 reason |-> reason, primary |-> req.channel])

(* The request passes the opt-out and the reachability filters.            *)
Admissible(req) ==
    /\ req.user \notin OptOut
    /\ UnreachableReason(req.user, req.channel) = "none"

SuppressOptOut(c, req) ==
    /\ inflight[c] = NoRequest
    /\ req.user \in OptOut
    /\ log' = Recorded(req, req.channel, "suppressed_optout", "opt_out")
    /\ UNCHANGED <<tokens, inflight, windowStart, carried>>

(* A bug to compare with: the limiter asked before the reachability filter. *)
SuppressUnreachableBurns(c, req) ==
    /\ inflight[c] = NoRequest
    /\ req.user \notin OptOut
    /\ UnreachableReason(req.user, req.channel) # "none"
    /\ Limited => tokens > 0
    /\ tokens' = IF Limited THEN tokens - 1 ELSE tokens
    /\ log' = Recorded(req, req.channel, "suppressed_unreachable",
                       UnreachableReason(req.user, req.channel))
    /\ UNCHANGED <<inflight, windowStart, carried>>

SuppressUnreachable(c, req) ==
    /\ inflight[c] = NoRequest
    /\ req.user \notin OptOut
    /\ UnreachableReason(req.user, req.channel) # "none"
    /\ log' = Recorded(req, req.channel, "suppressed_unreachable",
                       UnreachableReason(req.user, req.channel))
    /\ UNCHANGED <<tokens, inflight, windowStart, carried>>

(* RateLimiter.allow answered False.                                       *)
Throttle(c, req) ==
    /\ inflight[c] = NoRequest
    /\ Admissible(req)
    /\ Limited /\ tokens <= 0
    /\ log' = Recorded(req, req.channel, "failed", "rate_limited")
    /\ UNCHANGED <<tokens, inflight, windowStart, carried>>

(* A bug to compare with: a limiter that forgets to take the token.         *)
DrawKeepsToken(c, req) ==
    /\ inflight[c] = NoRequest
    /\ Admissible(req)
    /\ Limited => tokens > 0
    /\ inflight' = [inflight EXCEPT ![c] = req]
    /\ UNCHANGED <<log, tokens, windowStart, carried>>

(* There is no limiter, or RateLimiter.allow took a token.                 *)
Draw(c, req) ==
    /\ inflight[c] = NoRequest
    /\ Admissible(req)
    /\ Limited => tokens > 0
    /\ tokens' = IF Limited THEN tokens - 1 ELSE tokens
    /\ inflight' = [inflight EXCEPT ![c] = req]
    /\ UNCHANGED <<log, windowStart, carried>>

(* Gateway._deliver_with_fallback                                          *)
Deliver(c) ==
    /\ inflight[c] # NoRequest
    /\ LET req == inflight[c]
       IN  log' = IF \E ch \in Channel : Accepts(req.user, ch)
                  THEN Recorded(req, DeliveringChannel(req.user, req.channel), "sent", "none")
                  ELSE Recorded(req, req.channel, "failed", "all_channels_failed")
    /\ inflight' = [inflight EXCEPT ![c] = NoRequest]
    /\ UNCHANGED <<tokens, windowStart, carried>>

Busy == {c \in Callers : inflight[c] # NoRequest}

(* RateLimiter.refill: the owner of the send window resets the bucket.     *)
Refill ==
    /\ Limited
    /\ tokens' = Capacity
    /\ windowStart' = Len(log)
    /\ carried' = Cardinality(Busy)
    /\ UNCHANGED <<log, inflight>>

(* A step that ends a request at once, without a token.                    *)
Refuse(c, req) == SuppressOptOut(c, req) \/ SuppressUnreachable(c, req) \/ Throttle(c, req)

(* Everything that happens to the gateway is one of these.                 *)
GatewayStep ==
    \/ \E c \in Callers : \E req \in Request : Refuse(c, req) \/ Draw(c, req)
    \/ \E c \in Callers : Deliver(c)
    \/ Refill
-----------------------------------------------------------------------------
(* Records of this window that were handed to an adapter.                  *)
Attempted ==
    {i \in (windowStart + 1)..Len(log) :
        log[i].status = "sent" \/ log[i].reason = "all_channels_failed"}

(* Tokens are neither lost nor minted: in every window the attempts made,  *)
(* the attempts under way and the tokens left account for the capacity     *)
(* plus what the last refill found in flight.  A suppressed or throttled   *)
(* user, whose record the code writes before or without a draw, costs      *)
(* nothing (gateway.py, send_one; rate_limiter.py).                        *)
TokenConservation ==
    Limited => Cardinality(Attempted) + Cardinality(Busy) + tokens = Capacity + carried

(* "Caps messages per send window" (rate_limiter.py:1), as far as it goes  *)
(* with threads: a window exceeds its capacity by at most one message for  *)
(* each thread the refill caught between its draw and its delivery.        *)
WindowOvershoot ==
    Limited => Cardinality(Attempted) <= Capacity + Cardinality(Callers)

(* A message leaves the primary channel only when that channel would have  *)
(* refused it, and lands on the first channel of push, sms, in_app that    *)
(* takes it; it fails only when none does (gateway.py,                     *)
(* _deliver_with_fallback).                                                *)
FallbackJustified ==
    \A i \in DOMAIN log :
        LET r == log[i]
        IN  /\ r.status = "sent" =>
                 /\ Accepts(r.user, r.channel)
                 /\ r.channel # r.primary =>
                      /\ ~Accepts(r.user, r.primary)
                      /\ r.channel # "push" => ~Accepts(r.user, "push")
                      /\ r.channel = "in_app" => ~Accepts(r.user, "sms")
            /\ r.reason = "all_channels_failed" =>
                 \A ch \in Channel : ~Accepts(r.user, ch)

(* No message reaches a user who opted out, removed the app or went stale, *)
(* whatever the channel and the fallback; and a request for push reaches,  *)
(* on push or on what it falls back to, only users who have a push token:  *)
(* the filter of send_one comes before the fallback.                       *)
NoForbiddenTouch ==
    \A i \in DOMAIN log :
        LET r == log[i]
        IN  r.status = "sent" =>
              /\ r.user \notin OptOut
              /\ ~Profile[r.user].uninstalled /\ ~Profile[r.user].stale
              /\ r.primary = "push" => Profile[r.user].token

(* The dataset's table (sample_data.py:17) and the pipeline's description  *)
(* (gateway.py:10) promise that a healthy user without a push token is     *)
(* messaged on sms when push fails.                                        *)
PushFallsBackToSms ==
    \A i \in DOMAIN log :
        LET r == log[i]
            p == Profile[r.user]
        IN  (/\ r.primary = "push" /\ r.user \notin OptOut
             /\ ~p.uninstalled /\ ~p.stale /\ ~p.token /\ p.phone
             /\ r.reason # "rate_limited")
            => r.status = "sent" /\ r.channel = "sms"
=============================================================================
