---------------------------- MODULE GatewayAlone ----------------------------
(***************************************************************************)
(* The gateway on its own: any thread may hand it any request at any time. *)
(***************************************************************************)
EXTENDS Gateway

CONSTANT MaxLog  \* bound: records and deliveries under way in a behaviour

Submit(c, req) ==
    /\ Len(log) + Cardinality(Busy) < MaxLog
    /\ Refuse(c, req) \/ Draw(c, req)

GatewayNext ==
    \/ \E c \in Callers : \E req \in Request : Submit(c, req)
    \/ \E c \in Callers : Deliver(c)
    \/ Refill

GatewaySpec == GatewayInit /\ [][GatewayNext]_gatewayVars
=============================================================================
