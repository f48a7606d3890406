----------------------------- MODULE MCGateway -----------------------------
(***************************************************************************)
(* Seven users, one for each kind of delivery attributes the code tells    *)
(* apart; user 3 is also what the code makes of an id missing from the     *)
(* dataset (no attribute at all).  User 7 is healthy and turned down by    *)
(* the push adapter, as the fallback test of tests/test_messaging.py does. *)
(***************************************************************************)
EXTENDS GatewayAlone, TLC

Has(uninstalled, token, phone, stale) ==
    [uninstalled |-> uninstalled, token |-> token, phone |-> phone, stale |-> stale]

MCUsers == 1..7

MCProfile == <<Has(FALSE, TRUE, TRUE, FALSE),    \* healthy
               Has(FALSE, FALSE, TRUE, FALSE),   \* no push token
               Has(FALSE, FALSE, FALSE, FALSE),  \* unknown to the dataset
               Has(TRUE, TRUE, TRUE, FALSE),     \* app removed
               Has(FALSE, TRUE, TRUE, TRUE),     \* stale, and healthy otherwise
               Has(FALSE, TRUE, TRUE, FALSE),    \* healthy, but opted out
               Has(FALSE, TRUE, TRUE, FALSE)>>   \* healthy, but refused on push

MCOptOut == {6}
MCRefused == {<<"push", 7>>}
ThreadSymmetry == Permutations(Callers)
AllAdapters == {"push", "sms", "in_app"}
=============================================================================
