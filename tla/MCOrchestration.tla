--------------------------- MODULE MCOrchestration ---------------------------
(***************************************************************************)
(* Two campaigns that share users 1 and 2.  "welcome" is a batch push      *)
(* campaign with a hold-out and two variants: user 1 in the first variant, *)
(* user 2 in the second and with neither push token nor phone, user 3 held *)
(* out.  "winback" is a triggered sms campaign with one variant.  Without  *)
(* an in-app adapter, user 2's sms is a failed delivery.                   *)
(***************************************************************************)
EXTENDS Orchestration, TLC

Has(token, phone) ==
    [uninstalled |-> FALSE, token |-> token, phone |-> phone, stale |-> FALSE]

MCUsers == 1..3
MCProfile == <<Has(TRUE, TRUE), Has(FALSE, FALSE), Has(TRUE, TRUE)>>
MCOptOut == {}
MCCampaigns == {"welcome", "winback"}

MCDefinition ==
    [welcome |-> [audience |-> {1, 2, 3}, channel |-> "push", triggered |-> FALSE,
                  control |-> 1, weights |-> <<1, 1>>],
     winback |-> [audience |-> {1, 2}, channel |-> "sms", triggered |-> TRUE,
                  control |-> 0, weights |-> <<1>>]]

MCFrac == [welcome |-> <<2, 3, 0>>, winback |-> <<0, 1, 2>>]
MCFiredSets == {{1}, {1, 2, 3}}
NoInApp == {"push", "sms"}
ThreadSymmetry == Permutations(Callers)
=============================================================================
