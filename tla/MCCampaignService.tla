-------------------------- MODULE MCCampaignService --------------------------
(***************************************************************************)
(* Two request threads.  User 1 is healthy, user 2 opted out, user 3 has   *)
(* no push token.  "adhoc" is the id of batches that name no campaign.     *)
(***************************************************************************)
EXTENDS CampaignService, TLC

Has(token, phone) ==
    [uninstalled |-> FALSE, token |-> token, phone |-> phone, stale |-> FALSE]

MCUsers == 1..3
MCProfile == <<Has(TRUE, TRUE), Has(TRUE, TRUE), Has(FALSE, TRUE)>>
MCOptOut == {2}
MCCampaigns == {"welcome", "winback", "adhoc"}

MCDefinition ==
    [welcome |-> [audience |-> {1, 2, 3}, channel |-> "push", triggered |-> FALSE,
                  control |-> 0, weights |-> <<1, 1>>],
     winback |-> [audience |-> {1}, channel |-> "in_app", triggered |-> TRUE,
                  control |-> 0, weights |-> <<1>>],
     adhoc |-> [audience |-> {}, channel |-> "push", triggered |-> FALSE,
                control |-> 0, weights |-> <<1>>]]

MCFrac == [welcome |-> <<0, 1, 3>>, winback |-> <<0, 1, 2>>, adhoc |-> <<0, 1, 2>>]
MCBatches == {<<3, 3>>, <<2, 1>>}
AllAdapters == {"push", "sms", "in_app"}
=============================================================================
