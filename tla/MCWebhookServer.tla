-------------------------- MODULE MCWebhookServer ---------------------------
(***************************************************************************)
(* An instance of WebhookServer for TLC: two requests, between them of     *)
(* every class.                                                            *)
(***************************************************************************)
EXTENDS WebhookServer, TLC

EveryClass == "q1" :> {"mutation", "error"} @@ "q2" :> {"bypass", "allowed"}
=============================================================================
