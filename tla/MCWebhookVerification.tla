---------------------- MODULE MCWebhookVerification ----------------------
(* Instances of WebhookVerification for TLC. *)
EXTENDS WebhookVerification

CONSTANTS h1, h2
===========================================================================
