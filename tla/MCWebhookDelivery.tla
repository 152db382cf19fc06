-------------------------- MODULE MCWebhookDelivery --------------------------
(* WebhookDelivery for TLC; the constants are in the configuration. *)
EXTENDS WebhookDelivery
==============================================================================
