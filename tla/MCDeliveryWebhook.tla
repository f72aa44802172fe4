------------------------- MODULE MCDeliveryWebhook --------------------------
(* Instances of DeliveryWebhook for TLC. *)
EXTENDS DeliveryWebhook

\* No email's events touch another's, so one email, of any owner, is enough.
OneEmail == {"email"}
=============================================================================
