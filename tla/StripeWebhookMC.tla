-------------------------- MODULE StripeWebhookMC --------------------------
(* Instance of StripeWebhook for TLC: a renewal, a failed payment and the     *)
(* end of one subscription, delivered in any order.                           *)
EXTENDS StripeWebhook

CONSTANTS renewal, dunning, cancellation

MCKind == [e \in Events |-> CASE e = renewal      -> "active"
                              [] e = cancellation -> "terminal"
                              [] OTHER            -> "past_due"]
=============================================================================
