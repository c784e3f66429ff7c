-------------------------- MODULE MCStripeWebhook --------------------------
(* A subscription with two events of the same second and an older one. *)
EXTENDS StripeWebhook, TLC

CONSTANTS e1, e2, e3, s1

AllOfOne == [e \in Event |-> s1]
Seconds == (e1 :> 1) @@ (e2 :> 2) @@ (e3 :> 2)
=============================================================================
