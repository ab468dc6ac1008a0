-------------------------- MODULE MCStripeWebhook --------------------------
(***************************************************************************)
(* Instances of StripeWebhook for TLC.                                     *)
(***************************************************************************)
EXTENDS StripeWebhook, TLC

CONSTANTS b1, b2, e1, e2, e3, e4, w1, w2, q1, q2

MCSeats == [b \in Bookings |-> IF b = b1 THEN 2 ELSE 1]
\* e1 and e2 pay b1 and b2; e3 and e4 concern b1 as well.
MCBookingOf == [e \in Events |-> IF e = e2 THEN b2 ELSE b1]
AllOnB1 == [e \in Events |-> b1]
AllCheckout == [e \in Events |-> "checkout"]
CheckoutAndFailure == [e \in Events |-> IF e = e3 THEN "pi_failed" ELSE "checkout"]
PaidAndRefunded == [e \in Events |-> CASE e = e1 -> "checkout"
                                       [] e = e3 -> "pi_succeeded"
                                       [] e = e4 -> "full_refund"]
Refunds == [e \in Events |-> CASE e = e1 -> "checkout" [] e = e2 -> "checkout"
                               [] e = e3 -> "part_refund" [] e = e4 -> "full_refund"]
DeliverySymmetry == Permutations(Workers) \cup Permutations(Requests)
OnlyCheckout == {"checkout"}
=============================================================================
