--------------------------- MODULE MCPaymentPlan ---------------------------
(* Small instances of PaymentPlan for TLC; the .cfg files give the numbers. *)
EXTENDS PaymentPlan

=============================================================================
