--------------------------- MODULE MCPaymentInbox ---------------------------
(* Instances of PaymentInbox for TLC. *)
EXTENDS PaymentInbox, TLC
=============================================================================
