--------------------------- MODULE MC_OrderWizard ---------------------------
(* One person's tabs on the form that takes an order. *)
EXTENDS OrderWizard, TLC
CONSTANTS t1, t2, nobody
=============================================================================
