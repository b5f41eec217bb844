-------------------------- MODULE MC_PaymentLedger --------------------------
(* One order, and as many requests about it as the configuration names. *)
EXTENDS PaymentLedger, TLC

CONSTANTS counter, workroom

Alike == Permutations(Requests)
=============================================================================
