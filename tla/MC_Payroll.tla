----------------------------- MODULE MC_Payroll -----------------------------
(* Two weeks, a session or two, a deposit and an advance of a unit or two.    *)
EXTENDS Payroll, TLC

CONSTANTS w1, w2, elsewhere, s1, s2

OneOrTwo == {[agreed |-> 1, weekly |-> 1], [agreed |-> 2, weekly |-> 2]}
Parked == {[amount |-> 2, weekly |-> 0], [amount |-> 2, weekly |-> 1]}

AlikeWeeks == Permutations(Weeks) \cup Permutations(Sessions)
=============================================================================
