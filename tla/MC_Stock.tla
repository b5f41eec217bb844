------------------------------ MODULE MC_Stock ------------------------------
(* A main store with a shelf on the shop floor and two in the back room, and  *)
(* a workshop with one.                                                       *)
EXTENDS Stock, TLC

CONSTANTS store, workshop, floor, back1, back2, bench, nowhere

Where == [s \in {floor, back1, back2, bench} |-> IF s = bench THEN workshop ELSE store]
Walk == floor :> 10 @@ back1 :> 20 @@ back2 :> 30 @@ bench :> 40
=============================================================================
