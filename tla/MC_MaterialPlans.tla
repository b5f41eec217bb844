-------------------------- MODULE MC_MaterialPlans --------------------------
(* Two orders over one item: one with up to two garments, one with one.       *)
EXTENDS MaterialPlans, TLC

CONSTANTS store, nowhere, first, second, blouse, skirt, gown

OrderOfGarment == [l \in Lines |-> IF l = gown THEN second ELSE first]
PlaceInPlan == [l \in Lines |-> IF l = blouse THEN 0 ELSE IF l = skirt THEN 1 ELSE 2]
TwoForSkirt == [l \in Lines |-> IF l = skirt THEN 2 ELSE 1]
NoShelves == [s \in {} |-> 0]
=============================================================================
