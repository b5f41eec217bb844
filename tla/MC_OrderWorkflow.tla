-------------------------- MODULE MC_OrderWorkflow --------------------------
(* Small orders for OrderWorkflow.  The role lists are those of              *)
(* crm_api.models.get_default_workflow.                                      *)
EXTENDS OrderWorkflow, TLC

CONSTANTS g1, g2, owner, master, tailor, tailor2, karigar, nobody, none, part1, part2

DefaultRoles ==
  [created |-> {"Owner", "Master"},
   pattern_cutting |-> {"Owner", "Master", "Pattern Master", "Cutting Master"},
   maggam_work |-> {"Owner", "Master", "Maggam Master", "Maggam Karigar"},
   alteration_work |-> {"Owner", "Master", "Tailor"},
   stitching_in_progress |-> {"Owner", "Master", "Tailor"},
   finishing |-> {"Owner", "Master", "Hemming & Pressing Staff"},
   master_quality_check |-> {"Owner", "Master", "QC Staff"},
   payment |-> {"Owner", "Master"},
   delivered |-> {"Owner", "Master"}]

NoKeys == {}
AnyData == {"price"}
CarriesAll == [g \in Garments |-> PerGarment]
AllGarments == {Garments}

Roles == LET role == (owner :> "Owner") @@ (master :> "Master") @@ (tailor :> "Tailor")
                     @@ (tailor2 :> "Tailor") @@ (karigar :> "Maggam Karigar")
         IN  [p \in Accounts |-> role[p]]

PartSymmetry == Permutations(PartIds) \cup Permutations(Staff)

\* The line up to its quality check, for the split steps.
ReworkPath == <<"created", "stitching_in_progress", "master_quality_check">>
QualityPath == <<"created", "stitching_in_progress", "master_quality_check", "delivered">>
AllButCreated == DOMAIN DefaultRoles \ {"created"}
AnyStart == {{}, {g1}, {g1, g2}}

\* A bound: only an order of one garment lacks anything or records performers.
BareUnlessSingle ==
  Cardinality(garments) # 1 => lacking = {} /\ \A r \in Live : performer[r] = Nobody
=============================================================================
