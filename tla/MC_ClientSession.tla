-------------------------- MODULE MC_ClientSession --------------------------
(* A browser's one tab and one person at it. *)
EXTENDS ClientSession, TLC
CONSTANTS ann, bea, none
OnlyAnn == {ann}
=============================================================================
