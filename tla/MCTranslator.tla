---------------------------- MODULE MCTranslator ----------------------------
(***************************************************************************)
(* The translator and the history of its accesses for TLC.  Pages are only *)
(* ever compared for equality, so they are interchangeable.                *)
(***************************************************************************)
EXTENDS TranslatorRecency, TLC

PageSymmetry == Permutations(VPNs)
=============================================================================
