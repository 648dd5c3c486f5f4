----------------------------- MODULE MCAnnIndex -----------------------------
(* Instances of AnnIndex for TLC: three indexable leafs and one that is not. *)
EXTENDS AnnIndex

CONSTANTS a, b, c, z
=============================================================================
