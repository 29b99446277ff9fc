-------------------------- MODULE MCAvaVideoWriter --------------------------
(* Instances of AvaVideoWriter for TLC: capacities of 300, 300, 300 and 32 *)
(* scaled down in the same proportions.                                    *)
EXTENDS AvaReader
=============================================================================
