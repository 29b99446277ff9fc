-------------------------- MODULE MCCaptureSession --------------------------
(* Instances of CaptureSession for TLC.                                    *)
EXTENDS CaptureSession, TLC

Symmetry == Permutations(Nodes) \cup Permutations(Handlers)

(* Bound: when requests overlap, two of them, or one and a fault.         *)
AtMostTwo == calm \/ requests + faults <= 2
=============================================================================
