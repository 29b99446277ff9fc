-------------------------- MODULE MCCameraSettings --------------------------
(* Instances of CameraSettings for TLC.                                    *)
EXTENDS CameraSettings, TLC

CONSTANTS n1, r1, r2

Symmetry == Permutations(Handlers)
=============================================================================
