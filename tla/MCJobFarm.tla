----------------------------- MODULE MCJobFarm -----------------------------
(* Instances of JobFarm for TLC.                                           *)
EXTENDS JobFarm, TLC

CONSTANTS export, copy, copy2, thumb, n1, n2,            \* model values
          MaxLoss, MaxCrash, MaxLapse, MaxUser

(* An export job yields to its children, the copies; the thumbnail job     *)
(* that post_export_takes queues with it depends on the export.            *)
MCParent   == [j \in Jobs |-> IF j \in {copy, copy2} THEN export ELSE NoJob]
MCDeps     == [j \in Jobs |-> IF j = thumb THEN {export} ELSE {}]
MCHome     == [j \in Jobs |-> NoNode]
MCPriority == [j \in Jobs |-> 50]
MCCanRun   == Nodes \X Jobs
MCBudget   == [f \in Faults |-> CASE f = "loss"  -> MaxLoss
                                  [] f = "crash" -> MaxCrash
                                  [] f = "lapse" -> MaxLapse
                                  [] f = "user"  -> MaxUser]
Symmetry   == Permutations({n1, n2})

(* Only the client of n1 has what the export and the thumbnails need; two  *)
(* copies that depend on nothing are interchangeable.                      *)
OneExporter      == (Nodes \X Jobs) \ {<<n2, export>>, <<n2, thumb>>}
SymmetryOfCopies == Permutations({copy, copy2})

(* Bound: one crash or one user request; both if the family of the export  *)
(* is deleted with it.                                                     *)
OneThenDeletion == Used("crash") + Used("user") = 2 => status[export] = "deleted"

=============================================================================
