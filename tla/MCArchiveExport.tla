--------------------------- MODULE MCArchiveExport ---------------------------
(* Instances of ArchiveExport for TLC.                                     *)
EXTENDS ArchiveExport, TLC

CONSTANTS t1, t2, m1, m2, p1, p2, r1, r2

\* One machine recorded a file of the first take, the other machine none; each
\* machine recorded a file of the second take.
TwoTakes == (t1 :> ((m1 :> 1) @@ (m2 :> 0))) @@ (t2 :> ((m1 :> 1) @@ (m2 :> 1)))

\* Only the first take.
FirstTake == [t \in {t1} |-> TwoTakes[t1]]

Symmetry == Permutations({r1, r2})

\* Bound: the requests of a behaviour name one take; two things at most happen
\* that are faults or restarts, one if the take is deleted or is the second one,
\* except while a deletion that was started again has no machine or the wrong one;
\* the second take is not deleted, and its export is not launched a second time.
Astray == \E j \in DOMAIN jobs : /\ jobs[j].class = "delete" /\ jobs[j].node # jobs[j].files
                                 /\ jobs[j].status \in {"ready", "running"}

OneTake ==
  /\ faults + restarts <= 2
  /\ deletes > 0 /\ ~Astray => faults + restarts <= 1
  /\ jobs # <<>> /\ jobs[1].take = t2 => faults + restarts <= 1
  /\ \A j \in DOMAIN jobs : jobs[j].take = jobs[1].take
  /\ \A r \in Handlers : req[r] # NoReq /\ jobs # <<>> => req[r].take = jobs[1].take
  /\ \A r \in Handlers : req[r].kind = "delete" => req[r].take # t2
  /\ jobs # <<>> /\ jobs[1].take = t2 => Len(jobs) <= 5
=============================================================================
