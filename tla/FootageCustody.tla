--------------------------- MODULE FootageCustody ---------------------------
(***************************************************************************)
(* What the archive promises about recorded files.  A file is whole at     *)
(* some places.  It gets to a new place only as a copy of a place that has *)
(* it, and it leaves its last place only if somebody asked for its         *)
(* deletion.                                                               *)
(***************************************************************************)
CONSTANTS Files, Places

VARIABLES
  places,    \* [Files -> SUBSET Places], where the file is whole
  released   \* files whose deletion was asked for

custody == <<places, released>>

Init ==
  /\ \E p \in Places : places = [f \in Files |-> {p}]
  /\ released = {}

Copy(f, p) ==
  /\ places[f] # {}
  /\ places' = [places EXCEPT ![f] = @ \cup {p}]
  /\ UNCHANGED released

Drop(f, p) ==
  /\ places[f] \ {p} # {} \/ f \in released
  /\ places' = [places EXCEPT ![f] = @ \ {p}]
  /\ UNCHANGED released

Release(S) ==
  /\ released' = released \cup S
  /\ UNCHANGED places

Next ==
  \/ \E f \in Files, p \in Places : Copy(f, p) \/ Drop(f, p)
  \/ \E S \in SUBSET Files : Release(S)

Spec == Init /\ [][Next]_custody
=============================================================================
