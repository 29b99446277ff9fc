---------------------------- MODULE RecordedClip ----------------------------
(***************************************************************************)
(* What a recorder of one camera promises: the frames it accepts while it  *)
(* records are in its file when it has closed, each once and in the order  *)
(* in which the camera took them.  Frames are numbered in that order; the  *)
(* recorder may refuse any of them.                                        *)
(***************************************************************************)
EXTENDS Naturals, Sequences

CONSTANT Frames   \* a set of numbers

VARIABLES
  pending,  \* accepted frames that are not in the file yet
  stored,   \* the frames in the file, in file order
  phase     \* "recording", "closing", "closed"

clip == <<pending, stored, phase>>

Newest(f) ==
  /\ \A g \in pending : g < f
  /\ \A i \in 1..Len(stored) : stored[i] < f

Init == pending = {} /\ stored = <<>> /\ phase = "recording"

Accept(f) ==
  /\ phase = "recording"
  /\ Newest(f)
  /\ pending' = pending \cup {f}
  /\ UNCHANGED <<stored, phase>>

Store(f) ==
  /\ phase # "closed"
  /\ f \in pending
  /\ \A g \in pending : f <= g
  /\ stored' = Append(stored, f)
  /\ pending' = pending \ {f}
  /\ UNCHANGED phase

BeginClose ==
  /\ phase = "recording"
  /\ phase' = "closing"
  /\ UNCHANGED <<pending, stored>>

EndClose ==
  /\ phase = "closing"
  /\ pending = {}
  /\ phase' = "closed"
  /\ UNCHANGED <<pending, stored>>

Next == (\E f \in Frames : Accept(f) \/ Store(f)) \/ BeginClose \/ EndClose

Spec == Init /\ [][Next]_clip
=============================================================================
