---------------------------- MODULE AwsNodesProofs ----------------------------
(***************************************************************************)
(* A stopped machine holds no work, and a started one stays up for ten     *)
(* minutes: both for any machines, jobs, users, length of the ten minutes  *)
(* in ticks and number of faults.                                          *)
(*                                                                         *)
(* Work: what a client runs was reserved for its machine (Held).  Rows: a  *)
(* row that says "running" is right, except between the stop of an idle    *)
(* machine and the save that follows it (Known).  While a start is open,   *)
(* no row and no poll of its machine says that it has run for long, so     *)
(* that nobody stops it meanwhile (Opened).                                *)
(***************************************************************************)
EXTENDS AwsNodes, TLAPS

\* Jobs that nobody has yet.
Unassigned == \A j \in Jobs : job[j].status \in {"new", "ready"} => job[j].node = NoMachine

OwnJobs(m) == {j \in Jobs : job[j].node = m}

\* The work of machine m, as its client, its poll and the farm have it.
Held(m) ==
  /\ client[m].running \cup client[m].finished \subseteq OwnJobs(m)
  /\ poll[m].running \cup poll[m].finished \cup poll[m].jobs \subseteq OwnJobs(m)
  /\ client[m].running \subseteq JobsOf(m, {"running", "reserved"})
  /\ poll[m].at # "none" =>
       /\ client[m].running \subseteq poll[m].running
       /\ client[m].finished \subseteq poll[m].running \cup poll[m].finished
       /\ ~Alive(m) => ~poll[m].heard
  /\ poll[m].at \in {"aws", "save", "jobs"} =>
       poll[m].running \subseteq JobsOf(m, {"running", "reserved"})
  /\ poll[m].at = "reply" => /\ poll[m].jobs \subseteq JobsOf(m, {"reserved"})
                             /\ poll[m].running \subseteq JobsOf(m, {"running"})

\* The row that a poll has read.
Read(m) ==
  /\ poll[m].at \in {"aws", "save"} =>
       poll[m].row = row[m] \/ row[m].state \in {"running", "pending"}
  /\ poll[m].at = "aws" => poll[m].known = poll[m].row.known /\ poll[m].state = poll[m].row.state

\* What is open of request u to start machine m.
Opened(u, m) ==
  /\ start[u].row.state \notin {"running", "pending"}
  /\ row[m].state = "running" => row[m].changed < Idle
  /\ (poll[m].at \in {"aws", "save"} /\ poll[m].row.state = "running") => poll[m].row.changed < Idle
  /\ (m \notin cut /\ row[m].state = "running") => inst[m] = "running"
  /\ start[u].at = "save" =>
       /\ start[u].state = "running" \/ (start[u].state = "pending" /\ inst[m] # "stopped")
       /\ inst[m] \in {"pending", "running"}
       /\ start[u].state = "running" => inst[m] = "running"

\* What the farm believes of the state of machine m.
Known(m) ==
  /\ (row[m].state = "running" /\ inst[m] # "running") =>
       poll[m].at = "save" /\ poll[m].state # "running" /\ inst[m] \in {"stopping", "stopped"}
  /\ (poll[m].at = "aws" /\ poll[m].row.state = "running") => inst[m] = "running"
  /\ (poll[m].at \in {"save", "jobs"} /\ inst[m] # "running") =>
       poll[m].known /\ poll[m].state # "running"
  /\ row[m].state = "running" => row[m].changed <= up[m]
  /\ (poll[m].at = "aws" /\ poll[m].row.state = "running") => poll[m].row.changed <= up[m]
  /\ (poll[m].at = "save" /\ poll[m].row.state = "running" /\ poll[m].state = "running") =>
       poll[m].row.changed <= up[m]

JobInv   == Unassigned /\ \A m \in Machines : Held(m)
ReadInv  == \A m \in Machines : Read(m)
StartInv == \A u \in Users : start[u].at # "none" =>
              start[u].node \in Machines /\ Opened(u, start[u].node)
KnownInv == \A m \in Machines \ cut : Known(m)

IInv == TypeOK /\ JobInv /\ ReadInv /\ StartInv /\ KnownInv /\ StoppedHoldsNoWork

-----------------------------------------------------------------------------
(* Records that the actions make.                                          *)

AnyState == States \cup {"none"}

(* The rows and requests that nothing is known of.                         *)
LEMMA FreshRecords ==
  /\ NewRow \in Row /\ NewRow.known = FALSE /\ NewRow.state = "none"
  /\ NewRow.changed = 0 /\ NewRow.activity = 0
  /\ NoPoll \in Poll /\ NoPoll.at = "none" /\ NoPoll.row = NewRow /\ NoPoll.known = FALSE
  /\ NoPoll.state = "none" /\ NoPoll.running = {} /\ NoPoll.finished = {} /\ NoPoll.jobs = {}
  /\ NoPoll.heard = TRUE
  /\ NoStart \in Start /\ NoStart.at = "none"
  /\ NoJobs \in Client /\ NoJobs.running = {} /\ NoJobs.finished = {}
<1>1. Idle \in Nat /\ 0 \in Ages BY AwsAssumption DEF Ages
<1>2. NewRow \in Row /\ NewRow.known = FALSE /\ NewRow.state = "none"
      /\ NewRow.changed = 0 /\ NewRow.activity = 0
  BY <1>1 DEF NewRow, Row
<1>3. NoPoll \in Poll BY <1>2 DEF NoPoll, Poll, Phases
<1>4. NoStart \in Start BY <1>2 DEF NoStart, Start
<1>5. NoJobs \in Client BY DEF NoJobs, Client
<1> QED BY <1>2, <1>3, <1>4, <1>5 DEF NoPoll, NoStart, NoJobs

(* A poll that gets on.                                                    *)
LEMMA PollStops ==
  ASSUME NEW x \in Poll, NEW s \in AnyState
  PROVE  LET y == [x EXCEPT !.at = "save", !.state = s]
         IN  /\ y \in Poll /\ y.at = "save" /\ y.row = x.row /\ y.known = x.known /\ y.state = s
             /\ y.running = x.running /\ y.finished = x.finished /\ y.jobs = x.jobs /\ y.heard = x.heard
BY DEF Poll, Phases, AnyState

\* A poll that gets to a later phase keeps what it knows
\* (post_client_discover).
LEMMA PollGoesOn ==
  ASSUME NEW x \in Poll, NEW a \in Phases
  PROVE  LET y == [x EXCEPT !.at = a]
         IN  /\ y \in Poll /\ y.at = a /\ y.row = x.row /\ y.known = x.known /\ y.state = x.state
             /\ y.running = x.running /\ y.finished = x.finished /\ y.jobs = x.jobs /\ y.heard = x.heard
BY DEF Poll

\* A poll that has its reply keeps what it knows, and carries the jobs of the
\* reply.
LEMMA PollServes ==
  ASSUME NEW x \in Poll, NEW J \in SUBSET Jobs
  PROVE  LET y == [x EXCEPT !.at = "reply", !.jobs = J]
         IN  /\ y \in Poll /\ y.at = "reply" /\ y.row = x.row /\ y.known = x.known
             /\ y.state = x.state /\ y.running = x.running /\ y.finished = x.finished
             /\ y.jobs = J /\ y.heard = x.heard
BY DEF Poll, Phases

\* A poll whose client is gone keeps what it knows.
LEMMA PollUnheard ==
  ASSUME NEW x \in Poll
  PROVE  LET y == [x EXCEPT !.heard = FALSE]
         IN  /\ y \in Poll /\ y.at = x.at /\ y.row = x.row /\ y.known = x.known
             /\ y.state = x.state /\ y.running = x.running /\ y.finished = x.finished
             /\ y.jobs = x.jobs /\ y.heard = FALSE
BY DEF Poll

(* A request to start an instance.                                         *)
LEMMA StartOpens ==
  ASSUME NEW x \in Start, NEW m \in Machines, NEW w \in Row
  PROVE  LET y == [x EXCEPT !.at = "ec2", !.node = m, !.row = w]
         IN  y \in Start /\ y.at = "ec2" /\ y.node = m /\ y.row = w
BY DEF Start

\* A request that called EC2 keeps the state that it was told.
LEMMA StartCalls ==
  ASSUME NEW x \in Start, NEW s \in AnyState
  PROVE  LET y == [x EXCEPT !.at = "save", !.state = s]
         IN  y \in Start /\ y.at = "save" /\ y.node = x.node /\ y.row = x.row /\ y.state = s
BY DEF Start, AnyState

(* Rows that are saved, and rows that get older.                           *)
LEMMA RowSaved ==
  ASSUME NEW w \in Row, NEW k \in BOOLEAN, NEW s \in AnyState
  PROVE  LET y == Saved(w, k, s)
         IN  /\ y \in Row /\ y.known = k /\ y.state = s /\ y.activity = w.activity
             /\ y.changed = IF s = w.state THEN w.changed ELSE 0
<1> DEFINE c == IF s = w.state THEN w.changed ELSE 0
           y == [w EXCEPT !.known = k, !.state = s, !.changed = c]
<1>1. Idle \in Nat /\ 0 \in Ages BY AwsAssumption DEF Ages
<1>2. c \in Ages BY <1>1 DEF Row
<1>3. Saved(w, k, s) = y BY DEF Saved
<1>4. c = IF s = w.state THEN w.changed ELSE 0 OBVIOUS
<1> HIDE DEF c
<1>5. y \in Row /\ y.known = k /\ y.state = s /\ y.activity = w.activity /\ y.changed = c
  BY <1>2 DEF Row, AnyState
<1> HIDE DEF y
<1> QED BY <1>3, <1>4, <1>5

\* Activity changes nothing else of a row (FarmNode.last_activity).
LEMMA RowActive ==
  ASSUME NEW w \in Row, NEW a \in Ages
  PROVE  LET y == [w EXCEPT !.activity = a]
         IN  /\ y \in Row /\ y.known = w.known /\ y.state = w.state /\ y.changed = w.changed
BY DEF Row

\* Ages stay ages, and stop at Idle.
LEMMA AgesOlder ==
  ASSUME NEW a \in Ages
  PROVE  /\ Older(a) \in Ages /\ Older(a) = IF a < Idle THEN a + 1 ELSE Idle
BY AwsAssumption DEF Older, Ages

\* A tick makes a row older, and changes no state.
LEMMA RowOlder ==
  ASSUME NEW w \in Row
  PROVE  LET y == OlderRow(w)
         IN  y \in Row /\ y.state = w.state /\ y.changed = Older(w.changed)
<1> DEFINE c == Older(w.changed)
           a == Older(w.activity)
           y == [w EXCEPT !.changed = c, !.activity = a]
<1>1. w.changed \in Ages /\ w.activity \in Ages BY DEF Row
<1>2. c \in Ages /\ a \in Ages BY <1>1, AgesOlder
<1>3. OlderRow(w) = y BY DEF OlderRow
<1>4. c = Older(w.changed) OBVIOUS
<1> HIDE DEF c, a
<1>5. y \in Row /\ y.state = w.state /\ y.changed = c BY <1>2 DEF Row
<1> HIDE DEF y
<1> QED BY <1>3, <1>4, <1>5

(* Jobs whose status changes.                                              *)
LEMMA JobBecomes ==
  ASSUME NEW x \in Job, NEW s \in {"new", "ready", "reserved", "running", "ended"}
  PROVE  LET y == [x EXCEPT !.status = s]
         IN  y \in Job /\ y.status = s /\ y.node = x.node
BY DEF Job

-----------------------------------------------------------------------------
(* What the actions do, field by field.                                    *)

PollIs(m, a, w, k, s, R, F, J, h) ==
  /\ poll' \in [Machines -> Poll]
  /\ poll'[m].at = a /\ poll'[m].row = w /\ poll'[m].known = k /\ poll'[m].state = s
  /\ poll'[m].running = R /\ poll'[m].finished = F /\ poll'[m].jobs = J /\ poll'[m].heard = h
  /\ \A n \in Machines \ {m} : poll'[n] = poll[n]

PollEnds(m) == PollIs(m, "none", NewRow, FALSE, "none", {}, {}, {}, TRUE)

\* A poll that is replaced has the fields of the new one, and the others stay.
LEMMA PollRow ==
  ASSUME TypeOK, NEW m \in Machines, NEW y \in Poll, poll' = [poll EXCEPT ![m] = y]
  PROVE  PollIs(m, y.at, y.row, y.known, y.state, y.running, y.finished, y.jobs, y.heard)
BY DEF PollIs, TypeOK

\* The types of what there is of a machine.
LEMMA PollFacts ==
  ASSUME TypeOK, NEW m \in Machines
  PROVE  /\ poll[m] \in Poll /\ poll[m].row \in Row /\ row[m] \in Row /\ client[m] \in Client
         /\ poll[m].at \in Phases /\ poll[m].known \in BOOLEAN /\ poll[m].state \in AnyState
         /\ poll[m].row.known \in BOOLEAN /\ poll[m].row.state \in AnyState
         /\ row[m].known \in BOOLEAN /\ row[m].state \in AnyState /\ row[m].changed \in Ages
         /\ poll[m].row.changed \in Ages
         /\ poll[m].running \in SUBSET Jobs /\ poll[m].finished \in SUBSET Jobs
         /\ poll[m].jobs \in SUBSET Jobs
         /\ client[m].running \in SUBSET Jobs /\ client[m].finished \in SUBSET Jobs
         /\ inst[m] \in States /\ up[m] \in Ages
<1>1. poll[m] \in Poll /\ row[m] \in Row /\ client[m] \in Client /\ inst[m] \in States
      /\ up[m] \in Ages
  BY DEF TypeOK
<1>2. poll[m].row \in Row BY <1>1 DEF Poll
<1> QED BY <1>1, <1>2 DEF Poll, Row, Client, AnyState

\* A poll that ends leaves nothing behind.
LEMMA Ended ==
  ASSUME TypeOK, NEW m \in Machines, poll' = [poll EXCEPT ![m] = NoPoll]
  PROVE  PollEnds(m)
<1> DEFINE y == NoPoll
<1>1. /\ y \in Poll /\ y.at = "none" /\ y.row = NewRow /\ y.known = FALSE
      /\ y.state = "none" /\ y.running = {} /\ y.finished = {} /\ y.jobs = {} /\ y.heard = TRUE
  BY FreshRecords
<1>2. poll' = [poll EXCEPT ![m] = y] OBVIOUS
<1> HIDE DEF y
<1>3. PollIs(m, y.at, y.row, y.known, y.state, y.running, y.finished, y.jobs, y.heard)
  BY <1>1, <1>2, PollRow
<1> QED BY <1>1, <1>3 DEF PollEnds

\* What a poll begins with: the row of its machine, and the jobs of its client.
LEMMA ReadEffect ==
  ASSUME TypeOK, NEW m \in Machines, ReadNode(m)
  PROVE  PollIs(m, "aws", row[m], row[m].known, row[m].state,
                client[m].running, client[m].finished, {}, TRUE)
<1> DEFINE x == NoPoll
           w == row[m]
           k == row[m].known
           s == row[m].state
           R == client[m].running
           F == client[m].finished
           y == [x EXCEPT !.at = "aws", !.row = w, !.known = k, !.state = s,
                          !.running = R, !.finished = F]
<1>1. poll' = [poll EXCEPT ![m] = y] BY DEF ReadNode
<1>2. /\ w \in Row /\ k \in BOOLEAN /\ s \in AnyState /\ R \in SUBSET Jobs /\ F \in SUBSET Jobs
  BY PollFacts
<1>3. x \in Poll /\ x.jobs = {} /\ x.heard = TRUE BY FreshRecords
<1> HIDE DEF x, w, k, s, R, F
<1>4. /\ y \in Poll /\ y.at = "aws" /\ y.row = w /\ y.known = k /\ y.state = s
      /\ y.running = R /\ y.finished = F /\ y.jobs = x.jobs /\ y.heard = x.heard
  BY <1>2, <1>3 DEF Poll, Phases, AnyState
<1> HIDE DEF y
<1>5. PollIs(m, y.at, y.row, y.known, y.state, y.running, y.finished, y.jobs, y.heard)
  BY <1>1, <1>4, PollRow
<1> QED BY <1>3, <1>4, <1>5 DEF w, k, s, R, F

\* The poll of m gets to a, with what it found.
PollFinds(m, a, k, s) ==
  PollIs(m, a, poll[m].row, k, s, poll[m].running, poll[m].finished, poll[m].jobs,
         poll[m].heard)

\* A poll that looked its instance up keeps what it found.
LEMMA Found ==
  ASSUME TypeOK, NEW m \in Machines, NEW k \in BOOLEAN, NEW s \in AnyState,
         poll' = [poll EXCEPT ![m].at = "save", ![m].known = k, ![m].state = s]
  PROVE  PollFinds(m, "save", k, s)
<1> DEFINE x == poll[m]
           y == [x EXCEPT !.at = "save", !.known = k, !.state = s]
<1>1. poll' = [poll EXCEPT ![m] = y] OBVIOUS
<1>2. x \in Poll BY PollFacts
<1> HIDE DEF x
<1>3. /\ y \in Poll /\ y.at = "save" /\ y.row = x.row /\ y.known = k /\ y.state = s
      /\ y.running = x.running /\ y.finished = x.finished /\ y.jobs = x.jobs /\ y.heard = x.heard
  BY <1>2 DEF Poll, Phases, AnyState
<1> HIDE DEF y
<1>4. PollIs(m, y.at, y.row, y.known, y.state, y.running, y.finished, y.jobs, y.heard)
  BY <1>1, <1>3, PollRow
<1> QED BY <1>3, <1>4 DEF PollFinds, x

\* A poll that stopped its instance keeps the answer of EC2.
LEMMA Stopped ==
  ASSUME TypeOK, NEW m \in Machines, NEW s \in AnyState,
         poll' = [poll EXCEPT ![m].at = "save", ![m].state = s]
  PROVE  PollFinds(m, "save", poll[m].known, s)
<1> DEFINE x == poll[m]
           y == [x EXCEPT !.at = "save", !.state = s]
<1>1. poll' = [poll EXCEPT ![m] = y] OBVIOUS
<1>2. x \in Poll BY PollFacts
<1> HIDE DEF x
<1>3. /\ y \in Poll /\ y.at = "save" /\ y.row = x.row /\ y.known = x.known /\ y.state = s
      /\ y.running = x.running /\ y.finished = x.finished /\ y.jobs = x.jobs /\ y.heard = x.heard
  BY <1>2, PollStops
<1> HIDE DEF y
<1>4. PollIs(m, y.at, y.row, y.known, y.state, y.running, y.finished, y.jobs, y.heard)
  BY <1>1, <1>3, PollRow
<1> QED BY <1>3, <1>4 DEF PollFinds, x

\* A poll that gets to a later phase, as a change of the variable.
LEMMA WentOn ==
  ASSUME TypeOK, NEW m \in Machines, NEW a \in Phases, poll' = [poll EXCEPT ![m].at = a]
  PROVE  PollFinds(m, a, poll[m].known, poll[m].state)
<1> DEFINE x == poll[m]
           y == [x EXCEPT !.at = a]
<1>1. poll' = [poll EXCEPT ![m] = y] OBVIOUS
<1>2. x \in Poll BY PollFacts
<1> HIDE DEF x
<1>3. /\ y \in Poll /\ y.at = a /\ y.row = x.row /\ y.known = x.known /\ y.state = x.state
      /\ y.running = x.running /\ y.finished = x.finished /\ y.jobs = x.jobs /\ y.heard = x.heard
  BY <1>2, PollGoesOn
<1> HIDE DEF y
<1>4. PollIs(m, y.at, y.row, y.known, y.state, y.running, y.finished, y.jobs, y.heard)
  BY <1>1, <1>3, PollRow
<1> QED BY <1>3, <1>4 DEF PollFinds, x

\* A poll that has its reply, as a change of the variable.
LEMMA Served ==
  ASSUME TypeOK, NEW m \in Machines, NEW J \in SUBSET Jobs,
         poll' = [poll EXCEPT ![m].at = "reply", ![m].jobs = J]
  PROVE  PollIs(m, "reply", poll[m].row, poll[m].known, poll[m].state,
                poll[m].running, poll[m].finished, J, poll[m].heard)
<1> DEFINE x == poll[m]
           y == [x EXCEPT !.at = "reply", !.jobs = J]
<1>1. poll' = [poll EXCEPT ![m] = y] OBVIOUS
<1>2. x \in Poll BY PollFacts
<1> HIDE DEF x
<1>3. /\ y \in Poll /\ y.at = "reply" /\ y.row = x.row /\ y.known = x.known
      /\ y.state = x.state /\ y.running = x.running /\ y.finished = x.finished
      /\ y.jobs = J /\ y.heard = x.heard
  BY <1>2, PollServes
<1> HIDE DEF y
<1>4. PollIs(m, y.at, y.row, y.known, y.state, y.running, y.finished, y.jobs, y.heard)
  BY <1>1, <1>3, PollRow
<1> QED BY <1>3, <1>4 DEF x

\* A poll whose client is gone, as a change of the variable.
LEMMA Unheard ==
  ASSUME TypeOK, NEW m \in Machines, poll' = [poll EXCEPT ![m].heard = FALSE]
  PROVE  PollIs(m, poll[m].at, poll[m].row, poll[m].known, poll[m].state,
                poll[m].running, poll[m].finished, poll[m].jobs, FALSE)
<1> DEFINE x == poll[m]
           y == [x EXCEPT !.heard = FALSE]
<1>1. poll' = [poll EXCEPT ![m] = y] OBVIOUS
<1>2. x \in Poll BY PollFacts
<1> HIDE DEF x
<1>3. /\ y \in Poll /\ y.at = x.at /\ y.row = x.row /\ y.known = x.known
      /\ y.state = x.state /\ y.running = x.running /\ y.finished = x.finished
      /\ y.jobs = x.jobs /\ y.heard = FALSE
  BY <1>2, PollUnheard
<1> HIDE DEF y
<1>4. PollIs(m, y.at, y.row, y.known, y.state, y.running, y.finished, y.jobs, y.heard)
  BY <1>1, <1>3, PollRow
<1> QED BY <1>3, <1>4 DEF x

RowIs(m, k, s, c) ==
  /\ row' \in [Machines -> Row]
  /\ row'[m].known = k /\ row'[m].state = s /\ row'[m].changed = c
  /\ \A n \in Machines \ {m} : row'[n] = row[n]

\* A poll saves the row it read, with the state it found, and restarts its
\* clock if that is new.
LEMMA SaveEffect ==
  ASSUME TypeOK, NEW m \in Machines, SaveNode(m)
  PROVE  /\ PollFinds(m, "jobs", poll[m].known, poll[m].state)
         /\ RowIs(m, poll[m].known, poll[m].state,
                  IF poll[m].state = poll[m].row.state THEN poll[m].row.changed ELSE 0)
<1> DEFINE x == Saved(poll[m].row, poll[m].known, poll[m].state)
           a == IF JobsOf(m, {"running"}) # {} THEN 0 ELSE x.activity
           y == [x EXCEPT !.activity = a]
<1>1. row' = [row EXCEPT ![m] = y] BY DEF SaveNode
<1>2. /\ x \in Row /\ x.known = poll[m].known /\ x.state = poll[m].state
      /\ x.changed = IF poll[m].state = poll[m].row.state THEN poll[m].row.changed ELSE 0
  BY PollFacts, RowSaved
<1> HIDE DEF x
<1>3. a \in Ages
  <2>1. 0 \in Ages BY AwsAssumption DEF Ages
  <2>2. x.activity \in Ages BY <1>2 DEF Row
  <2> QED BY <2>1, <2>2
<1> HIDE DEF a
<1>4. y \in Row /\ y.known = x.known /\ y.state = x.state /\ y.changed = x.changed
  BY <1>2, <1>3, RowActive
<1> HIDE DEF y
<1>5. RowIs(m, y.known, y.state, y.changed) BY <1>1, <1>4 DEF RowIs, TypeOK
<1>6. PollFinds(m, "jobs", poll[m].known, poll[m].state)
  <2>1. "jobs" \in Phases BY DEF Phases
  <2>2. poll' = [poll EXCEPT ![m].at = "jobs"] BY DEF SaveNode
  <2> QED BY <2>1, <2>2, WentOn
<1> QED BY <1>2, <1>4, <1>5, <1>6

\* The request u becomes a, for machine m, with row w and state s.
StartIs(u, a, m, w, s) ==
  /\ start' \in [Users -> Start]
  /\ start'[u].at = a /\ start'[u].node = m /\ start'[u].row = w /\ start'[u].state = s
  /\ \A v \in Users \ {u} : start'[v] = start[v]

\* The types of a request to start an instance.
LEMMA StartFacts ==
  ASSUME TypeOK, NEW u \in Users
  PROVE  /\ start[u] \in Start /\ start[u].row \in Row /\ start[u].state \in AnyState
         /\ start[u].row.known \in BOOLEAN /\ start[u].row.state \in AnyState
         /\ start[u].row.changed \in Ages
<1>1. start[u] \in Start BY DEF TypeOK
<1>2. start[u].row \in Row /\ start[u].state \in AnyState BY <1>1 DEF Start, AnyState
<1> QED BY <1>1, <1>2 DEF Row, AnyState

\* A request begins with the row of its machine, and was not open before.
LEMMA OpenEffect ==
  ASSUME TypeOK, NEW u \in Users, NEW m \in Machines, OpenStart(u, m)
  PROVE  /\ StartIs(u, "ec2", m, row[m], start'[u].state)
         /\ start[u].at = "none"
<1> DEFINE x == NoStart
           w == row[m]
           y == [x EXCEPT !.at = "ec2", !.node = m, !.row = w]
<1>1. start' = [start EXCEPT ![u] = y] /\ start[u] = NoStart BY DEF OpenStart
<1>2. w \in Row BY PollFacts
<1>3. x \in Start /\ x.at = "none" BY FreshRecords
<1>4. start[u].at = "none" BY <1>1, <1>3
<1> HIDE DEF x, w
<1>5. y \in Start /\ y.at = "ec2" /\ y.node = m /\ y.row = w
  BY <1>2, <1>3, m \in Machines DEF Start
<1> HIDE DEF y
<1> QED BY <1>1, <1>4, <1>5 DEF StartIs, TypeOK, w

\* A request keeps the state that EC2 told it.
LEMMA CallEffect ==
  ASSUME TypeOK, NEW u \in Users, CallStart(u), start[u].node \in Machines
  PROVE  StartIs(u, "save", start[u].node, start[u].row, inst'[start[u].node])
<1> DEFINE x == start[u]
<1>1. x \in Start BY StartFacts
<1>2. inst'[x.node] \in AnyState
  <2>1. inst[x.node] \in States BY PollFacts
  <2>2. inst'[x.node] = IF inst[x.node] = "stopped" THEN "pending" ELSE inst[x.node]
    BY DEF CallStart, TypeOK
  <2> QED BY <2>1, <2>2 DEF AnyState, States
<1>3. PICK s \in AnyState : s = inst'[x.node] BY <1>2
<1> DEFINE y == [x EXCEPT !.at = "save", !.state = s]
<1>4. start' = [start EXCEPT ![u].at = "save", ![u].state = s] BY <1>3 DEF CallStart
<1>5. start' = [start EXCEPT ![u] = y] BY <1>4
<1>6. x = start[u] OBVIOUS
<1> HIDE DEF x
<1>7. y \in Start /\ y.at = "save" /\ y.node = x.node /\ y.row = x.row /\ y.state = s
  BY <1>1, <1>3, StartCalls
<1> HIDE DEF y
<1> QED BY <1>3, <1>5, <1>6, <1>7 DEF StartIs, TypeOK

\* A request that ends leaves the others alone.
LEMMA EndEffect ==
  ASSUME TypeOK, NEW u \in Users, EndStart(u)
  PROVE  /\ start' \in [Users -> Start] /\ start'[u].at = "none"
         /\ \A v \in Users \ {u} : start'[v] = start[v]
<1> DEFINE y == NoStart
<1>1. start' = [start EXCEPT ![u] = y] BY DEF EndStart
<1>2. y \in Start /\ y.at = "none" BY FreshRecords
<1> HIDE DEF y
<1> QED BY <1>1, <1>2 DEF TypeOK

\* A request saves the row it read when it began, with the state it was told.
LEMMA SaveStartEffect ==
  ASSUME TypeOK, NEW u \in Users, SaveStart(u), start[u].node \in Machines
  PROVE  RowIs(start[u].node, start[u].row.known, start[u].state,
               IF start[u].state = start[u].row.state THEN start[u].row.changed ELSE 0)
<1> DEFINE y == Saved(start[u].row, start[u].row.known, start[u].state)
           m == start[u].node
<1>1. row' = [row EXCEPT ![m] = y] BY DEF SaveStart
<1>2. /\ y \in Row /\ y.known = start[u].row.known /\ y.state = start[u].state
      /\ y.changed = IF start[u].state = start[u].row.state THEN start[u].row.changed ELSE 0
  BY StartFacts, RowSaved
<1> HIDE DEF y
<1> QED BY <1>1, <1>2 DEF RowIs, TypeOK

\* Time makes no row older than the instance has been up.
LEMMA TickEffect ==
  ASSUME TypeOK, Tick
  PROVE  /\ row' \in [Machines -> Row] /\ up' \in [Machines -> Ages]
         /\ \A m \in Machines :
              /\ row'[m].state = row[m].state
              /\ row[m].changed <= up[m] => row'[m].changed <= up'[m]
<1>1. \A m \in Machines : row'[m] = OlderRow(row[m]) /\ up'[m] = Older(up[m]) BY DEF Tick
<1>2. row' = [m \in Machines |-> OlderRow(row[m])] /\ up' = [m \in Machines |-> Older(up[m])]
  BY DEF Tick
<1>3. ASSUME NEW m \in Machines
      PROVE  /\ row'[m] \in Row /\ up'[m] \in Ages /\ row'[m].state = row[m].state
             /\ row[m].changed <= up[m] => row'[m].changed <= up'[m]
  <2>1. row[m] \in Row /\ row[m].changed \in Ages /\ up[m] \in Ages BY PollFacts
  <2>2. row'[m] \in Row /\ row'[m].state = row[m].state /\ row'[m].changed = Older(row[m].changed)
    BY <1>1, <2>1, RowOlder
  <2>3. up'[m] = Older(up[m]) /\ up'[m] \in Ages BY <1>1, <2>1, AgesOlder
  <2>4. row[m].changed <= up[m] => Older(row[m].changed) <= Older(up[m])
    BY <2>1, AgesOlder, AwsAssumption DEF Ages
  <2> QED BY <2>2, <2>3, <2>4
<1>4. row' \in [Machines -> Row]
  BY <1>2, <1>3
<1>5. up' \in [Machines -> Ages]
  BY <1>2, <1>3
<1> QED BY <1>3, <1>4, <1>5

(* Jobs.                                                                   *)
LEMMA JobFacts ==
  ASSUME TypeOK, NEW j \in Jobs
  PROVE  job \in [Jobs -> Job] /\ job[j] \in Job
         /\ job[j].status \in {"new", "ready", "reserved", "running", "ended"}
         /\ job[j].node \in Machines \cup {NoMachine}
<1>1. job[j] \in Job BY DEF TypeOK
<1> QED BY <1>1 DEF TypeOK, Job

\* What a poll of m does to job j.
JobServed(m, j) ==
  \/ j \in poll[m].running /\ job'[j].status = "running" /\ job'[j].node = job[j].node
  \/ /\ j \notin poll[m].running /\ (j \in poll[m].finished \/ j \in JobsOf(m, {"running"}))
     /\ job'[j].status = "ended" /\ job'[j].node = job[j].node
  \/ /\ j \notin poll[m].running /\ j \notin JobsOf(m, {"running"})
     /\ job'[j] = job[j]
  \/ /\ Gives(m) /\ j \notin poll[m].running /\ job[j].status = "ready"
     /\ job'[j].status = "reserved" /\ job'[j].node = m

\* A reported job runs or has ended, one that should run and is not reported
\* has ended.
LEMMA ReportEffect ==
  ASSUME TypeOK, NEW m \in Machines, NEW j \in Jobs
  PROVE  /\ Reported(m)[j] \in Job
         /\ Reported(m)[j].node = job[j].node
         /\ \/ j \in poll[m].running /\ Reported(m)[j].status = "running"
            \/ /\ j \notin poll[m].running /\ (j \in poll[m].finished \/ j \in JobsOf(m, {"running"}))
               /\ Reported(m)[j].status = "ended"
            \/ /\ j \notin poll[m].running /\ j \notin JobsOf(m, {"running"})
               /\ Reported(m)[j] = job[j]
<1> DEFINE x == job[j]
           a == [x EXCEPT !.status = "running"]
           b == [x EXCEPT !.status = "ended"]
<1>1. Reported(m)[j] = IF j \in poll[m].running THEN a
                       ELSE IF j \in poll[m].finished \/ j \in JobsOf(m, {"running"}) THEN b
                       ELSE x
  BY DEF Reported
<1>2. x \in Job BY JobFacts
<1>3. x = job[j] OBVIOUS
<1> HIDE DEF x
<1>4. a \in Job /\ a.status = "running" /\ a.node = x.node BY <1>2, JobBecomes
<1>5. b \in Job /\ b.status = "ended" /\ b.node = x.node BY <1>2, JobBecomes
<1> HIDE DEF a, b
<1> QED BY <1>1, <1>2, <1>3, <1>4, <1>5

\* What a poll does to each job, and which jobs its reply carries
\* (post_client_discover).
LEMMA ServeEffect ==
  ASSUME TypeOK, NEW m \in Machines, ServeJobs(m)
  PROVE  /\ job' \in [Jobs -> Job]
         /\ \A j \in Jobs : JobServed(m, j)
         /\ LET J == IF Gives(m) THEN {j \in Jobs : job'[j].status = "reserved" /\ job'[j].node = m}
                     ELSE {}
            IN  PollIs(m, "reply", poll[m].row, poll[m].known, poll[m].state,
                       poll[m].running, poll[m].finished, J, poll[m].heard)
<1> DEFINE js == Reported(m)
           J == IF Gives(m) THEN {j \in Jobs : job'[j].status = "reserved" /\ job'[j].node = m}
                ELSE {}
<1>1. js = [j \in Jobs |-> js[j]] /\ \A j \in Jobs : js[j] \in Job
  <2>1. \A j \in Jobs : js[j] \in Job BY ReportEffect
  <2> QED BY <2>1 DEF Reported
<1>2. /\ \/ job' = js
         \/ \E j \in Jobs : /\ Gives(m) /\ js[j].status = "ready"
                            /\ job' = [js EXCEPT ![j] = [status |-> "reserved", node |-> m]]
      /\ poll' = [poll EXCEPT ![m].at = "reply", ![m].jobs = J]
  BY DEF ServeJobs, Reserved
<1>3. /\ \A j \in Jobs :
           /\ js[j].node = job[j].node
           /\ \/ j \in poll[m].running /\ js[j].status = "running"
              \/ /\ j \notin poll[m].running /\ (j \in poll[m].finished \/ j \in JobsOf(m, {"running"}))
                 /\ js[j].status = "ended"
              \/ /\ j \notin poll[m].running /\ j \notin JobsOf(m, {"running"})
                 /\ js[j] = job[j]
  BY ReportEffect
<1> HIDE DEF js, J
<1>4. ASSUME job' = js
      PROVE  job' \in [Jobs -> Job] /\ \A j \in Jobs : JobServed(m, j)
  <2>1. job' \in [Jobs -> Job] BY <1>1, <1>4
  <2>2. ASSUME NEW j \in Jobs PROVE JobServed(m, j) BY <1>3, <1>4, <2>2 DEF JobServed
  <2> QED BY <2>1, <2>2
<1>5. ASSUME NEW i \in Jobs, Gives(m), js[i].status = "ready",
             job' = [js EXCEPT ![i] = [status |-> "reserved", node |-> m]]
      PROVE  job' \in [Jobs -> Job] /\ \A j \in Jobs : JobServed(m, j)
  <2> DEFINE y == [status |-> "reserved", node |-> m]
  <2>1. y \in Job /\ y.status = "reserved" /\ y.node = m BY DEF Job
  <2>2. job' = [js EXCEPT ![i] = y] BY <1>5
  <2> HIDE DEF y
  <2>3. job' \in [Jobs -> Job] /\ job'[i] = y /\ \A j \in Jobs \ {i} : job'[j] = js[j]
    BY <1>1, <2>1, <2>2
  <2>4. job[i].status = "ready" /\ i \notin poll[m].running BY <1>3, <1>5
  <2>5. JobServed(m, i) BY <1>5, <2>1, <2>3, <2>4 DEF JobServed
  <2>6. \A j \in Jobs \ {i} : JobServed(m, j) BY <1>3, <2>3 DEF JobServed
  <2> QED BY <2>3, <2>5, <2>6
<1>6. J \in SUBSET Jobs BY DEF J
<1>7. PollIs(m, "reply", poll[m].row, poll[m].known, poll[m].state,
             poll[m].running, poll[m].finished, J, poll[m].heard)
  BY <1>2, <1>6, Served
<1>8. job' \in [Jobs -> Job] /\ \A j \in Jobs : JobServed(m, j) BY <1>2, <1>4, <1>5
<1> QED BY <1>7, <1>8 DEF J

-----------------------------------------------------------------------------
(* The steps of the specification, told by what they change.               *)

\* The poll of m begins.
Reads(m) ==
  /\ poll[m].at = "none" /\ Alive(m)
  /\ PollIs(m, "aws", row[m], row[m].known, row[m].state,
            client[m].running, client[m].finished, {}, TRUE)
  /\ UNCHANGED <<inst, row, job, client, start, up, cut>>

\* The poll of m has looked its instance up, or need not.
Finds(m) ==
  /\ poll[m].at = "aws"
  /\ \E k \in BOOLEAN, s \in AnyState :
       /\ PollFinds(m, "save", k, s)
       /\ \/ m \in cut'
          \/ poll[m].row.state # "running" /\ (inst[m] = "running" \/ (k /\ s = inst[m]))
          \/ poll[m].row.state = "running" /\ k = poll[m].known /\ s = poll[m].state
  /\ UNCHANGED <<inst, row, job, client, start, up>>

InstIs(m, s) ==
  /\ inst' \in [Machines -> States] /\ inst'[m] = s
  /\ \A n \in Machines \ {m} : inst'[n] = inst[n]

\* The poll of m has stopped its instance.
Stops(m) ==
  /\ poll[m].at = "aws" /\ poll[m].row.known /\ poll[m].row.state = "running"
  /\ poll[m].row.changed = Idle /\ JobsOf(m, {"running", "reserved"}) = {}
  /\ InstIs(m, IF inst[m] \in {"running", "pending"} THEN "stopping" ELSE inst[m])
  /\ PollFinds(m, "save", poll[m].known, inst'[m])
  /\ UNCHANGED <<row, job, client, start, up, cut>>

Saves(m) ==
  /\ poll[m].at = "save"
  /\ PollFinds(m, "jobs", poll[m].known, poll[m].state)
  /\ RowIs(m, poll[m].known, poll[m].state,
           IF poll[m].state = poll[m].row.state THEN poll[m].row.changed ELSE 0)
  /\ UNCHANGED <<inst, job, client, start, up, cut>>

Serves(m) ==
  /\ poll[m].at = "jobs"
  /\ job' \in [Jobs -> Job] /\ \A j \in Jobs : JobServed(m, j)
  /\ \E J \in SUBSET {j \in Jobs : job'[j].status = "reserved" /\ job'[j].node = m} :
       PollIs(m, "reply", poll[m].row, poll[m].known, poll[m].state,
              poll[m].running, poll[m].finished, J, poll[m].heard)
  /\ UNCHANGED <<inst, row, client, start, up, cut>>

ClientIs(m, R, F) ==
  /\ client' \in [Machines -> Client] /\ client'[m].running = R /\ client'[m].finished = F
  /\ \A n \in Machines \ {m} : client'[n] = client[n]

Receives(m) ==
  /\ poll[m].at = "reply" /\ PollEnds(m)
  /\ \/ UNCHANGED client
     \/ /\ poll[m].heard
        /\ ClientIs(m, client[m].running \cup poll[m].jobs, client[m].finished \ poll[m].finished)
  /\ UNCHANGED <<inst, row, job, start, up, cut>>

\* The poll of m fails, dies, or has a reply that is lost.
Drops(m) ==
  /\ poll[m].at # "none" /\ PollEnds(m)
  /\ poll[m].at = "save" => (poll[m].state = row[m].state \/ m \in cut')
  /\ UNCHANGED <<inst, row, job, client, start, up>>

Comes(m) ==
  /\ inst[m] = "pending" /\ InstIs(m, "running") /\ ClientIs(m, {}, {})
  /\ up' \in [Machines -> Ages] /\ \A n \in Machines \ {m} : up'[n] = up[n]
  /\ UNCHANGED <<row, job, poll, start, cut>>

Goes(m) ==
  /\ inst[m] = "stopping" /\ InstIs(m, "stopped") /\ ClientIs(m, {}, {})
  /\ PollIs(m, poll[m].at, poll[m].row, poll[m].known, poll[m].state,
            poll[m].running, poll[m].finished, poll[m].jobs, FALSE)
  /\ UNCHANGED <<row, job, start, up, cut>>

Finishes(m, j) ==
  /\ Alive(m) /\ j \in client[m].running
  /\ ClientIs(m, client[m].running \ {j}, client[m].finished \cup {j})
  /\ UNCHANGED <<inst, row, job, poll, start, up, cut>>

Opens(u, m) ==
  /\ row[m].state \notin {"running", "pending"}
  /\ StartIs(u, "ec2", m, row[m], start'[u].state)
  /\ UNCHANGED <<inst, row, job, client, poll, up, cut>>

Calls(u) ==
  /\ start[u].at = "ec2" /\ inst[start[u].node] # "stopping"
  /\ InstIs(start[u].node, IF inst[start[u].node] = "stopped" THEN "pending"
                           ELSE inst[start[u].node])
  /\ StartIs(u, "save", start[u].node, start[u].row, inst'[start[u].node])
  /\ UNCHANGED <<row, job, client, poll, up, cut>>

StartEnds(u) ==
  /\ start' \in [Users -> Start] /\ start'[u].at = "none"
  /\ \A v \in Users \ {u} : start'[v] = start[v]

Ends(u) == StartEnds(u) /\ UNCHANGED <<inst, row, job, client, poll, up, cut>>

Renews(u) ==
  /\ start[u].at = "save" /\ StartEnds(u)
  /\ RowIs(start[u].node, start[u].row.known, start[u].state,
           IF start[u].state = start[u].row.state THEN start[u].row.changed ELSE 0)
  /\ UNCHANGED <<inst, job, client, poll, up, cut>>

Makes(j) ==
  /\ job' \in [Jobs -> Job] /\ job[j].status = "new"
  /\ job'[j].status = "ready" /\ job'[j].node = job[j].node
  /\ \A i \in Jobs \ {j} : job'[i] = job[i]
  /\ UNCHANGED <<inst, row, client, poll, start, up, cut>>

Ticks ==
  /\ \A m \in Machines : poll[m].at = "none"
  /\ \A u \in Users : start[u].at = "none"
  /\ row' \in [Machines -> Row] /\ up' \in [Machines -> Ages]
  /\ \A m \in Machines : /\ row'[m].state = row[m].state
                         /\ row[m].changed <= up[m] => row'[m].changed <= up'[m]
  /\ UNCHANGED <<inst, job, client, poll, start, cut>>

PollMoves(m) == Reads(m) \/ Finds(m) \/ Stops(m) \/ Saves(m) \/ Serves(m) \/ Receives(m) \/ Drops(m)
MachineMoves(m) == Comes(m) \/ Goes(m) \/ \E j \in Jobs : Finishes(m, j)
StartMoves(u) == Calls(u) \/ Ends(u) \/ Renews(u) \/ \E m \in Machines : Opens(u, m)

Step ==
  \/ \E m \in Machines : PollMoves(m) \/ MachineMoves(m)
  \/ \E u \in Users : StartMoves(u)
  \/ \E j \in Jobs : Makes(j)
  \/ Ticks
  \/ UNCHANGED <<inst, row, job, client, poll, start, up, cut>>

StartNodes == \A u \in Users : start[u].at # "none" => start[u].node \in Machines

\* A look-up, one that fails and one that is not needed have the shape of
\* Finds.
LEMMA FindsShape ==
  ASSUME TypeOK, NEW m \in Machines, LookUp(m) \/ LookUpFails(m) \/ KeepUp(m)
  PROVE  Finds(m)
<1>0. poll[m].known \in BOOLEAN /\ poll[m].state \in AnyState /\ inst[m] \in AnyState
  BY PollFacts DEF AnyState
<1>1. CASE LookUp(m)
  <2>1. PICK s \in AnyState : s = inst[m] BY <1>0
  <2>2. poll' = [poll EXCEPT ![m].at = "save", ![m].known = TRUE, ![m].state = s]
    BY <1>1, <2>1 DEF LookUp
  <2>3. PollFinds(m, "save", TRUE, s) BY <2>2, Found
  <2>4. /\ poll[m].at = "aws" /\ poll[m].row.state # "running"
        /\ UNCHANGED <<inst, row, job, client, start, up>>
    BY <1>1 DEF LookUp
  <2> QED BY <2>1, <2>3, <2>4 DEF Finds
<1>2. CASE LookUpFails(m)
  <2>1. "none" \in AnyState BY DEF AnyState
  <2>2. poll' = [poll EXCEPT ![m].at = "save", ![m].known = FALSE, ![m].state = "none"]
    BY <1>2 DEF LookUpFails
  <2>3. PollFinds(m, "save", FALSE, "none") BY <2>1, <2>2, Found
  <2>4. /\ poll[m].at = "aws" /\ poll[m].row.state # "running"
        /\ UNCHANGED <<inst, row, job, client, start, up>>
        /\ inst[m] = "running" \/ m \in cut'
    BY <1>2 DEF LookUpFails
  <2> QED BY <2>1, <2>3, <2>4 DEF Finds
<1>3. CASE KeepUp(m)
  <2>1. "save" \in Phases BY DEF Phases
  <2>2. PollFinds(m, "save", poll[m].known, poll[m].state) BY <1>3, <2>1, WentOn DEF KeepUp
  <2>3. /\ poll[m].at = "aws" /\ poll[m].row.state = "running"
        /\ UNCHANGED <<inst, row, job, client, start, up>>
    BY <1>3 DEF KeepUp
  <2> QED BY <1>0, <2>2, <2>3 DEF Finds
<1> QED BY <1>1, <1>2, <1>3

\* The stop of an idle machine has the shape of Stops.
LEMMA StopsShape ==
  ASSUME TypeOK, NEW m \in Machines, StopIdle(m)
  PROVE  Stops(m)
<1>1. /\ poll[m].at = "aws" /\ poll[m].row.known /\ poll[m].row.state = "running"
      /\ poll[m].row.changed = Idle /\ JobsOf(m, {"running", "reserved"}) = {}
      /\ UNCHANGED <<row, job, client, start, up, cut>>
  BY DEF StopIdle, ShouldBeStopped
<1>2. InstIs(m, IF inst[m] \in {"running", "pending"} THEN "stopping" ELSE inst[m])
  <2>1. inst' = [inst EXCEPT ![m] = IF @ \in {"running", "pending"} THEN "stopping" ELSE @]
    BY DEF StopIdle
  <2> QED BY <2>1 DEF InstIs, TypeOK, States
<1>3. PICK s \in AnyState : s = inst'[m] BY <1>2 DEF InstIs, AnyState
<1>4. poll' = [poll EXCEPT ![m].at = "save", ![m].state = s] BY <1>3 DEF StopIdle
<1>5. PollFinds(m, "save", poll[m].known, s) BY <1>4, Stopped
<1> QED BY <1>1, <1>2, <1>3, <1>5 DEF Stops

\* The update of the jobs has the shape of Serves.
LEMMA ServesShape ==
  ASSUME TypeOK, NEW m \in Machines, ServeJobs(m)
  PROVE  Serves(m)
<1> DEFINE all == {j \in Jobs : job'[j].status = "reserved" /\ job'[j].node = m}
           J == IF Gives(m) THEN all ELSE {}
<1>1. /\ job' \in [Jobs -> Job] /\ \A j \in Jobs : JobServed(m, j)
      /\ PollIs(m, "reply", poll[m].row, poll[m].known, poll[m].state,
                poll[m].running, poll[m].finished, J, poll[m].heard)
  BY ServeEffect
<1>2. J \in SUBSET all OBVIOUS
<1>3. poll[m].at = "jobs" /\ UNCHANGED <<inst, row, client, start, up, cut>> BY DEF ServeJobs
<1> HIDE DEF J
<1> QED BY <1>1, <1>2, <1>3 DEF Serves

\* A reply that arrives, or finds its client gone, has the shape of Receives.
LEMMA ReceivesShape ==
  ASSUME TypeOK, NEW m \in Machines, Receive(m)
  PROVE  Receives(m)
<1>1. poll[m].at = "reply" /\ UNCHANGED <<inst, row, job, start, up, cut>> BY DEF Receive
<1>2. PollEnds(m) BY Ended DEF Receive
<1>3. CASE poll[m].heard
  <2> DEFINE y == [running |-> client[m].running \cup poll[m].jobs,
                   finished |-> client[m].finished \ poll[m].finished]
  <2>1. client' = [client EXCEPT ![m] = y] BY <1>3 DEF Receive
  <2>2. y \in Client BY PollFacts DEF Client
  <2>3. /\ y.running = client[m].running \cup poll[m].jobs
        /\ y.finished = client[m].finished \ poll[m].finished
    OBVIOUS
  <2> HIDE DEF y
  <2> QED BY <1>1, <1>2, <1>3, <2>1, <2>2, <2>3 DEF Receives, ClientIs, TypeOK
<1>4. CASE ~poll[m].heard
  <2>1. client' = [client EXCEPT ![m] = client[m]] BY <1>4 DEF Receive
  <2>2. client' = client BY <2>1 DEF TypeOK
  <2> QED BY <1>1, <1>2, <2>2 DEF Receives
<1> QED BY <1>3, <1>4

\* A poll that fails, dies or loses its reply has the shape of Drops.
LEMMA DropsShape ==
  ASSUME TypeOK, NEW m \in Machines, StopFails(m) \/ LoseReply(m) \/ CrashPoll(m)
  PROVE  Drops(m)
<1>1. PollEnds(m) BY Ended DEF StopFails, LoseReply, CrashPoll
<1>2. poll[m].at # "none" /\ UNCHANGED <<inst, row, job, client, start, up>>
  BY DEF StopFails, LoseReply, CrashPoll
<1>3. poll[m].at = "save" => (poll[m].state = row[m].state \/ m \in cut')
  BY DEF StopFails, LoseReply, CrashPoll
<1> QED BY <1>1, <1>2, <1>3 DEF Drops

\* The begin of a poll has the shape of Reads.
LEMMA ReadsShape ==
  ASSUME TypeOK, NEW m \in Machines, ReadNode(m)
  PROVE  Reads(m)
<1>1. poll[m].at = "none" /\ Alive(m) /\ UNCHANGED <<inst, row, job, client, start, up, cut>>
  BY DEF ReadNode
<1> QED BY <1>1, ReadEffect DEF Reads

\* The save of a poll has the shape of Saves.
LEMMA SavesShape ==
  ASSUME TypeOK, NEW m \in Machines, SaveNode(m)
  PROVE  Saves(m)
<1>1. poll[m].at = "save" /\ UNCHANGED <<inst, job, client, start, up, cut>> BY DEF SaveNode
<1> QED BY <1>1, SaveEffect DEF Saves

\* A client that begins anew has no jobs.
LEMMA ClientEmptied ==
  ASSUME TypeOK, NEW m \in Machines, client' = [client EXCEPT ![m] = NoJobs]
  PROVE  ClientIs(m, {}, {})
BY FreshRecords DEF ClientIs, TypeOK

\* An instance that comes up has the shape of Comes.
LEMMA ComesShape ==
  ASSUME TypeOK, NEW m \in Machines, ComeUp(m)
  PROVE  Comes(m)
<1>1. inst[m] = "pending" /\ UNCHANGED <<row, job, poll, start, cut>> BY DEF ComeUp
<1>2. InstIs(m, "running")
  <2>1. inst' = [inst EXCEPT ![m] = "running"] BY DEF ComeUp
  <2> QED BY <2>1 DEF InstIs, TypeOK, States
<1>3. ClientIs(m, {}, {}) BY ClientEmptied DEF ComeUp
<1>4. up' \in [Machines -> Ages] /\ \A n \in Machines \ {m} : up'[n] = up[n]
  <2>1. up' = [up EXCEPT ![m] = 0] BY DEF ComeUp
  <2>2. 0 \in Ages BY AwsAssumption DEF Ages
  <2> QED BY <2>1, <2>2 DEF TypeOK
<1> QED BY <1>1, <1>2, <1>3, <1>4 DEF Comes

\* An instance that goes down has the shape of Goes.
LEMMA GoesShape ==
  ASSUME TypeOK, NEW m \in Machines, GoDown(m)
  PROVE  Goes(m)
<1>1. inst[m] = "stopping" /\ UNCHANGED <<row, job, start, up, cut>> BY DEF GoDown
<1>2. InstIs(m, "stopped")
  <2>1. inst' = [inst EXCEPT ![m] = "stopped"] BY DEF GoDown
  <2> QED BY <2>1 DEF InstIs, TypeOK, States
<1>3. ClientIs(m, {}, {}) BY ClientEmptied DEF GoDown
<1>4. poll' = [poll EXCEPT ![m].heard = FALSE] BY DEF GoDown
<1> QED BY <1>1, <1>2, <1>3, <1>4, Unheard DEF Goes

\* A job that ends in its client has the shape of Finishes.
LEMMA FinishesShape ==
  ASSUME TypeOK, NEW m \in Machines, NEW j \in Jobs, FinishJob(m, j)
  PROVE  Finishes(m, j)
<1> DEFINE y == [running |-> client[m].running \ {j}, finished |-> client[m].finished \cup {j}]
<1>1. client' = [client EXCEPT ![m] = y] BY DEF FinishJob
<1>2. y \in Client BY PollFacts DEF Client
<1>3. y.running = client[m].running \ {j} /\ y.finished = client[m].finished \cup {j} OBVIOUS
<1>4. /\ Alive(m) /\ j \in client[m].running
      /\ UNCHANGED <<inst, row, job, poll, start, up, cut>>
  BY DEF FinishJob
<1> HIDE DEF y
<1>5. ClientIs(m, client[m].running \ {j}, client[m].finished \cup {j})
  BY <1>1, <1>2, <1>3 DEF ClientIs, TypeOK
<1> QED BY <1>4, <1>5 DEF Finishes

\* A request that begins has the shape of Opens.
LEMMA OpensShape ==
  ASSUME TypeOK, NEW u \in Users, NEW m \in Machines, OpenStart(u, m)
  PROVE  Opens(u, m)
<1>1. row[m].state \notin {"running", "pending"} /\ UNCHANGED <<inst, row, job, client, poll, up, cut>>
  BY DEF OpenStart, Offered
<1> QED BY <1>1, OpenEffect DEF Opens

\* The call of EC2 by a request has the shape of Calls.
LEMMA CallsShape ==
  ASSUME TypeOK, NEW u \in Users, CallStart(u), start[u].node \in Machines
  PROVE  Calls(u)
<1>1. /\ start[u].at = "ec2" /\ inst[start[u].node] # "stopping"
      /\ UNCHANGED <<row, job, client, poll, up, cut>>
  BY DEF CallStart
<1>2. InstIs(start[u].node, IF inst[start[u].node] = "stopped" THEN "pending"
                            ELSE inst[start[u].node])
  <2>1. inst' = [inst EXCEPT ![start[u].node] = IF @ = "stopped" THEN "pending" ELSE @]
    BY DEF CallStart
  <2> QED BY <2>1 DEF InstIs, TypeOK, States
<1> QED BY <1>1, <1>2, CallEffect DEF Calls

\* A request that fails or dies has the shape of Ends.
LEMMA EndsShape ==
  ASSUME TypeOK, NEW u \in Users, StartFails(u) \/ CrashStart(u)
  PROVE  Ends(u)
<1>1. EndStart(u) /\ UNCHANGED <<inst, row, job, client, poll, up, cut>>
  BY DEF StartFails, CrashStart
<1> QED BY <1>1, EndEffect DEF Ends, StartEnds

\* The save of a request has the shape of Renews.
LEMMA RenewsShape ==
  ASSUME TypeOK, NEW u \in Users, SaveStart(u), start[u].node \in Machines
  PROVE  Renews(u)
<1>1. start[u].at = "save" /\ EndStart(u) /\ UNCHANGED <<inst, job, client, poll, up, cut>>
  BY DEF SaveStart
<1> QED BY <1>1, EndEffect, SaveStartEffect DEF Renews, StartEnds

\* A job that is made has the shape of Makes.
LEMMA MakesShape ==
  ASSUME TypeOK, NEW j \in Jobs, MakeJob(j)
  PROVE  Makes(j)
<1> DEFINE x == job[j]
           y == [x EXCEPT !.status = "ready"]
<1>1. job' = [job EXCEPT ![j] = y] BY DEF MakeJob
<1>2. x \in Job /\ x = job[j] BY JobFacts
<1> HIDE DEF x
<1>3. y \in Job /\ y.status = "ready" /\ y.node = x.node BY <1>2, JobBecomes
<1>4. job[j].status = "new" /\ UNCHANGED <<inst, row, client, poll, start, up, cut>>
  BY DEF MakeJob
<1> HIDE DEF y
<1> QED BY <1>1, <1>2, <1>3, <1>4, JobFacts DEF Makes

\* A tick has the shape of Ticks.
LEMMA TicksShape ==
  ASSUME TypeOK, Tick
  PROVE  Ticks
<1>1. \A m \in Machines : poll[m].at = "none" BY DEF Tick
<1>2. \A u \in Users : start[u].at = "none" BY FreshRecords DEF Tick
<1>3. UNCHANGED <<inst, job, client, poll, start, cut>> BY DEF Tick
<1> QED BY <1>1, <1>2, <1>3, TickEffect DEF Ticks

\* Every step of the specification has one of the shapes.
LEMMA StepShape ==
  ASSUME TypeOK, StartNodes, [Next]_vars
  PROVE  Step
<1>1. ASSUME NEW m \in Machines, PollStep(m) \/ Fault(m)
      PROVE  PollMoves(m)
  BY <1>1, ReadsShape, FindsShape, StopsShape, SavesShape, ServesShape, ReceivesShape, DropsShape
  DEF PollStep, Fault, PollMoves
<1>2. ASSUME NEW m \in Machines, ComeUp(m) \/ GoDown(m) \/ \E j \in Jobs : FinishJob(m, j)
      PROVE  MachineMoves(m)
  BY <1>2, ComesShape, GoesShape, FinishesShape DEF MachineMoves
<1>3. ASSUME NEW u \in Users, NEW m \in Machines, OpenStart(u, m)
      PROVE  StartMoves(u)
  BY <1>3, OpensShape DEF StartMoves
<1>4. ASSUME NEW u \in Users, StartStep(u) \/ CrashStart(u)
      PROVE  StartMoves(u)
  <2>1. CASE CallStart(u)
    <3>1. start[u].node \in Machines BY <2>1 DEF CallStart, StartNodes
    <3> QED BY <2>1, <3>1, CallsShape DEF StartMoves
  <2>2. CASE StartFails(u) \/ CrashStart(u) BY <2>2, EndsShape DEF StartMoves
  <2>3. CASE SaveStart(u)
    <3>1. start[u].node \in Machines BY <2>3 DEF SaveStart, StartNodes
    <3> QED BY <2>3, <3>1, RenewsShape DEF StartMoves
  <2> QED BY <1>4, <2>1, <2>2, <2>3 DEF StartStep
<1>5. ASSUME NEW j \in Jobs, MakeJob(j)
      PROVE  Makes(j)
  BY <1>5, MakesShape
<1>6. CASE Tick BY <1>6, TicksShape DEF Step
<1>7. CASE UNCHANGED vars BY <1>7 DEF vars, Step
<1> QED BY <1>1, <1>2, <1>3, <1>4, <1>5, <1>6, <1>7 DEF Next, Step

Same == UNCHANGED <<starts, faults, cut>>

Counted ==
  starts' \in Nat /\ faults' \in Nat /\ cut \subseteq cut' /\ cut' \subseteq Machines

\* Counters stay numbers, and no machine leaves cut.
LEMMA CountsTyped ==
  ASSUME TypeOK, [Next]_vars
  PROVE  Counted
<1>1. starts \in Nat /\ faults \in Nat /\ cut \subseteq Machines BY DEF TypeOK
<1>2. Same => Counted BY <1>1 DEF Counted, Same
<1>3. ASSUME NEW m \in Machines, PollStep(m)
      PROVE  Same
  BY <1>3 DEF PollStep, ReadNode, LookUp, KeepUp, StopIdle, SaveNode, ServeJobs, Receive, Same
<1>4. ASSUME NEW m \in Machines, Fault(m)
      PROVE  Counted
  <2>1. starts' = starts BY <1>4 DEF Fault, LookUpFails, StopFails, LoseReply, CrashPoll
  <2>2. faults' = faults + 1
    BY <1>4 DEF Fault, LookUpFails, StopFails, LoseReply, CrashPoll, Spend
  <2>3. cut' = cut \/ cut' = cut \cup {m}
    BY <1>4 DEF Fault, LookUpFails, StopFails, LoseReply, CrashPoll
  <2> QED BY <1>1, <2>1, <2>2, <2>3 DEF Counted
<1>5. ASSUME NEW m \in Machines, ComeUp(m) \/ GoDown(m) \/ \E j \in Jobs : FinishJob(m, j)
      PROVE  Same
  BY <1>5 DEF ComeUp, GoDown, FinishJob, Same
<1>6. ASSUME NEW u \in Users, NEW m \in Machines, OpenStart(u, m)
      PROVE  Counted
  <2>1. starts' = starts + 1 /\ UNCHANGED <<faults, cut>> BY <1>6 DEF OpenStart
  <2> QED BY <1>1, <2>1 DEF Counted
<1>7. ASSUME NEW u \in Users, StartStep(u) \/ CrashStart(u)
      PROVE  Counted
  <2>1. UNCHANGED <<starts, cut>> BY <1>7 DEF StartStep, CallStart, StartFails, SaveStart, CrashStart
  <2>2. faults' = faults \/ faults' = faults + 1
    BY <1>7 DEF StartStep, CallStart, StartFails, SaveStart, CrashStart, Spend
  <2> QED BY <1>1, <2>1, <2>2 DEF Counted
<1>8. ASSUME NEW j \in Jobs, MakeJob(j)
      PROVE  Same
  BY <1>8 DEF MakeJob, Same
<1>9. CASE Tick BY <1>2, <1>9 DEF Tick, Same
<1>10. CASE UNCHANGED vars BY <1>2, <1>10 DEF vars, Same
<1>11. ASSUME NEW m \in Machines,
              \/ PollStep(m) \/ Fault(m) \/ ComeUp(m) \/ GoDown(m)
              \/ \E u \in Users : OpenStart(u, m)
              \/ \E j \in Jobs : FinishJob(m, j)
       PROVE  Counted
  <2>1. CASE PollStep(m) BY <1>2, <1>3, <2>1
  <2>2. CASE Fault(m) BY <1>4, <2>2
  <2>3. CASE ComeUp(m) \/ GoDown(m) \/ \E j \in Jobs : FinishJob(m, j) BY <1>2, <1>5, <2>3
  <2>4. CASE \E u \in Users : OpenStart(u, m) BY <1>6, <2>4
  <2> QED BY <1>11, <2>1, <2>2, <2>3, <2>4
<1> QED
  <2>1. CASE \E j \in Jobs : MakeJob(j) BY <1>2, <1>8, <2>1
  <2>2. CASE \E u \in Users : StartStep(u) \/ CrashStart(u) BY <1>7, <2>2
  <2>3. CASE Next BY <1>9, <1>11, <2>1, <2>2, <2>3 DEF Next
  <2> QED BY <1>10, <2>3

-----------------------------------------------------------------------------
(* Work.                                                                   *)

\* The work of a machine is as before when nothing of it changes.
LEMMA HeldElsewhere ==
  ASSUME NEW m \in Machines, Held(m), job' = job, client'[m] = client[m], poll'[m] = poll[m],
         inst'[m] = inst[m] \/ ~Alive(m) \/ Alive(m)'
  PROVE  Held(m)'
BY DEF Held, OwnJobs, JobsOf, Alive

\* A poll begins with all that its client runs.
LEMMA HeldReads ==
  ASSUME TypeOK, NEW m \in Machines, Held(m), Reads(m)
  PROVE  Held(m)'
BY DEF Held, OwnJobs, JobsOf, Alive, Reads, PollIs

\* A look-up moves no work.
LEMMA HeldFinds ==
  ASSUME TypeOK, NEW m \in Machines, Held(m), Finds(m)
  PROVE  Held(m)'
BY DEF Held, OwnJobs, JobsOf, Alive, Finds, PollFinds, PollIs

\* A stop moves no work: the instance is still up while it stops.
LEMMA HeldStops ==
  ASSUME TypeOK, NEW m \in Machines, Held(m), Stops(m)
  PROVE  Held(m)'
<1>1. Alive(m)' \/ ~Alive(m) BY DEF Alive, Stops, InstIs
<1> QED BY <1>1 DEF Held, OwnJobs, JobsOf, Stops, PollFinds, PollIs

\* A save moves no work.
LEMMA HeldSaves ==
  ASSUME TypeOK, NEW m \in Machines, Held(m), Saves(m)
  PROVE  Held(m)'
BY DEF Held, OwnJobs, JobsOf, Alive, Saves, PollFinds, PollIs

\* A poll that is lost leaves the work with the client and the farm.
LEMMA HeldDrops ==
  ASSUME TypeOK, NEW m \in Machines, Held(m), Drops(m)
  PROVE  Held(m)'
BY DEF Held, OwnJobs, JobsOf, Drops, PollEnds, PollIs

\* A client gets only jobs that are reserved for its machine.
LEMMA HeldReceives ==
  ASSUME TypeOK, NEW m \in Machines, Held(m), Receives(m)
  PROVE  Held(m)'
<1>1. /\ poll'[m].at = "none" /\ poll'[m].running = {} /\ poll'[m].finished = {}
      /\ poll'[m].jobs = {} /\ job' = job
  BY DEF Receives, PollEnds, PollIs
<1>2. /\ client'[m].running \subseteq client[m].running \cup poll[m].jobs
      /\ client'[m].finished \subseteq client[m].finished
  BY DEF Receives, ClientIs
<1>3. poll[m].jobs \subseteq JobsOf(m, {"reserved"}) BY DEF Held, Receives
<1> QED BY <1>1, <1>2, <1>3 DEF Held, OwnJobs, JobsOf

\* A machine that comes up or goes down has a client without jobs.
LEMMA HeldComes ==
  ASSUME TypeOK, NEW m \in Machines, Held(m), Comes(m) \/ Goes(m)
  PROVE  Held(m)'
<1>1. CASE Comes(m)
  <2>1. Alive(m)' BY <1>1 DEF Alive, Comes, InstIs
  <2> QED BY <1>1, <2>1 DEF Held, OwnJobs, JobsOf, Comes, ClientIs
<1>2. CASE Goes(m)
  BY <1>2 DEF Held, OwnJobs, JobsOf, Goes, ClientIs, PollIs
<1> QED BY <1>1, <1>2

\* A job that ends is one the open poll has among its running jobs.
LEMMA HeldFinishes ==
  ASSUME TypeOK, NEW m \in Machines, NEW j \in Jobs, Held(m), Finishes(m, j)
  PROVE  Held(m)'
BY DEF Held, OwnJobs, JobsOf, Alive, Finishes, ClientIs

\* A job that is handed to a machine had none.
LEMMA HeldMakes ==
  ASSUME TypeOK, NEW m \in Machines, NEW j \in Jobs, Held(m), Makes(j)
  PROVE  Held(m)'
<1>1. \A i \in Jobs : job'[i].node = job[i].node BY DEF Makes
<1>2. \A i \in Jobs : job[i].status # "new" => job'[i] = job[i] BY DEF Makes
<1>3. OwnJobs(m)' = OwnJobs(m) BY <1>1 DEF OwnJobs
<1>4. /\ JobsOf(m, {"running", "reserved"}) \subseteq JobsOf(m, {"running", "reserved"})'
      /\ JobsOf(m, {"reserved"}) \subseteq JobsOf(m, {"reserved"})'
      /\ JobsOf(m, {"running"}) \subseteq JobsOf(m, {"running"})'
  BY <1>2 DEF JobsOf
<1>5. client' = client /\ poll' = poll /\ Alive(m)' = Alive(m) BY DEF Makes, Alive
<1> HIDE DEF Held
<1> QED BY <1>3, <1>4, <1>5 DEF Held

\* After a poll, what the client runs runs for the farm, and the reply carries
\* reserved jobs.
LEMMA HeldServes ==
  ASSUME TypeOK, Unassigned, NEW m \in Machines, Held(m), Serves(m)
  PROVE  Held(m)'
<1>1. \A j \in OwnJobs(m) : j \in Jobs /\ job[j].node = m /\ job[j].node # NoMachine
  BY AwsAssumption DEF OwnJobs
<1>2. \A j \in OwnJobs(m) : job'[j].node = m
  BY <1>1 DEF Serves, JobServed, Unassigned
<1>3. OwnJobs(m) \subseteq OwnJobs(m)' BY <1>1, <1>2 DEF OwnJobs
<1>4. \A j \in poll[m].running : job'[j].status = "running" /\ job'[j].node = m
  <2> SUFFICES ASSUME NEW j \in poll[m].running
               PROVE  job'[j].status = "running" /\ job'[j].node = m
    OBVIOUS
  <2>1. j \in OwnJobs(m) BY DEF Held
  <2>2. job'[j].status = "running" BY <1>1, <2>1 DEF Serves, JobServed
  <2> QED BY <1>2, <2>1, <2>2
<1>5. poll[m].running \subseteq Jobs BY PollFacts
<1>6. /\ client[m].running \subseteq poll[m].running
      /\ client[m].finished \subseteq poll[m].running \cup poll[m].finished
      /\ ~Alive(m) => ~poll[m].heard
  BY DEF Held, Serves
<1>7. /\ poll'[m].at = "reply" /\ poll'[m].running = poll[m].running
      /\ poll'[m].finished = poll[m].finished /\ poll'[m].heard = poll[m].heard
      /\ poll'[m].jobs \subseteq {j \in Jobs : job'[j].status = "reserved" /\ job'[j].node = m}
  BY DEF Serves, PollIs
<1>8. client' = client /\ Alive(m)' = Alive(m) BY DEF Serves, Alive
<1>9. client[m].running \cup client[m].finished \subseteq OwnJobs(m)
      /\ poll[m].running \cup poll[m].finished \subseteq OwnJobs(m)
  BY DEF Held
<1>10. poll'[m].jobs \subseteq OwnJobs(m)' BY <1>7 DEF OwnJobs
<1>11. poll'[m].jobs \subseteq JobsOf(m, {"reserved"})' BY <1>7 DEF JobsOf
<1>12. poll[m].running \subseteq JobsOf(m, {"running"})'
       /\ poll[m].running \subseteq JobsOf(m, {"running", "reserved"})'
  BY <1>4, <1>5 DEF JobsOf
<1> QED BY <1>3, <1>6, <1>7, <1>8, <1>9, <1>10, <1>11, <1>12 DEF Held

\* A poll of one machine does not touch the jobs of another.
LEMMA HeldServedElsewhere ==
  ASSUME TypeOK, Unassigned, NEW m \in Machines, NEW n \in Machines \ {m}, Held(m), Held(n),
         Serves(m)
  PROVE  Held(n)'
<1>1. \A j \in OwnJobs(n) : j \in Jobs /\ job[j].node = n /\ n # NoMachine
  BY AwsAssumption DEF OwnJobs
<1>2. poll[m].running \subseteq OwnJobs(m) /\ poll[m].finished \subseteq OwnJobs(m) BY DEF Held
<1>3. \A j \in OwnJobs(n) : job'[j] = job[j]
  <2> SUFFICES ASSUME NEW j \in OwnJobs(n) PROVE job'[j] = job[j]
    OBVIOUS
  <2>1. j \notin poll[m].running /\ j \notin poll[m].finished /\ j \notin JobsOf(m, {"running"})
    BY <1>1, <1>2 DEF OwnJobs, JobsOf
  <2>2. job[j].status # "ready" BY <1>1 DEF Unassigned
  <2> QED BY <1>1, <2>1, <2>2 DEF Serves, JobServed
<1>4. OwnJobs(n) \subseteq OwnJobs(n)' BY <1>1, <1>3 DEF OwnJobs
<1>5. /\ JobsOf(n, {"running", "reserved"}) \subseteq JobsOf(n, {"running", "reserved"})'
      /\ JobsOf(n, {"reserved"}) \subseteq JobsOf(n, {"reserved"})'
      /\ JobsOf(n, {"running"}) \subseteq JobsOf(n, {"running"})'
  BY <1>3 DEF JobsOf, OwnJobs
<1>6. client' = client /\ poll'[n] = poll[n] /\ Alive(n)' = Alive(n) BY DEF Serves, PollIs, Alive
<1> QED BY <1>4, <1>5, <1>6 DEF Held

\* A job that is new or ready has no machine, before and after a step.
LEMMA UnassignedNext ==
  ASSUME TypeOK, Unassigned, Step
  PROVE  Unassigned'
<1>1. ASSUME NEW m \in Machines, Serves(m)
      PROVE  Unassigned'
  <2> SUFFICES ASSUME NEW j \in Jobs, job'[j].status \in {"new", "ready"}
               PROVE  job'[j].node = NoMachine
    BY DEF Unassigned
  <2>1. job'[j] = job[j] BY <1>1 DEF Serves, JobServed
  <2> QED BY <2>1 DEF Unassigned
<1>2. ASSUME NEW j \in Jobs, Makes(j)
      PROVE  Unassigned'
  BY <1>2 DEF Makes, Unassigned
<1>3. CASE job' = job BY <1>3 DEF Unassigned
<1>4. ASSUME NEW m \in Machines, PollMoves(m)
      PROVE  Serves(m) \/ job' = job
  BY <1>4 DEF PollMoves, Reads, Finds, Stops, Saves, Receives, Drops
<1>5. ASSUME NEW m \in Machines, MachineMoves(m)
      PROVE  job' = job
  BY <1>5 DEF MachineMoves, Comes, Goes, Finishes
<1>6. ASSUME NEW u \in Users, StartMoves(u)
      PROVE  job' = job
  BY <1>6 DEF StartMoves, Calls, Ends, Renews, Opens
<1>7. Ticks => job' = job BY DEF Ticks
<1> QED BY <1>1, <1>2, <1>3, <1>4, <1>5, <1>6, <1>7 DEF Step

\* Every step keeps the work of all machines in order.
LEMMA JobNext ==
  ASSUME TypeOK, StartNodes, JobInv, Step
  PROVE  JobInv'
<1>1. Unassigned /\ \A n \in Machines : Held(n) BY DEF JobInv
<1>2. ASSUME NEW m \in Machines, PollMoves(m), NEW n \in Machines
      PROVE  Held(n)'
  <2>0. Held(n) /\ Held(m) BY <1>1
  <2>1. CASE n = m
    BY <1>1, <1>2, <2>0, <2>1, HeldReads, HeldFinds, HeldStops, HeldSaves, HeldServes, HeldReceives,
       HeldDrops
    DEF PollMoves
  <2>2. CASE n # m /\ Serves(m) BY <1>1, <2>0, <2>2, HeldServedElsewhere
  <2>3. CASE n # m /\ ~Serves(m)
    <3>1. poll'[n] = poll[n]
      BY <1>2, <2>3 DEF PollMoves, Reads, Finds, Stops, Saves, Receives, Drops, PollEnds, PollFinds,
         PollIs
    <3>2. job' = job
      BY <1>2, <2>3 DEF PollMoves, Reads, Finds, Stops, Saves, Receives, Drops
    <3>3. client'[n] = client[n]
      BY <1>2, <2>3 DEF PollMoves, Reads, Finds, Stops, Saves, Receives, Drops, ClientIs
    <3>4. inst'[n] = inst[n]
      BY <1>2, <2>3 DEF PollMoves, Reads, Finds, Stops, Saves, Receives, Drops, InstIs
    <3> QED BY <2>0, <3>1, <3>2, <3>3, <3>4, HeldElsewhere
  <2> QED BY <2>1, <2>2, <2>3
<1>3. ASSUME NEW m \in Machines, MachineMoves(m), NEW n \in Machines
      PROVE  Held(n)'
  <2>0. Held(n) /\ Held(m) BY <1>1
  <2>1. CASE n = m BY <1>3, <2>0, <2>1, HeldComes, HeldFinishes DEF MachineMoves
  <2>2. CASE n # m
    <3>1. /\ poll'[n] = poll[n] /\ job' = job /\ client'[n] = client[n] /\ inst'[n] = inst[n]
      BY <1>3, <2>2 DEF MachineMoves, Comes, Goes, Finishes, PollIs, ClientIs, InstIs
    <3> QED BY <2>0, <3>1, HeldElsewhere
  <2> QED BY <2>1, <2>2
<1>4. ASSUME NEW u \in Users, StartMoves(u), NEW n \in Machines
      PROVE  Held(n)'
  <2>1. poll' = poll /\ job' = job /\ client' = client
    BY <1>4 DEF StartMoves, Calls, Ends, Renews, Opens
  <2>2. inst'[n] = inst[n] \/ ~Alive(n)
    BY <1>4 DEF StartMoves, Calls, Ends, Renews, Opens, InstIs, Alive, StartNodes
  <2> QED BY <1>1, <2>1, <2>2, HeldElsewhere
<1>5. ASSUME NEW j \in Jobs, Makes(j), NEW n \in Machines
      PROVE  Held(n)'
  BY <1>1, <1>5, HeldMakes
<1>6. ASSUME Ticks \/ UNCHANGED <<inst, row, job, client, poll, start, up, cut>>, NEW n \in Machines
      PROVE  Held(n)'
  <2>1. poll' = poll /\ job' = job /\ client' = client /\ inst' = inst BY <1>6 DEF Ticks
  <2> QED BY <1>1, <2>1, HeldElsewhere
<1>7. Unassigned' BY <1>1, UnassignedNext
<1>8. ASSUME NEW n \in Machines PROVE Held(n)'
  BY <1>2, <1>3, <1>4, <1>5, <1>6 DEF Step
<1> QED BY <1>7, <1>8 DEF JobInv

\* A job is not at once in the running and the finished jobs of a client.
Apart(m) ==
  client[m].running \cap client[m].finished = {} /\ (~Alive(m) => client[m] = NoJobs)

\* Every step keeps running and finished jobs apart, and machines that are down
\* without either.
LEMMA ApartNext ==
  ASSUME TypeOK, StartNodes, JobInv, Step, NEW n \in Machines
  PROVE  Apart(n)'
<1>1. Apart(n) /\ Held(n) BY DEF TypeOK, Apart, JobInv
<1>2. CASE client'[n] = client[n] /\ (inst'[n] = inst[n] \/ ~Alive(n) \/ Alive(n)')
  BY <1>1, <1>2 DEF Apart, Alive
<1>3. ASSUME NEW m \in Machines, PollMoves(m)
      PROVE  Apart(n)'
  <2>1. CASE n = m /\ Receives(m) /\ client' # client
    <3>1. /\ poll[n].at = "reply" /\ poll[n].heard /\ inst' = inst
          /\ client'[n].running = client[n].running \cup poll[n].jobs
          /\ client'[n].finished = client[n].finished \ poll[n].finished
      BY <2>1 DEF Receives, ClientIs
    <3>2. Alive(n) /\ client[n].finished \subseteq poll[n].running \cup poll[n].finished
      BY <1>1, <3>1 DEF Held
    <3>3. poll[n].jobs \cap poll[n].running = {} BY <1>1, <3>1 DEF Held, JobsOf
    <3>4. Alive(n)' BY <3>1, <3>2 DEF Alive
    <3> QED BY <1>1, <3>1, <3>2, <3>3, <3>4 DEF Apart
  <2>2. CASE ~(n = m /\ Receives(m) /\ client' # client)
    <3>1. client'[n] = client[n]
      BY <1>3, <2>2 DEF PollMoves, Reads, Finds, Stops, Saves, Serves, Receives, Drops, ClientIs
    <3>2. inst'[n] = inst[n] \/ ~Alive(n) \/ Alive(n)'
      BY <1>3 DEF PollMoves, Reads, Finds, Stops, Saves, Serves, Receives, Drops, InstIs, Alive
    <3> QED BY <1>2, <3>1, <3>2
  <2> QED BY <2>1, <2>2
<1>4. ASSUME NEW m \in Machines, MachineMoves(m)
      PROVE  Apart(n)'
  <2>1. CASE n # m
    <3>1. client'[n] = client[n] /\ inst'[n] = inst[n]
      BY <1>4, <2>1 DEF MachineMoves, Comes, Goes, Finishes, ClientIs, InstIs
    <3> QED BY <1>2, <3>1
  <2>2. CASE n = m /\ (Comes(m) \/ Goes(m))
    <3>1. client'[n].running = {} /\ client'[n].finished = {} /\ client'[n] \in Client
      BY <2>2 DEF Comes, Goes, ClientIs
    <3>2. client'[n] = NoJobs BY <3>1 DEF Client, NoJobs
    <3> QED BY <3>1, <3>2 DEF Apart
  <2>3. ASSUME NEW j \in Jobs, Finishes(m, j), n = m
        PROVE  Apart(n)'
    BY <1>1, <2>3 DEF Apart, Alive, Finishes, ClientIs
  <2> QED BY <1>4, <2>1, <2>2, <2>3 DEF MachineMoves
<1>5. ASSUME NEW u \in Users, StartMoves(u)
      PROVE  Apart(n)'
  <2>1. client'[n] = client[n] BY <1>5 DEF StartMoves, Calls, Ends, Renews, Opens
  <2>2. inst'[n] = inst[n] \/ ~Alive(n)
    BY <1>5 DEF StartMoves, Calls, Ends, Renews, Opens, InstIs, Alive, StartNodes
  <2> QED BY <1>2, <2>1, <2>2
<1>6. ASSUME NEW j \in Jobs, Makes(j)
      PROVE  Apart(n)'
  BY <1>2, <1>6 DEF Makes
<1>7. CASE Ticks BY <1>2, <1>7 DEF Ticks
<1>8. CASE UNCHANGED <<inst, row, job, client, poll, start, up, cut>> BY <1>2, <1>8
<1> QED BY <1>3, <1>4, <1>5, <1>6, <1>7, <1>8 DEF Step

\* Every step keeps the types.
LEMMA TypeNext ==
  ASSUME TypeOK, StartNodes, JobInv, Step, Counted
  PROVE  TypeOK'
<1>1. inst' \in [Machines -> States] /\ client' \in [Machines -> Client] /\ up' \in [Machines -> Ages]
  <2>1. /\ inst \in [Machines -> States] /\ client \in [Machines -> Client]
        /\ up \in [Machines -> Ages]
    BY DEF TypeOK
  <2> QED BY <2>1 DEF Step, PollMoves, MachineMoves, StartMoves, Reads, Finds, Stops, Saves, Serves,
      Receives, Drops, Comes, Goes, Finishes, Opens, Calls, Ends, Renews, Makes, Ticks, InstIs, ClientIs
<1>2. row' \in [Machines -> Row] /\ job' \in [Jobs -> Job]
  <2>1. row \in [Machines -> Row] /\ job \in [Jobs -> Job] BY DEF TypeOK
  <2> QED BY <2>1 DEF Step, PollMoves, MachineMoves, StartMoves, Reads, Finds, Stops, Saves, Serves,
      Receives, Drops, Comes, Goes, Finishes, Opens, Calls, Ends, Renews, Makes, Ticks, RowIs
<1>3. poll' \in [Machines -> Poll]
  <2>1. poll \in [Machines -> Poll] BY DEF TypeOK
  <2> QED BY <2>1 DEF Step, PollMoves, MachineMoves, StartMoves, Reads, Finds, Stops, Saves, Serves,
      Receives, Drops, Comes, Goes, Finishes, Opens, Calls, Ends, Renews, Makes, Ticks, PollEnds,
      PollFinds, PollIs
<1>4. start' \in [Users -> Start]
  <2>1. start \in [Users -> Start] BY DEF TypeOK
  <2> QED BY <2>1 DEF Step, PollMoves, MachineMoves, StartMoves, Reads, Finds, Stops, Saves, Serves,
      Receives, Drops, Comes, Goes, Finishes, Opens, Calls, Ends, Renews, Makes, Ticks, StartIs,
      StartEnds
<1>5. \A n \in Machines : /\ (client[n].running \cap client[n].finished = {})'
                          /\ (~Alive(n) => client[n] = NoJobs)'
  BY ApartNext DEF Apart
<1> QED BY <1>1, <1>2, <1>3, <1>4, <1>5 DEF TypeOK, Counted

-----------------------------------------------------------------------------
(* Rows that polls have read.                                              *)

\* What a poll has read is as before when neither poll nor row changes.
LEMMA ReadElsewhere ==
  ASSUME NEW n \in Machines, Read(n), poll'[n] = poll[n], row'[n] = row[n]
  PROVE  Read(n)'
BY DEF Read

\* The steps of a poll keep it in line with its row.
LEMMA ReadMoves ==
  ASSUME TypeOK, NEW m \in Machines, Read(m), PollMoves(m)
  PROVE  Read(m)'
<1>1. CASE Reads(m) BY <1>1 DEF Reads, PollIs, Read
<1>2. CASE Finds(m) BY <1>2 DEF Finds, PollFinds, PollIs, Read
<1>3. CASE Stops(m) BY <1>3 DEF Stops, PollFinds, PollIs, Read
<1>4. CASE Saves(m) \/ Serves(m) \/ Receives(m) \/ Drops(m)
  <2>1. poll'[m].at \notin {"aws", "save"}
    BY <1>4 DEF Saves, Serves, Receives, Drops, PollEnds, PollFinds, PollIs
  <2> QED BY <2>1 DEF Read
<1> QED BY <1>1, <1>2, <1>3, <1>4 DEF PollMoves

\* Only a start that saves "pending" or "running" comes between a poll and its
\* row.
LEMMA ReadNext ==
  ASSUME TypeOK, ReadInv, StartInv, Step
  PROVE  ReadInv'
<1> SUFFICES ASSUME NEW n \in Machines PROVE Read(n)'
  BY DEF ReadInv
<1>1. Read(n) BY DEF ReadInv
<1>2. ASSUME NEW m \in Machines, PollMoves(m)
      PROVE  Read(n)'
  <2>1. CASE n = m BY <1>1, <1>2, <2>1, ReadMoves
  <2>2. CASE n # m
    <3>1. poll'[n] = poll[n] /\ row'[n] = row[n]
      BY <1>2, <2>2 DEF PollMoves, Reads, Finds, Stops, Saves, Serves, Receives, Drops, PollEnds,
         PollFinds, PollIs, RowIs
    <3> QED BY <1>1, <3>1, ReadElsewhere
  <2> QED BY <2>1, <2>2
<1>3. ASSUME NEW m \in Machines, MachineMoves(m)
      PROVE  Read(n)'
  <2>1. row' = row BY <1>3 DEF MachineMoves, Comes, Goes, Finishes
  <2>2. /\ poll'[n].at = poll[n].at /\ poll'[n].row = poll[n].row
        /\ poll'[n].known = poll[n].known /\ poll'[n].state = poll[n].state
    BY <1>3 DEF MachineMoves, Comes, Goes, Finishes, PollIs
  <2> QED BY <1>1, <2>1, <2>2 DEF Read
<1>4. ASSUME NEW u \in Users, StartMoves(u)
      PROVE  Read(n)'
  <2>1. poll' = poll BY <1>4 DEF StartMoves, Calls, Ends, Renews, Opens
  <2>2. row'[n] = row[n] \/ row'[n].state \in {"running", "pending"}
    <3>1. CASE Renews(u)
      <4>1. /\ start[u].node \in Machines
            /\ start[u].state \in {"running", "pending"}
        BY <3>1 DEF Renews, StartInv, Opened
      <4> QED BY <3>1, <4>1 DEF Renews, RowIs
    <3>2. CASE ~Renews(u) BY <1>4, <3>2 DEF StartMoves, Calls, Ends, Opens
    <3> QED BY <3>1, <3>2
  <2> QED BY <1>1, <2>1, <2>2 DEF Read
<1>5. ASSUME NEW j \in Jobs, Makes(j)
      PROVE  Read(n)'
  BY <1>1, <1>5, ReadElsewhere DEF Makes
<1>6. CASE Ticks BY <1>6 DEF Ticks, Read
<1>7. CASE UNCHANGED <<inst, row, job, client, poll, start, up, cut>> BY <1>1, <1>7, ReadElsewhere
<1> QED BY <1>2, <1>3, <1>4, <1>5, <1>6, <1>7 DEF Step

-----------------------------------------------------------------------------
(* Requests to start an instance.                                          *)

\* What is open of a request, apart from the request itself.
Free(m) ==
  /\ row[m].state = "running" => row[m].changed < Idle
  /\ (poll[m].at \in {"aws", "save"} /\ poll[m].row.state = "running") => poll[m].row.changed < Idle
  /\ (m \notin cut /\ row[m].state = "running") => inst[m] = "running"

Called(u, m) ==
  /\ start[u].row.state \notin {"running", "pending"}
  /\ start[u].at = "save" =>
       /\ start[u].state = "running" \/ (start[u].state = "pending" /\ inst[m] # "stopped")
       /\ inst[m] \in {"pending", "running"}
       /\ start[u].state = "running" => inst[m] = "running"

\* What is open of a request: the part of the machine and the part of the
\* request.
LEMMA OpenedSplit ==
  ASSUME NEW u, NEW m
  PROVE  Opened(u, m) <=> Free(m) /\ Called(u, m)
BY DEF Opened, Free, Called

\* Ten minutes are not nothing (MINUTES_AFTER_STATE_CHANGE, models.py:85).
LEMMA IdlePositive ==
  Idle \in Nat /\ 0 < Idle /\ ~(Idle < Idle)
BY AwsAssumption

\* While a start of its machine is open, a poll neither stops it nor makes its
\* row say so.
LEMMA FreeMoves ==
  ASSUME TypeOK, NEW m \in Machines, Free(m), Read(m), m \notin cut' => Known(m), PollMoves(m),
         cut \subseteq cut'
  PROVE  Free(m)' /\ ~Stops(m)
<1>0. ~Stops(m) BY IdlePositive DEF Stops, Free
<1>1. CASE Reads(m) BY <1>0, <1>1 DEF Reads, PollIs, Free
<1>2. CASE Finds(m) BY <1>0, <1>2 DEF Finds, PollFinds, PollIs, Free
<1>3. CASE Saves(m)
  <2>1. /\ row'[m].state = poll[m].state
        /\ row'[m].changed = IF poll[m].state = poll[m].row.state THEN poll[m].row.changed ELSE 0
        /\ poll'[m].at = "jobs" /\ inst' = inst /\ poll[m].at = "save"
    BY <1>3 DEF Saves, RowIs, PollFinds, PollIs
  <2>2. row'[m].state = "running" => row'[m].changed < Idle
    BY <2>1, IdlePositive DEF Free
  <2>3. (m \notin cut' /\ row'[m].state = "running") => inst[m] = "running"
    BY <2>1 DEF Known
  <2> QED BY <1>0, <2>1, <2>2, <2>3 DEF Free
<1>4. CASE Serves(m) \/ Receives(m) \/ Drops(m)
  <2>1. poll'[m].at \notin {"aws", "save"} /\ row' = row /\ inst' = inst
    BY <1>4 DEF Serves, Receives, Drops, PollEnds, PollIs
  <2> QED BY <1>0, <2>1 DEF Free
<1> QED BY <1>0, <1>1, <1>2, <1>3, <1>4 DEF PollMoves

\* A machine with an open start is as before when nothing of it changes.
LEMMA FreeElsewhere ==
  ASSUME NEW n \in Machines, Free(n), cut \subseteq cut',
         row'[n] = row[n], poll'[n].at = poll[n].at, poll'[n].row = poll[n].row,
         inst[n] = "running" => inst'[n] = "running"
  PROVE  Free(n)'
BY DEF Free

\* A start saves a state that is new, so that the clock of the row restarts.
LEMMA RenewedRow ==
  ASSUME TypeOK, StartInv, NEW u \in Users, Renews(u)
  PROVE  /\ start[u].node \in Machines /\ start[u].state \in {"running", "pending"}
         /\ start[u].state = "running" => inst[start[u].node] = "running"
         /\ RowIs(start[u].node, start[u].row.known, start[u].state, 0)
<1>1. /\ start[u].at = "save" /\ start[u].node \in Machines /\ Opened(u, start[u].node)
      /\ RowIs(start[u].node, start[u].row.known, start[u].state,
               IF start[u].state = start[u].row.state THEN start[u].row.changed ELSE 0)
  BY DEF Renews, StartInv
<1>2. start[u].row.state \notin {"running", "pending"} /\ start[u].state \in {"running", "pending"}
      /\ (start[u].state = "running" => inst[start[u].node] = "running")
  BY <1>1 DEF Opened
<1>3. start[u].state # start[u].row.state BY <1>2
<1> QED BY <1>1, <1>2, <1>3

\* While a start is open, no step makes a row of its machine look idle, or
\* stops it.
LEMMA FreeNext ==
  ASSUME TypeOK, ReadInv, KnownInv, StartInv, Step, cut \subseteq cut', ~Ticks,
         NEW n \in Machines, Free(n)
  PROVE  Free(n)' /\ ~Stops(n)
<1>0. ~Stops(n) BY IdlePositive DEF Stops, Free
<1>1. ASSUME NEW m \in Machines, PollMoves(m)
      PROVE  Free(n)'
  <2>1. CASE n = m
    <3>1. Read(n) /\ (n \notin cut' => Known(n)) BY DEF ReadInv, KnownInv
    <3> QED BY <1>1, <2>1, <3>1, FreeMoves
  <2>2. CASE n # m
    <3>1. poll'[n] = poll[n] /\ row'[n] = row[n] /\ inst'[n] = inst[n]
      BY <1>1, <2>2 DEF PollMoves, Reads, Finds, Stops, Saves, Serves, Receives, Drops, PollEnds,
         PollFinds, PollIs, RowIs, InstIs
    <3> QED BY <3>1, FreeElsewhere
  <2> QED BY <2>1, <2>2
<1>2. ASSUME NEW m \in Machines, MachineMoves(m)
      PROVE  Free(n)'
  <2>1. /\ row'[n] = row[n] /\ poll'[n].at = poll[n].at /\ poll'[n].row = poll[n].row
    BY <1>2 DEF MachineMoves, Comes, Goes, Finishes, PollIs
  <2>2. inst[n] = "running" => inst'[n] = "running"
    BY <1>2 DEF MachineMoves, Comes, Goes, Finishes, InstIs
  <2> QED BY <2>1, <2>2, FreeElsewhere
<1>3. ASSUME NEW u \in Users, StartMoves(u)
      PROVE  Free(n)'
  <2>1. poll' = poll BY <1>3 DEF StartMoves, Calls, Ends, Renews, Opens
  <2>2. CASE Renews(u) /\ start[u].node = n
    <3>1. /\ row'[n].changed = 0 /\ row'[n].state = start[u].state /\ inst' = inst
          /\ start[u].state = "running" => inst[n] = "running"
      BY <2>2, RenewedRow DEF RowIs, Renews
    <3> QED BY <2>1, <3>1, IdlePositive DEF Free
  <2>3. CASE Renews(u) /\ start[u].node # n
    <3>1. row'[n] = row[n] /\ inst' = inst BY <2>3, RenewedRow DEF RowIs, Renews
    <3> QED BY <2>1, <3>1, FreeElsewhere
  <2>4. CASE ~Renews(u)
    <3>1. row' = row BY <1>3, <2>4 DEF StartMoves, Calls, Ends, Opens
    <3>2. inst[n] = "running" => inst'[n] = "running"
      BY <1>3, <2>4 DEF StartMoves, Calls, Ends, Opens, InstIs
    <3> QED BY <2>1, <3>1, <3>2, FreeElsewhere
  <2> QED BY <2>2, <2>3, <2>4
<1>4. ASSUME NEW j \in Jobs, Makes(j)
      PROVE  Free(n)'
  BY <1>4, FreeElsewhere DEF Makes
<1>5. CASE UNCHANGED <<inst, row, job, client, poll, start, up, cut>> BY <1>0, <1>5 DEF Free
<1>6. Free(n)' BY <1>1, <1>2, <1>3, <1>4, <1>5 DEF Step
<1> QED BY <1>0, <1>6

\* The request of u for machine n, from before the step to after it.
LEMMA CalledNext ==
  ASSUME TypeOK, StartInv, Step, NEW u \in Users, NEW n \in Machines, start[u].at # "none",
         start[u].node = n, ~Stops(n), start'[u].at # "none", \A m \in Machines : ~Opens(u, m)
  PROVE  start'[u].node = n /\ Called(u, n)'
<1>1. Called(u, n) BY OpenedSplit DEF StartInv
<1>2. ASSUME start'[u] = start[u],
             inst'[n] = inst[n] \/ (inst[n] = "pending" /\ inst'[n] = "running")
             \/ inst[n] \in {"stopping", "stopped"}
      PROVE  start'[u].node = n /\ Called(u, n)'
  BY <1>1, <1>2 DEF Called
<1>3. ASSUME NEW m \in Machines, PollMoves(m)
      PROVE  start'[u].node = n /\ Called(u, n)'
  <2>1. start' = start /\ inst'[n] = inst[n]
    BY <1>3 DEF PollMoves, Reads, Finds, Stops, Saves, Serves, Receives, Drops, InstIs
  <2> QED BY <1>2, <2>1
<1>4. ASSUME NEW m \in Machines, MachineMoves(m)
      PROVE  start'[u].node = n /\ Called(u, n)'
  <2>1. start' = start BY <1>4 DEF MachineMoves, Comes, Goes, Finishes
  <2>2. inst'[n] = inst[n] \/ (inst[n] = "pending" /\ inst'[n] = "running")
        \/ inst[n] \in {"stopping", "stopped"}
    BY <1>4 DEF MachineMoves, Comes, Goes, Finishes, InstIs
  <2> QED BY <1>2, <2>1, <2>2
<1>5. ASSUME NEW v \in Users, StartMoves(v)
      PROVE  start'[u].node = n /\ Called(u, n)'
  <2>1. CASE v # u
    <3>1. start'[u] = start[u]
      BY <1>5, <2>1 DEF StartMoves, Calls, Ends, Renews, Opens, StartIs, StartEnds
    <3>2. inst'[n] = inst[n] \/ inst[n] \in {"stopping", "stopped"}
      <4>1. CASE Calls(v)
        <5>1. start[v].node \in Machines BY <4>1 DEF Calls, StartInv
        <5> QED BY <4>1, <5>1 DEF Calls, InstIs
      <4>2. CASE ~Calls(v) BY <1>5, <4>2 DEF StartMoves, Ends, Renews, Opens
      <4> QED BY <4>1, <4>2
    <3> QED BY <1>2, <3>1, <3>2
  <2>2. CASE v = u
    <3>1. Calls(u) BY <1>5, <2>2 DEF StartMoves, Ends, Renews, StartEnds
    <3>2. /\ start'[u].node = n /\ start'[u].row = start[u].row /\ start'[u].state = inst'[n]
          /\ inst'[n] = IF inst[n] = "stopped" THEN "pending" ELSE inst[n]
          /\ inst[n] # "stopping" /\ inst[n] \in States
      BY <3>1 DEF Calls, StartIs, InstIs, TypeOK
    <3>3. inst'[n] \in {"pending", "running"} BY <3>2 DEF States
    <3> QED BY <1>1, <3>2, <3>3 DEF Called
  <2> QED BY <2>1, <2>2
<1>6. ASSUME NEW j \in Jobs, Makes(j)
      PROVE  start'[u].node = n /\ Called(u, n)'
  BY <1>2, <1>6 DEF Makes
<1>7. CASE Ticks BY <1>2, <1>7 DEF Ticks
<1>8. CASE UNCHANGED <<inst, row, job, client, poll, start, up, cut>> BY <1>2, <1>8
<1> QED BY <1>3, <1>4, <1>5, <1>6, <1>7, <1>8 DEF Step

\* Every step keeps the open requests in order.
LEMMA StartNext ==
  ASSUME TypeOK, ReadInv, KnownInv, StartInv, Step, cut \subseteq cut'
  PROVE  StartInv'
<1> SUFFICES ASSUME NEW u \in Users, start'[u].at # "none"
             PROVE  start'[u].node \in Machines /\ Opened(u, start[u].node)'
  BY DEF StartInv
<1>1. ASSUME NEW m \in Machines, Opens(u, m)
      PROVE  start'[u].node \in Machines /\ Opened(u, start[u].node)'
  <2>1. /\ start'[u].at = "ec2" /\ start'[u].node = m /\ start'[u].row = row[m]
        /\ row[m].state \notin {"running", "pending"}
        /\ UNCHANGED <<inst, row, job, client, poll, up, cut>>
    BY <1>1 DEF Opens, StartIs
  <2>2. poll[m].at \in {"aws", "save"} => poll[m].row = row[m] BY <2>1 DEF ReadInv, Read
  <2> QED BY <2>1, <2>2 DEF Opened
<1>2. ASSUME \A m \in Machines : ~Opens(u, m)
      PROVE  start'[u].node \in Machines /\ Opened(u, start[u].node)'
  <2>1. start[u].at # "none"
    <3>1. ASSUME NEW v \in Users, StartMoves(v)
          PROVE  start[u].at # "none"
      BY <1>2, <3>1 DEF StartMoves, Calls, Ends, Renews, Opens, StartIs, StartEnds
    <3>2. CASE start' = start BY <3>2
    <3>3. ASSUME NEW m \in Machines, PollMoves(m) \/ MachineMoves(m)
          PROVE  start' = start
      BY <3>3 DEF PollMoves, Reads, Finds, Stops, Saves, Serves, Receives, Drops, MachineMoves,
         Comes, Goes, Finishes
    <3>4. ASSUME NEW j \in Jobs, Makes(j)
          PROVE  start' = start
      BY <3>4 DEF Makes
    <3>5. Ticks => start' = start BY DEF Ticks
    <3> QED BY <3>1, <3>2, <3>3, <3>4, <3>5 DEF Step
  <2>2. PICK n \in Machines : n = start[u].node BY <2>1 DEF StartInv
  <2>3. ~Ticks BY <2>1 DEF Ticks
  <2>4. Free(n) BY <2>1, <2>2, OpenedSplit DEF StartInv
  <2>5. Free(n)' /\ ~Stops(n) BY <2>3, <2>4, FreeNext
  <2>6. start'[u].node = n /\ Called(u, n)' BY <1>2, <2>1, <2>2, <2>5, CalledNext
  <2> QED BY <2>5, <2>6 DEF Opened, Free, Called
<1> QED BY <1>1, <1>2

-----------------------------------------------------------------------------
(* What the farm knows.                                                    *)

\* What the farm knows of a machine is as before when nothing of it changes.
LEMMA KnownElsewhere ==
  ASSUME NEW n \in Machines, Known(n), row'[n] = row[n], poll'[n] = poll[n], inst'[n] = inst[n],
         up'[n] = up[n]
  PROVE  Known(n)'
BY DEF Known

\* A poll that does not die between EC2 and its save keeps the farm in the
\* know.
LEMMA KnownMoves ==
  ASSUME TypeOK, NEW m \in Machines, Read(m), Known(m), PollMoves(m), m \notin cut'
  PROVE  Known(m)'
<1>1. CASE Reads(m)
  <2>1. /\ row' = row /\ inst' = inst /\ up' = up /\ poll[m].at = "none"
        /\ poll'[m].at = "aws" /\ poll'[m].row = row[m]
    BY <1>1 DEF Reads, PollIs
  <2> QED BY <2>1 DEF Known
<1>2. CASE Finds(m)
  <2>1. PICK k \in BOOLEAN, s \in AnyState :
          /\ PollFinds(m, "save", k, s)
          /\ \/ poll[m].row.state # "running" /\ (inst[m] = "running" \/ (k /\ s = inst[m]))
             \/ poll[m].row.state = "running" /\ k = poll[m].known /\ s = poll[m].state
    BY <1>2 DEF Finds
  <2>2. /\ row' = row /\ inst' = inst /\ up' = up /\ poll[m].at = "aws"
        /\ poll'[m].at = "save" /\ poll'[m].row = poll[m].row
        /\ poll'[m].known = k /\ poll'[m].state = s
    BY <1>2, <2>1 DEF Finds, PollFinds, PollIs
  <2> QED BY <2>1, <2>2 DEF Known
<1>3. CASE Stops(m)
  <2>1. /\ row' = row /\ up' = up /\ poll[m].at = "aws" /\ poll[m].row.known
        /\ poll[m].row.state = "running"
        /\ poll'[m].at = "save" /\ poll'[m].row = poll[m].row /\ poll'[m].known = poll[m].known
        /\ poll'[m].state = inst'[m]
        /\ inst'[m] = IF inst[m] \in {"running", "pending"} THEN "stopping" ELSE inst[m]
    BY <1>3 DEF Stops, PollFinds, PollIs, InstIs
  <2>2. inst[m] = "running" BY <2>1 DEF Known
  <2>3. poll[m].known BY <2>1 DEF Read
  <2> QED BY <2>1, <2>2, <2>3 DEF Known
<1>4. CASE Saves(m)
  <2>1. /\ row'[m].state = poll[m].state
        /\ row'[m].changed = IF poll[m].state = poll[m].row.state THEN poll[m].row.changed ELSE 0
        /\ poll'[m].at = "jobs" /\ poll'[m].known = poll[m].known /\ poll'[m].state = poll[m].state
        /\ inst' = inst /\ up' = up /\ poll[m].at = "save"
    BY <1>4 DEF Saves, RowIs, PollFinds, PollIs
  <2>2. 0 <= up[m] BY PollFacts, IdlePositive DEF Ages
  <2>3. row'[m].state = "running" => row'[m].changed <= up[m] BY <2>1, <2>2 DEF Known
  <2> QED BY <2>1, <2>3 DEF Known
<1>5. CASE Serves(m) \/ Receives(m)
  <2>1. /\ poll'[m].at \in {"reply", "none"} /\ poll[m].at # "save"
        /\ row' = row /\ inst' = inst /\ up' = up
    BY <1>5 DEF Serves, Receives, PollEnds, PollIs
  <2> QED BY <2>1 DEF Known
<1>6. CASE Drops(m)
  <2>1. /\ poll'[m].at = "none" /\ (poll[m].at = "save" => poll[m].state = row[m].state)
        /\ row' = row /\ inst' = inst /\ up' = up
    BY <1>6 DEF Drops, PollEnds, PollIs
  <2> QED BY <2>1 DEF Known
<1> QED BY <1>1, <1>2, <1>3, <1>4, <1>5, <1>6 DEF PollMoves

\* An instance that comes up was not believed to run, one that goes down is in
\* its poll.
LEMMA KnownMachine ==
  ASSUME TypeOK, NEW m \in Machines, Known(m), MachineMoves(m)
  PROVE  Known(m)'
<1>1. CASE Comes(m)
  <2>1. /\ inst[m] = "pending" /\ inst'[m] = "running" /\ row' = row /\ poll' = poll
    BY <1>1 DEF Comes, InstIs
  <2>2. row[m].state # "running" BY <2>1 DEF Known
  <2>3. ~(poll[m].at = "aws" /\ poll[m].row.state = "running")
        /\ ~(poll[m].at = "save" /\ poll[m].state = "running")
    BY <2>1 DEF Known
  <2> QED BY <2>1, <2>2, <2>3 DEF Known
<1>2. CASE Goes(m)
  <2>1. /\ inst[m] = "stopping" /\ inst'[m] = "stopped" /\ row' = row /\ up' = up
        /\ poll'[m].at = poll[m].at /\ poll'[m].row = poll[m].row
        /\ poll'[m].known = poll[m].known /\ poll'[m].state = poll[m].state
    BY <1>2 DEF Goes, InstIs, PollIs
  <2> QED BY <2>1 DEF Known
<1>3. CASE \E j \in Jobs : Finishes(m, j) BY <1>3, KnownElsewhere DEF Finishes
<1> QED BY <1>1, <1>2, <1>3 DEF MachineMoves

\* A start that ends does not make the farm believe in an instance that is
\* down.
LEMMA KnownStart ==
  ASSUME TypeOK, StartInv, NEW u \in Users, StartMoves(u), NEW n \in Machines, Known(n),
         n \notin cut
  PROVE  Known(n)'
<1>1. poll' = poll /\ up' = up BY DEF StartMoves, Calls, Ends, Renews, Opens
<1>2. CASE Calls(u) /\ start[u].node = n
  <2>1. /\ row' = row /\ inst'[n] = IF inst[n] = "stopped" THEN "pending" ELSE inst[n]
    BY <1>2 DEF Calls, InstIs
  <2>2. row[n].state = "running" => inst[n] = "running"
    BY <1>2 DEF Calls, StartInv, Opened
  <2> QED BY <1>1, <2>1, <2>2 DEF Known
<1>3. CASE Calls(u) /\ start[u].node # n
  <2>1. start[u].node \in Machines BY <1>3 DEF Calls, StartInv
  <2>2. row' = row /\ inst'[n] = inst[n] BY <1>3, <2>1 DEF Calls, InstIs
  <2> QED BY <1>1, <2>2, KnownElsewhere
<1>4. CASE Renews(u) /\ start[u].node = n
  <2>1. /\ row'[n].changed = 0 /\ row'[n].state = start[u].state /\ inst' = inst
        /\ start[u].state = "running" => inst[n] = "running"
    BY <1>4, RenewedRow DEF RowIs, Renews
  <2>2. 0 <= up[n] BY PollFacts, IdlePositive DEF Ages
  <2> QED BY <1>1, <2>1, <2>2 DEF Known
<1>5. CASE Renews(u) /\ start[u].node # n
  <2>1. row'[n] = row[n] /\ inst' = inst BY <1>5, RenewedRow DEF RowIs, Renews
  <2> QED BY <1>1, <2>1, KnownElsewhere
<1>6. CASE ~Renews(u) /\ ~Calls(u)
  <2>1. row' = row /\ inst' = inst BY <1>6 DEF StartMoves, Ends, Opens
  <2> QED BY <1>1, <2>1, KnownElsewhere
<1> QED BY <1>2, <1>3, <1>4, <1>5, <1>6

\* Every step keeps what the farm knows of all machines that are not in cut.
LEMMA KnownNext ==
  ASSUME TypeOK, ReadInv, KnownInv, StartInv, Step, cut \subseteq cut'
  PROVE  KnownInv'
<1> SUFFICES ASSUME NEW n \in Machines, n \notin cut'
             PROVE  Known(n)'
  BY DEF KnownInv
<1>1. Known(n) /\ Read(n) /\ n \notin cut BY DEF KnownInv, ReadInv
<1>2. ASSUME NEW m \in Machines, PollMoves(m)
      PROVE  Known(n)'
  <2>1. CASE n = m BY <1>1, <1>2, <2>1, KnownMoves
  <2>2. CASE n # m
    <3>1. poll'[n] = poll[n] /\ row'[n] = row[n] /\ inst'[n] = inst[n] /\ up'[n] = up[n]
      BY <1>2, <2>2 DEF PollMoves, Reads, Finds, Stops, Saves, Serves, Receives, Drops, PollEnds,
         PollFinds, PollIs, RowIs, InstIs
    <3> QED BY <1>1, <3>1, KnownElsewhere
  <2> QED BY <2>1, <2>2
<1>3. ASSUME NEW m \in Machines, MachineMoves(m)
      PROVE  Known(n)'
  <2>1. CASE n = m BY <1>1, <1>3, <2>1, KnownMachine
  <2>2. CASE n # m
    <3>1. poll'[n] = poll[n] /\ row'[n] = row[n] /\ inst'[n] = inst[n] /\ up'[n] = up[n]
      BY <1>3, <2>2 DEF MachineMoves, Comes, Goes, Finishes, PollIs, InstIs
    <3> QED BY <1>1, <3>1, KnownElsewhere
  <2> QED BY <2>1, <2>2
<1>4. ASSUME NEW u \in Users, StartMoves(u)
      PROVE  Known(n)'
  BY <1>1, <1>4, KnownStart
<1>5. ASSUME NEW j \in Jobs, Makes(j)
      PROVE  Known(n)'
  BY <1>1, <1>5, KnownElsewhere DEF Makes
<1>6. CASE Ticks
  <2>1. /\ inst' = inst /\ poll' = poll /\ poll[n].at = "none" /\ row'[n].state = row[n].state
        /\ row[n].changed <= up[n] => row'[n].changed <= up'[n]
    BY <1>6 DEF Ticks
  <2> QED BY <1>1, <2>1 DEF Known
<1>7. CASE UNCHANGED <<inst, row, job, client, poll, start, up, cut>> BY <1>1, <1>7 DEF Known
<1> QED BY <1>2, <1>3, <1>4, <1>5, <1>6, <1>7 DEF Step

-----------------------------------------------------------------------------
(* Machines that are stopped.                                              *)

Down(m)  == inst[m] \in {"stopping", "stopped"}
Empty(m) == client[m].running = {} /\ JobsOf(m, {"reserved", "running"}) = {}

\* A machine without work has none when its client and the jobs are as before.
LEMMA EmptyElsewhere ==
  ASSUME NEW n \in Machines, Empty(n), client'[n] = client[n], job' = job
  PROVE  Empty(n)'
BY DEF Empty, JobsOf

\* A machine that is stopped has no work: models.py:92 counts reserved jobs as
\* well.
LEMMA WorkStops ==
  ASSUME TypeOK, NEW m \in Machines, Held(m), Stops(m)
  PROVE  Empty(m)'
<1>1. client' = client /\ job' = job /\ JobsOf(m, {"running", "reserved"}) = {} BY DEF Stops
<1>2. client[m].running = {} BY <1>1 DEF Held
<1> QED BY <1>1, <1>2 DEF Empty, JobsOf

\* A machine that stops or is stopped gets no job from a poll (views.py:676).
LEMMA WorkServes ==
  ASSUME TypeOK, NEW m \in Machines, NEW n \in Machines, Held(m), Known(n), Serves(m), Empty(n),
         Down(n)
  PROVE  Empty(n)'
<1>1. client' = client BY DEF Serves
<1>2. poll[m].running \subseteq OwnJobs(m) BY DEF Held
<1>3. \A j \in Jobs : ~(job[j].node = n /\ job[j].status \in {"reserved", "running"})
  BY DEF Empty, JobsOf
<1>4. n = m => poll[m].running = {} /\ ~Gives(m)
  <2>1. n = m => poll[m].running = {}
    <3>1. poll[m].running \subseteq JobsOf(m, {"running", "reserved"}) BY DEF Held, Serves
    <3>2. n = m => JobsOf(m, {"running", "reserved"}) = {} BY <1>3 DEF JobsOf
    <3> QED BY <3>1, <3>2
  <2>2. n = m => ~Gives(m) BY DEF Known, Serves, Gives, Down
  <2> QED BY <2>1, <2>2
<1>5. ASSUME NEW j \in Jobs
      PROVE  ~(job'[j].node = n /\ job'[j].status \in {"reserved", "running"})
  <2>1. JobServed(m, j) BY DEF Serves
  <2>2. CASE j \in poll[m].running
    <3>1. job'[j].node = job[j].node /\ job[j].node = m BY <1>2, <2>1, <2>2 DEF JobServed, OwnJobs
    <3> QED BY <1>4, <2>2, <3>1
  <2>3. CASE j \notin poll[m].running
    BY <1>3, <1>4, <2>1, <2>3 DEF JobServed
  <2> QED BY <2>2, <2>3
<1> QED BY <1>1, <1>5 DEF Empty, JobsOf

\* A machine without work gets none from a reply.
LEMMA WorkReceives ==
  ASSUME TypeOK, NEW m \in Machines, Held(m), Receives(m), Empty(m)
  PROVE  Empty(m)'
<1>1. poll[m].jobs \subseteq JobsOf(m, {"reserved"}) /\ job' = job BY DEF Held, Receives
<1>2. poll[m].jobs = {} BY <1>1 DEF Empty, JobsOf
<1>3. client'[m].running = {} BY <1>2 DEF Receives, ClientIs, Empty
<1> QED BY <1>1, <1>3 DEF Empty, JobsOf

\* No step gives work to a machine that is stopping or stopped.
LEMMA WorkNext ==
  ASSUME TypeOK, JobInv, KnownInv, StartNodes, Step, cut \subseteq cut', StoppedHoldsNoWork
  PROVE  StoppedHoldsNoWork'
<1> SUFFICES ASSUME NEW n \in Machines, n \notin cut', Down(n)'
             PROVE  Empty(n)'
  BY DEF StoppedHoldsNoWork, Down, Empty
<1>1. Held(n) /\ Known(n) /\ (Down(n) => Empty(n))
  BY DEF JobInv, KnownInv, StoppedHoldsNoWork, Down, Empty
<1>2. ASSUME NEW m \in Machines, PollMoves(m)
      PROVE  Empty(n)'
  <2>1. CASE Stops(m) /\ n = m BY <1>1, <2>1, WorkStops
  <2>2. CASE Stops(m) /\ n # m
    <3>1. client' = client /\ job' = job /\ inst'[n] = inst[n] BY <2>2 DEF Stops, InstIs
    <3>2. Down(n) BY <3>1 DEF Down
    <3> QED BY <1>1, <3>1, <3>2, EmptyElsewhere
  <2>3. CASE ~Stops(m)
    <3>1. inst' = inst BY <1>2, <2>3 DEF PollMoves, Reads, Finds, Saves, Serves, Receives, Drops
    <3>2. Down(n) /\ Empty(n) BY <1>1, <3>1 DEF Down
    <3>3. CASE Serves(m)
      <4>1. Held(m) BY DEF JobInv
      <4> QED BY <1>1, <3>2, <3>3, <4>1, WorkServes
    <3>4. CASE Receives(m) /\ n = m BY <1>1, <3>2, <3>4, WorkReceives
    <3>5. CASE ~Serves(m) /\ ~(Receives(m) /\ n = m)
      <4>1. client'[n] = client[n] /\ job' = job
        BY <1>2, <2>3, <3>5 DEF PollMoves, Reads, Finds, Saves, Receives, Drops, ClientIs
      <4> QED BY <3>2, <4>1, EmptyElsewhere
    <3> QED BY <3>3, <3>4, <3>5
  <2> QED BY <2>1, <2>2, <2>3
<1>3. ASSUME NEW m \in Machines, MachineMoves(m)
      PROVE  Empty(n)'
  <2>1. job' = job /\ Down(n)
    BY <1>3 DEF MachineMoves, Comes, Goes, Finishes, InstIs, Down
  <2>2. client'[n].running \subseteq client[n].running
    BY <1>3 DEF MachineMoves, Comes, Goes, Finishes, ClientIs
  <2> QED BY <1>1, <2>1, <2>2 DEF Empty, JobsOf
<1>4. ASSUME NEW u \in Users, StartMoves(u)
      PROVE  Empty(n)'
  <2>1. client' = client /\ job' = job BY <1>4 DEF StartMoves, Calls, Ends, Renews, Opens
  <2>2. Down(n)
    BY <1>4 DEF StartMoves, Calls, Ends, Renews, Opens, InstIs, Down, StartNodes
  <2> QED BY <1>1, <2>1, <2>2, EmptyElsewhere
<1>5. ASSUME NEW j \in Jobs, Makes(j)
      PROVE  Empty(n)'
  <2>1. /\ client' = client /\ inst' = inst /\ job'[j].status = "ready"
        /\ \A i \in Jobs \ {j} : job'[i] = job[i]
    BY <1>5 DEF Makes
  <2>2. Empty(n) BY <1>1, <2>1 DEF Down
  <2> QED BY <2>1, <2>2 DEF Empty, JobsOf
<1>6. CASE Ticks \/ UNCHANGED <<inst, row, job, client, poll, start, up, cut>>
  <2>1. client' = client /\ job' = job /\ inst' = inst BY <1>6 DEF Ticks
  <2> QED BY <1>1, <2>1, EmptyElsewhere DEF Down
<1> QED BY <1>2, <1>3, <1>4, <1>5, <1>6 DEF Step

-----------------------------------------------------------------------------

\* New instances and an empty farm satisfy the invariant.
LEMMA InitInvariant ==
  ASSUME Init
  PROVE  IInv
<1>1. TypeOK
  <2>1. Idle \in Nat /\ 0 \in Ages BY AwsAssumption DEF Ages
  <2>2. job \in [Jobs -> Job]
    <3>1. [status |-> "new", node |-> NoMachine] \in Job BY DEF Job
    <3> QED BY <3>1 DEF Init
  <2>3. /\ inst \in [Machines -> States] /\ row \in [Machines -> Row]
        /\ client \in [Machines -> Client] /\ poll \in [Machines -> Poll]
        /\ start \in [Users -> Start] /\ up \in [Machines -> Ages]
    BY <2>1, FreshRecords DEF Init, States
  <2>4. \A m \in Machines : client[m] = NoJobs BY DEF Init
  <2>5. starts \in Nat /\ faults \in Nat /\ cut \subseteq Machines BY DEF Init
  <2>6. \A m \in Machines : client[m].running \cap client[m].finished = {}
    BY <2>4, FreshRecords
  <2> QED BY <2>2, <2>3, <2>4, <2>5, <2>6 DEF TypeOK
<1>2. \A j \in Jobs : job[j].status = "new" /\ job[j].node = NoMachine BY DEF Init
<1>3. \A m \in Machines :
        /\ client[m].running = {} /\ client[m].finished = {} /\ poll[m].running = {}
        /\ poll[m].finished = {} /\ poll[m].jobs = {} /\ poll[m].at = "none"
        /\ inst[m] = "running" /\ row[m].state = "none"
  BY FreshRecords DEF Init
<1>4. JobInv BY <1>2, <1>3 DEF JobInv, Unassigned, Held
<1>5. ReadInv BY <1>3 DEF ReadInv, Read
<1>6. StartInv BY FreshRecords DEF StartInv, Init
<1>7. KnownInv BY <1>3 DEF KnownInv, Known
<1>8. StoppedHoldsNoWork BY <1>3 DEF StoppedHoldsNoWork
<1> QED BY <1>1, <1>4, <1>5, <1>6, <1>7, <1>8 DEF IInv

\* Every step keeps the invariant.
LEMMA NextInvariant ==
  ASSUME IInv, [Next]_vars
  PROVE  IInv'
<1>1. TypeOK /\ JobInv /\ ReadInv /\ StartInv /\ KnownInv /\ StoppedHoldsNoWork BY DEF IInv
<1>2. StartNodes BY <1>1 DEF StartInv, StartNodes
<1>3. Step BY <1>1, <1>2, StepShape
<1>4. Counted BY <1>1, CountsTyped
<1>5. cut \subseteq cut' BY <1>4 DEF Counted
<1>6. TypeOK' BY <1>1, <1>2, <1>3, <1>4, TypeNext
<1>7. JobInv' BY <1>1, <1>2, <1>3, JobNext
<1>8. ReadInv' BY <1>1, <1>3, ReadNext
<1>9. StartInv' BY <1>1, <1>3, <1>5, StartNext
<1>10. KnownInv' BY <1>1, <1>3, <1>5, KnownNext
<1>11. StoppedHoldsNoWork' BY <1>1, <1>2, <1>3, <1>5, WorkNext
<1> QED BY <1>6, <1>7, <1>8, <1>9, <1>10, <1>11 DEF IInv

\* The inductive invariant holds in every behaviour of the specification.
THEOREM InvariantHolds == Spec => []IInv
<1>1. Init => IInv BY InitInvariant
<1>2. IInv /\ [Next]_vars => IInv' BY NextInvariant
<1> QED BY <1>1, <1>2, PTL DEF Spec

\* Types of instances, rows, jobs, clients, polls and starts; a client has jobs
\* only while its machine is up (post_client_discover,
\* post_aws_start_instance).
THEOREM TypeCorrect == Spec => []TypeOK
<1>1. IInv => TypeOK BY DEF IInv
<1> QED BY <1>1, InvariantHolds, PTL

\* No job runs on or is reserved for an instance that was told to stop, for any
\* machines, jobs, users and faults (models.py:92, views.py:676).
THEOREM NoWorkWhenStopped == Spec => []StoppedHoldsNoWork
<1>1. IInv => StoppedHoldsNoWork BY DEF IInv
<1> QED BY <1>1, InvariantHolds, PTL

\* An instance that has come up is not stopped for ten minutes, whatever its
\* row said before (MINUTES_AFTER_STATE_CHANGE, models.py:85, and the
\* MonitorField of the row).
THEOREM UpForTenMinutes == Spec => StartedStaysUp
<1>1. IInv => \A m \in Machines : (StopIdle(m) /\ m \notin cut) => up[m] = Idle
  <2> SUFFICES ASSUME IInv, NEW m \in Machines, StopIdle(m), m \notin cut
               PROVE  up[m] = Idle
    OBVIOUS
  <2>1. TypeOK /\ Known(m) BY DEF IInv, KnownInv
  <2>2. poll[m].at = "aws" /\ poll[m].row.state = "running" /\ poll[m].row.changed = Idle
    BY DEF StopIdle, ShouldBeStopped
  <2>3. Idle <= up[m] BY <2>1, <2>2 DEF Known
  <2>4. up[m] \in 0 .. Idle BY <2>1, PollFacts DEF Ages
  <2> QED BY <2>3, <2>4, IdlePositive
<1> QED BY <1>1, InvariantHolds, PTL DEF StartedStaysUp
=============================================================================
