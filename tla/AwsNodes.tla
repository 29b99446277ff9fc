------------------------------ MODULE AwsNodes ------------------------------
(***************************************************************************)
(* Machines of the farm that are instances of Amazon EC2: users start them *)
(* (post_aws_start_instance in ava/jobs/views.py), and the backend stops   *)
(* them when they have been idle for ten minutes, from within the polls of *)
(* their job clients (post_client_discover, aws_instance_should_be_stopped *)
(* in ava/jobs/models.py, and ava/jobs/aws.py).                            *)
(*                                                                         *)
(* Jobs and clients are reduced to what an idle machine is: a job is made, *)
(* reserved for a machine, runs in its client and ends (module JobFarm has *)
(* the rest).  A client has one poll under way at a time.  Time is counted *)
(* in ticks, Idle of which make the ten minutes; a request is far shorter  *)
(* than a tick.                                                            *)
(***************************************************************************)
EXTENDS Naturals, FiniteSets

CONSTANTS
  Machines, Jobs,
  Users,       \* requests to start an instance that can be open at once
  NoMachine,
  Idle,        \* ticks in ten minutes
  MaxStarts,   \* bound: requests to start an instance
  Faults,      \* the faults that happen, a subset of FaultKinds
  MaxFaults    \* bound: faults of a behaviour

\* A reply is lost, a call to EC2 raises, the backend dies in a request.
FaultKinds == {"reply", "ec2", "crash"}

ASSUME AwsAssumption ==
  /\ NoMachine \notin Machines
  /\ Idle \in Nat \ {0} /\ MaxStarts \in Nat
  /\ Faults \subseteq FaultKinds /\ MaxFaults \in Nat

VARIABLES
  inst,     \* [Machines -> States], the instances, as EC2 has them
  row,      \* [Machines -> Row], the node rows
  job,      \* [Jobs -> Job]
  client,   \* [Machines -> Client]
  poll,     \* [Machines -> Poll], the poll of each client
  start,    \* [Users -> Start], the open requests to start an instance
  starts, faults,
  up,       \* history: ticks since the instance last came up
  cut       \* history: machines with a poll that died between EC2 and the row, or that
            \* were looked up without success when they did not run

vars == <<inst, row, job, client, poll, start, starts, faults, up, cut>>

States == {"stopped", "pending", "running", "stopping"}
Ages   == 0 .. Idle         \* Idle: as old or older
Row    == [known : BOOLEAN, state : States \cup {"none"}, changed : Ages, activity : Ages]
Job    == [status : {"new", "ready", "reserved", "running", "ended"},
           node : Machines \cup {NoMachine}]
Client == [running : SUBSET Jobs, finished : SUBSET Jobs]
Phases == {"none", "aws", "save", "jobs", "reply"}
Poll   == [at : Phases, row : Row, known : BOOLEAN, state : States \cup {"none"},
           running : SUBSET Jobs, finished : SUBSET Jobs, jobs : SUBSET Jobs, heard : BOOLEAN]
Start  == [at : {"none", "ec2", "save"}, node : Machines \cup {NoMachine}, row : Row,
           state : States \cup {"none"}]

NewRow    == [known |-> FALSE, state |-> "none", changed |-> 0, activity |-> 0]
NoJobs    == [running |-> {}, finished |-> {}]
NoPoll    == [at |-> "none", row |-> NewRow, known |-> FALSE, state |-> "none",
              running |-> {}, finished |-> {}, jobs |-> {}, heard |-> TRUE]
NoStart   == [at |-> "none", node |-> NoMachine, row |-> NewRow, state |-> "none"]

\* The instances are new: they run, and the farm has not heard of them.
Init ==
  /\ inst = [m \in Machines |-> "running"]
  /\ row = [m \in Machines |-> NewRow]
  /\ job = [j \in Jobs |-> [status |-> "new", node |-> NoMachine]]
  /\ client = [m \in Machines |-> NoJobs]
  /\ poll = [m \in Machines |-> NoPoll]
  /\ start = [u \in Users |-> NoStart]
  /\ starts = 0 /\ faults = 0
  /\ up = [m \in Machines |-> 0]
  /\ cut = {}

Spend(f) == f \in Faults /\ faults < MaxFaults /\ faults' = faults + 1

Alive(m) == inst[m] \in {"running", "stopping"}      \* its job client runs

-----------------------------------------------------------------------------
(* A poll: post_client_discover.                                           *)

\* The client calls, and the row of its machine is read.
ReadNode(m) ==
  /\ Alive(m) /\ poll[m].at = "none"
  /\ poll' = [poll EXCEPT ![m] = [NoPoll EXCEPT !.at = "aws", !.row = row[m],
                !.known = row[m].known, !.state = row[m].state,
                !.running = client[m].running, !.finished = client[m].finished]]
  /\ UNCHANGED <<inst, row, job, client, start, starts, faults, up, cut>>

\* A machine whose row does not say that its instance runs is looked up.
LookUp(m) ==
  /\ poll[m].at = "aws" /\ poll[m].row.state # "running"
  /\ poll' = [poll EXCEPT ![m].at = "save", ![m].known = TRUE, ![m].state = inst[m]]
  /\ UNCHANGED <<inst, row, job, client, start, starts, faults, up, cut>>

\* instance_id_from_private_ip swallows an exception, and finds nothing.
LookUpFails(m) ==
  /\ poll[m].at = "aws" /\ poll[m].row.state # "running" /\ Spend("ec2")
  /\ poll' = [poll EXCEPT ![m].at = "save", ![m].known = FALSE, ![m].state = "none"]
  /\ cut' = IF inst[m] # "running" THEN cut \cup {m} ELSE cut
  /\ UNCHANGED <<inst, row, job, client, start, starts, up>>

JobsOf(m, statuses) == {j \in Jobs : job[j].node = m /\ job[j].status \in statuses}

\* Mutant of ShouldBeStopped: jobs that the client has not got yet do not count.
ShouldBeStoppedReserved(m) ==
  /\ poll[m].row.known /\ poll[m].row.state = "running"
  /\ poll[m].row.changed = Idle /\ poll[m].row.activity = Idle
  /\ JobsOf(m, {"running"}) = {}

\* aws_instance_should_be_stopped
ShouldBeStopped(m) ==
  /\ poll[m].row.known /\ poll[m].row.state = "running"
  /\ poll[m].row.changed = Idle /\ poll[m].row.activity = Idle
  /\ JobsOf(m, {"running", "reserved"}) = {}

KeepUp(m) ==
  /\ poll[m].at = "aws" /\ poll[m].row.state = "running" /\ ~ShouldBeStopped(m)
  /\ poll' = [poll EXCEPT ![m].at = "save"]
  /\ UNCHANGED <<inst, row, job, client, start, starts, faults, up, cut>>

\* A machine that has been idle is stopped, and the answer of EC2 is kept.
StopIdle(m) ==
  /\ poll[m].at = "aws" /\ ShouldBeStopped(m)
  /\ inst' = [inst EXCEPT ![m] = IF @ \in {"running", "pending"} THEN "stopping" ELSE @]
  /\ poll' = [poll EXCEPT ![m].at = "save", ![m].state = inst'[m]]
  /\ UNCHANGED <<row, job, client, start, starts, faults, up, cut>>

\* stop_instance raises, and so does the whole request.
StopFails(m) ==
  /\ poll[m].at = "aws" /\ ShouldBeStopped(m) /\ Spend("ec2")
  /\ poll' = [poll EXCEPT ![m] = NoPoll]
  /\ UNCHANGED <<inst, row, job, client, start, starts, up, cut>>

\* Mutant of Saved: a change of the state does not restart its clock.
SavedUnclocked(old, known, state) == [old EXCEPT !.known = known, !.state = state]

\* Mutant of Saved: the clock restarts with every save.
SavedClocked(old, known, state) == [old EXCEPT !.known = known, !.state = state, !.changed = 0]

\* A row saved with a new state; a MonitorField keeps the time of the change.
Saved(old, known, state) ==
  [old EXCEPT !.known = known, !.state = state, !.changed = IF state = old.state THEN @ ELSE 0]

SaveNode(m) ==
  /\ poll[m].at = "save"
  /\ row' = [row EXCEPT ![m] =
       [Saved(poll[m].row, poll[m].known, poll[m].state) EXCEPT
          !.activity = IF JobsOf(m, {"running"}) # {} THEN 0 ELSE @]]
  /\ poll' = [poll EXCEPT ![m].at = "jobs"]
  /\ UNCHANGED <<inst, job, client, start, starts, faults, up, cut>>

\* What the client reports of its jobs, and jobs it should have and has not.
Reported(m) ==
  [j \in Jobs |->
     IF j \in poll[m].running THEN [job[j] EXCEPT !.status = "running"]
     ELSE IF j \in poll[m].finished \/ j \in JobsOf(m, {"running"})
     THEN [job[j] EXCEPT !.status = "ended"]
     ELSE job[j]]

\* Mutant of Gives: a machine that is being stopped gets jobs.
GivesAlways(m) == TRUE

\* Only a machine that no instance is known for, or whose instance runs, gets jobs.
Gives(m) == poll[m].known => poll[m].state = "running"

Reserved(js, m) == {j \in Jobs : js[j].status = "reserved" /\ js[j].node = m}

\* The jobs are updated, one is reserved if none runs, and all that are reserved
\* for the machine are sent.
ServeJobs(m) ==
  /\ poll[m].at = "jobs"
  /\ LET js == Reported(m)
         free == Gives(m) /\ \A j \in Jobs : ~(js[j].node = m /\ js[j].status = "running")
         next == {j \in Jobs : free /\ js[j].status = "ready"}
     IN /\ \/ next = {} /\ job' = js
           \/ \E j \in next : job' = [js EXCEPT ![j] = [status |-> "reserved", node |-> m]]
        /\ poll' = [poll EXCEPT ![m].at = "reply",
                                ![m].jobs = IF Gives(m) THEN Reserved(job', m) ELSE {}]
  /\ UNCHANGED <<inst, row, client, start, starts, faults, up, cut>>

\* The reply reaches the client that asked.
Receive(m) ==
  /\ poll[m].at = "reply"
  /\ client' = [client EXCEPT ![m] =
       IF poll[m].heard THEN [running |-> @.running \cup poll[m].jobs,
                              finished |-> @.finished \ poll[m].finished]
       ELSE @]
  /\ poll' = [poll EXCEPT ![m] = NoPoll]
  /\ UNCHANGED <<inst, row, job, start, starts, faults, up, cut>>

LoseReply(m) ==
  /\ poll[m].at = "reply" /\ Spend("reply")
  /\ poll' = [poll EXCEPT ![m] = NoPoll]
  /\ UNCHANGED <<inst, row, job, client, start, starts, up, cut>>

CrashPoll(m) ==
  /\ poll[m].at \in {"aws", "save", "jobs"} /\ Spend("crash")
  /\ cut' = IF poll[m].at = "save" /\ poll[m].state # row[m].state THEN cut \cup {m} ELSE cut
  /\ poll' = [poll EXCEPT ![m] = NoPoll]
  /\ UNCHANGED <<inst, row, job, client, start, starts, up>>

-----------------------------------------------------------------------------
(* Start Instance: post_aws_start_instance.                                *)

\* The page offers it for an instance that does not run, as far as the row says.
Offered(m) == row[m].known /\ row[m].state \notin {"running", "pending"}

OpenStart(u, m) ==
  /\ start[u] = NoStart /\ starts < MaxStarts /\ Offered(m)
  /\ start' = [start EXCEPT ![u] = [NoStart EXCEPT !.at = "ec2", !.node = m, !.row = row[m]]]
  /\ starts' = starts + 1
  /\ UNCHANGED <<inst, row, job, client, poll, faults, up, cut>>

\* EC2 starts an instance that is stopped, and says so of one that is started.
CallStart(u) ==
  LET m == start[u].node
  IN /\ start[u].at = "ec2" /\ inst[m] # "stopping"
     /\ inst' = [inst EXCEPT ![m] = IF @ = "stopped" THEN "pending" ELSE @]
     /\ start' = [start EXCEPT ![u].at = "save", ![u].state = inst'[m]]
     /\ UNCHANGED <<row, job, client, poll, starts, faults, up, cut>>

EndStart(u) == start' = [start EXCEPT ![u] = NoStart]

\* It raises for one that is stopping, or for a reason of its own.
StartFails(u) ==
  /\ start[u].at = "ec2"
  /\ \/ inst[start[u].node] = "stopping" /\ UNCHANGED faults
     \/ Spend("ec2")
  /\ EndStart(u)
  /\ UNCHANGED <<inst, row, job, client, poll, starts, up, cut>>

SaveStart(u) ==
  /\ start[u].at = "save"
  /\ row' = [row EXCEPT ![start[u].node] = Saved(start[u].row, start[u].row.known, start[u].state)]
  /\ EndStart(u)
  /\ UNCHANGED <<inst, job, client, poll, starts, faults, up, cut>>

CrashStart(u) ==
  /\ start[u].at # "none" /\ Spend("crash")
  /\ EndStart(u)
  /\ UNCHANGED <<inst, row, job, client, poll, starts, up, cut>>

-----------------------------------------------------------------------------
(* Instances, jobs and time.                                               *)

ComeUp(m) ==
  /\ inst[m] = "pending"
  /\ inst' = [inst EXCEPT ![m] = "running"]
  /\ client' = [client EXCEPT ![m] = NoJobs]
  /\ up' = [up EXCEPT ![m] = 0]
  /\ UNCHANGED <<row, job, poll, start, starts, faults, cut>>

GoDown(m) ==
  /\ inst[m] = "stopping"
  /\ inst' = [inst EXCEPT ![m] = "stopped"]
  /\ client' = [client EXCEPT ![m] = NoJobs]
  /\ poll' = [poll EXCEPT ![m].heard = FALSE]
  /\ UNCHANGED <<row, job, start, starts, faults, up, cut>>

MakeJob(j) ==
  /\ job[j].status = "new"
  /\ job' = [job EXCEPT ![j].status = "ready"]
  /\ UNCHANGED <<inst, row, client, poll, start, starts, faults, up, cut>>

\* Mutant of FinishJob: the job stays in running_jobs.
FinishKept(m, j) ==
  /\ Alive(m) /\ j \in client[m].running
  /\ client' = [client EXCEPT ![m].finished = @ \cup {j}]
  /\ UNCHANGED <<inst, row, job, poll, start, starts, faults, up, cut>>

FinishJob(m, j) ==
  /\ Alive(m) /\ j \in client[m].running
  /\ client' = [client EXCEPT ![m] = [running |-> @.running \ {j}, finished |-> @.finished \cup {j}]]
  /\ UNCHANGED <<inst, row, job, poll, start, starts, faults, up, cut>>

Older(a)     == IF a < Idle THEN a + 1 ELSE Idle
OlderRow(rw) == [rw EXCEPT !.changed = Older(@), !.activity = Older(@)]

Tick ==
  /\ \A m \in Machines : poll[m].at = "none"
  /\ \A u \in Users : start[u] = NoStart
  /\ row' = [m \in Machines |-> OlderRow(row[m])]
  /\ up' = [m \in Machines |-> Older(up[m])]
  /\ UNCHANGED <<inst, job, client, poll, start, starts, faults, cut>>

-----------------------------------------------------------------------------

PollStep(m) == \/ ReadNode(m) \/ LookUp(m) \/ KeepUp(m) \/ StopIdle(m) \/ SaveNode(m)
               \/ ServeJobs(m) \/ Receive(m)
StartStep(u) == CallStart(u) \/ StartFails(u) \/ SaveStart(u)
Fault(m) == LookUpFails(m) \/ StopFails(m) \/ LoseReply(m) \/ CrashPoll(m)

Next ==
  \/ \E m \in Machines : \/ PollStep(m) \/ Fault(m) \/ ComeUp(m) \/ GoDown(m)
                         \/ \E u \in Users : OpenStart(u, m)
                         \/ \E j \in Jobs : FinishJob(m, j)
  \/ \E u \in Users : StartStep(u) \/ CrashStart(u)
  \/ \E j \in Jobs : MakeJob(j)
  \/ Tick

Spec == Init /\ [][Next]_vars

\* Clients poll and handlers go on, instances come up and go down, jobs end, and
\* time passes.  Nobody has to start an instance or make a job.
Fairness ==
  /\ \A m \in Machines : /\ WF_vars(PollStep(m)) /\ WF_vars(ComeUp(m)) /\ WF_vars(GoDown(m))
                         /\ \A j \in Jobs : WF_vars(FinishJob(m, j))
  /\ \A u \in Users : WF_vars(StartStep(u))
  /\ SF_vars(Tick)

FairSpec == Spec /\ Fairness

-----------------------------------------------------------------------------
(* Properties.                                                             *)

\* Rows, jobs, clients and requests have the values of their kinds; a job runs in
\* a client or is finished there, not both, and only while its machine is up
\* (post_client_discover, post_aws_start_instance, JobContainer.wrapper).
TypeOK ==
  /\ inst \in [Machines -> States] /\ row \in [Machines -> Row]
  /\ job \in [Jobs -> Job] /\ client \in [Machines -> Client]
  /\ poll \in [Machines -> Poll] /\ start \in [Users -> Start]
  /\ \A m \in Machines : /\ client[m].running \cap client[m].finished = {}
                         /\ ~Alive(m) => client[m] = NoJobs
  /\ starts \in Nat /\ faults \in Nat
  /\ up \in [Machines -> Ages] /\ cut \subseteq Machines

\* A stopped machine holds no work: no job runs on or is reserved for an instance
\* that was told to stop, also when replies were lost, instances started by
\* several users at once, and the rows of a poll and of a start saved over each
\* other (models.py:92 counts jobs before the stop, views.py:676 gives none after).
StoppedHoldsNoWork ==
  \A m \in Machines \ cut : inst[m] \in {"stopping", "stopped"} =>
    client[m].running = {} /\ JobsOf(m, {"reserved", "running"}) = {}

\* An instance that has come up stays up for ten minutes, whatever its row said
\* before it was started, unless a poll died between EC2 and the row
\* (MINUTES_AFTER_STATE_CHANGE, models.py:85, and the MonitorField it reads).
StartedStaysUp ==
  [][\A m \in Machines : (StopIdle(m) /\ m \notin cut) => up[m] = Idle]_vars

\* An instance does not stay up without work for ever: again and again it is
\* stopped, or has a job, however often look-ups fail and rows are saved over each
\* other (post_client_discover, views.py:577-582).
IdleIsStopped ==
  \A m \in Machines :
    []<>(inst[m] = "stopped" \/ JobsOf(m, {"reserved", "running"}) # {})

\* A job that was reserved for an instance ends: the machine is not stopped under
\* it, and a lost reply is made up for by a later poll.  Not so on a machine in
\* cut: one that is taken for no instance gets jobs while it is being stopped.
ReservedEnds ==
  \A j \in Jobs : job[j].status = "reserved" ~> job[j].status = "ended" \/ job[j].node \in cut
=============================================================================
