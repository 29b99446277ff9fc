------------------------------ MODULE JobFarm ------------------------------
(***************************************************************************)
(* The distributed job farm of AVA: the job table kept by the website      *)
(* backend (ava/jobs/views.py), the job clients that poll it               *)
(* (job_client/job_client.py) and the threads in which a client runs jobs. *)
(*                                                                         *)
(* A client polls with one HTTP request at a time.  The backend runs ten   *)
(* uwsgi processes (ava_uwsgi.ini) and no handler is one transaction, so   *)
(* the handler of a poll is cut into the steps between which requests of   *)
(* other nodes and of users can run: cleanup, node update, one step per    *)
(* finished job, one step per lost job, and the scheduler, which is the    *)
(* only part inside transaction.atomic().                                  *)
(***************************************************************************)
EXTENDS Naturals

CONSTANTS
  Jobs,        \* rows the job table may ever hold (an id is never used twice)
  Nodes,       \* farm nodes: the row of a node and the client on that machine
  NoJob,       \* parent of a job that has none
  NoNode,      \* node of a job that any machine may run
  Parent,      \* [Jobs -> Jobs \cup {NoJob}], the parent foreign key
  Deps,        \* [Jobs -> SUBSET Jobs], the dependencies relation
  Tagged,      \* jobs launched with tags, which takes launch_job a second pass
  Home,        \* [Jobs -> Nodes \cup {NoNode}], the node a job is created for
  Priority,    \* [Jobs -> Nat]
  LightJobs,   \* jobs whose class is in light_job_classes
  CanRun,      \* the pairs <<n, j>> that pass the version, class, tag and GPU filters
  RestartFrom, \* statuses of the jobs users restart, or whose failed children they restart
  PromptWrapper, \* TRUE: no poll begins between the last two statements of a wrapper
  Budget       \* how many "loss", "crash", "lapse" and "user" steps a behaviour has

Statuses == {"created", "ready", "reserved", "running", "failed", "success",
             "waiting", "terminating"}
Absent   == {"unborn", "deleted"}        \* no row yet, row deleted
Outcomes == {"success", "failed", "waiting"}
NoResult == "none"
Phases   == {"none", "working", "launched", "killed", "stored"}
Faults   == {"loss", "crash", "lapse", "user"}

ASSUME ConstantsAssumption ==
  /\ NoJob \notin Jobs /\ NoNode \notin Nodes
  /\ Parent \in [Jobs -> Jobs \cup {NoJob}]
  /\ Deps \in [Jobs -> SUBSET Jobs]
  /\ Tagged \subseteq Jobs
  /\ Home \in [Jobs -> Nodes \cup {NoNode}]
  /\ Priority \in [Jobs -> Nat]
  /\ LightJobs \subseteq Jobs
  /\ CanRun \subseteq Nodes \X Jobs
  /\ RestartFrom \subseteq Statuses
  /\ PromptWrapper \in BOOLEAN
  /\ Budget \in [Faults -> Nat]

VARIABLES
  \* the database
  status,      \* [Jobs -> Statuses \cup Absent]
  node,        \* [Jobs -> Nodes \cup {NoNode}], the node foreign key
  reqRestart,  \* [Nodes -> BOOLEAN]
  overdue,     \* the nodes whose last_seen is more than two hours old
  \* the clients
  up,          \* [Nodes -> BOOLEAN], the client process runs
  firstUpdate, \* [Nodes -> BOOLEAN]
  needRestart, \* [Nodes -> BOOLEAN]
  worker,      \* [Nodes -> [Jobs -> Phases]], running_jobs and where its thread is
  result,      \* [Nodes -> [Jobs -> Outcomes \cup {NoResult}]], finished_jobs
  \* the poll of each node: its request, the handler's locals, its reply
  poll,
  budget       \* what is left of Budget

db      == <<status, node, reqRestart, overdue>>
client  == <<up, firstUpdate, needRestart, worker, result>>
vars    == <<status, node, reqRestart, overdue, up, firstUpdate, needRestart,
             worker, result, poll, budget>>

NoResults == [j \in Jobs |-> NoResult]
NoPoll == [pc |-> "idle", running |-> {}, finished |-> NoResults, todo |-> {},
           kill |-> {}, jobs |-> {}, restart |-> FALSE, offline |-> FALSE]

Handling == {"cleanup", "finish", "lost"}      \* the handler is at work
InFlight == {"sent", "reply"} \cup Handling    \* the client waits for its reply

Held(n)      == {j \in Jobs : worker[n][j] # "none"}     \* keys of running_jobs
Reported(res) == {j \in Jobs : res[j] # NoResult}        \* jobs in a list of results
Executing(n) == {j \in Jobs : worker[n][j] \in {"working", "launched"}}

Exists(st, j)   == j # NoJob /\ st[j] \notin Absent
Children(st, p) == {c \in Jobs : Parent[c] = p /\ Exists(st, c)}

Spend(kind) == /\ budget[kind] > 0
               /\ budget' = [budget EXCEPT ![kind] = @ - 1]

Init ==
  /\ status = [j \in Jobs |-> IF Parent[j] = NoJob THEN "ready" ELSE "unborn"]
  /\ node = Home
  /\ reqRestart = [n \in Nodes |-> FALSE]
  /\ overdue = {}
  /\ up = [n \in Nodes |-> TRUE]
  /\ firstUpdate = [n \in Nodes |-> TRUE]
  /\ needRestart = [n \in Nodes |-> FALSE]
  /\ worker = [n \in Nodes |-> [j \in Jobs |-> "none"]]
  /\ result = [n \in Nodes |-> NoResults]
  /\ poll = [n \in Nodes |-> NoPoll]
  /\ budget = Budget

-----------------------------------------------------------------------------
(* What the handlers compute on the status column.                         *)

\* Ancestors by the parent foreign key, which CASCADEs a deletion downwards.
Ancestors[j \in Jobs] ==
  IF Parent[j] = NoJob THEN {} ELSE {Parent[j]} \cup Ancestors[Parent[j]]

DeleteRows(st, S) ==
  [j \in Jobs |-> IF Exists(st, j) /\ (j \in S \/ Ancestors[j] \cap S # {})
                  THEN "deleted" ELSE st[j]]

\* Mutant of ChildrenDone: fail fast, one failed child settles the parent.
ChildrenDoneFailFast(st, p) ==
  \/ \E c \in Children(st, p) : st[c] = "failed"
  \/ /\ Children(st, p) # {}
     /\ \A c \in Children(st, p) : st[c] = "success"

\* A parent that waits takes its verdict once every child it still has is done.
\* The code calls onJobChanged(parent) before it saves parent: the grandparent,
\* if it waits, still counts this parent as waiting and stays as it is.
ChildrenDone(st, p) ==
  /\ Children(st, p) # {}
  /\ \A c \in Children(st, p) : st[c] \in {"success", "failed"}

\* Mutant of Verdict: a status that is no choice of the column (save() does not
\* validate choices).
VerdictDone(st, p) ==
  IF \E c \in Children(st, p) : st[c] = "failed" THEN "failed" ELSE "done"

Verdict(st, p) ==
  IF \E c \in Children(st, p) : st[c] = "failed" THEN "failed" ELSE "success"

UpdateParentJob(st, p) ==
  IF Exists(st, p) /\ st[p] = "waiting" /\ ChildrenDone(st, p)
  THEN [st EXCEPT ![p] = Verdict(st, p)]
  ELSE st

\* this_job.status = s, save(), onJobChanged(this_job)
SaveAndNotify(st, j, s) == UpdateParentJob([st EXCEPT ![j] = s], Parent[j])

\* Mutant of ActiveOn: the filter on the node is forgotten.
ActiveAnywhere(S) ==
  {t \in Jobs \X Nodes : /\ status[t[1]] \in {"running", "terminating"}
                         /\ node[t[1]] = t[2]}

\* <<j, node of j>> for the jobs the database believes to be on a node of S.
ActiveOn(S) ==
  {t \in Jobs \X S : /\ status[t[1]] \in {"running", "terminating"}
                     /\ node[t[1]] = t[2]}

-----------------------------------------------------------------------------
(* The client's poll: phone_home reads the keys of running_jobs, then      *)
(* finished_jobs, while the wrapper threads go on; then it posts.          *)

ReadRunning(n) ==
  /\ up[n] /\ poll[n].pc = "idle"
  /\ PromptWrapper => \A j \in Jobs : worker[n][j] # "stored"
  /\ poll' = [poll EXCEPT ![n] = [NoPoll EXCEPT !.pc = "keys", !.running = Held(n)]]
  /\ UNCHANGED <<db, client, budget>>

ReadFinished(n) ==
  /\ poll[n].pc = "keys"
  /\ poll' = [poll EXCEPT ![n].pc = "sent", ![n].finished = result[n]]
  /\ UNCHANGED <<db, client, budget>>

\* Mutant of Purge: finished_jobs is cleared when the reply arrives.
PurgeAll(res, sent) == NoResults

\* What is left of finished_jobs once the jobs of the request are purged.
Purge(res, sent) ==
  [j \in Jobs |-> IF j \in Reported(sent) THEN NoResult ELSE res[j]]

\* submit_job starts the thread of each job of S, terminate_job then kills those of
\* K that run.
Threads(w, S, K) ==
  [j \in Jobs |-> IF j \in K /\ (j \in S \/ w[j] \in {"working", "launched"}) THEN "killed"
                  ELSE IF j \in S THEN "working" ELSE w[j]]

\* The reply arrives with status 200.  submit_job raises on a job that is still
\* running; the jobs and the kills after it in the reply are then ignored.
HandleReply(n) ==
  /\ up[n] /\ poll[n].pc = "reply"
  /\ firstUpdate' = [firstUpdate EXCEPT ![n] = FALSE]
  /\ needRestart' = [needRestart EXCEPT ![n] = @ \/ poll[n].restart]
  /\ result' = [result EXCEPT ![n] = Purge(@, poll[n].finished)]
  /\ \E S \in SUBSET (poll[n].jobs \ Held(n)), K \in {{}, poll[n].kill} :
       /\ poll[n].jobs \cap Held(n) = {} => S = poll[n].jobs /\ K = poll[n].kill
       /\ poll[n].jobs \cap Held(n) # {} => K = {}
       /\ worker' = [worker EXCEPT ![n] = Threads(@, S, K)]
  /\ poll' = [poll EXCEPT ![n] = NoPoll]
  /\ UNCHANGED <<db, up, budget>>

\* Mutant of CanExit: results not yet sent are forgotten.
CanExitEarly(n) == needRestart[n] /\ Held(n) = {}

CanExit(n) == needRestart[n] /\ Held(n) = {} /\ Reported(result[n]) = {}

\* notify_exit: a last request, with status offline and no list of jobs.
LastPoll == [NoPoll EXCEPT !.pc = "sent", !.offline = TRUE]

\* exit(3) at the end of a turn of loop_forever.
GracefulExit(n) ==
  /\ up[n] /\ poll[n].pc = "idle"
  /\ CanExit(n)
  /\ up' = [up EXCEPT ![n] = FALSE]
  /\ poll' = [poll EXCEPT ![n] = LastPoll]
  /\ UNCHANGED <<db, firstUpdate, needRestart, worker, result, budget>>

\* A new client process: the containers are empty, the next poll says restarted.
StartClient(n) ==
  /\ ~up[n] /\ poll[n].pc = "idle"
  /\ up' = [up EXCEPT ![n] = TRUE]
  /\ firstUpdate' = [firstUpdate EXCEPT ![n] = TRUE]
  /\ needRestart' = [needRestart EXCEPT ![n] = FALSE]
  /\ UNCHANGED <<db, worker, result, poll, budget>>

-----------------------------------------------------------------------------
(* The thread of a job on a client.                                        *)

\* launch_job from the job's process.  A child with dependencies or tags is
\* POSTed as "created" and becomes "ready" by a later PATCH of the same process.
DelayedStatus(c) == Deps[c] # {} \/ c \in Tagged

LaunchChild(n, j, c) ==
  /\ worker[n][j] \in {"working", "launched"}
  /\ Parent[c] = j /\ status[c] = "unborn" /\ Exists(status, j)
  /\ \A d \in Jobs : Parent[d] = j => status[d] # "created"
  /\ \A d \in Deps[c] : Exists(status, d)
  /\ status' = [status EXCEPT ![c] = IF DelayedStatus(c) THEN "created" ELSE "ready"]
  /\ node' = [node EXCEPT ![c] = Home[c]]
  /\ worker' = [worker EXCEPT ![n][j] = "launched"]
  /\ UNCHANGED <<reqRestart, overdue, up, firstUpdate, needRestart, result, poll, budget>>

ReleaseChild(n, j, c) ==
  /\ worker[n][j] = "launched"
  /\ Parent[c] = j /\ status[c] = "created"
  /\ status' = [status EXCEPT ![c] = "ready"]
  /\ UNCHANGED <<node, reqRestart, overdue, client, poll, budget>>

\* The process ends with outcome r, blocking_run gathers it and the wrapper
\* stores it in finished_jobs.  Only a job that launched children yields to
\* them; a killed process, and one that died, has failed.
EndJob(n, j, r) ==
  /\ worker[n][j] \in {"working", "launched", "killed"}
  /\ worker[n][j] = "killed" => r = "failed"
  /\ r = "waiting" => worker[n][j] = "launched"
  /\ r # "failed" => \A c \in Jobs : Parent[c] = j => status[c] # "created"
  /\ result' = [result EXCEPT ![n][j] = r]
  /\ worker' = [worker EXCEPT ![n][j] = "stored"]
  /\ UNCHANGED <<db, up, firstUpdate, needRestart, poll, budget>>

\* del self.running_jobs[job_id]
ForgetThread(n, j) ==
  /\ worker[n][j] = "stored"
  /\ worker' = [worker EXCEPT ![n][j] = "none"]
  /\ UNCHANGED <<db, up, firstUpdate, needRestart, result, poll, budget>>

-----------------------------------------------------------------------------
(* The handler of a poll, post_client_discover.                            *)

BeginCleanup(n) ==
  /\ poll[n].pc = "sent"
  /\ poll' = [poll EXCEPT ![n].pc = "cleanup", ![n].todo = ActiveOn(overdue)]
  /\ UNCHANGED <<db, client, budget>>

\* Mutant of FailLostJob: a lost job is queued again, for any node.
RequeueLostJob(n, phase) ==
  \E t \in poll[n].todo :
    /\ poll[n].pc = phase
    /\ Exists(status, t[1])
    /\ status' = SaveAndNotify(status, t[1], "ready")
    /\ node' = [node EXCEPT ![t[1]] = NoNode]
    /\ poll' = [poll EXCEPT ![n].todo = @ \ {t}]
    /\ UNCHANGED <<reqRestart, overdue, client, budget>>

\* One turn of either loop over lost jobs.  The rows were read before the loop:
\* save() writes the status and the node of that moment back, and inserts the
\* row again if it was deleted (which the database refuses without its parent).
FailLostJob(n, phase) ==
  \E t \in poll[n].todo :
    /\ poll[n].pc = phase
    /\ Parent[t[1]] # NoJob => Exists(status, Parent[t[1]])
    /\ status' = SaveAndNotify(status, t[1], "failed")
    /\ node' = [node EXCEPT ![t[1]] = t[2]]
    /\ poll' = [poll EXCEPT ![n].todo = @ \ {t}]
    /\ UNCHANGED <<reqRestart, overdue, client, budget>>

CleanupDeadJob(n) == FailLostJob(n, "cleanup")
FailMissingJob(n) == FailLostJob(n, "lost")

\* Mutant of MarkRunning: a job that is only reserved is not marked.
MarkStarted(st, S) ==
  [j \in Jobs |-> IF j \in S /\ Exists(st, j) /\ st[j] \notin {"terminating", "reserved"}
                  THEN "running" ELSE st[j]]

\* Jobs reported as running are marked so, whatever they were, unless terminating.
MarkRunning(st, S) ==
  [j \in Jobs |-> IF j \in S /\ Exists(st, j) /\ st[j] # "terminating"
                  THEN "running" ELSE st[j]]

\* The node row is read, updated and saved; jobs_to_terminate is read; then the
\* running jobs are updated.  Nothing follows for a client that goes offline.
DiscoverNode(n) ==
  /\ poll[n].pc = "cleanup" /\ poll[n].todo = {}
  /\ overdue' = overdue \ {n}
  /\ reqRestart' = [reqRestart EXCEPT ![n] = @ /\ (firstUpdate[n] => poll[n].offline)]
  /\ status' = MarkRunning(status, poll[n].running)
  /\ poll' = [poll EXCEPT ![n] =
                IF poll[n].offline THEN NoPoll
                ELSE [@ EXCEPT
                        !.pc = "finish",
                        !.todo = {<<j, n>> : j \in Reported(poll[n].finished)},
                        !.kill = {j \in Jobs : status[j] = "terminating" /\ node[j] = n},
                        !.restart = reqRestart'[n]]]
  /\ UNCHANGED <<node, client, budget>>

\* One turn of the loop over finished_jobs; a job that is gone is skipped.
FinishJob(n) ==
  \E t \in poll[n].todo :
    /\ poll[n].pc = "finish"
    /\ status' = IF Exists(status, t[1])
                 THEN SaveAndNotify(status, t[1], poll[n].finished[t[1]])
                 ELSE status
    /\ poll' = [poll EXCEPT ![n].todo = @ \ {t}]
    /\ UNCHANGED <<node, reqRestart, overdue, client, budget>>

\* Mutant of Missing: the report of the node is not consulted.
MissingUnasked(n) == ActiveOn({n})

\* Jobs of n that run according to the database, not according to the node.
Missing(n) == {t \in ActiveOn({n}) : t[1] \notin poll[n].running}

FindMissingJobs(n) ==
  /\ poll[n].pc = "finish" /\ poll[n].todo = {}
  /\ poll' = [poll EXCEPT ![n].pc = "lost", ![n].todo = Missing(n)]
  /\ UNCHANGED <<db, client, budget>>

\* A channel, light or heavy, runs one job at a time on a node.
ChannelBusy(n, j) ==
  \E k \in Jobs : /\ status[k] = "running" /\ node[k] = n
                  /\ k \in LightJobs <=> j \in LightJobs

\* Mutant of DependenciesMet: a dependency that waits for its children will do.
DependenciesStarted(j) ==
  \A d \in Deps[j] : Exists(status, d) => status[d] \in {"success", "waiting"}

DependenciesMet(j) == \A d \in Deps[j] : Exists(status, d) => status[d] = "success"

MayReserve(j) == status[j] = "ready"

Runnable(n) ==
  {j \in Jobs : /\ MayReserve(j) /\ node[j] \in {n, NoNode}
                /\ <<n, j>> \in CanRun
                /\ ~ChannelBusy(n, j)
                /\ DependenciesMet(j)}

Best(n) == {j \in Runnable(n) : \A k \in Runnable(n) : Priority[k] <= Priority[j]}

\* Mutant of ToSubmit: only the job this poll reserved is sent.
ToSubmitOnce(st, nd, n) ==
  {j \in Jobs : st[j] = "reserved" /\ nd[j] = n /\ status[j] # "reserved"}

\* Every job reserved for n is sent to it, until it reports the job as running.
ToSubmit(st, nd, n) == {j \in Jobs : st[j] = "reserved" /\ nd[j] = n}

\* The scheduler reserves at most one job, whose old children are deleted.
Schedule(n) ==
  /\ poll[n].pc = "lost" /\ poll[n].todo = {}
  /\ \/ /\ poll[n].restart \/ Runnable(n) = {}
        /\ UNCHANGED <<status, node>>
     \/ /\ ~poll[n].restart
        /\ \E j \in Best(n) :
             /\ status' = [DeleteRows(status, Children(status, j)) EXCEPT ![j] = "reserved"]
             /\ node' = [node EXCEPT ![j] = n]
  /\ poll' = [poll EXCEPT ![n] =
                IF up[n]
                THEN [@ EXCEPT !.pc = "reply",
                               !.jobs = ToSubmit(status', node', n)]
                ELSE NoPoll]
  /\ UNCHANGED <<reqRestart, overdue, client, budget>>

-----------------------------------------------------------------------------
(* Users of the website.                                                   *)

\* Mutant of KillJob: the job is called failed before its node has stopped it.
KillJobAtOnce(j) ==
  /\ Spend("user")
  /\ status[j] = "running"
  /\ status' = [status EXCEPT ![j] = "failed"]
  /\ UNCHANGED <<node, reqRestart, overdue, client, poll>>

KillJob(j) ==
  /\ Spend("user")
  /\ status[j] = "running"
  /\ status' = [status EXCEPT ![j] = "terminating"]
  /\ UNCHANGED <<node, reqRestart, overdue, client, poll>>

DeleteJob(j) ==
  /\ Spend("user")
  /\ status[j] \in {"ready", "success", "failed"}
  /\ status' = DeleteRows(status, {j})
  /\ UNCHANGED <<node, reqRestart, overdue, client, poll>>

\* Mutant of Restartable: a job is restarted whatever its status.
RestartAnything(j) == Exists(status, j)

Restartable(j) == status[j] \in RestartFrom

\* restart_job without clone_job.
RestartJob(j, sameMachine) ==
  /\ Spend("user")
  /\ Restartable(j)
  /\ \A c \in Children(status, j) : status[c] \notin {"running", "waiting"}
  /\ status' = [DeleteRows(status, Children(status, j)) EXCEPT ![j] = "ready"]
  /\ node' = [node EXCEPT ![j] = IF sameMachine THEN @ ELSE NoNode]
  /\ UNCHANGED <<reqRestart, overdue, client, poll>>

RestartFailedChildren(p, sameMachine) ==
  LET failed == {c \in Children(status, p) : status[c] = "failed"} IN
  /\ Spend("user")
  /\ Restartable(p) /\ failed # {}
  /\ status' = [j \in Jobs |-> IF j \in failed THEN "ready"
                               ELSE IF j = p THEN "waiting" ELSE status[j]]
  /\ node' = [j \in Jobs |-> IF j \in failed /\ ~sameMachine THEN NoNode ELSE node[j]]
  /\ UNCHANGED <<reqRestart, overdue, client, poll>>

ReloadClient(n) ==
  /\ Spend("user")
  /\ reqRestart' = [reqRestart EXCEPT ![n] = TRUE]
  /\ UNCHANGED <<status, node, overdue, client, poll>>

-----------------------------------------------------------------------------
(* The environment: lost messages, failing handlers, crashes, time.        *)

\* The connection fails before the request is handled or before the reply is
\* read, or the handler stops with an exception: what it wrote stays written.
LosePoll(n) ==
  /\ Spend("loss")
  /\ poll[n].pc \in InFlight
  /\ poll' = [poll EXCEPT ![n] = NoPoll]
  /\ UNCHANGED <<db, client>>

\* save() of a deleted row whose parent is deleted too: a database error.
RefuseOrphan(n) ==
  /\ poll[n].pc \in {"cleanup", "lost"}
  /\ \E t \in poll[n].todo : Parent[t[1]] # NoJob /\ ~Exists(status, Parent[t[1]])
  /\ poll' = [poll EXCEPT ![n] = NoPoll]
  /\ UNCHANGED <<db, client, budget>>

\* The machine or the client dies with every job it runs; a handler that is at
\* work for it goes on.
Crash(n) ==
  /\ Spend("crash")
  /\ up[n]
  /\ up' = [up EXCEPT ![n] = FALSE]
  /\ worker' = [worker EXCEPT ![n] = [j \in Jobs |-> "none"]]
  /\ result' = [result EXCEPT ![n] = NoResults]
  /\ poll' = [poll EXCEPT ![n] = IF @.pc \in {"keys", "reply"} THEN NoPoll ELSE @]
  /\ UNCHANGED <<db, firstUpdate, needRestart>>

\* Two hours pass without a poll of n: it is down, or cut off.
TwoHoursPass(n) ==
  /\ poll[n].pc = "idle" /\ n \notin overdue
  /\ IF up[n] THEN Spend("lapse") ELSE UNCHANGED budget
  /\ overdue' = overdue \cup {n}
  /\ UNCHANGED <<status, node, reqRestart, client, poll>>

-----------------------------------------------------------------------------
PollStep(n) ==
  \/ ReadRunning(n) \/ ReadFinished(n) \/ BeginCleanup(n) \/ CleanupDeadJob(n)
  \/ DiscoverNode(n) \/ FinishJob(n) \/ FindMissingJobs(n) \/ FailMissingJob(n)
  \/ Schedule(n) \/ HandleReply(n) \/ RefuseOrphan(n)

JobStep(n, j) ==
  \/ \E c \in Jobs : LaunchChild(n, j, c) \/ ReleaseChild(n, j, c)
  \/ \E r \in Outcomes : EndJob(n, j, r)
  \/ ForgetThread(n, j)

UserStep ==
  \/ \E j \in Jobs : KillJob(j) \/ DeleteJob(j)
  \/ \E j \in Jobs, same \in BOOLEAN : RestartJob(j, same) \/ RestartFailedChildren(j, same)
  \/ \E n \in Nodes : ReloadClient(n)

Fault(n) == LosePoll(n) \/ Crash(n) \/ TwoHoursPass(n)

Next ==
  \/ \E n \in Nodes : PollStep(n) \/ GracefulExit(n) \/ StartClient(n) \/ Fault(n)
  \/ \E n \in Nodes, j \in Jobs : JobStep(n, j)
  \/ UserStep

Spec == Init /\ [][Next]_vars

\* A client polls for ever, the server answers, the threads run, processes end,
\* and somebody (or the run script) starts a client again after it stopped.
Fairness ==
  /\ \A n \in Nodes : WF_vars(PollStep(n)) /\ WF_vars(StartClient(n))
  /\ \A n \in Nodes, j \in Jobs :
       /\ WF_vars(\E c \in Jobs : ReleaseChild(n, j, c))
       /\ WF_vars(\E r \in Outcomes : EndJob(n, j, r))
       /\ WF_vars(ForgetThread(n, j))

FairSpec == Spec /\ Fairness

-----------------------------------------------------------------------------
(* Properties.                                                             *)

PollType ==
  [pc : {"idle", "keys"} \cup InFlight, running : SUBSET Jobs,
   finished : [Jobs -> Outcomes \cup {NoResult}], todo : SUBSET (Jobs \X Nodes),
   kill : SUBSET Jobs, jobs : SUBSET Jobs, restart : BOOLEAN, offline : BOOLEAN]

\* Every variable has its type: the status column holds a STATUS choice of
\* FarmJob or marks an absent row, and no counter of faults goes below zero.
TypeOK ==
  /\ status \in [Jobs -> Statuses \cup Absent]
  /\ node \in [Jobs -> Nodes \cup {NoNode}]
  /\ reqRestart \in [Nodes -> BOOLEAN]
  /\ overdue \subseteq Nodes
  /\ up \in [Nodes -> BOOLEAN]
  /\ firstUpdate \in [Nodes -> BOOLEAN]
  /\ needRestart \in [Nodes -> BOOLEAN]
  /\ worker \in [Nodes -> [Jobs -> Phases]]
  /\ result \in [Nodes -> [Jobs -> Outcomes \cup {NoResult}]]
  /\ poll \in [Nodes -> PollType]
  /\ budget \in [Faults -> Nat]

\* A job that the handler of a poll is about to fail because its node did not
\* report it (views.py:666-672) has no thread on that node: whatever was lost,
\* killed or restarted, the check never fails a job its own client still runs.
LostIsLost ==
  \A n \in Nodes : poll[n].pc = "lost" =>
    \A t \in poll[n].todo : t[2] = n /\ worker[n][t[1]] = "none"

\* Two machines never run one job at the same time.
ExclusiveExecution ==
  \A j \in Jobs, n, m \in Nodes : j \in Executing(n) /\ j \in Executing(m) => n = m

\* submit_job never meets a job that is still in running_jobs, so that the rest
\* of the reply, its kills included, is never dropped (job_client.py:247, 421).
SubmitUnique ==
  \A n \in Nodes : poll[n].pc = "reply" => poll[n].jobs \cap Held(n) = {}

\* A job the database calls success or failed is not being run by any client.
TerminalMeansStopped ==
  \A j \in Jobs, n \in Nodes :
    status[j] \in {"success", "failed"} => j \notin Executing(n)

\* How many steps of a kind were taken.
Used(kind) == Budget[kind] - budget[kind]

\* TerminalMeansStopped as long as users leave the farm alone and no client is cut
\* off, or users act and the farm is calm.  A client that is cut off has its jobs
\* failed (views.py:509); a result that is reported again after a lost reply, and
\* the clean-up of a crashed client by two processes, settle a job that a user
\* restarted in between (views.py:627, 511).
StoppedUnlessSilent ==
  Used("lapse") = 0 /\ (Used("user") = 0 \/ Used("crash") + Used("loss") = 0)
    => TerminalMeansStopped

\* While a job runs, every job it depends on stays a success.
DependenciesHold ==
  \A n \in Nodes : \A j \in Executing(n) : \A d \in Deps[j] : status[d] = "success"

\* UpdateParentJob settles a parent only when no machine runs a child of it.
VerdictWaitsForChildren ==
  [][\A p \in Jobs :
       status[p] = "waiting" /\ status'[p] \in {"success", "failed"}
         => \A c \in Jobs, n \in Nodes : Parent[c] = p => c \notin Executing(n)]_vars

\* A client that restarts on request leaves no job of its node unfinished in
\* the database, where the next client's first poll would fail it.
RestartLosesNothing ==
  [][\A n \in Nodes : GracefulExit(n) =>
       \A j \in Jobs : node[j] = n => status[j] \notin {"reserved", "running", "terminating"}]_vars

\* A job that was given to a machine gets an outcome.
StartedJobsSettle ==
  \A j \in Jobs : status[j] \in {"reserved", "running", "terminating"}
                    ~> status[j] \notin {"reserved", "running", "terminating"}

\* A success waiting in finished_jobs reaches the database, unless its client dies.
ResultsAreDelivered ==
  \A n \in Nodes, j \in Jobs :
    (result[n][j] = "success") ~> (status[j] = "success" \/ ~up[n])

\* A parent whose children are all done does not wait for ever.
WaitingParentsSettle ==
  \A p \in Jobs : (status[p] = "waiting" /\ ChildrenDone(status, p))
                    ~> (status[p] # "waiting")
=============================================================================
