--------------------------- MODULE JobFarmProofs ---------------------------
(***************************************************************************)
(* The farm, for any jobs, nodes, families, dependencies and budgets.      *)
(* First what holds whatever happens: types, and that no job is declared   *)
(* lost that has a thread.  Then, while users leave the farm alone: one    *)
(* machine at a time runs a job, and a poll brings a client no job that it *)
(* still runs; if no client is cut off for two hours, a job that the       *)
(* database calls done has stopped and a parent takes its verdict when its *)
(* children have; if no message is lost either, a job runs only after      *)
(* those it depends on.                                                    *)
(***************************************************************************)
EXTENDS JobFarm, TLAPS

StatusColumn == [Jobs -> Statuses \cup Absent]

\* The loop over finished jobs goes through jobs of the request that have a result.
FinishesReported(n) ==
  poll[n].pc = "finish" => \A t \in poll[n].todo : t[1] \in Reported(poll[n].finished)

\* Between the reading of running_jobs and the reply, no thread starts.
ReportCovers(n) ==
  poll[n].pc \in {"keys"} \cup InFlight => Held(n) \subseteq poll[n].running

\* The loop over lost jobs goes through jobs of this node that it did not report.
LosesUnreported(n) ==
  poll[n].pc = "lost" =>
    \A t \in poll[n].todo : t[2] = n /\ t[1] \notin poll[n].running

PollInv == \A n \in Nodes : FinishesReported(n) /\ ReportCovers(n) /\ LosesUnreported(n)

\* Inductive: implies TypeOK and LostIsLost.
IInv == TypeOK /\ PollInv

-----------------------------------------------------------------------------
(* What the operators of the handlers return.                              *)

\* A save, with the update of the parent, gives every row a legal status.
LEMMA SaveAndNotifyType ==
  ASSUME NEW st \in StatusColumn, NEW j \in Jobs, NEW s \in Statuses
  PROVE  SaveAndNotify(st, j, s) \in StatusColumn
<1> DEFINE saved == [st EXCEPT ![j] = s]
<1>1. saved \in StatusColumn
  BY DEF StatusColumn
<1>2. Verdict(saved, Parent[j]) \in Statuses
  BY DEF Verdict, Statuses
<1>3. UpdateParentJob(saved, Parent[j]) \in StatusColumn
  <2> HIDE DEF saved
  <2> QED BY <1>1, <1>2 DEF UpdateParentJob, StatusColumn
<1> QED BY <1>3 DEF SaveAndNotify

\* Deleting rows gives every row a legal status.
LEMMA DeleteRowsType ==
  ASSUME NEW st \in StatusColumn, NEW S
  PROVE  DeleteRows(st, S) \in StatusColumn
BY DEF DeleteRows, StatusColumn, Absent

\* Marking jobs as running gives every row a legal status.
LEMMA MarkRunningType ==
  ASSUME NEW st \in StatusColumn, NEW S
  PROVE  MarkRunning(st, S) \in StatusColumn
BY DEF MarkRunning, StatusColumn, Statuses

\* Purging the results of a request leaves a function of results.
LEMMA PurgeType ==
  ASSUME NEW res \in [Jobs -> Outcomes \cup {NoResult}], NEW sent
  PROVE  Purge(res, sent) \in [Jobs -> Outcomes \cup {NoResult}]
BY DEF Purge

\* The empty poll is a poll.
LEMMA NoPollType == NoPoll \in PollType
BY DEF NoPoll, PollType, NoResults

\* Spending a unit of a budget leaves naturals.
LEMMA SpendType ==
  ASSUME NEW kind \in Faults, budget \in [Faults -> Nat], Spend(kind)
  PROVE  budget' \in [Faults -> Nat]
BY DEF Spend

-----------------------------------------------------------------------------
(* Type correctness.                                                       *)

\* The initial state is well typed.
LEMMA TypeInit == Init => TypeOK
BY ConstantsAssumption, NoPollType
DEF Init, TypeOK, Statuses, Absent, Phases, NoResults

\* The steps of a poll, on the client and in its handler, keep the types.
LEMMA TypePoll ==
  ASSUME TypeOK, PollInv, NEW n \in Nodes, PollStep(n)
  PROVE  TypeOK'
<1> USE ConstantsAssumption, NoPollType
<1>0. /\ poll[n] \in PollType
      /\ \A p \in PollType : [poll EXCEPT ![n] = p] \in [Nodes -> PollType]
  BY DEF TypeOK
<1>1. CASE ReadRunning(n)
  <2>1. [NoPoll EXCEPT !.pc = "keys", !.running = Held(n)] \in PollType
    BY DEF NoPoll, PollType, Held, NoResults
  <2> QED BY <1>0, <1>1, <2>1 DEF ReadRunning, TypeOK, db, client
<1>2. CASE ReadFinished(n)
  <2>1. [poll[n] EXCEPT !.pc = "sent", !.finished = result[n]] \in PollType
    BY <1>0 DEF PollType, TypeOK, InFlight
  <2>2. poll' = [poll EXCEPT ![n] = [poll[n] EXCEPT !.pc = "sent", !.finished = result[n]]]
    BY <1>2 DEF ReadFinished, TypeOK
  <2> QED BY <1>0, <1>2, <2>1, <2>2 DEF ReadFinished, TypeOK, db, client
<1>3. CASE BeginCleanup(n)
  <2>1. [poll[n] EXCEPT !.pc = "cleanup", !.todo = ActiveOn(overdue)] \in PollType
    BY <1>0 DEF PollType, TypeOK, InFlight, Handling, ActiveOn
  <2>2. poll' = [poll EXCEPT ![n] = [poll[n] EXCEPT !.pc = "cleanup", !.todo = ActiveOn(overdue)]]
    BY <1>3 DEF BeginCleanup, TypeOK
  <2> QED BY <1>0, <1>3, <2>1, <2>2 DEF BeginCleanup, TypeOK, db, client
<1>4. ASSUME NEW phase, FailLostJob(n, phase) PROVE TypeOK'
  <2>1. PICK t \in poll[n].todo :
          /\ status' = SaveAndNotify(status, t[1], "failed")
          /\ node' = [node EXCEPT ![t[1]] = t[2]]
          /\ poll' = [poll EXCEPT ![n].todo = @ \ {t}]
          /\ UNCHANGED <<reqRestart, overdue, client, budget>>
    BY <1>4 DEF FailLostJob
  <2>2. t[1] \in Jobs /\ t[2] \in Nodes
    BY <1>0 DEF PollType
  <2>3. status' \in StatusColumn
    BY <2>1, <2>2, SaveAndNotifyType DEF TypeOK, StatusColumn, Statuses
  <2>4. node' \in [Jobs -> Nodes \cup {NoNode}]
    BY <2>1, <2>2 DEF TypeOK
  <2>5. [poll[n] EXCEPT !.todo = @ \ {t}] \in PollType
    BY <1>0 DEF PollType
  <2>6. poll' = [poll EXCEPT ![n] = [poll[n] EXCEPT !.todo = @ \ {t}]]
    BY <2>1 DEF TypeOK
  <2> QED BY <1>0, <2>1, <2>3, <2>4, <2>5, <2>6 DEF TypeOK, StatusColumn, client
<1>5. CASE DiscoverNode(n)
  <2>1. status' \in StatusColumn
    BY <1>5, MarkRunningType DEF DiscoverNode, TypeOK, StatusColumn
  <2>2. reqRestart' \in [Nodes -> BOOLEAN]
    BY <1>5 DEF DiscoverNode, TypeOK
  <2> DEFINE next == [poll[n] EXCEPT
                        !.pc = "finish",
                        !.todo = {<<j, n>> : j \in Reported(poll[n].finished)},
                        !.kill = {j \in Jobs : status[j] = "terminating" /\ node[j] = n},
                        !.restart = reqRestart'[n]]
  <2>3. next \in PollType
    <3>1. {<<j, n>> : j \in Reported(poll[n].finished)} \in SUBSET (Jobs \X Nodes)
      BY DEF Reported
    <3>2. {j \in Jobs : status[j] = "terminating" /\ node[j] = n} \in SUBSET Jobs
      OBVIOUS
    <3>3. reqRestart'[n] \in BOOLEAN
      BY <2>2
    <3> QED BY <1>0, <3>1, <3>2, <3>3 DEF PollType, InFlight, Handling
  <2>4. poll' = [poll EXCEPT ![n] = IF poll[n].offline THEN NoPoll ELSE next]
    BY <1>5 DEF DiscoverNode, TypeOK
  <2>5. poll' \in [Nodes -> PollType]
    <3> HIDE DEF next
    <3> QED BY <1>0, <2>3, <2>4
  <2> QED BY <1>5, <2>1, <2>2, <2>5 DEF DiscoverNode, TypeOK, StatusColumn, client
<1>6. CASE FinishJob(n)
  <2>1. PICK t \in poll[n].todo :
          /\ poll[n].pc = "finish"
          /\ status' = IF Exists(status, t[1])
                       THEN SaveAndNotify(status, t[1], poll[n].finished[t[1]])
                       ELSE status
          /\ poll' = [poll EXCEPT ![n].todo = @ \ {t}]
          /\ UNCHANGED <<node, reqRestart, overdue, client, budget>>
    BY <1>6 DEF FinishJob
  <2>2. t[1] \in Jobs
    BY <1>0 DEF PollType
  <2>3. status' \in StatusColumn
    <3>1. CASE ~Exists(status, t[1])
      BY <2>1, <3>1 DEF TypeOK, StatusColumn
    <3>2. CASE Exists(status, t[1])
      <4>1. poll[n].finished[t[1]] # NoResult
        BY <2>1 DEF PollInv, FinishesReported, Reported
      <4>2. poll[n].finished[t[1]] \in Statuses
        BY <1>0, <2>2, <4>1 DEF PollType, Outcomes, Statuses
      <4> QED BY <2>1, <2>2, <3>2, <4>2, SaveAndNotifyType DEF TypeOK, StatusColumn
    <3> QED BY <3>1, <3>2
  <2>5. [poll[n] EXCEPT !.todo = @ \ {t}] \in PollType
    BY <1>0 DEF PollType
  <2>6. poll' = [poll EXCEPT ![n] = [poll[n] EXCEPT !.todo = @ \ {t}]]
    BY <2>1 DEF TypeOK
  <2> QED BY <1>0, <2>1, <2>3, <2>5, <2>6 DEF TypeOK, StatusColumn, client
<1>7. CASE FindMissingJobs(n)
  <2>1. [poll[n] EXCEPT !.pc = "lost", !.todo = Missing(n)] \in PollType
    BY <1>0 DEF PollType, InFlight, Handling, Missing, ActiveOn
  <2>2. poll' = [poll EXCEPT ![n] = [poll[n] EXCEPT !.pc = "lost", !.todo = Missing(n)]]
    BY <1>7 DEF FindMissingJobs, TypeOK
  <2> QED BY <1>0, <1>7, <2>1, <2>2 DEF FindMissingJobs, TypeOK, db, client
<1>8. CASE Schedule(n)
  <2>1. status' \in StatusColumn /\ node' \in [Jobs -> Nodes \cup {NoNode}]
    <3>1. CASE UNCHANGED <<status, node>>
      BY <3>1 DEF TypeOK, StatusColumn
    <3>2. ASSUME NEW j \in Best(n),
                 status' = [DeleteRows(status, Children(status, j)) EXCEPT ![j] = "reserved"],
                 node' = [node EXCEPT ![j] = n]
          PROVE  status' \in StatusColumn /\ node' \in [Jobs -> Nodes \cup {NoNode}]
      <4>1. DeleteRows(status, Children(status, j)) \in StatusColumn
        BY DeleteRowsType DEF TypeOK, StatusColumn
      <4> QED BY <3>2, <4>1 DEF TypeOK, StatusColumn, Statuses
    <3> QED BY <1>8, <3>1, <3>2 DEF Schedule
  <2> DEFINE next == [poll[n] EXCEPT !.pc = "reply", !.jobs = ToSubmit(status', node', n)]
  <2>2. next \in PollType
    BY <1>0 DEF PollType, InFlight, ToSubmit
  <2>3. poll' = [poll EXCEPT ![n] = IF up[n] THEN next ELSE NoPoll]
    BY <1>8 DEF Schedule, TypeOK
  <2>4. poll' \in [Nodes -> PollType]
    <3> HIDE DEF next
    <3> QED BY <1>0, <2>2, <2>3
  <2> QED BY <1>8, <2>1, <2>4 DEF Schedule, TypeOK, StatusColumn, client
<1>9. CASE HandleReply(n)
  <2>1. result' \in [Nodes -> [Jobs -> Outcomes \cup {NoResult}]]
    <3>1. Purge(result[n], poll[n].finished) \in [Jobs -> Outcomes \cup {NoResult}]
      BY PurgeType DEF TypeOK
    <3> QED BY <1>9, <3>1 DEF HandleReply, Threads, TypeOK
  <2>2. worker' \in [Nodes -> [Jobs -> Phases]]
    <3>1. PICK S \in SUBSET (poll[n].jobs \ Held(n)), K \in {{}, poll[n].kill} :
            worker' = [worker EXCEPT ![n] =
                         [j \in Jobs |->
                            IF j \in K /\ (j \in S \/ @[j] \in {"working", "launched"})
                            THEN "killed"
                            ELSE IF j \in S THEN "working" ELSE @[j]]]
      BY <1>9 DEF HandleReply, Threads
    <3> QED BY <3>1 DEF TypeOK, Phases
  <2>3. poll' \in [Nodes -> PollType]
    BY <1>0, <1>9 DEF HandleReply, Threads
  <2>4. firstUpdate' \in [Nodes -> BOOLEAN]
    BY <1>9 DEF HandleReply, Threads, TypeOK
  <2>5. needRestart' \in [Nodes -> BOOLEAN]
    <3>1. (needRestart[n] \/ poll[n].restart) \in BOOLEAN
      OBVIOUS
    <3> QED BY <1>9, <3>1 DEF HandleReply, Threads, TypeOK
  <2> QED BY <1>9, <2>1, <2>2, <2>3, <2>4, <2>5 DEF HandleReply, Threads, TypeOK, db
<1>10. CASE RefuseOrphan(n)
  BY <1>0, <1>10 DEF RefuseOrphan, TypeOK, db, client
<1> QED
  BY <1>1, <1>2, <1>3, <1>4, <1>5, <1>6, <1>7, <1>8, <1>9, <1>10
  DEF PollStep, CleanupDeadJob, FailMissingJob

\* A client that exits or starts keeps the types.
LEMMA TypeExit ==
  ASSUME TypeOK, NEW n \in Nodes, GracefulExit(n) \/ StartClient(n)
  PROVE  TypeOK'
<1>1. [NoPoll EXCEPT !.pc = "sent", !.offline = TRUE] \in PollType
  BY DEF NoPoll, PollType, InFlight, NoResults
<1> QED BY <1>1 DEF GracefulExit, LastPoll, StartClient, TypeOK, db

\* The steps of a job thread keep the types.
LEMMA TypeJob ==
  ASSUME TypeOK, NEW n \in Nodes, NEW j \in Jobs, JobStep(n, j)
  PROVE  TypeOK'
<1>1. ASSUME NEW c \in Jobs, LaunchChild(n, j, c) PROVE TypeOK'
  <2>1. Home[c] \in Nodes \cup {NoNode}
    BY ConstantsAssumption
  <2> QED BY <1>1, <2>1 DEF LaunchChild, TypeOK, Statuses, Phases
<1>2. ASSUME NEW c \in Jobs, ReleaseChild(n, j, c) PROVE TypeOK'
  BY <1>2 DEF ReleaseChild, TypeOK, Statuses, client
<1>3. ASSUME NEW r \in Outcomes, EndJob(n, j, r) PROVE TypeOK'
  BY <1>3 DEF EndJob, TypeOK, Phases, db
<1>4. CASE ForgetThread(n, j)
  BY <1>4 DEF ForgetThread, TypeOK, Phases, db
<1> QED BY <1>1, <1>2, <1>3, <1>4 DEF JobStep

\* The requests of users keep the types.
LEMMA TypeUser ==
  ASSUME TypeOK, UserStep
  PROVE  TypeOK'
<1> USE DEF TypeOK, client
<1>0. "user" \in Faults
  BY DEF Faults
<1>1. ASSUME NEW j \in Jobs, KillJob(j) PROVE TypeOK'
  BY <1>0, <1>1, SpendType DEF KillJob, Statuses
<1>2. ASSUME NEW j \in Jobs, DeleteJob(j) PROVE TypeOK'
  BY <1>0, <1>2, SpendType, DeleteRowsType DEF DeleteJob, StatusColumn
<1>3. ASSUME NEW j \in Jobs, NEW same \in BOOLEAN, RestartJob(j, same) PROVE TypeOK'
  <2>1. DeleteRows(status, Children(status, j)) \in StatusColumn
    BY DeleteRowsType DEF StatusColumn
  <2> QED BY <1>0, <1>3, <2>1, SpendType DEF RestartJob, StatusColumn, Statuses
<1>4. ASSUME NEW p \in Jobs, NEW same \in BOOLEAN, RestartFailedChildren(p, same) PROVE TypeOK'
  <2>1. status' \in StatusColumn
    BY <1>4 DEF RestartFailedChildren, StatusColumn, Statuses
  <2>2. node' \in [Jobs -> Nodes \cup {NoNode}]
    BY <1>4 DEF RestartFailedChildren
  <2> QED BY <1>0, <1>4, <2>1, <2>2, SpendType DEF RestartFailedChildren, StatusColumn
<1>5. ASSUME NEW n \in Nodes, ReloadClient(n) PROVE TypeOK'
  BY <1>0, <1>5, SpendType DEF ReloadClient
<1> QED BY <1>1, <1>2, <1>3, <1>4, <1>5 DEF UserStep

\* Losses, crashes and silences keep the types.
LEMMA TypeFault ==
  ASSUME TypeOK, NEW n \in Nodes, Fault(n)
  PROVE  TypeOK'
<1> USE NoPollType DEF TypeOK
<1>0. {"loss", "crash", "lapse"} \subseteq Faults
  BY DEF Faults
<1>1. CASE LosePoll(n)
  BY <1>0, <1>1, SpendType DEF LosePoll, db, client
<1>2. CASE Crash(n)
  <2>1. worker' \in [Nodes -> [Jobs -> Phases]]
    BY <1>2 DEF Crash, Phases
  <2>2. result' \in [Nodes -> [Jobs -> Outcomes \cup {NoResult}]]
    BY <1>2 DEF Crash, NoResults
  <2> QED BY <1>0, <1>2, <2>1, <2>2, SpendType DEF Crash, db
<1>3. CASE TwoHoursPass(n)
  BY <1>0, <1>3, SpendType DEF TwoHoursPass, client
<1> QED BY <1>1, <1>2, <1>3 DEF Fault

\* Every step keeps the types.
LEMMA TypeStep == TypeOK /\ PollInv /\ [Next]_vars => TypeOK'
<1> SUFFICES ASSUME TypeOK, PollInv, [Next]_vars PROVE TypeOK'
  OBVIOUS
<1>1. CASE UNCHANGED vars
  BY <1>1 DEF vars, TypeOK
<1>2. CASE Next
  BY <1>2, TypePoll, TypeExit, TypeJob, TypeUser, TypeFault DEF Next
<1> QED BY <1>1, <1>2

-----------------------------------------------------------------------------
(* The polls: what a request and its handler know of the threads.          *)

\* PollInv of a node speaks of its poll and of its threads only, and stays true
\* when threads end.
LEMMA PollUntouched ==
  ASSUME NEW n \in Nodes,
         FinishesReported(n) /\ ReportCovers(n) /\ LosesUnreported(n),
         poll'[n] = poll[n],
         \/ worker'[n] = worker[n]
         \/ Held(n)' \subseteq Held(n)
         \/ poll[n].pc = "idle"
  PROVE  (FinishesReported(n) /\ ReportCovers(n) /\ LosesUnreported(n))'
<1>1. FinishesReported(n)' /\ LosesUnreported(n)'
  BY DEF FinishesReported, LosesUnreported, Reported
<1>2. ReportCovers(n)'
  BY DEF ReportCovers, Held, InFlight, Handling
<1> QED BY <1>1, <1>2

\* An idle poll satisfies PollInv whatever runs.
LEMMA PollIdle ==
  ASSUME NEW n \in Nodes, poll'[n].pc = "idle"
  PROVE  (FinishesReported(n) /\ ReportCovers(n) /\ LosesUnreported(n))'
BY DEF FinishesReported, ReportCovers, LosesUnreported, InFlight, Handling

\* The steps of a poll keep what is known of the poll of a client.
LEMMA PollStepInv ==
  ASSUME TypeOK, PollInv, NEW n \in Nodes, PollStep(n)
  PROVE  PollInv'
<1>0. /\ FinishesReported(n) /\ ReportCovers(n) /\ LosesUnreported(n)
      /\ poll[n] \in PollType
      /\ DOMAIN poll = Nodes
      /\ NoPoll.pc = "idle"
  BY DEF PollInv, TypeOK, NoPoll
<1>1. ASSUME NEW m \in Nodes \ {n}
      PROVE  (FinishesReported(m) /\ ReportCovers(m) /\ LosesUnreported(m))'
  <2>1. poll'[m] = poll[m] /\ worker'[m] = worker[m]
    BY DEF PollStep, ReadRunning, ReadFinished, BeginCleanup, CleanupDeadJob,
           DiscoverNode, FinishJob, FindMissingJobs, FailMissingJob, FailLostJob,
           Schedule, HandleReply, Threads, RefuseOrphan, TypeOK, client
  <2> QED BY <2>1, PollUntouched DEF PollInv
<1>2. (FinishesReported(n) /\ ReportCovers(n) /\ LosesUnreported(n))'
  <2>1. CASE ReadRunning(n)
    <3>1. poll'[n].pc = "keys" /\ poll'[n].running = Held(n) /\ worker' = worker
      BY <1>0, <2>1 DEF ReadRunning, NoPoll, client
    <3> QED BY <3>1 DEF FinishesReported, ReportCovers, LosesUnreported, Held
  <2>2. CASE ReadFinished(n)
    <3>1. /\ poll[n].pc = "keys" /\ poll'[n].pc = "sent"
          /\ poll'[n].running = poll[n].running /\ worker' = worker
      BY <1>0, <2>2 DEF ReadFinished, client, PollType
    <3> QED BY <1>0, <3>1 DEF FinishesReported, ReportCovers, LosesUnreported, Held
  <2>3. CASE BeginCleanup(n)
    <3>1. /\ poll[n].pc = "sent" /\ poll'[n].pc = "cleanup"
          /\ poll'[n].running = poll[n].running /\ worker' = worker
      BY <1>0, <2>3 DEF BeginCleanup, client, PollType
    <3> QED BY <1>0, <3>1 DEF FinishesReported, ReportCovers, LosesUnreported, Held, InFlight
  <2>4. ASSUME NEW phase, FailLostJob(n, phase)
        PROVE  (FinishesReported(n) /\ ReportCovers(n) /\ LosesUnreported(n))'
    <3>1. /\ poll'[n].pc = poll[n].pc /\ poll'[n].todo \subseteq poll[n].todo
          /\ poll'[n].running = poll[n].running
          /\ poll'[n].finished = poll[n].finished /\ worker' = worker
      BY <1>0, <2>4 DEF FailLostJob, client, PollType
    <3> QED BY <1>0, <3>1
            DEF FinishesReported, ReportCovers, LosesUnreported, Held, Reported
  <2>5. CASE DiscoverNode(n)
    <3>1. CASE poll[n].offline
      BY <1>0, <2>5, <3>1, PollIdle DEF DiscoverNode
    <3>2. CASE ~poll[n].offline
      <4>1. /\ poll[n].pc = "cleanup" /\ poll'[n].pc = "finish"
            /\ poll'[n].todo = {<<j, n>> : j \in Reported(poll[n].finished)}
            /\ poll'[n].running = poll[n].running
            /\ poll'[n].finished = poll[n].finished /\ worker' = worker
        BY <1>0, <2>5, <3>2 DEF DiscoverNode, client, PollType
      <4> QED BY <1>0, <4>1
              DEF FinishesReported, ReportCovers, LosesUnreported, Held, Reported,
                  InFlight, Handling
    <3> QED BY <3>1, <3>2
  <2>6. CASE FinishJob(n)
    <3>1. /\ poll'[n].pc = poll[n].pc /\ poll'[n].todo \subseteq poll[n].todo
          /\ poll'[n].running = poll[n].running
          /\ poll'[n].finished = poll[n].finished /\ worker' = worker
      BY <1>0, <2>6 DEF FinishJob, client, PollType
    <3> QED BY <1>0, <3>1
            DEF FinishesReported, ReportCovers, LosesUnreported, Held, Reported
  <2>7. CASE FindMissingJobs(n)
    <3>1. /\ poll[n].pc = "finish" /\ poll'[n].pc = "lost"
          /\ poll'[n].todo = Missing(n)
          /\ poll'[n].running = poll[n].running /\ worker' = worker
      BY <1>0, <2>7 DEF FindMissingJobs, client, PollType
    <3>2. \A t \in Missing(n) : t[2] = n /\ t[1] \notin poll[n].running
      BY DEF Missing, ActiveOn
    <3> QED BY <1>0, <3>1, <3>2
            DEF FinishesReported, ReportCovers, LosesUnreported, Held, InFlight, Handling
  <2>8. CASE Schedule(n)
    <3>1. CASE ~up[n]
      BY <1>0, <2>8, <3>1, PollIdle DEF Schedule
    <3>2. CASE up[n]
      <4>1. /\ poll[n].pc = "lost" /\ poll'[n].pc = "reply"
            /\ poll'[n].running = poll[n].running /\ worker' = worker
        BY <1>0, <2>8, <3>2 DEF Schedule, client, PollType
      <4> QED BY <1>0, <4>1
              DEF FinishesReported, ReportCovers, LosesUnreported, Held, InFlight, Handling
    <3> QED BY <3>1, <3>2
  <2>9. CASE HandleReply(n) \/ RefuseOrphan(n)
    BY <1>0, <2>9, PollIdle DEF HandleReply, Threads, RefuseOrphan
  <2> QED BY <2>1, <2>2, <2>3, <2>4, <2>5, <2>6, <2>7, <2>8, <2>9
          DEF PollStep, CleanupDeadJob, FailMissingJob
<1> QED BY <1>1, <1>2 DEF PollInv

\* Every step keeps what is known of the polls of all clients.
LEMMA PollInvStep == TypeOK /\ PollInv /\ [Next]_vars => PollInv'
<1> SUFFICES ASSUME TypeOK, PollInv, [Next]_vars PROVE PollInv'
  OBVIOUS
<1>1. CASE UNCHANGED vars
  BY <1>1, PollUntouched DEF vars, PollInv
<1>2. CASE \E n \in Nodes : PollStep(n)
  BY <1>2, PollStepInv
<1>3. ASSUME NEW n \in Nodes, GracefulExit(n) PROVE PollInv'
  <2>1. poll'[n].pc = "sent" /\ Held(n) = {} /\ worker' = worker
    BY <1>3 DEF GracefulExit, LastPoll, CanExit, TypeOK, NoPoll
  <2>2. (FinishesReported(n) /\ ReportCovers(n) /\ LosesUnreported(n))'
    BY <2>1 DEF FinishesReported, ReportCovers, LosesUnreported, Held
  <2>3. \A m \in Nodes \ {n} : poll'[m] = poll[m] /\ worker'[m] = worker[m]
    BY <1>3 DEF GracefulExit, LastPoll, TypeOK
  <2> QED BY <2>2, <2>3, PollUntouched DEF PollInv
<1>4. ASSUME NEW n \in Nodes, StartClient(n) PROVE PollInv'
  BY <1>4, PollUntouched DEF StartClient, PollInv
<1>5. ASSUME NEW n \in Nodes, Fault(n) PROVE PollInv'
  <2>1. \A m \in Nodes \ {n} : poll'[m] = poll[m] /\ worker'[m] = worker[m]
    BY <1>5 DEF Fault, LosePoll, Crash, TwoHoursPass, TypeOK, client
  <2>2. CASE poll'[n] = NoPoll
    BY <2>1, <2>2, PollIdle, PollUntouched DEF PollInv, NoPoll
  <2>3. CASE poll'[n] = poll[n]
    <3>1. worker'[n] = worker[n] \/ Held(n)' \subseteq Held(n)
      BY <1>5 DEF Fault, LosePoll, Crash, TwoHoursPass, TypeOK, client, Held
    <3> QED BY <2>1, <2>3, <3>1, PollUntouched DEF PollInv
  <2> QED BY <1>5, <2>2, <2>3 DEF Fault, LosePoll, Crash, TwoHoursPass, TypeOK
<1>6. ASSUME NEW n \in Nodes, NEW j \in Jobs, JobStep(n, j) PROVE PollInv'
  <2>1. poll' = poll /\ \A m \in Nodes : Held(m)' \subseteq Held(m)
    <3>1. /\ poll' = poll
          /\ \/ worker' = worker
             \/ worker[n][j] # "none" /\ \E p \in Phases : worker' = [worker EXCEPT ![n][j] = p]
      BY <1>6 DEF JobStep, LaunchChild, ReleaseChild, EndJob, ForgetThread, client, Phases
    <3>2. CASE worker' = worker
      BY <3>1, <3>2 DEF Held
    <3>3. ASSUME NEW p \in Phases, worker[n][j] # "none", worker' = [worker EXCEPT ![n][j] = p]
          PROVE  \A m \in Nodes : Held(m)' \subseteq Held(m)
      BY <3>3 DEF Held, TypeOK
    <3> QED BY <3>1, <3>2, <3>3
  <2> QED BY <2>1, PollUntouched DEF PollInv
<1>7. CASE UserStep
  <2>1. poll' = poll /\ worker' = worker
    BY <1>7 DEF UserStep, KillJob, DeleteJob, RestartJob, RestartFailedChildren,
                ReloadClient, client
  <2> QED BY <2>1, PollUntouched DEF PollInv
<1> QED BY <1>1, <1>2, <1>3, <1>4, <1>5, <1>6, <1>7 DEF Next

-----------------------------------------------------------------------------
(* The theorems.                                                           *)

\* The inductive invariant holds initially.
LEMMA InvInit == Init => IInv
<1> SUFFICES ASSUME Init PROVE IInv
  OBVIOUS
<1>1. \A n \in Nodes : poll[n].pc = "idle"
  BY DEF Init, NoPoll
<1> QED BY <1>1, TypeInit
        DEF IInv, PollInv, FinishesReported, ReportCovers, LosesUnreported, InFlight, Handling

\* The inductive invariant holds in every reachable state.
LEMMA Invariance == Spec => []IInv
<1>1. IInv /\ [Next]_vars => IInv'
  BY TypeStep, PollInvStep DEF IInv
<1> QED BY InvInit, <1>1, PTL DEF Spec

\* Whatever is lost, killed, restarted or crashes, with any number of jobs and
\* nodes: every row keeps a status of the column, every poll its shape.
THEOREM TypeCorrect == Spec => []TypeOK
<1>1. IInv => TypeOK
  BY DEF IInv
<1> QED BY Invariance, <1>1, PTL

\* The loop of views.py:666-672 never fails a job that has a thread on the node
\* that polls, for any number of jobs and nodes and any number of faults.
THEOREM LostNeverRuns == Spec => []LostIsLost
<1>1. IInv => LostIsLost
  BY DEF IInv, PollInv, LosesUnreported, ReportCovers, LostIsLost, Held, InFlight, Handling,
         TypeOK, PollType
<1> QED BY Invariance, <1>1, PTL

-----------------------------------------------------------------------------
(* One machine at a time runs a job as long as users leave the farm alone,  *)
(* whatever is lost, delayed or crashes.  A job is given away only while it *)
(* is "ready"; the proof shows that a job some node still knows of is never *)
(* "ready" again, and never changes node.                                   *)

\* The statuses of a job that was never given to a node.
Fresh == {"unborn", "created", "ready"}

\* The database has j on node n, and will not give it to another one.
Owned(j, n) == node[j] = n /\ status[j] \notin Fresh

ThreadsOwned(n) == \A j \in Jobs : worker[n][j] # "none" => Owned(j, n)

ReplyOwned(n) == poll[n].pc = "reply" => \A j \in poll[n].jobs : Owned(j, n)

\* A row that is saved back was read after it was given away.
LoopOwned(n) ==
  poll[n].pc \in {"cleanup", "lost"} => \A t \in poll[n].todo : Owned(t[1], t[2])

Ownership == \A n \in Nodes : ThreadsOwned(n) /\ ReplyOwned(n) /\ LoopOwned(n)

\* Nothing was used of a budget, and so no user has acted.
Unused(kind) == budget[kind] = Budget[kind]

UsersAway == Unused("user")

XInv == IInv /\ UsersAway /\ Ownership

-----------------------------------------------------------------------------
(* What a step does to the budget of faults and user requests.             *)

\* No budget is exceeded.
Bounded == \A kind \in Faults : budget[kind] <= Budget[kind]

\* The budget is bounded initially.
LEMMA BoundedInit == Init => Bounded
BY ConstantsAssumption DEF Init, Bounded

\* Nothing was used of a budget that is what it was at the beginning.
LEMMA UnusedIsUsed ==
  ASSUME TypeOK, NEW kind \in Faults
  PROVE  Unused(kind) <=> Used(kind) = 0
<1>1. budget[kind] \in Nat /\ Budget[kind] \in Nat
  BY ConstantsAssumption DEF TypeOK
<1> QED BY <1>1 DEF Unused, Used

\* A step that leaves a budget as it is at the beginning is not of that kind.
LEMMA NothingSpent ==
  ASSUME TypeOK, NEW kind \in Faults, Unused(kind), Unused(kind)'
  PROVE  ~Spend(kind)
<1>1. budget \in [Faults -> Nat]
  BY DEF TypeOK
<1> QED BY <1>1 DEF Unused, Spend

\* Users do not act as long as nothing of their budget is used.
LEMMA AwayIsAway ==
  ASSUME TypeOK, UsersAway, UsersAway'
  PROVE  ~UserStep
BY NothingSpent DEF UsersAway, Faults, UserStep, KillJob, DeleteJob, RestartJob,
   RestartFailedChildren, ReloadClient

\* Budgets shrink.
LEMMA BudgetShrinks ==
  ASSUME TypeOK, Bounded, [Next]_vars
  PROVE  /\ Bounded'
         /\ \A kind \in Faults : Unused(kind)' => Unused(kind)
<1>0. budget \in [Faults -> Nat] /\ Budget \in [Faults -> Nat]
  BY ConstantsAssumption DEF TypeOK
<1>1. CASE budget' = budget
  BY <1>1 DEF Bounded, Unused
<1>2. ASSUME NEW kind \in Faults, Spend(kind)
      PROVE  Bounded' /\ \A k \in Faults : Unused(k)' => Unused(k)
  BY <1>0, <1>2 DEF Spend, Bounded, Unused
<1>3. ASSUME NEW m \in Nodes, GracefulExit(m) \/ StartClient(m) \/ PollStep(m)
      PROVE  budget' = budget
  BY <1>3 DEF PollStep, ReadRunning, ReadFinished, BeginCleanup, CleanupDeadJob,
           DiscoverNode, FinishJob, FindMissingJobs, FailMissingJob, FailLostJob,
           Schedule, HandleReply, RefuseOrphan, GracefulExit, StartClient
<1>4. ASSUME NEW m \in Nodes, NEW k \in Jobs, JobStep(m, k) PROVE budget' = budget
  BY <1>4 DEF JobStep, LaunchChild, ReleaseChild, EndJob, ForgetThread
<1>5. ASSUME NEW m \in Nodes, Fault(m)
      PROVE  budget' = budget \/ \E kind \in Faults : Spend(kind)
  BY <1>5 DEF Fault, LosePoll, Crash, TwoHoursPass, Faults
<1>6. CASE UserStep
  BY <1>2, <1>6 DEF UserStep, KillJob, DeleteJob, RestartJob, RestartFailedChildren,
              ReloadClient, Faults
<1> QED BY <1>1, <1>2, <1>3, <1>4, <1>5, <1>6 DEF Next, vars

-----------------------------------------------------------------------------
(* The handlers make no row fresh.                                         *)

\* A save, with the update of the parent, makes no row ready that was not.
LEMMA SaveKeepsGiven ==
  ASSUME NEW st \in StatusColumn, NEW k \in Jobs, NEW s, s \notin Fresh,
         NEW j \in Jobs, st[j] \notin Fresh
  PROVE  SaveAndNotify(st, k, s)[j] \notin Fresh
<1> DEFINE saved == [st EXCEPT ![k] = s]
<1>1. saved[j] \notin Fresh /\ DOMAIN saved = Jobs
  BY DEF StatusColumn
<1>2. Verdict(saved, Parent[k]) \notin Fresh
  BY DEF Verdict, Fresh
<1>3. UpdateParentJob(saved, Parent[k])[j] \notin Fresh
  <2> HIDE DEF saved
  <2> QED BY <1>1, <1>2 DEF UpdateParentJob
<1> QED BY <1>3 DEF SaveAndNotify

\* Deleting rows makes no row ready.
LEMMA DeleteKeepsGiven ==
  ASSUME NEW st, NEW S, NEW j \in Jobs, st[j] \notin Fresh
  PROVE  DeleteRows(st, S)[j] \notin Fresh
BY DEF DeleteRows, Fresh

\* Marking jobs as running makes no row ready.
LEMMA MarkKeepsGiven ==
  ASSUME NEW st, NEW S, NEW j \in Jobs, st[j] \notin Fresh
  PROVE  MarkRunning(st, S)[j] \notin Fresh
BY DEF MarkRunning, Fresh

-----------------------------------------------------------------------------
\* No step takes a job from its node.
LEMMA OwnedForEver ==
  ASSUME XInv, [Next]_vars, UsersAway', NEW j \in Jobs, NEW n \in Nodes, Owned(j, n)
  PROVE  Owned(j, n)'
<1> USE DEF XInv, IInv
<1>1. CASE status' = status /\ node' = node
  BY <1>1 DEF Owned
<1>2. ASSUME NEW m \in Nodes, NEW phase \in {"cleanup", "lost"}, FailLostJob(m, phase)
      PROVE  Owned(j, n)'
  <2>1. PICK t \in poll[m].todo :
          /\ poll[m].pc = phase
          /\ status' = SaveAndNotify(status, t[1], "failed")
          /\ node' = [node EXCEPT ![t[1]] = t[2]]
    BY <1>2 DEF FailLostJob
  <2>2. t[1] \in Jobs /\ t[2] \in Nodes
    BY DEF TypeOK, PollType
  <2>3. node' = node
    BY <2>1, <2>2 DEF Ownership, LoopOwned, Owned, TypeOK
  <2>4. status'[j] \notin Fresh
    BY <2>1, <2>2, SaveKeepsGiven DEF Owned, TypeOK, StatusColumn, Fresh
  <2> QED BY <2>3, <2>4 DEF Owned
<1>3. ASSUME NEW m \in Nodes, DiscoverNode(m) PROVE Owned(j, n)'
  BY <1>3, MarkKeepsGiven DEF DiscoverNode, Owned
<1>4. ASSUME NEW m \in Nodes, FinishJob(m) PROVE Owned(j, n)'
  <2>1. PICK t \in poll[m].todo :
          /\ poll[m].pc = "finish"
          /\ status' = IF Exists(status, t[1])
                       THEN SaveAndNotify(status, t[1], poll[m].finished[t[1]])
                       ELSE status
          /\ node' = node
    BY <1>4 DEF FinishJob
  <2>2. t[1] \in Jobs
    BY DEF TypeOK, PollType
  <2>3. poll[m].finished[t[1]] \notin Fresh
    BY <2>2, ZenonT(40) DEF TypeOK, PollType, Outcomes, NoResult, Fresh
  <2> QED BY <2>1, <2>2, <2>3, SaveKeepsGiven DEF Owned, TypeOK, StatusColumn
<1>5. ASSUME NEW m \in Nodes, Schedule(m) PROVE Owned(j, n)'
  <2>1. ASSUME NEW k \in Best(m),
               status' = [DeleteRows(status, Children(status, k)) EXCEPT ![k] = "reserved"],
               node' = [node EXCEPT ![k] = m]
        PROVE  Owned(j, n)'
    <3>1. k \in Jobs /\ status[k] = "ready"
      BY DEF Best, Runnable, MayReserve
    <3>2. k # j
      BY <3>1 DEF Owned, Fresh
    <3>3. DeleteRows(status, Children(status, k)) \in StatusColumn
      BY DeleteRowsType DEF TypeOK, StatusColumn
    <3>4. status'[j] \notin Fresh
      BY <2>1, <3>2, <3>3, DeleteKeepsGiven DEF Owned, StatusColumn
    <3> QED BY <2>1, <3>2, <3>4 DEF Owned, TypeOK
  <2> QED BY <1>1, <1>5, <2>1 DEF Schedule
<1>6. ASSUME NEW m \in Nodes, NEW k \in Jobs, NEW c \in Jobs,
             LaunchChild(m, k, c) \/ ReleaseChild(m, k, c)
      PROVE  Owned(j, n)'
  <2>1. c # j
    BY <1>6 DEF LaunchChild, ReleaseChild, Owned, Fresh
  <2> QED BY <1>6, <2>1 DEF LaunchChild, ReleaseChild, Owned, TypeOK
<1>7. CASE UserStep
  BY <1>7, AwayIsAway
<1>8. CASE UNCHANGED vars
  BY <1>1, <1>8 DEF vars
<1>9. ASSUME NEW m \in Nodes, PollStep(m) PROVE Owned(j, n)'
  BY <1>1, <1>2, <1>3, <1>4, <1>5, <1>9
  DEF PollStep, ReadRunning, ReadFinished, BeginCleanup, CleanupDeadJob,
      FindMissingJobs, FailMissingJob, HandleReply, Threads, RefuseOrphan, db
<1>10. ASSUME NEW m \in Nodes, GracefulExit(m) \/ StartClient(m) \/ Fault(m)
       PROVE  Owned(j, n)'
  BY <1>1, <1>10 DEF GracefulExit, LastPoll, StartClient, Fault, LosePoll, Crash, TwoHoursPass, db
<1>11. ASSUME NEW m \in Nodes, NEW k \in Jobs, JobStep(m, k) PROVE Owned(j, n)'
  BY <1>1, <1>6, <1>11 DEF JobStep, EndJob, ForgetThread, db
<1> QED BY <1>7, <1>8, <1>9, <1>10, <1>11 DEF Next

-----------------------------------------------------------------------------
(* What a poll or a thread speaks of is owned after every step.            *)

\* Threads and stored results belong to the node of their job after every step.
LEMMA ThreadsStayOwned ==
  ASSUME XInv, [Next]_vars, UsersAway', NEW n \in Nodes
  PROVE  ThreadsOwned(n)'
<1> SUFFICES ASSUME NEW j \in Jobs, worker'[n][j] # "none" PROVE Owned(j, n)'
  BY DEF ThreadsOwned
<1> USE DEF XInv, IInv
<1>1. CASE worker[n][j] # "none"
  BY <1>1, OwnedForEver DEF Ownership, ThreadsOwned
<1>2. CASE worker[n][j] = "none"
  <2>1. HandleReply(n) /\ j \in poll[n].jobs
    <3>1. ASSUME NEW m \in Nodes, HandleReply(m) PROVE m = n /\ j \in poll[n].jobs
      <4>1. PICK S \in SUBSET (poll[m].jobs \ Held(m)), K \in {{}, poll[m].kill} :
              worker' = [worker EXCEPT ![m] =
                           [i \in Jobs |->
                              IF i \in K /\ (i \in S \/ @[i] \in {"working", "launched"})
                              THEN "killed"
                              ELSE IF i \in S THEN "working" ELSE @[i]]]
        BY <3>1 DEF HandleReply, Threads
      <4>2. m = n
        BY <1>2, <4>1 DEF TypeOK
      <4>3. j \in S
        BY <1>2, <4>1, <4>2 DEF TypeOK
      <4> QED BY <4>2, <4>3
    <3>2. ASSUME NEW m \in Nodes, PollStep(m) PROVE HandleReply(m)
      BY <1>2, <3>2 DEF PollStep, ReadRunning, ReadFinished, BeginCleanup, CleanupDeadJob,
                        DiscoverNode, FinishJob, FindMissingJobs, FailMissingJob,
                        FailLostJob, Schedule, RefuseOrphan, client
    <3>3. ASSUME NEW m \in Nodes, GracefulExit(m) \/ StartClient(m) \/ Fault(m) PROVE FALSE
      <4>1. CASE Crash(m)
        <5>1. worker' = [worker EXCEPT ![m] = [i \in Jobs |-> "none"]]
          BY <4>1 DEF Crash
        <5> QED BY <1>2, <5>1 DEF TypeOK
      <4>2. CASE ~Crash(m)
        BY <1>2, <3>3, <4>2 DEF GracefulExit, LastPoll, StartClient, Fault, LosePoll, TwoHoursPass, client
      <4> QED BY <4>1, <4>2
    <3>4. ASSUME NEW m \in Nodes, NEW k \in Jobs, JobStep(m, k) PROVE FALSE
      <4>1. \/ worker' = worker
            \/ worker[m][k] # "none" /\ \E p \in Phases : worker' = [worker EXCEPT ![m][k] = p]
        BY <3>4 DEF JobStep, LaunchChild, ReleaseChild, EndJob, ForgetThread, client, Phases
      <4>2. ASSUME NEW p, worker[m][k] # "none", worker' = [worker EXCEPT ![m][k] = p]
            PROVE  worker'[n][j] = worker[n][j]
        <5>1. CASE m = n /\ k = j
          BY <1>2, <4>2, <5>1
        <5>2. CASE m # n \/ k # j
          BY <4>2, <5>2 DEF TypeOK
        <5> QED BY <5>1, <5>2
      <4> QED BY <1>2, <4>1, <4>2
    <3>5. CASE UserStep \/ UNCHANGED vars
      BY <1>2, <3>5 DEF UserStep, KillJob, DeleteJob, RestartJob, RestartFailedChildren,
                        ReloadClient, client, vars
    <3> QED BY <3>1, <3>2, <3>3, <3>4, <3>5 DEF Next
  <2>2. Owned(j, n)
    BY <2>1 DEF HandleReply, Threads, Ownership, ReplyOwned
  <2> QED BY <2>2, OwnedForEver
<1> QED BY <1>1, <1>2

\* The lists of a poll speak only of jobs of its node after every step.
LEMMA PollStaysOwned ==
  ASSUME XInv, [Next]_vars, UsersAway', NEW n \in Nodes
  PROVE  ReplyOwned(n)' /\ LoopOwned(n)'
<1> USE DEF XInv, IInv
<1>0. /\ ReplyOwned(n) /\ LoopOwned(n)
      /\ poll[n] \in PollType
      /\ DOMAIN poll = Nodes
      /\ NoPoll.pc = "idle"
      /\ \A k \in Jobs, m \in Nodes : Owned(k, m) => Owned(k, m)'
  BY OwnedForEver DEF Ownership, TypeOK, NoPoll
\* The poll is idle, or speaks of no more than it did.
<1>1. CASE /\ poll'[n].pc = poll[n].pc
           /\ poll'[n].jobs = poll[n].jobs /\ poll'[n].todo \subseteq poll[n].todo
  BY <1>0, <1>1 DEF ReplyOwned, LoopOwned, PollType
<1>2. CASE poll'[n].pc \notin {"reply", "cleanup", "lost"}
  BY <1>2 DEF ReplyOwned, LoopOwned
<1>3. CASE BeginCleanup(n)
  <2>1. /\ poll'[n].pc = "cleanup" /\ poll'[n].todo = ActiveOn(overdue)
        /\ status' = status /\ node' = node
    BY <1>0, <1>3 DEF BeginCleanup, db, PollType
  <2>2. \A t \in ActiveOn(overdue) : Owned(t[1], t[2])
    BY DEF ActiveOn, Owned, Fresh
  <2> QED BY <2>1, <2>2 DEF ReplyOwned, LoopOwned, Owned
<1>4. CASE FindMissingJobs(n)
  <2>1. /\ poll'[n].pc = "lost" /\ poll'[n].todo = Missing(n)
        /\ status' = status /\ node' = node
    BY <1>0, <1>4 DEF FindMissingJobs, db, PollType
  <2>2. \A t \in Missing(n) : Owned(t[1], t[2])
    BY DEF Missing, ActiveOn, Owned, Fresh
  <2> QED BY <2>1, <2>2 DEF ReplyOwned, LoopOwned, Owned
<1>5. CASE Schedule(n)
  <2>1. CASE ~up[n]
    BY <1>0, <1>2, <1>5, <2>1 DEF Schedule
  <2>2. CASE up[n]
    <3>1. poll'[n].pc = "reply" /\ poll'[n].jobs = ToSubmit(status', node', n)
      BY <1>0, <1>5, <2>2 DEF Schedule, PollType
    <3>2. \A j \in ToSubmit(status', node', n) : Owned(j, n)'
      BY DEF ToSubmit, Owned, Fresh
    <3> QED BY <3>1, <3>2 DEF ReplyOwned, LoopOwned
  <2> QED BY <2>1, <2>2
<1>6. ASSUME NEW m \in Nodes, PollStep(m) PROVE ReplyOwned(n)' /\ LoopOwned(n)'
  <2>1. CASE m # n
    <3>1. poll'[n] = poll[n]
      BY <1>6, <2>1 DEF PollStep, ReadRunning, ReadFinished, BeginCleanup, CleanupDeadJob,
           DiscoverNode, FinishJob, FindMissingJobs, FailMissingJob, FailLostJob,
           Schedule, HandleReply, Threads, RefuseOrphan, TypeOK
    <3> QED BY <1>1, <3>1
  <2>2. CASE ReadRunning(n) \/ ReadFinished(n) \/ HandleReply(n) \/ RefuseOrphan(n)
    <3>1. poll'[n].pc \in {"keys", "sent", "idle"}
      BY <1>0, <2>2 DEF ReadRunning, ReadFinished, HandleReply, Threads, RefuseOrphan, NoPoll, PollType
    <3> QED BY <1>2, <3>1
  <2>3. CASE DiscoverNode(n)
    <3>1. poll'[n].pc \in {"finish", "idle"}
      BY <1>0, <2>3 DEF DiscoverNode, PollType
    <3> QED BY <1>2, <3>1
  <2>4. ASSUME NEW phase, FailLostJob(n, phase) PROVE ReplyOwned(n)' /\ LoopOwned(n)'
    BY <1>0, <1>1, <2>4 DEF FailLostJob, PollType
  <2>5. CASE FinishJob(n)
    BY <1>0, <1>1, <2>5 DEF FinishJob, PollType
  <2> QED BY <1>3, <1>4, <1>5, <1>6, <2>1, <2>2, <2>3, <2>4, <2>5
          DEF PollStep, CleanupDeadJob, FailMissingJob
<1>7. ASSUME NEW m \in Nodes, GracefulExit(m) \/ StartClient(m) \/ Fault(m)
      PROVE  ReplyOwned(n)' /\ LoopOwned(n)'
  <2>1. poll'[n] = poll[n] \/ poll'[n].pc \in {"sent", "idle"}
    <3>1. CASE m # n
      BY <1>7, <3>1 DEF GracefulExit, LastPoll, StartClient, Fault, LosePoll, Crash, TwoHoursPass, TypeOK
    <3>2. CASE GracefulExit(n)
      BY <1>0, <3>2 DEF GracefulExit, LastPoll, NoPoll
    <3>3. CASE StartClient(n) \/ LosePoll(n) \/ Crash(n) \/ TwoHoursPass(n)
      BY <1>0, <3>3 DEF StartClient, LosePoll, Crash, TwoHoursPass
    <3> QED BY <1>7, <3>1, <3>2, <3>3 DEF Fault
  <2> QED BY <1>1, <1>2, <2>1
<1>8. ASSUME NEW m \in Nodes, NEW k \in Jobs, JobStep(m, k)
      PROVE  ReplyOwned(n)' /\ LoopOwned(n)'
  BY <1>1, <1>8 DEF JobStep, LaunchChild, ReleaseChild, EndJob, ForgetThread
<1>9. CASE UserStep \/ UNCHANGED vars
  BY <1>1, <1>9 DEF UserStep, KillJob, DeleteJob, RestartJob, RestartFailedChildren,
                    ReloadClient, vars
<1> QED BY <1>6, <1>7, <1>8, <1>9 DEF Next

-----------------------------------------------------------------------------
\* The invariants hold until a user acts.
LEMMA ExclusionInv == Spec => [](IInv /\ Bounded /\ (UsersAway => XInv))
<1>1. Init => IInv /\ Bounded /\ XInv
  <2> SUFFICES ASSUME Init PROVE Bounded /\ UsersAway /\ Ownership
    BY InvInit DEF XInv
  <2>1. \A n \in Nodes : poll[n].pc = "idle" /\ \A j \in Jobs : worker[n][j] = "none"
    BY DEF Init, NoPoll
  <2>2. Ownership
    BY <2>1 DEF Ownership, ThreadsOwned, ReplyOwned, LoopOwned
  <2> QED BY <2>2, BoundedInit DEF UsersAway, Unused, Init
<1>2. IInv /\ Bounded /\ (UsersAway => XInv) /\ [Next]_vars
        => (IInv /\ Bounded /\ (UsersAway => XInv))'
  <2> SUFFICES ASSUME IInv, Bounded, UsersAway => XInv, [Next]_vars
               PROVE  (IInv /\ Bounded /\ (UsersAway => XInv))'
    OBVIOUS
  <2>1. IInv' /\ Bounded'
    BY TypeStep, PollInvStep, BudgetShrinks DEF IInv
  <2>2. ASSUME UsersAway' PROVE XInv'
    <3>1. UsersAway /\ XInv
      BY <2>2, BudgetShrinks DEF UsersAway, IInv, Faults
    <3> QED BY <2>1, <2>2, <3>1, ThreadsStayOwned, PollStaysOwned DEF XInv, Ownership
  <2> QED BY <2>1, <2>2
<1> QED BY <1>1, <1>2, PTL DEF Spec

\* Until a user acts, no job has live threads on two machines: for any number of
\* jobs, nodes, lost polls, crashes and two-hour silences.
THEOREM ExclusiveWithoutUsers == Spec => [](Used("user") = 0 => ExclusiveExecution)
<1>1. IInv /\ (UsersAway => XInv) => (Used("user") = 0 => ExclusiveExecution)
  <2> SUFFICES ASSUME IInv, UsersAway => XInv, Used("user") = 0 PROVE ExclusiveExecution
    OBVIOUS
  <2>1. XInv
    BY UnusedIsUsed DEF UsersAway, IInv, Faults
  <2> QED BY <2>1 DEF XInv, Ownership, ThreadsOwned, Owned, ExclusiveExecution, Executing
<1> QED BY <1>1, ExclusionInv, PTL

-----------------------------------------------------------------------------
(* What the request of a poll and its reply say of the jobs they name.     *)

\* A job that a poll has heard of, as running or as finished.
Past(j) == status[j] \notin Fresh \cup {"reserved"}

\* The poll of n has its list of results.
Posted(n) == poll[n].pc \notin {"idle", "keys"}

Sent(n) == Reported(poll[n].finished)

\* What a request names belongs to its node, and so do the results still to be sent.
ReportOwned(n) ==
  /\ poll[n].pc # "idle" => \A j \in poll[n].running : Owned(j, n)
  /\ Posted(n) => \A j \in Sent(n) : Owned(j, n)
  /\ \A j \in Reported(result[n]) : Owned(j, n)

\* What a request named is past once its loops are done.
ReportPast(n) ==
  /\ poll[n].pc \in {"finish", "lost", "reply"} => \A j \in poll[n].running : Past(j)
  /\ poll[n].pc = "finish" => \A j \in Sent(n) : <<j, n>> \in poll[n].todo \/ Past(j)
  /\ poll[n].pc \in {"lost", "reply"} => \A j \in Sent(n) : Past(j)

\* A result that a request lacks is one of a job that it calls running.
ResultCovered(n) == Posted(n) => Reported(result[n]) \subseteq poll[n].running \cup Sent(n)

\* No reply brings a job that its request named.
ReplyNew(n) == poll[n].pc = "reply" => poll[n].jobs \cap (poll[n].running \cup Sent(n)) = {}

ReportInv == \A n \in Nodes : ReportOwned(n) /\ ReportPast(n) /\ ResultCovered(n) /\ ReplyNew(n)

\* A job that was launched has a parent that was given away; no row is deleted.
FamilyGiven ==
  \A j \in Jobs : /\ status[j] # "deleted"
                  /\ (status[j] # "unborn" /\ Parent[j] # NoJob) => status[Parent[j]] \notin Fresh

\* Inductive as long as users do not act: implies SubmitUnique.
AInv == XInv /\ ReportInv /\ FamilyGiven

-----------------------------------------------------------------------------
(* What a step may do to the status of a job.                              *)

\* The handler of m may save job k with status s.
Saves(m, k, s) ==
  \/ poll[m].pc \in {"cleanup", "lost"} /\ s = "failed" /\ \E i \in Nodes : <<k, i>> \in poll[m].todo
  \/ poll[m].pc = "finish" /\ s = poll[m].finished[k] /\ k \in Sent(m)

\* and its loop has then gone through k.
PassedBy(m, k) ==
  \E i \in Nodes : /\ <<k, i>> \in poll[m].todo /\ poll'[m].todo = poll[m].todo \ {<<k, i>>}
                  /\ poll'[m].pc = poll[m].pc /\ poll'[m].finished = poll[m].finished

\* A job that nobody ran yet goes on towards its first machine.
Advances(j) ==
  \/ /\ status[j] = "unborn" /\ status'[j] \in {"created", "ready"}
     /\ Parent[j] \in Jobs /\ \E n \in Nodes : Owned(Parent[j], n)
     /\ \A d \in Deps[j] : status[d] \notin Absent
  \/ status[j] = "created" /\ status'[j] = "ready"
  \/ status[j] = "ready" /\ status'[j] = "reserved" /\ DependenciesMet(j)

Marked(j) ==
  \E m \in Nodes : /\ poll[m].pc = "cleanup" /\ j \in poll[m].running
                   /\ status'[j] = "running" /\ poll'[m].pc \in {"finish", "idle"}

Saved(j) == \E m \in Nodes : Saves(m, j, status'[j]) /\ PassedBy(m, j)

\* Parent j takes its verdict when the result of child k is saved.
Judged(j) ==
  /\ status[j] = "waiting" /\ status'[j] \in {"success", "failed"}
  /\ \E m \in Nodes, k \in Jobs :
       /\ Parent[k] = j /\ k # j
       /\ \E s \in {"success", "failed"} : Saves(m, k, s)
       /\ \A c \in Jobs \ {k} : Parent[c] = j /\ status[c] \notin Absent
                                  => status[c] \in {"success", "failed"}

\* A save changes the status of its row and lets at most its parent take a verdict.
LEMMA SaveMoves ==
  ASSUME NEW st \in StatusColumn, NEW k \in Jobs, NEW s \in Outcomes, NEW j \in Jobs,
         SaveAndNotify(st, k, s)[j] # st[j]
  PROVE  \/ j = k /\ SaveAndNotify(st, k, s)[j] = s
         \/ /\ j # k /\ Parent[k] = j /\ st[j] = "waiting"
            /\ SaveAndNotify(st, k, s)[j] \in {"success", "failed"}
            /\ s \in {"success", "failed"}
            /\ \A c \in Jobs \ {k} : Parent[c] = j /\ st[c] \notin Absent
                                       => st[c] \in {"success", "failed"}
<1> DEFINE saved == [st EXCEPT ![k] = s]
           p == Parent[k]
<1>1. saved \in [DOMAIN st -> Statuses \cup Absent] /\ DOMAIN st = Jobs
  BY DEF StatusColumn, Outcomes, Statuses
<1>2. saved[k] = s /\ \A c \in Jobs \ {k} : saved[c] = st[c]
  BY <1>1
<1>3. s \notin Absent
  BY DEF Outcomes, Absent
<1>4. CASE ~(Exists(saved, p) /\ saved[p] = "waiting" /\ ChildrenDone(saved, p))
  <2>1. SaveAndNotify(st, k, s) = saved
    BY <1>4 DEF SaveAndNotify, UpdateParentJob
  <2> QED BY <1>2, <2>1
<1>5. CASE Exists(saved, p) /\ saved[p] = "waiting" /\ ChildrenDone(saved, p)
  <2>1. SaveAndNotify(st, k, s) = [saved EXCEPT ![p] = Verdict(saved, p)]
    BY <1>5 DEF SaveAndNotify, UpdateParentJob
  <2>2. Verdict(saved, p) \in {"success", "failed"}
    BY DEF Verdict
  <2>3. \A c \in Jobs : Parent[c] = p /\ saved[c] \notin Absent => saved[c] \in {"success", "failed"}
    <3> HIDE DEF saved, p
    <3>1. SUFFICES ASSUME NEW c \in Jobs, Parent[c] = p, saved[c] \notin Absent
                   PROVE  c \in Children(saved, p)
      BY <1>5 DEF ChildrenDone
    <3> QED BY <3>1, ConstantsAssumption DEF Children, Exists
  <2>4. s \in {"success", "failed"}
    BY <1>2, <1>3, <2>3
  <2>5. p # k
    BY <1>2, <1>5, <2>4
  <2> HIDE DEF saved, p
  <2>6. CASE j = k
    BY <1>1, <1>2, <2>1, <2>5, <2>6
  <2>7. CASE j # k
    <3>1. j = p
      BY <1>1, <1>2, <2>1, <2>7
    <3> QED BY <1>1, <1>2, <1>5, <2>1, <2>2, <2>3, <2>4, <2>7, <3>1 DEF p
  <2> QED BY <2>6, <2>7
<1> QED BY <1>4, <1>5

\* A job that is ready was never launched, and has no children to delete.
LEMMA ReadyHasNoChildren ==
  ASSUME TypeOK, FamilyGiven, NEW k \in Jobs, status[k] = "ready"
  PROVE  DeleteRows(status, Children(status, k)) = status
<1>1. Children(status, k) = {}
  <2>1. k # NoJob
    BY ConstantsAssumption
  <2> QED BY <2>1 DEF Children, Exists, Absent, FamilyGiven, Fresh
<1>2. DeleteRows(status, {}) = status
  BY DEF DeleteRows, TypeOK
<1> QED BY <1>1, <1>2

\* The four ways in which the status of a job changes.
LEMMA StatusMoves ==
  ASSUME AInv, [Next]_vars, UsersAway', NEW j \in Jobs, status'[j] # status[j]
  PROVE  Advances(j) \/ Marked(j) \/ Saved(j) \/ Judged(j)
<1> USE DEF AInv, XInv, IInv
<1>0. /\ status \in StatusColumn /\ DOMAIN status = Jobs /\ DOMAIN poll = Nodes
      /\ \A n \in Nodes : poll[n] \in PollType
      /\ NoPoll.pc = "idle"
  BY DEF TypeOK, StatusColumn, NoPoll
\* A save of either loop: FailLostJob and FinishJob.
<1>1. ASSUME NEW m \in Nodes, NEW k \in Jobs, NEW s \in Outcomes, Saves(m, k, s), PassedBy(m, k),
             status' = SaveAndNotify(status, k, s)
      PROVE  Saved(j) \/ Judged(j)
  <2>1. CASE j = k /\ status'[j] = s
    BY <1>1, <2>1 DEF Saved
  <2>2. CASE ~(j = k /\ status'[j] = s)
    <3>1. /\ j # k /\ Parent[k] = j /\ status[j] = "waiting"
          /\ status'[j] \in {"success", "failed"}
          /\ s \in {"success", "failed"}
          /\ \A c \in Jobs \ {k} : Parent[c] = j /\ status[c] \notin Absent
                                     => status[c] \in {"success", "failed"}
      BY <1>0, <1>1, <2>2, SaveMoves
    <3> QED BY <1>1, <3>1 DEF Judged
  <2> QED BY <2>1, <2>2
<1>2. ASSUME NEW m \in Nodes, NEW phase \in {"cleanup", "lost"}, FailLostJob(m, phase)
      PROVE  Saved(j) \/ Judged(j)
  <2>1. PICK t \in poll[m].todo :
          /\ poll[m].pc = phase /\ status' = SaveAndNotify(status, t[1], "failed")
          /\ poll' = [poll EXCEPT ![m].todo = @ \ {t}]
    BY <1>2 DEF FailLostJob
  <2>2. t[1] \in Jobs /\ t[2] \in Nodes /\ t = <<t[1], t[2]>>
    BY <1>0 DEF PollType
  <2>3. Saves(m, t[1], "failed")
    BY <2>1, <2>2 DEF Saves
  <2>4. PassedBy(m, t[1])
    BY <1>0, <2>1, <2>2 DEF PassedBy, PollType
  <2> QED BY <1>1, <2>1, <2>2, <2>3, <2>4 DEF Outcomes
<1>3. ASSUME NEW m \in Nodes, FinishJob(m) PROVE Saved(j) \/ Judged(j)
  <2>1. PICK t \in poll[m].todo :
          /\ poll[m].pc = "finish"
          /\ status' = IF Exists(status, t[1])
                       THEN SaveAndNotify(status, t[1], poll[m].finished[t[1]])
                       ELSE status
          /\ poll' = [poll EXCEPT ![m].todo = @ \ {t}]
    BY <1>3 DEF FinishJob
  <2>2. t[1] \in Sent(m) /\ t[1] \in Jobs
    BY <2>1 DEF PollInv, FinishesReported, Sent, Reported
  <2>3. poll[m].finished[t[1]] \in Outcomes
    BY <1>0, <2>2 DEF Sent, Reported, PollType
  <2>4. Saves(m, t[1], poll[m].finished[t[1]])
    BY <2>1, <2>2 DEF Saves
  <2>5. t[2] \in Nodes /\ t = <<t[1], t[2]>>
    BY <1>0, <2>1 DEF PollType
  <2>6. PassedBy(m, t[1])
    BY <1>0, <2>1, <2>5 DEF PassedBy, PollType
  <2> QED BY <1>1, <2>1, <2>2, <2>3, <2>4, <2>6
<1>4. ASSUME NEW m \in Nodes, DiscoverNode(m) PROVE Marked(j)
  <2>1. status' = MarkRunning(status, poll[m].running) /\ poll[m].pc = "cleanup"
    BY <1>4 DEF DiscoverNode
  <2>2. poll'[m].pc \in {"finish", "idle"}
    BY <1>0, <1>4 DEF DiscoverNode, PollType
  <2>3. j \in poll[m].running /\ status'[j] = "running"
    BY <2>1 DEF MarkRunning
  <2> QED BY <2>1, <2>2, <2>3 DEF Marked
<1>5. ASSUME NEW m \in Nodes, Schedule(m) PROVE Advances(j)
  <2>1. PICK k \in Best(m) :
          status' = [DeleteRows(status, Children(status, k)) EXCEPT ![k] = "reserved"]
    BY <1>5 DEF Schedule
  <2>2. k \in Jobs /\ status[k] = "ready" /\ DependenciesMet(k)
    BY DEF Best, Runnable, MayReserve
  <2>3. status' = [status EXCEPT ![k] = "reserved"]
    BY <2>1, <2>2, ReadyHasNoChildren
  <2> QED BY <1>0, <2>2, <2>3 DEF Advances
<1>6. ASSUME NEW m \in Nodes, NEW k \in Jobs, NEW c \in Jobs,
             LaunchChild(m, k, c) \/ ReleaseChild(m, k, c)
      PROVE  Advances(j)
  <2>1. Owned(k, m) /\ Parent[c] = k
    BY <1>6 DEF LaunchChild, ReleaseChild, Ownership, ThreadsOwned
  <2>2. j = c
    BY <1>0, <1>6 DEF LaunchChild, ReleaseChild
  <2>3. CASE LaunchChild(m, k, c)
    <3>1. /\ status[c] = "unborn" /\ status'[c] \in {"created", "ready"}
          /\ \A d \in Deps[c] : status[d] \notin Absent
      BY <1>0, <2>3 DEF LaunchChild, Exists
    <3> QED BY <2>1, <2>2, <3>1 DEF Advances
  <2>4. CASE ReleaseChild(m, k, c)
    BY <1>0, <2>2, <2>4 DEF ReleaseChild, Advances
  <2> QED BY <1>6, <2>3, <2>4
<1>7. CASE UserStep
  BY <1>7, AwayIsAway
<1>8. CASE UNCHANGED vars
  BY <1>8 DEF vars
<1>9. ASSUME NEW m \in Nodes, PollStep(m) PROVE Marked(j) \/ Saved(j) \/ Judged(j) \/ Advances(j)
  BY <1>2, <1>3, <1>4, <1>5, <1>9
  DEF PollStep, ReadRunning, ReadFinished, BeginCleanup, CleanupDeadJob,
      FindMissingJobs, FailMissingJob, HandleReply, RefuseOrphan, db
<1>10. ASSUME NEW m \in Nodes, GracefulExit(m) \/ StartClient(m) \/ Fault(m)
       PROVE  FALSE
  BY <1>10 DEF GracefulExit, StartClient, Fault, LosePoll, Crash, TwoHoursPass, db
<1>11. ASSUME NEW m \in Nodes, NEW k \in Jobs, JobStep(m, k) PROVE Advances(j)
  BY <1>6, <1>11 DEF JobStep, EndJob, ForgetThread, db
<1> QED BY <1>7, <1>8, <1>9, <1>10, <1>11 DEF Next

\* What a handler saves is an outcome.
LEMMA SavesOutcome ==
  ASSUME TypeOK, NEW m \in Nodes, NEW k \in Jobs, NEW s, Saves(m, k, s)
  PROVE  s \in Outcomes
<1>1. poll[m].finished \in [Jobs -> Outcomes \cup {NoResult}]
  BY DEF TypeOK, PollType
<1>2. CASE s = "failed"
  BY <1>2 DEF Outcomes
<1>3. CASE s # "failed"
  BY <1>1, <1>3 DEF Saves, Sent, Reported
<1> QED BY <1>2, <1>3

\* A job that was given away stays so, and a poll does not forget what it heard.
LEMMA GivenForEver ==
  ASSUME AInv, [Next]_vars, UsersAway', NEW j \in Jobs
  PROVE  /\ status[j] \notin Fresh => status'[j] \notin Fresh
         /\ Past(j) => Past(j)'
         /\ status'[j] # "deleted"
<1> USE DEF AInv, XInv, IInv
<1>1. CASE status'[j] = status[j]
  BY <1>1 DEF FamilyGiven, Past
<1>2. CASE status'[j] # status[j]
  <2>1. Advances(j) \/ Marked(j) \/ Saved(j) \/ Judged(j)
    BY <1>2, StatusMoves
  <2>2. CASE Advances(j)
    BY <2>2 DEF Advances, Fresh, Past
  <2>3. CASE Marked(j) \/ Judged(j)
    BY <2>3 DEF Marked, Judged, Fresh, Past
  <2>4. CASE Saved(j)
    <3>1. status'[j] \in {"success", "failed", "waiting"}
      BY <2>4, SavesOutcome DEF Saved, Outcomes
    <3> QED BY <3>1 DEF Fresh, Past
  <2> QED BY <2>1, <2>2, <2>3, <2>4
<1> QED BY <1>1, <1>2

\* Families stay given.
LEMMA FamilyStep ==
  ASSUME AInv, [Next]_vars, UsersAway'
  PROVE  FamilyGiven'
<1> SUFFICES ASSUME NEW j \in Jobs
             PROVE  /\ status'[j] # "deleted"
                    /\ (status'[j] # "unborn" /\ Parent[j] # NoJob) => status'[Parent[j]] \notin Fresh
  BY DEF FamilyGiven
<1>1. status'[j] # "deleted"
  BY GivenForEver
<1>2. ASSUME status'[j] # "unborn", Parent[j] # NoJob PROVE status'[Parent[j]] \notin Fresh
  <2>1. Parent[j] \in Jobs
    BY <1>2, ConstantsAssumption
  <2>2. status[Parent[j]] \notin Fresh
    <3>1. CASE status[j] # "unborn"
      BY <1>2, <3>1 DEF AInv, FamilyGiven
    <3>2. CASE status[j] = "unborn"
      <4>1. Advances(j) \/ Marked(j) \/ Saved(j) \/ Judged(j)
        BY <1>2, <3>2, StatusMoves
      <4>2. CASE Advances(j)
        BY <3>2, <4>2 DEF Advances, Owned
      <4>3. CASE Marked(j)
        BY <3>2, <4>3 DEF Marked, AInv, ReportInv, ReportOwned, Owned, Fresh
      <4>4. CASE Judged(j)
        BY <3>2, <4>4 DEF Judged
      <4>5. CASE Saved(j)
        BY <3>2, <4>5 DEF Saved, Saves, AInv, XInv, Ownership, LoopOwned, ReportInv,
                          ReportOwned, Posted, Owned, Fresh
      <4> QED BY <4>1, <4>2, <4>3, <4>4, <4>5
    <3> QED BY <3>1, <3>2
  <2> QED BY <2>1, <2>2, GivenForEver
<1> QED BY <1>1, <1>2

-----------------------------------------------------------------------------
(* What a step may do to the poll, the threads and the results of a node.  *)

BusyPhases == {"working", "launched", "killed"}

Busy(n, j) == worker[n][j] \in BusyPhases

Quiet(n)       == worker'[n] = worker[n] /\ result'[n] = result[n]
SameRequest(n) == poll'[n].running = poll[n].running /\ poll'[n].finished = poll[n].finished

\* A step of another node, or one that concerns no poll, thread or result.
Still(n) == Quiet(n) /\ poll'[n] = poll[n]

Dropped(n) == Quiet(n) /\ poll'[n].pc = "idle"

\* A handler ends without a reply: the client has left, or a row has no parent.
Closed(n) ==
  /\ Dropped(n) /\ poll[n].pc \in {"cleanup", "lost"}
  /\ poll[n].pc = "lost" => \/ ~up[n]
                            \/ \E t \in poll[n].todo :
                                 Parent[t[1]] # NoJob /\ ~Exists(status, Parent[t[1]])

KeysRead(n) ==
  /\ Quiet(n) /\ poll[n].pc = "idle" /\ poll'[n].pc = "keys"
  /\ poll'[n].running = Held(n)
  /\ PromptWrapper => \A j \in Held(n) : worker[n][j] # "stored"

ResultsRead(n) ==
  /\ Quiet(n) /\ poll[n].pc = "keys" /\ poll'[n].pc = "sent"
  /\ poll'[n].running = poll[n].running /\ poll'[n].finished = result[n]

Left(n) ==
  /\ Quiet(n) /\ poll[n].pc = "idle" /\ poll'[n].pc = "sent"
  /\ Held(n) = {} /\ Reported(result[n]) = {}
  /\ poll'[n].running = {} /\ poll'[n].finished = NoResults

CleanupBegun(n) ==
  /\ Quiet(n) /\ SameRequest(n) /\ poll[n].pc = "sent" /\ poll'[n].pc = "cleanup"
  /\ poll'[n].todo = ActiveOn(overdue) /\ status' = status

LoopTurned(n) ==
  /\ Quiet(n) /\ SameRequest(n) /\ poll[n].pc \in {"cleanup", "lost"} /\ poll'[n].pc = poll[n].pc
  /\ poll'[n].todo \subseteq poll[n].todo

Discovered(n) ==
  /\ Quiet(n) /\ SameRequest(n) /\ poll[n].pc = "cleanup" /\ poll'[n].pc = "finish"
  /\ poll'[n].todo = {<<j, n>> : j \in Sent(n)} /\ n \notin overdue'
  /\ \A j \in poll[n].running : status[j] \notin Absent => status'[j] \in {"running", "terminating"}

TurnDone(n) ==
  /\ Quiet(n) /\ SameRequest(n) /\ poll[n].pc = "finish" /\ poll'[n].pc = "finish"
  /\ poll'[n].todo \subseteq poll[n].todo
  /\ \E k \in Jobs : /\ \A j \in Jobs \ {k} : <<j, n>> \in poll[n].todo => <<j, n>> \in poll'[n].todo
                     /\ status[k] \notin Absent => status'[k] = poll[n].finished[k]

MissingFound(n) ==
  /\ Quiet(n) /\ SameRequest(n) /\ poll[n].pc = "finish" /\ poll'[n].pc = "lost"
  /\ poll[n].todo = {} /\ poll'[n].todo = Missing(n) /\ status' = status

Replied(n) ==
  /\ Quiet(n) /\ SameRequest(n) /\ poll[n].pc = "lost" /\ poll'[n].pc = "reply"
  /\ poll'[n].jobs = ToSubmit(status', node', n)

\* New threads are those of jobs of the reply; kills stop threads.
Received(n) ==
  /\ up[n] /\ poll[n].pc = "reply" /\ poll'[n].pc = "idle" /\ status' = status
  /\ \A j \in Jobs : /\ Busy(n, j) => Busy(n, j)'
                     /\ Busy(n, j)' => Busy(n, j) \/ j \in poll[n].jobs
                     /\ worker'[n][j] # "none" => worker[n][j] # "none" \/ j \in poll[n].jobs
  /\ result'[n] = Purge(result[n], poll[n].finished)

Crashed(n) ==
  /\ worker'[n] = [j \in Jobs |-> "none"] /\ result'[n] = NoResults
  /\ poll'[n] = poll[n] \/ poll'[n].pc = "idle"

Threaded(n) ==
  /\ poll'[n] = poll[n] /\ result'[n] = result[n]
  /\ \A j \in Jobs : /\ Busy(n, j)' <=> Busy(n, j)
                     /\ worker'[n][j] # "none" => worker[n][j] # "none"

Ended(n) ==
  /\ poll'[n] = poll[n] /\ status' = status
  /\ \E k \in Jobs, r \in Outcomes :
       /\ Busy(n, k) /\ ~Busy(n, k)'
       /\ \A j \in Jobs : j # k => worker'[n][j] = worker[n][j]
       /\ result'[n] = [result[n] EXCEPT ![k] = r]

\* What happens at a node if no message is lost and no machine crashes.
ServedMoves(n) ==
  \/ Still(n) \/ KeysRead(n) \/ ResultsRead(n) \/ Left(n) \/ CleanupBegun(n)
  \/ LoopTurned(n) \/ Discovered(n) \/ TurnDone(n) \/ MissingFound(n) \/ Replied(n)
  \/ Received(n) \/ Closed(n) \/ Threaded(n) \/ Ended(n)

NodeMoves(n) == ServedMoves(n) \/ Dropped(n) \/ Crashed(n)

\* A save gives its row the status that is saved.
LEMMA SaveSets ==
  ASSUME NEW st \in StatusColumn, NEW k \in Jobs, NEW s \in Outcomes
  PROVE  SaveAndNotify(st, k, s)[k] = s
<1>1. CASE SaveAndNotify(st, k, s)[k] = st[k]
  <2> DEFINE saved == [st EXCEPT ![k] = s]
  <2>1. saved[k] = s /\ DOMAIN saved = Jobs /\ s \notin Absent
    BY DEF StatusColumn, Outcomes, Absent
  <2>2. CASE ~(Exists(saved, Parent[k]) /\ saved[Parent[k]] = "waiting" /\ ChildrenDone(saved, Parent[k]))
    BY <2>1, <2>2 DEF SaveAndNotify, UpdateParentJob
  <2>3. CASE Exists(saved, Parent[k]) /\ saved[Parent[k]] = "waiting" /\ ChildrenDone(saved, Parent[k])
    <3>1. k \in Children(saved, Parent[k])
      <4> HIDE DEF saved
      <4> QED BY <2>1, ConstantsAssumption DEF Children, Exists
    <3>2. s \in {"success", "failed"} /\ Parent[k] # k
      <4> HIDE DEF saved
      <4> QED BY <2>1, <2>3, <3>1 DEF ChildrenDone
    <3>3. SaveAndNotify(st, k, s) = [saved EXCEPT ![Parent[k]] = Verdict(saved, Parent[k])]
      BY <2>3 DEF SaveAndNotify, UpdateParentJob
    <3> HIDE DEF saved
    <3> QED BY <2>1, <3>2, <3>3
  <2> QED BY <2>2, <2>3
<1>2. CASE SaveAndNotify(st, k, s)[k] # st[k]
  BY <1>2, SaveMoves
<1> QED BY <1>1, <1>2

\* A poll makes one of these moves at its own node,
LEMMA PollMoves ==
  ASSUME IInv, NEW n \in Nodes, PollStep(n)
  PROVE  ServedMoves(n)
<1> USE DEF IInv
<1>0. /\ poll[n] \in PollType /\ DOMAIN poll = Nodes /\ DOMAIN worker = Nodes /\ DOMAIN result = Nodes
      /\ NoPoll.pc = "idle" /\ status \in StatusColumn
  BY DEF TypeOK, NoPoll, StatusColumn
<1>1. CASE ReadRunning(n)
  <2>1. PromptWrapper => \A j \in Held(n) : worker[n][j] # "stored"
    BY <1>1, Zenon DEF ReadRunning, Held
  <2>2. /\ Quiet(n) /\ poll[n].pc = "idle" /\ poll'[n].pc = "keys"
        /\ poll'[n].running = Held(n)
    BY <1>0, <1>1 DEF ReadRunning, Quiet, NoPoll, client
  <2>3. KeysRead(n)
    BY <2>1, <2>2, Zenon DEF KeysRead
  <2> QED BY <2>3 DEF ServedMoves
<1>2. CASE ReadFinished(n)
  <2>1. ResultsRead(n)
    BY <1>0, <1>2 DEF ReadFinished, ResultsRead, Quiet, PollType, client
  <2> QED BY <2>1 DEF ServedMoves
<1>3. CASE BeginCleanup(n)
  <2>1. CleanupBegun(n)
    BY <1>0, <1>3 DEF BeginCleanup, CleanupBegun, Quiet, SameRequest, PollType, client, db
  <2> QED BY <2>1 DEF ServedMoves
<1>4. ASSUME NEW phase \in {"cleanup", "lost"}, FailLostJob(n, phase) PROVE ServedMoves(n)
  <2>1. LoopTurned(n)
    BY <1>0, <1>4 DEF FailLostJob, LoopTurned, Quiet, SameRequest, PollType, client
  <2> QED BY <2>1 DEF ServedMoves
<1>5. CASE DiscoverNode(n)
  <2>1. CASE poll[n].offline
    <3>1. Closed(n)
      BY <1>0, <1>5, <2>1 DEF DiscoverNode, Closed, Dropped, Quiet, client
    <3> QED BY <3>1 DEF ServedMoves
  <2>2. CASE ~poll[n].offline
    <3>1. /\ Quiet(n) /\ SameRequest(n) /\ poll[n].pc = "cleanup" /\ poll'[n].pc = "finish"
          /\ poll'[n].todo = {<<j, n>> : j \in Sent(n)} /\ n \notin overdue'
      BY <1>0, <1>5, <2>2 DEF DiscoverNode, Quiet, SameRequest, Sent, PollType, client
    <3>2. \A j \in poll[n].running :
            status[j] \notin Absent => status'[j] \in {"running", "terminating"}
      <4>1. status' = MarkRunning(status, poll[n].running) /\ poll[n].running \subseteq Jobs
        BY <1>0, <1>5 DEF DiscoverNode, PollType
      <4> QED BY <4>1, ConstantsAssumption DEF MarkRunning, Exists
    <3> QED BY <3>1, <3>2 DEF ServedMoves, Discovered
  <2> QED BY <2>1, <2>2
<1>6. CASE FinishJob(n)
  <2>1. PICK t \in poll[n].todo :
          /\ poll[n].pc = "finish"
          /\ status' = IF Exists(status, t[1])
                       THEN SaveAndNotify(status, t[1], poll[n].finished[t[1]])
                       ELSE status
          /\ poll' = [poll EXCEPT ![n].todo = @ \ {t}]
    BY <1>6 DEF FinishJob
  <2>2. t[1] \in Jobs /\ poll[n].finished[t[1]] \in Outcomes
    BY <1>0, <2>1 DEF PollType, PollInv, FinishesReported, Reported
  <2>3. /\ Quiet(n) /\ SameRequest(n) /\ poll'[n].pc = "finish"
        /\ poll'[n].todo = poll[n].todo \ {t}
    BY <1>0, <1>6, <2>1 DEF FinishJob, Quiet, SameRequest, PollType, client
  <2>4. \A j \in Jobs \ {t[1]} : <<j, n>> \in poll[n].todo => <<j, n>> \in poll'[n].todo
    BY <2>3
  <2>5. status[t[1]] \notin Absent => status'[t[1]] = poll[n].finished[t[1]]
    BY <1>0, <2>1, <2>2, SaveSets, ConstantsAssumption DEF Exists
  <2>6. TurnDone(n)
    BY <2>1, <2>2, <2>3, <2>4, <2>5 DEF TurnDone
  <2> QED BY <2>6 DEF ServedMoves
<1>7. CASE FindMissingJobs(n)
  <2>1. MissingFound(n)
    BY <1>0, <1>7 DEF FindMissingJobs, MissingFound, Quiet, SameRequest, PollType, client, db
  <2> QED BY <2>1 DEF ServedMoves
<1>8. CASE Schedule(n)
  <2>1. CASE up[n]
    <3>1. Replied(n)
      BY <1>0, <1>8, <2>1 DEF Schedule, Replied, Quiet, SameRequest, PollType, client
    <3> QED BY <3>1 DEF ServedMoves
  <2>2. CASE ~up[n]
    <3>1. Closed(n)
      BY <1>0, <1>8, <2>2 DEF Schedule, Closed, Dropped, Quiet, client
    <3> QED BY <3>1 DEF ServedMoves
  <2> QED BY <2>1, <2>2
<1>9. CASE HandleReply(n)
  <2>1. /\ up[n] /\ poll[n].pc = "reply" /\ poll'[n].pc = "idle" /\ status' = status
        /\ result'[n] = Purge(result[n], poll[n].finished)
    BY <1>0, <1>9 DEF HandleReply, db
  <2>2. PICK S \in SUBSET (poll[n].jobs \ Held(n)), K \in {{}, poll[n].kill} :
          worker'[n] = Threads(worker[n], S, K)
    BY <1>0, <1>9 DEF HandleReply
  <2>3. \A j \in Jobs :
          /\ Busy(n, j) => Busy(n, j)'
          /\ Busy(n, j)' => Busy(n, j) \/ j \in poll[n].jobs
          /\ worker'[n][j] # "none" => worker[n][j] # "none" \/ j \in poll[n].jobs
    BY <2>2 DEF Threads, Busy, BusyPhases
  <2>4. Received(n)
    BY <2>1, <2>3 DEF Received
  <2> QED BY <2>4 DEF ServedMoves
<1>10. CASE RefuseOrphan(n)
  <2>1. Closed(n)
    BY <1>0, <1>10 DEF RefuseOrphan, Closed, Dropped, Quiet, client
  <2> QED BY <2>1 DEF ServedMoves
<1> QED
  BY <1>1, <1>2, <1>3, <1>4, <1>5, <1>6, <1>7, <1>8, <1>9, <1>10
  DEF PollStep, CleanupDeadJob, FailMissingJob

\* the threads of a client make one of these moves at their node,
LEMMA ThreadMoves ==
  ASSUME IInv, NEW n \in Nodes, NEW j \in Jobs, JobStep(n, j)
  PROVE  ServedMoves(n)
<1> USE DEF IInv
<1>0. worker \in [Nodes -> [Jobs -> Phases]] /\ DOMAIN result = Nodes
  BY DEF TypeOK
<1>1. ASSUME NEW c \in Jobs, LaunchChild(n, j, c) PROVE ServedMoves(n)
  <2>1. /\ worker[n][j] \in {"working", "launched"}
        /\ worker' = [worker EXCEPT ![n][j] = "launched"]
        /\ poll'[n] = poll[n] /\ result'[n] = result[n]
    BY <1>1 DEF LaunchChild
  <2>2. Threaded(n)
    BY <1>0, <2>1 DEF Threaded, Busy, BusyPhases
  <2> QED BY <2>2 DEF ServedMoves
<1>2. ASSUME NEW c \in Jobs, ReleaseChild(n, j, c) PROVE ServedMoves(n)
  BY <1>2 DEF ReleaseChild, ServedMoves, ServedMoves, Closed, Still, Quiet, client
<1>3. ASSUME NEW r \in Outcomes, EndJob(n, j, r) PROVE ServedMoves(n)
  <2>1. /\ worker[n][j] \in {"working", "launched", "killed"}
        /\ worker' = [worker EXCEPT ![n][j] = "stored"]
        /\ result' = [result EXCEPT ![n][j] = r]
        /\ poll'[n] = poll[n] /\ status' = status
    BY <1>3 DEF EndJob, db
  <2>2. /\ Busy(n, j) /\ ~Busy(n, j)'
        /\ \A k \in Jobs : k # j => worker'[n][k] = worker[n][k]
    BY <1>0, <2>1 DEF Busy, BusyPhases
  <2>3. result'[n] = [result[n] EXCEPT ![j] = r]
    BY <1>0, <2>1
  <2>4. Ended(n)
    BY <2>1, <2>2, <2>3 DEF Ended
  <2> QED BY <2>4 DEF ServedMoves
<1>4. CASE ForgetThread(n, j)
  <2>1. /\ worker[n][j] = "stored" /\ worker' = [worker EXCEPT ![n][j] = "none"]
        /\ poll'[n] = poll[n] /\ result'[n] = result[n]
    BY <1>4 DEF ForgetThread
  <2>2. Threaded(n)
    BY <1>0, <2>1 DEF Threaded, Busy, BusyPhases
  <2> QED BY <2>2 DEF ServedMoves
<1> QED BY <1>1, <1>2, <1>3, <1>4 DEF JobStep

\* and so does every other step.
LEMMA EveryMove ==
  ASSUME IInv, [Next]_vars, NEW n \in Nodes
  PROVE  /\ NodeMoves(n)
         /\ ServedMoves(n) \/ \E m \in Nodes : LosePoll(m) \/ Crash(m)
         /\ ServedMoves(n) \/ Crashed(n) \/ \E m \in Nodes : LosePoll(m)
<1> USE DEF IInv
<1>0. /\ DOMAIN poll = Nodes /\ DOMAIN worker = Nodes /\ DOMAIN result = Nodes
      /\ NoPoll.pc = "idle"
  BY DEF TypeOK, NoPoll
<1>1. CASE Still(n)
  BY <1>1 DEF NodeMoves, ServedMoves
<1>2. ASSUME NEW m \in Nodes, PollStep(m) PROVE ServedMoves(n)
  <2>1. CASE m = n
    BY <1>2, <2>1, PollMoves
  <2>2. CASE m # n
    <3>1. Still(n)
      BY <1>2, <2>2 DEF PollStep, ReadRunning, ReadFinished, BeginCleanup, CleanupDeadJob,
           DiscoverNode, FinishJob, FindMissingJobs, FailMissingJob, FailLostJob,
           Schedule, HandleReply, RefuseOrphan, TypeOK, client, Still, Quiet
    <3> QED BY <3>1 DEF ServedMoves
  <2> QED BY <2>1, <2>2
<1>3. ASSUME NEW m \in Nodes, NEW j \in Jobs, JobStep(m, j) PROVE ServedMoves(n)
  <2>1. CASE m = n
    BY <1>3, <2>1, ThreadMoves
  <2>2. CASE m # n
    <3>1. Still(n)
      BY <1>3, <2>2 DEF JobStep, LaunchChild, ReleaseChild, EndJob, ForgetThread,
           TypeOK, client, Still, Quiet
    <3> QED BY <3>1 DEF ServedMoves
  <2> QED BY <2>1, <2>2
<1>4. ASSUME NEW m \in Nodes, GracefulExit(m) \/ StartClient(m) PROVE ServedMoves(n)
  <2>1. CASE GracefulExit(m) /\ m = n
    <3>1. /\ LastPoll.pc = "sent" /\ LastPoll.running = {} /\ LastPoll.finished = NoResults
      BY DEF LastPoll, NoPoll
    <3>2. Left(n)
      BY <1>0, <2>1, <3>1 DEF GracefulExit, CanExit, Left, Quiet
    <3> QED BY <3>2 DEF ServedMoves
  <2>2. CASE ~(GracefulExit(m) /\ m = n)
    <3>1. Still(n)
      BY <1>0, <1>4, <2>2 DEF GracefulExit, StartClient, Still, Quiet
    <3> QED BY <3>1 DEF ServedMoves
  <2> QED BY <2>1, <2>2
<1>5. ASSUME NEW m \in Nodes, LosePoll(m) PROVE NodeMoves(n)
  <2>1. Still(n) \/ Dropped(n)
    BY <1>0, <1>5 DEF LosePoll, Still, Dropped, Quiet, client
  <2> QED BY <2>1 DEF NodeMoves, ServedMoves
<1>6. ASSUME NEW m \in Nodes, Crash(m) PROVE ServedMoves(n) \/ Crashed(n)
  <2>1. Still(n) \/ Crashed(n)
    BY <1>0, <1>6 DEF Crash, Still, Crashed, Quiet
  <2> QED BY <2>1 DEF ServedMoves
<1>7. CASE UserStep \/ UNCHANGED vars
  BY <1>1, <1>7 DEF UserStep, KillJob, DeleteJob, RestartJob, RestartFailedChildren,
              ReloadClient, vars, client, Still, Quiet, ServedMoves
<1>8. ASSUME NEW m \in Nodes, TwoHoursPass(m) PROVE ServedMoves(n)
  BY <1>8 DEF TwoHoursPass, client, Still, Quiet, ServedMoves
<1>9. ServedMoves(n) \/ Crashed(n) => NodeMoves(n)
  BY DEF NodeMoves
<1> QED BY <1>2, <1>3, <1>4, <1>5, <1>6, <1>7, <1>8, <1>9 DEF Next, Fault

-----------------------------------------------------------------------------
(* What requests and replies say of their jobs stays true.                 *)

\* Requests and results go on speaking of jobs of their node only.
LEMMA ReportStaysOwned ==
  ASSUME AInv, [Next]_vars, UsersAway', NEW n \in Nodes
  PROVE  ReportOwned(n)'
<1> USE DEF AInv, XInv, IInv
<1>0. /\ NodeMoves(n) /\ ReportOwned(n) /\ ThreadsOwned(n)
      /\ \A j \in Jobs : Owned(j, n) => Owned(j, n)'
  BY EveryMove, OwnedForEver DEF ReportInv, Ownership
<1>1. /\ poll[n].running \subseteq Jobs
      /\ result[n] \in [Jobs -> Outcomes \cup {NoResult}]
  BY DEF TypeOK, PollType
<1>2. \A j \in Reported(result'[n]) : Owned(j, n)'
  <2>1. CASE Ended(n)
    <3>1. PICK k \in Jobs, r \in Outcomes :
            Busy(n, k) /\ result'[n] = [result[n] EXCEPT ![k] = r]
      BY <2>1 DEF Ended
    <3>2. Reported(result'[n]) \subseteq Reported(result[n]) \cup {k}
      BY <1>1, <3>1 DEF Reported
    <3>3. Owned(k, n)
      BY <1>0, <3>1 DEF Busy, BusyPhases, ThreadsOwned
    <3> QED BY <1>0, <3>2, <3>3 DEF ReportOwned, Reported
  <2>2. CASE ~Ended(n)
    <3>1. Reported(result'[n]) \subseteq Reported(result[n])
      BY <1>0, <2>2 DEF NodeMoves, ServedMoves, Closed, Still, Dropped, KeysRead, ResultsRead, Left, CleanupBegun,
           LoopTurned, Discovered, TurnDone, MissingFound, Replied, Received, Crashed, Threaded,
           Quiet, Reported, Purge, NoResults
    <3> QED BY <1>0, <3>1 DEF ReportOwned, Reported
  <2> QED BY <2>1, <2>2
<1>3. poll'[n].pc # "idle" => \A j \in poll'[n].running : Owned(j, n)'
  <2>1. CASE poll[n].pc # "idle" /\ poll'[n].running = poll[n].running
    BY <1>0, <1>1, <2>1 DEF ReportOwned
  <2>2. CASE poll'[n].running = Held(n)
    BY <1>0, <2>2 DEF Held, ThreadsOwned
  <2>3. CASE poll'[n].pc = "idle" \/ poll'[n].running = {}
    BY <2>3
  <2> QED BY <1>0, <2>1, <2>2, <2>3
       DEF NodeMoves, ServedMoves, Closed, Still, Dropped, KeysRead, ResultsRead, Left, CleanupBegun,
           LoopTurned, Discovered, TurnDone, MissingFound, Replied, Received, Crashed, Threaded,
           Ended, SameRequest
<1>4. Posted(n)' => \A j \in Sent(n)' : Owned(j, n)'
  <2>1. CASE Posted(n) /\ Sent(n)' = Sent(n)
    BY <1>0, <2>1 DEF ReportOwned, Sent, Reported
  <2>2. CASE Sent(n)' = Reported(result[n])
    BY <1>0, <2>2 DEF ReportOwned, Reported
  <2>3. CASE ~Posted(n)' \/ Sent(n)' = {}
    BY <2>3
  <2>4. Reported(NoResults) = {}
    BY DEF Reported, NoResults
  <2> QED BY <1>0, <2>1, <2>2, <2>3, <2>4
       DEF NodeMoves, ServedMoves, Closed, Still, Dropped, KeysRead, ResultsRead, Left, CleanupBegun,
           LoopTurned, Discovered, TurnDone, MissingFound, Replied, Received, Crashed, Threaded,
           Ended, SameRequest, Posted, Sent
<1> QED BY <1>2, <1>3, <1>4 DEF ReportOwned

\* What a request named and its loops have gone through stays past.
LEMMA ReportStaysPast ==
  ASSUME AInv, [Next]_vars, UsersAway', NEW n \in Nodes
  PROVE  ReportPast(n)'
<1> USE DEF AInv, XInv, IInv
<1>0. /\ NodeMoves(n) /\ ReportOwned(n) /\ ReportPast(n)
      /\ \A j \in Jobs : Past(j) => Past(j)'
      /\ poll[n].running \subseteq Jobs /\ Sent(n) \subseteq Jobs
  BY EveryMove, GivenForEver DEF ReportInv, TypeOK, PollType, Sent, Reported
<1>1. CASE poll'[n] = poll[n] \/ poll'[n].pc \notin {"finish", "lost", "reply"}
  BY <1>0, <1>1 DEF ReportPast, Sent
<1>2. CASE LoopTurned(n) \/ Replied(n)
  <2>1. /\ SameRequest(n) /\ Sent(n)' = Sent(n)
        /\ poll'[n].pc \in {"lost", "reply"} => poll[n].pc = "lost"
        /\ poll'[n].pc # "finish"
    BY <1>2 DEF LoopTurned, Replied, SameRequest, Sent
  <2> QED BY <1>0, <2>1 DEF ReportPast, SameRequest
<1>3. CASE Discovered(n)
  <2>1. /\ SameRequest(n) /\ Sent(n)' = Sent(n) /\ poll'[n].pc = "finish"
        /\ poll'[n].todo = {<<j, n>> : j \in Sent(n)}
    BY <1>3 DEF Discovered, SameRequest, Sent
  <2>2. \A j \in poll[n].running : Past(j)'
    <3> SUFFICES ASSUME NEW j \in poll[n].running PROVE Past(j)'
      OBVIOUS
    <3>1. status[j] \notin Absent
      BY <1>0, <1>3 DEF Discovered, ReportOwned, Owned, FamilyGiven, Fresh, Absent
    <3>2. status'[j] \in {"running", "terminating"}
      BY <1>3, <3>1 DEF Discovered
    <3> QED BY <3>2 DEF Past, Fresh
  <2> QED BY <2>1, <2>2 DEF ReportPast, SameRequest
<1>4. CASE TurnDone(n)
  <2>1. /\ SameRequest(n) /\ Sent(n)' = Sent(n) /\ poll[n].pc = "finish" /\ poll'[n].pc = "finish"
    BY <1>4 DEF TurnDone, SameRequest, Sent
  <2>2. PICK k \in Jobs :
          /\ \A j \in Jobs \ {k} : <<j, n>> \in poll[n].todo => <<j, n>> \in poll'[n].todo
          /\ status[k] \notin Absent => status'[k] = poll[n].finished[k]
    BY <1>4 DEF TurnDone
  <2>3. k \in Sent(n) => Past(k)'
    <3>1. SUFFICES ASSUME k \in Sent(n) PROVE Past(k)'
      OBVIOUS
    <3>2. status[k] \notin Absent
      BY <1>0, <2>1, <3>1 DEF ReportOwned, Posted, Owned, FamilyGiven, Fresh, Absent
    <3>3. status'[k] \in Outcomes
      BY <2>2, <3>1, <3>2 DEF Sent, Reported, TypeOK, PollType
    <3> QED BY <3>3 DEF Past, Fresh, Outcomes
  <2>4. \A j \in Sent(n) : <<j, n>> \in poll'[n].todo \/ Past(j)'
    BY <1>0, <2>1, <2>2, <2>3 DEF ReportPast
  <2> QED BY <1>0, <2>1, <2>4 DEF ReportPast, SameRequest
<1>5. CASE MissingFound(n)
  <2>1. /\ SameRequest(n) /\ Sent(n)' = Sent(n) /\ poll[n].pc = "finish" /\ poll'[n].pc = "lost"
        /\ poll[n].todo = {}
    BY <1>5 DEF MissingFound, SameRequest, Sent
  <2> QED BY <1>0, <2>1 DEF ReportPast, SameRequest
<1> QED BY <1>0, <1>1, <1>2, <1>3, <1>4, <1>5
     DEF NodeMoves, ServedMoves, Closed, Still, Dropped, KeysRead, ResultsRead, Left, CleanupBegun,
         Received, Crashed, Threaded, Ended

\* A new result is that of a job the request calls running.
LEMMA ResultStaysCovered ==
  ASSUME IInv, [Next]_vars, NEW n \in Nodes, ResultCovered(n)
  PROVE  ResultCovered(n)'
<1> USE DEF IInv
<1>0. NodeMoves(n) /\ ResultCovered(n) /\ ReportCovers(n) /\ poll[n] \in PollType
  BY EveryMove DEF PollInv, TypeOK
<1>1. CASE poll'[n].pc \in {"idle", "keys"}
  BY <1>1 DEF ResultCovered, Posted
<1>2. CASE Reported(result'[n]) \subseteq Sent(n)'
  BY <1>2 DEF ResultCovered, Reported
<1>3. CASE /\ Posted(n) /\ poll'[n].running = poll[n].running /\ Sent(n)' = Sent(n)
           /\ Reported(result'[n]) \subseteq Reported(result[n])
  BY <1>0, <1>3 DEF ResultCovered, Reported
<1>4. CASE Ended(n)
  <2>1. PICK k \in Jobs, r \in Outcomes :
          Busy(n, k) /\ result'[n] = [result[n] EXCEPT ![k] = r]
    BY <1>4 DEF Ended
  <2>2. Reported(result'[n]) \subseteq Reported(result[n]) \cup {k}
    BY <2>1 DEF Reported, TypeOK
  <2>3. poll'[n] = poll[n]
    BY <1>4 DEF Ended
  <2>4. Posted(n) => k \in poll[n].running
    BY <1>0, <2>1 DEF Posted, ReportCovers, Busy, BusyPhases, Held, PollType, InFlight, Handling
  <2>5. Reported(result[n])' = Reported(result'[n])
    BY DEF Reported
  <2> QED BY <1>0, <2>2, <2>3, <2>4, <2>5 DEF ResultCovered, Posted, Sent
<1>5. CASE poll'[n] = poll[n] /\ Reported(result'[n]) \subseteq Reported(result[n])
  BY <1>0, <1>5 DEF ResultCovered, Posted, Sent, Reported
<1>6. CASE Crashed(n)
  <2>1. Reported(result'[n]) = {}
    BY <1>6 DEF Crashed, Reported, NoResults
  <2> QED BY <1>2, <2>1
<1>7. CASE Left(n)
  <2>1. Reported(result'[n]) = {}
    BY <1>7 DEF Left, Quiet
  <2> QED BY <1>2, <2>1
<1> QED BY <1>0, <1>1, <1>2, <1>3, <1>4, <1>5, <1>6, <1>7
     DEF NodeMoves, ServedMoves, Closed, Still, Dropped, KeysRead, ResultsRead, CleanupBegun,
         LoopTurned, Discovered, TurnDone, MissingFound, Replied, Received, Threaded,
         SameRequest, Quiet, Posted, Sent, Reported

\* The scheduler sends reserved jobs, and what the request named is past.
LEMMA ReplyStaysNew ==
  ASSUME AInv, [Next]_vars, UsersAway', NEW n \in Nodes
  PROVE  ReplyNew(n)'
<1> USE DEF AInv, XInv, IInv
<1>0. NodeMoves(n) /\ ReplyNew(n) /\ ReportPast(n)'
  BY EveryMove, ReportStaysPast DEF ReportInv
<1>1. CASE poll'[n] = poll[n] \/ poll'[n].pc # "reply"
  BY <1>0, <1>1 DEF ReplyNew, Sent
<1>2. CASE Replied(n)
  <2>1. \A j \in poll'[n].jobs : ~Past(j)'
    BY <1>2 DEF Replied, ToSubmit, Past
  <2>2. poll'[n].pc = "reply"
    BY <1>2 DEF Replied
  <2> QED BY <1>0, <2>1, <2>2 DEF ReplyNew, ReportPast
<1> QED BY <1>0, <1>1, <1>2
     DEF NodeMoves, ServedMoves, Closed, Still, Dropped, KeysRead, ResultsRead, Left, CleanupBegun,
         LoopTurned, Discovered, TurnDone, MissingFound, Received, Crashed, Threaded, Ended

\* The invariant of requests and replies holds initially.
LEMMA ReportInit == Init => AInv
<1> SUFFICES ASSUME Init PROVE AInv
  OBVIOUS
<1>1. XInv
  <2>1. \A n \in Nodes : poll[n].pc = "idle" /\ \A j \in Jobs : worker[n][j] = "none"
    BY DEF Init, NoPoll
  <2>2. Ownership
    BY <2>1 DEF Ownership, ThreadsOwned, ReplyOwned, LoopOwned
  <2> QED BY <2>2, InvInit DEF XInv, UsersAway, Unused, Init
<1>2. \A n \in Nodes : poll[n].pc = "idle" /\ Reported(result[n]) = {}
  BY DEF Init, NoPoll, NoResults, Reported
<1>3. ReportInv
  BY <1>2 DEF ReportInv, ReportOwned, ReportPast, ResultCovered, ReplyNew, Posted
<1>4. FamilyGiven
  BY DEF FamilyGiven, Init
<1> QED BY <1>1, <1>3, <1>4 DEF AInv

\* Every step keeps the invariant of requests and replies, unless it is a user's.
LEMMA ReportStep ==
  ASSUME AInv, [Next]_vars, UsersAway'
  PROVE  AInv'
<1>1. XInv'
  BY TypeStep, PollInvStep, ThreadsStayOwned, PollStaysOwned
  DEF AInv, XInv, IInv, Ownership
<1>2. ReportInv'
  BY ReportStaysOwned, ReportStaysPast, ResultStaysCovered, ReplyStaysNew
  DEF ReportInv, AInv, XInv
<1> QED BY <1>1, <1>2, FamilyStep DEF AInv

\* The invariant holds until a user acts.
LEMMA ReportInvariant == Spec => [](IInv /\ Bounded /\ (UsersAway => AInv))
<1>1. Init => IInv /\ Bounded /\ AInv
  BY InvInit, BoundedInit, ReportInit
<1>2. IInv /\ Bounded /\ (UsersAway => AInv) /\ [Next]_vars
        => (IInv /\ Bounded /\ (UsersAway => AInv))'
  <2> SUFFICES ASSUME IInv, Bounded, UsersAway => AInv, [Next]_vars
               PROVE  (IInv /\ Bounded /\ (UsersAway => AInv))'
    OBVIOUS
  <2>1. IInv' /\ Bounded'
    BY TypeStep, PollInvStep, BudgetShrinks DEF IInv
  <2>2. ASSUME UsersAway' PROVE AInv'
    <3>1. UsersAway
      BY <2>2, BudgetShrinks DEF UsersAway, IInv, Faults
    <3> QED BY <2>2, <3>1, ReportStep
  <2> QED BY <2>1, <2>2
<1> QED BY <1>1, <1>2, PTL DEF Spec

\* As long as no user has acted, submit_job is never given a job that its client
\* still runs, so that no part of a reply is dropped: for any number of jobs,
\* nodes, lost polls, crashes and two-hour silences.
THEOREM RepliesBringNewJobs == Spec => [](Used("user") = 0 => SubmitUnique)
<1>1. AInv => SubmitUnique
  BY DEF AInv, XInv, IInv, PollInv, ReportInv, ReplyNew, ReportCovers, SubmitUnique,
         InFlight, Handling
<1>2. IInv /\ Used("user") = 0 => UsersAway
  BY UnusedIsUsed DEF IInv, UsersAway, Faults
<1> QED BY <1>1, <1>2, ReportInvariant, PTL

-----------------------------------------------------------------------------
(* If no client is cut off, either, nothing speaks any more of a job that a *)
(* loop fails, and nothing is busy with a job that is done.                *)

NoLapse == Unused("lapse")

\* A client that has no jobs to run or to report.
Silent(n) == Held(n) = {} /\ Reported(result[n]) = {}

\* A client that is down has no jobs, and one that is overdue has been down.
Down(n) ==
  /\ ~up[n] => Silent(n)
  /\ n \in overdue => /\ Silent(n)
                      /\ poll[n].pc \notin {"finish", "lost", "reply"}
                      /\ poll[n].pc # "idle" => poll[n].running = {}
                      /\ Posted(n) => Sent(n) = {}

\* Nothing on m speaks of j any more.
Gone(j, m) ==
  /\ j \notin Held(m) /\ result[m][j] = NoResult
  /\ poll[m].pc # "idle" => j \notin poll[m].running
  /\ Posted(m) => j \notin Sent(m)

CleanDead(n) == poll[n].pc = "cleanup" => \A t \in poll[n].todo : Past(t[1]) /\ Gone(t[1], t[2])

ReplyReserved(n) == poll[n].pc = "reply" => \A j \in poll[n].jobs : status[j] = "reserved"

Done == {"waiting", "success", "failed"}

BusyOpen(n) == \A j \in Jobs : Busy(n, j) => status[j] \notin Done

\* A job whose result is known has ended.
ResultEnded(n) ==
  /\ \A j \in Reported(result[n]) : ~Busy(n, j)
  /\ Posted(n) => \A j \in Sent(n) : ~Busy(n, j)

\* A reply brings no job whose result the client has still to send.
ReplyUnfinished(n) ==
  poll[n].pc = "reply" => \A j \in poll[n].jobs : j \in Reported(result[n]) => j \in Sent(n)

\* A job that a loop is about to fail does not wait for children and is no success.
LoopOpen(n) ==
  poll[n].pc \in {"cleanup", "lost"} => \A t \in poll[n].todo : status[t[1]] \notin {"waiting", "success"}

\* A result is sent as it is,
ResultSent(n) ==
  Posted(n) => \A j \in Sent(n) : result[n][j] \in {poll[n].finished[j], NoResult}

\* and nobody reports that a job that waits has ended otherwise.
WaitKept(n) ==
  \A j \in Jobs : status[j] = "waiting" =>
    /\ result[n][j] \in {NoResult, "waiting"}
    /\ Posted(n) => poll[n].finished[j] \in {NoResult, "waiting"}

\* Inductive as long as users do not act and no client is cut off: implies
\* TerminalMeansStopped and, for each step, VerdictWaitsForChildren.
BInv ==
  /\ AInv /\ NoLapse
  /\ \A n \in Nodes : /\ Down(n) /\ CleanDead(n) /\ ReplyReserved(n) /\ BusyOpen(n)
                      /\ ResultEnded(n) /\ LoopOpen(n) /\ ResultSent(n) /\ WaitKept(n)

\* A client stops when it has nothing to run or to report, or loses all of it;
\* one that becomes overdue is down.
LEMMA UpMoves ==
  ASSUME IInv, NoLapse, NoLapse', [Next]_vars, NEW n \in Nodes
  PROVE  /\ ~up'[n] => ~up[n] \/ Left(n) \/ Crashed(n)
         /\ n \in overdue' => n \in overdue \/ (~up[n] /\ Still(n) /\ poll[n].pc = "idle")
<1> USE DEF IInv
<1>0. DOMAIN up = Nodes /\ DOMAIN poll = Nodes /\ DOMAIN worker = Nodes /\ DOMAIN result = Nodes
  BY DEF TypeOK
<1>1. ASSUME NEW m \in Nodes, PollStep(m) PROVE up' = up /\ overdue' \subseteq overdue
  BY <1>1 DEF PollStep, ReadRunning, ReadFinished, BeginCleanup, CleanupDeadJob,
           DiscoverNode, FinishJob, FindMissingJobs, FailMissingJob, FailLostJob,
           Schedule, HandleReply, RefuseOrphan, db, client
<1>2. ASSUME NEW m \in Nodes, GracefulExit(m)
      PROVE  (~up'[n] => ~up[n] \/ Left(n)) /\ overdue' = overdue
  <2>1. overdue' = overdue /\ (m # n => up'[n] = up[n])
    BY <1>0, <1>2 DEF GracefulExit, db
  <2>2. m = n => Left(n)
    BY <1>0, <1>2 DEF GracefulExit, CanExit, LastPoll, NoPoll, Left, Quiet
  <2> QED BY <2>1, <2>2
<1>3. ASSUME NEW m \in Nodes, StartClient(m)
      PROVE  (~up'[n] => ~up[n]) /\ overdue' = overdue
  BY <1>0, <1>3 DEF StartClient, db
<1>4. ASSUME NEW m \in Nodes, LosePoll(m) PROVE up' = up /\ overdue' = overdue
  BY <1>4 DEF LosePoll, db, client
<1>5. ASSUME NEW m \in Nodes, Crash(m)
      PROVE  (~up'[n] => ~up[n] \/ Crashed(n)) /\ overdue' = overdue
  <2>1. overdue' = overdue /\ (m # n => up'[n] = up[n])
    BY <1>0, <1>5 DEF Crash, db
  <2>2. m = n => Crashed(n)
    BY <1>0, <1>5 DEF Crash, Crashed, NoPoll
  <2> QED BY <2>1, <2>2
<1>6. ASSUME NEW m \in Nodes, TwoHoursPass(m)
      PROVE  up' = up /\ (n \in overdue' => n \in overdue \/ (~up[n] /\ Still(n) /\ poll[n].pc = "idle"))
  <2>1. ~Spend("lapse")
    BY NothingSpent DEF NoLapse, Faults
  <2> QED BY <1>0, <1>6, <2>1 DEF TwoHoursPass, client, Still, Quiet
<1>7. ASSUME NEW m \in Nodes, NEW k \in Jobs, JobStep(m, k) PROVE up' = up /\ overdue' = overdue
  BY <1>7 DEF JobStep, LaunchChild, ReleaseChild, EndJob, ForgetThread, db, client
<1>8. CASE UserStep \/ UNCHANGED vars
  BY <1>8 DEF UserStep, KillJob, DeleteJob, RestartJob, RestartFailedChildren,
              ReloadClient, vars, client
<1> QED BY <1>1, <1>2, <1>3, <1>4, <1>5, <1>6, <1>7, <1>8 DEF Next, Fault

\* A silent client starts to speak only with a reply.
LEMMA SilentStays ==
  ASSUME TypeOK, NEW n \in Nodes, NodeMoves(n), ~Received(n), Silent(n)
  PROVE  Silent(n)'
<1>1. \A j \in Jobs : ~Busy(n, j)
  BY DEF Silent, Busy, BusyPhases, Held
<1>2. ~Ended(n)
  BY <1>1 DEF Ended
<1>3. CASE Quiet(n)
  BY <1>3 DEF Quiet, Silent, Held, Reported
<1>4. CASE Crashed(n)
  BY <1>4 DEF Crashed, Silent, Held, Reported, NoResults
<1>5. CASE Threaded(n)
  BY <1>5 DEF Threaded, Silent, Held, Reported
<1> QED BY <1>2, <1>3, <1>4, <1>5
     DEF NodeMoves, ServedMoves, Closed, Still, Dropped, KeysRead, ResultsRead, Left, CleanupBegun,
         LoopTurned, Discovered, TurnDone, MissingFound, Replied

\* Clients that are down or overdue stay silent.
LEMMA DownStays ==
  ASSUME IInv, NoLapse, NoLapse', [Next]_vars, NEW n \in Nodes, Down(n)
  PROVE  Down(n)'
<1> USE DEF IInv
<1>0. NodeMoves(n) /\ Down(n) /\ Reported(NoResults) = {}
  BY EveryMove DEF Reported, NoResults
<1>1. ASSUME ~up'[n] PROVE Silent(n)'
  <2>1. ~up[n] \/ Left(n) \/ Crashed(n)
    BY <1>1, UpMoves
  <2>2. CASE ~up[n]
    BY <1>0, <2>2, SilentStays DEF Down, Received
  <2>3. CASE Left(n)
    BY <2>3 DEF Left, Quiet, Silent, Held, Reported
  <2>4. CASE Crashed(n)
    BY <2>4 DEF Crashed, Silent, Held, Reported, NoResults
  <2> QED BY <2>1, <2>2, <2>3, <2>4
<1>2. ASSUME n \in overdue'
      PROVE  /\ Silent(n)' /\ poll'[n].pc \notin {"finish", "lost", "reply"}
             /\ poll'[n].pc # "idle" => poll'[n].running = {}
             /\ Posted(n)' => Sent(n)' = {}
  <2>1. CASE n \in overdue
    <3>1. /\ Silent(n) /\ poll[n].pc \notin {"finish", "lost", "reply"}
          /\ poll[n].pc # "idle" => poll[n].running = {}
          /\ Posted(n) => Sent(n) = {}
      BY <1>0, <2>1 DEF Down
    <3>2. Silent(n)'
      BY <1>0, <3>1, SilentStays DEF Received
    <3>3. poll'[n].pc \notin {"finish", "lost", "reply"}
      BY <1>0, <1>2, <3>1
      DEF NodeMoves, ServedMoves, Closed, Still, Dropped, KeysRead, ResultsRead, Left, CleanupBegun,
          LoopTurned, Discovered, TurnDone, MissingFound, Replied, Received, Crashed,
          Threaded, Ended
    <3>4. Posted(n)' => Sent(n)' = {}
      BY <1>0, <3>1
      DEF NodeMoves, ServedMoves, Closed, Still, Dropped, KeysRead, ResultsRead, Left, CleanupBegun,
          LoopTurned, Discovered, TurnDone, MissingFound, Replied, Received, Crashed,
          Threaded, Ended, SameRequest, Posted, Sent, Silent
    <3>5. poll'[n].pc # "idle" => poll'[n].running = {}
      BY <1>0, <3>1
      DEF NodeMoves, ServedMoves, Closed, Still, Dropped, KeysRead, ResultsRead, Left, CleanupBegun,
          LoopTurned, Discovered, TurnDone, MissingFound, Replied, Received, Crashed,
          Threaded, Ended, SameRequest, Silent
    <3> QED BY <3>2, <3>3, <3>4, <3>5
  <2>2. CASE ~up[n] /\ Still(n) /\ poll[n].pc = "idle"
    <3>1. Silent(n)'
      BY <1>0, <2>2 DEF Down, Still, Quiet, Silent, Held, Reported
    <3> QED BY <2>2, <3>1 DEF Still, Posted
  <2> QED BY <1>2, <2>1, <2>2, UpMoves
<1> QED BY <1>1, <1>2 DEF Down

\* What is gone does not come back.
LEMMA GoneForEver ==
  ASSUME BInv, [Next]_vars, UsersAway', NoLapse', NEW m \in Nodes, NEW j \in Jobs, Past(j), Gone(j, m)
  PROVE  Gone(j, m)'
<1> USE DEF BInv, AInv, XInv, IInv
<1>0. /\ NodeMoves(m) /\ result[m] \in [Jobs -> Outcomes \cup {NoResult}]
      /\ worker[m][j] = "none" /\ result[m][j] = NoResult /\ (Posted(m) => j \notin Sent(m))
      /\ poll[m].pc # "idle" => j \notin poll[m].running
  BY EveryMove DEF TypeOK, Gone, Held
<1>1. poll[m].pc = "reply" => j \notin poll[m].jobs
  BY DEF ReplyReserved, Past
<1>2. worker'[m][j] = "none"
  BY <1>0, <1>1
  DEF NodeMoves, ServedMoves, Closed, Still, Dropped, KeysRead, ResultsRead, Left, CleanupBegun,
      LoopTurned, Discovered, TurnDone, MissingFound, Replied, Received, Crashed,
      Threaded, Ended, Quiet, Busy, BusyPhases
<1>3. result'[m][j] = NoResult
  <2>1. CASE Ended(m)
    BY <1>0, <2>1 DEF Ended, Busy, BusyPhases
  <2>2. CASE ~Ended(m)
    BY <1>0, <2>2
    DEF NodeMoves, ServedMoves, Closed, Still, Dropped, KeysRead, ResultsRead, Left, CleanupBegun,
        LoopTurned, Discovered, TurnDone, MissingFound, Replied, Received, Crashed,
        Threaded, Quiet, NoResults, Purge
  <2> QED BY <2>1, <2>2
<1>4. Posted(m)' => j \notin Sent(m)'
  BY <1>0
  DEF NodeMoves, ServedMoves, Closed, Still, Dropped, KeysRead, ResultsRead, Left, CleanupBegun,
      LoopTurned, Discovered, TurnDone, MissingFound, Replied, Received, Crashed,
      Threaded, Ended, SameRequest, Posted, Sent, Reported, NoResults
<1>5. poll'[m].pc # "idle" => j \notin poll'[m].running
  BY <1>0
  DEF NodeMoves, ServedMoves, Closed, Still, Dropped, KeysRead, ResultsRead, Left, CleanupBegun,
      LoopTurned, Discovered, TurnDone, MissingFound, Replied, Received, Crashed,
      Threaded, Ended, SameRequest, Held
<1> QED BY <1>2, <1>3, <1>4, <1>5 DEF Gone, Held

\* Only jobs that are past and gone are failed for an overdue node.
LEMMA CleanStays ==
  ASSUME BInv, [Next]_vars, UsersAway', NoLapse', NEW n \in Nodes
  PROVE  CleanDead(n)'
<1> USE DEF BInv, AInv, XInv, IInv
<1> SUFFICES ASSUME poll'[n].pc = "cleanup", NEW t \in poll'[n].todo
             PROVE  Past(t[1])' /\ Gone(t[1], t[2])'
  BY DEF CleanDead
<1>0. NodeMoves(n) /\ poll[n] \in PollType
  BY EveryMove DEF TypeOK
<1>1. CASE poll[n].pc = "cleanup" /\ t \in poll[n].todo
  <2>1. t[1] \in Jobs /\ t[2] \in Nodes
    BY <1>0, <1>1 DEF PollType
  <2> QED BY <1>1, <2>1, GivenForEver, GoneForEver DEF CleanDead
<1>2. CASE t \in ActiveOn(overdue)
  <2>1. t[1] \in Jobs /\ t[2] \in overdue /\ overdue \subseteq Nodes
    BY <1>2 DEF ActiveOn, TypeOK
  <2>2. Past(t[1])
    BY <1>2 DEF ActiveOn, Past, Fresh
  <2>3. Gone(t[1], t[2])
    BY <2>1 DEF Down, Silent, Gone, Reported
  <2> QED BY <2>1, <2>2, <2>3, GivenForEver, GoneForEver
<1> QED BY <1>0, <1>1, <1>2
  DEF NodeMoves, ServedMoves, Closed, Still, Dropped, KeysRead, ResultsRead, Left, CleanupBegun,
      LoopTurned, Discovered, TurnDone, MissingFound, Replied, Received, Crashed,
      Threaded, Ended

\* Whoever saves a job has it from its node, or the job is gone from there.
LEMMA WhoSaves ==
  ASSUME BInv, NEW m \in Nodes, NEW n \in Nodes, NEW j \in Jobs, NEW s,
         Saves(m, j, s), Owned(j, n)
  PROVE  \/ /\ poll[m].pc = "cleanup" /\ s = "failed" /\ Past(j) /\ Gone(j, n)
            /\ status[j] # "waiting"
         \/ /\ m = n /\ poll[n].pc = "lost" /\ s = "failed" /\ j \notin Held(n)
            /\ status[j] # "waiting"
         \/ m = n /\ poll[n].pc = "finish" /\ j \in Sent(n) /\ s = poll[n].finished[j]
<1> USE DEF BInv, AInv, XInv, IInv
<1>1. ASSUME NEW i \in Nodes, poll[m].pc \in {"cleanup", "lost"}, <<j, i>> \in poll[m].todo
      PROVE  i = n /\ status[j] # "waiting"
  BY <1>1 DEF Ownership, LoopOwned, Owned, LoopOpen
<1>2. CASE poll[m].pc = "cleanup"
  BY <1>1, <1>2 DEF Saves, CleanDead
<1>3. CASE poll[m].pc = "lost"
  <2>1. PICK i \in Nodes : <<j, i>> \in poll[m].todo /\ s = "failed"
    BY <1>3 DEF Saves
  <2>2. i = n /\ status[j] # "waiting" /\ i = m /\ j \notin poll[m].running
    BY <1>1, <1>3, <2>1 DEF PollInv, LosesUnreported
  <2>3. Held(n) \subseteq poll[n].running
    BY <1>3, <2>2 DEF PollInv, ReportCovers, InFlight, Handling
  <2> QED BY <1>3, <2>1, <2>2, <2>3
<1>4. CASE poll[m].pc = "finish"
  <2>1. j \in Sent(m) /\ s = poll[m].finished[j]
    BY <1>4 DEF Saves
  <2>2. m = n
    BY <1>4, <2>1 DEF ReportInv, ReportOwned, Posted, Owned
  <2> QED BY <1>4, <2>1, <2>2
<1> QED BY <1>2, <1>3, <1>4 DEF Saves

\* No job is saved while its node is busy with it.
LEMMA SavedNotBusy ==
  ASSUME BInv, NEW m \in Nodes, NEW n \in Nodes, NEW j \in Jobs, NEW s,
         Saves(m, j, s), Owned(j, n)
  PROVE  ~Busy(n, j)
<1>1. j \notin Held(n) => ~Busy(n, j)
  BY DEF Held, Busy, BusyPhases
<1>2. poll[n].pc = "finish" /\ j \in Sent(n) => ~Busy(n, j)
  BY DEF BInv, ResultEnded, Posted
<1> QED BY <1>1, <1>2, WhoSaves DEF Gone

\* A job stays reserved while the reply that brings it is on its way.
LEMMA ReplyStaysReserved ==
  ASSUME BInv, [Next]_vars, UsersAway', NoLapse', NEW n \in Nodes
  PROVE  ReplyReserved(n)'
<1> USE DEF BInv, AInv, XInv, IInv
<1> SUFFICES ASSUME poll'[n].pc = "reply", NEW j \in poll'[n].jobs PROVE status'[j] = "reserved"
  BY DEF ReplyReserved
<1>0. NodeMoves(n) /\ poll[n] \in PollType
  BY EveryMove DEF TypeOK
<1>1. CASE poll'[n] = poll[n]
  <2>1. j \in Jobs /\ status[j] = "reserved" /\ Owned(j, n) /\ poll[n].pc = "reply"
    BY <1>0, <1>1 DEF ReplyReserved, Ownership, ReplyOwned, PollType
  <2>2. SUFFICES ASSUME status'[j] # status[j] PROVE FALSE
    BY <2>1
  <2>3. Advances(j) \/ Marked(j) \/ Saved(j) \/ Judged(j)
    BY <2>1, <2>2, StatusMoves
  <2>4. ~Advances(j) /\ ~Judged(j)
    BY <2>1 DEF Advances, Judged
  <2>5. CASE Marked(j)
    BY <2>1, <2>5 DEF Marked, ReportInv, ReportOwned, Owned
  <2>6. CASE Saved(j)
    BY <2>1, <2>6, WhoSaves DEF Saved, Past
  <2> QED BY <2>3, <2>4, <2>5, <2>6
<1>2. CASE Replied(n)
  BY <1>2 DEF Replied, ToSubmit
<1> QED BY <1>0, <1>1, <1>2
  DEF NodeMoves, ServedMoves, Closed, Still, Dropped, KeysRead, ResultsRead, Left, CleanupBegun,
      LoopTurned, Discovered, TurnDone, MissingFound, Received, Crashed,
      Threaded, Ended

\* A thread was busy before, or is one of a job that a reply has brought.
LEMMA BusySince ==
  ASSUME NEW n \in Nodes, NodeMoves(n), NEW j \in Jobs, Busy(n, j)'
  PROVE  /\ ~Crashed(n)
         /\ \/ Busy(n, j)
            \/ Received(n) /\ j \in poll[n].jobs
<1>1. ~Crashed(n)
  BY DEF Crashed, Busy, BusyPhases
<1>2. CASE Ended(n)
  <2>1. worker'[n][j] = worker[n][j]
    BY <1>2 DEF Ended
  <2> QED BY <1>1, <2>1 DEF Busy
<1> QED BY <1>1, <1>2
  DEF NodeMoves, ServedMoves, Closed, Still, Dropped, KeysRead, ResultsRead, Left, CleanupBegun,
      LoopTurned, Discovered, TurnDone, MissingFound, Replied, Received,
      Threaded, Quiet, Busy

\* No job is done while a thread is busy with it.
LEMMA BusyStaysOpen ==
  ASSUME BInv, [Next]_vars, UsersAway', NoLapse', NEW n \in Nodes
  PROVE  BusyOpen(n)'
<1> USE DEF BInv, AInv, XInv, IInv
<1> SUFFICES ASSUME NEW j \in Jobs, Busy(n, j)' PROVE status'[j] \notin Done
  BY DEF BusyOpen
<1>0. NodeMoves(n)
  BY EveryMove
<1>1. CASE Received(n) /\ j \in poll[n].jobs
  BY <1>1 DEF Received, ReplyReserved, Done
<1>2. CASE Busy(n, j)
  <2>1. Owned(j, n) /\ status[j] \notin Done
    BY <1>2 DEF Busy, BusyPhases, Ownership, ThreadsOwned, BusyOpen
  <2>2. CASE status'[j] # status[j]
    <3>1. Advances(j) \/ Marked(j) \/ Saved(j) \/ Judged(j)
      BY <2>2, StatusMoves
    <3>2. ~Advances(j) /\ ~Judged(j)
      BY <2>1 DEF Advances, Judged, Owned, Fresh, Done
    <3>3. ~Saved(j)
      BY <1>2, <2>1, SavedNotBusy DEF Saved
    <3> QED BY <3>1, <3>2, <3>3 DEF Marked, Done
  <2> QED BY <2>1, <2>2
<1> QED BY <1>0, <1>1, <1>2, BusySince

\* A job whose result is stored or sent has no busy thread.
LEMMA ResultStaysEnded ==
  ASSUME IInv, [Next]_vars, NEW n \in Nodes, ResultEnded(n), ReplyUnfinished(n)
  PROVE  ResultEnded(n)'
<1> USE DEF IInv
<1>0. /\ NodeMoves(n) /\ ResultEnded(n) /\ poll[n] \in PollType
      /\ result[n] \in [Jobs -> Outcomes \cup {NoResult}] /\ Reported(NoResults) = {}
  BY EveryMove DEF TypeOK, Reported, NoResults
<1>1. ASSUME NEW j \in Reported(result'[n]), Busy(n, j)' PROVE FALSE
  <2>1. j \in Jobs
    BY DEF Reported
  <2>2. CASE Ended(n)
    <3>1. PICK k \in Jobs, r \in Outcomes :
            /\ Busy(n, k) /\ ~Busy(n, k)'
            /\ \A i \in Jobs : i # k => worker'[n][i] = worker[n][i]
            /\ result'[n] = [result[n] EXCEPT ![k] = r]
      BY <2>2 DEF Ended
    <3>2. j # k
      BY <1>1, <3>1
    <3>3. Busy(n, j) /\ j \in Reported(result[n])
      BY <1>0, <1>1, <2>1, <3>1, <3>2 DEF Busy, Reported
    <3> QED BY <1>0, <3>3 DEF ResultEnded
  <2>3. CASE Received(n)
    <3>1. j \in Reported(result[n]) /\ j \notin Sent(n)
      BY <2>1, <2>3 DEF Received, Purge, Reported, Sent
    <3>2. j \notin poll[n].jobs
      BY <2>3, <3>1 DEF Received, ReplyUnfinished
    <3> QED BY <1>0, <1>1, <2>1, <3>1, <3>2, BusySince DEF ResultEnded
  <2>4. CASE ~Ended(n) /\ ~Received(n)
    <3>1. Busy(n, j) /\ ~Crashed(n)
      BY <1>0, <1>1, <2>1, <2>4, BusySince
    <3>2. j \in Reported(result[n])
      BY <1>0, <2>1, <2>4, <3>1
      DEF NodeMoves, ServedMoves, Closed, Still, Dropped, KeysRead, ResultsRead, Left, CleanupBegun,
          LoopTurned, Discovered, TurnDone, MissingFound, Replied, Threaded, Quiet, Reported
    <3> QED BY <1>0, <3>1, <3>2 DEF ResultEnded
  <2> QED BY <2>2, <2>3, <2>4
<1>2. ASSUME Posted(n)', NEW j \in Sent(n)', Busy(n, j)' PROVE FALSE
  <2>1. j \in Jobs
    BY DEF Sent, Reported
  <2>2. ~Received(n)
    BY <1>2 DEF Received, Posted
  <2>3. Busy(n, j)
    BY <1>0, <1>2, <2>1, <2>2, BusySince
  <2>4. (Posted(n) /\ j \in Sent(n)) \/ j \in Reported(result[n])
    BY <1>0, <1>2, <2>2
    DEF NodeMoves, ServedMoves, Closed, Still, Dropped, KeysRead, ResultsRead, Left, CleanupBegun,
        LoopTurned, Discovered, TurnDone, MissingFound, Replied, Crashed, Threaded, Ended,
        SameRequest, Posted, Sent
  <2> QED BY <1>0, <2>3, <2>4 DEF ResultEnded
<1>3. (\A j \in Reported(result[n]) : ~Busy(n, j))'
  BY <1>1
<1>4. (Posted(n) => \A j \in Sent(n) : ~Busy(n, j))'
  BY <1>2
<1> QED BY <1>3, <1>4 DEF ResultEnded

\* A job comes to wait, or to succeed without having waited, by the report of its node.
LEMMA EndsByReport ==
  ASSUME BInv, [Next]_vars, UsersAway', NoLapse', NEW j \in Jobs,
         status'[j] \in {"waiting", "success"}, status'[j] # status[j],
         status[j] # "waiting"
  PROVE  \E m \in Nodes : /\ poll[m].pc = "finish" /\ j \in Sent(m)
                          /\ poll[m].finished[j] = status'[j] /\ Owned(j, m)
<1> USE DEF BInv, AInv, XInv, IInv
<1>1. Advances(j) \/ Marked(j) \/ Saved(j) \/ Judged(j)
  BY StatusMoves
<1>2. PICK m \in Nodes : Saves(m, j, status'[j])
  BY <1>1 DEF Advances, Marked, Judged, Saved
<1>3. poll[m].pc = "finish" /\ j \in Sent(m) /\ poll[m].finished[j] = status'[j]
  BY <1>2 DEF Saves
<1> QED BY <1>3 DEF ReportInv, ReportOwned, Posted

\* No loop comes to hold a job that waits for its children or is a success.
LEMMA LoopStaysOpen ==
  ASSUME BInv, [Next]_vars, UsersAway', NoLapse', NEW n \in Nodes
  PROVE  LoopOpen(n)'
<1> USE DEF BInv, AInv, XInv, IInv
<1> SUFFICES ASSUME poll'[n].pc \in {"cleanup", "lost"}, NEW t \in poll'[n].todo
             PROVE  status'[t[1]] \notin {"waiting", "success"}
  BY DEF LoopOpen
<1>0. NodeMoves(n) /\ poll[n] \in PollType
  BY EveryMove DEF TypeOK
<1>1. CASE poll[n].pc \in {"cleanup", "lost"} /\ t \in poll[n].todo
  <2>1. t[1] \in Jobs /\ t[2] \in Nodes /\ Owned(t[1], t[2]) /\ status[t[1]] \notin {"waiting", "success"}
    BY <1>0, <1>1 DEF PollType, Ownership, LoopOwned, LoopOpen
  <2>2. SUFFICES ASSUME status'[t[1]] \in {"waiting", "success"} PROVE FALSE
    OBVIOUS
  <2>3. PICK m \in Nodes : poll[m].pc = "finish" /\ t[1] \in Sent(m) /\ Owned(t[1], m)
    BY <2>1, <2>2, EndsByReport
  <2>4. m = t[2]
    BY <2>1, <2>3 DEF Owned
  <2>5. CASE poll[n].pc = "cleanup"
    BY <1>1, <2>3, <2>4, <2>5 DEF CleanDead, Gone, Posted
  <2>6. CASE poll[n].pc = "lost"
    BY <1>1, <2>3, <2>4, <2>6 DEF PollInv, LosesUnreported
  <2> QED BY <1>1, <2>5, <2>6
<1>2. CASE t \in ActiveOn(overdue) \cup Missing(n) /\ status' = status
  BY <1>2 DEF Missing, ActiveOn
<1> QED BY <1>0, <1>1, <1>2
  DEF NodeMoves, ServedMoves, Closed, Still, Dropped, KeysRead, ResultsRead, Left, CleanupBegun,
      LoopTurned, Discovered, TurnDone, MissingFound, Replied, Received, Crashed,
      Threaded, Ended

\* A result that was sent is not replaced by another one.
LEMMA ResultStaysSent ==
  ASSUME BInv, [Next]_vars, UsersAway', NoLapse', NEW n \in Nodes
  PROVE  ResultSent(n)'
<1> USE DEF BInv, AInv, XInv, IInv
<1> SUFFICES ASSUME Posted(n)', NEW j \in Sent(n)'
             PROVE  result'[n][j] \in {poll'[n].finished[j], NoResult}
  BY DEF ResultSent
<1>0. /\ NodeMoves(n) /\ j \in Jobs /\ Reported(NoResults) = {}
      /\ result[n] \in [Jobs -> Outcomes \cup {NoResult}]
  BY EveryMove DEF TypeOK, Reported, NoResults, Sent
<1>1. CASE Posted(n) /\ j \in Sent(n) /\ poll'[n].finished = poll[n].finished
  <2>1. result[n][j] \in {poll[n].finished[j], NoResult} /\ ~Busy(n, j)
    BY <1>1 DEF ResultSent, ResultEnded
  <2>2. CASE Ended(n)
    BY <1>0, <1>1, <2>1, <2>2 DEF Ended
  <2>3. CASE ~Ended(n)
    BY <1>0, <1>1, <2>1, <2>3
    DEF NodeMoves, ServedMoves, Closed, Still, Dropped, KeysRead, ResultsRead, Left, CleanupBegun,
        LoopTurned, Discovered, TurnDone, MissingFound, Replied, Received, Crashed,
        Threaded, Quiet, Purge, NoResults
  <2> QED BY <2>2, <2>3
<1>2. CASE ResultsRead(n)
  BY <1>2 DEF ResultsRead, Quiet
<1>3. CASE Sent(n)' = {}
  BY <1>3
<1> QED BY <1>0, <1>1, <1>2, <1>3
  DEF NodeMoves, ServedMoves, Closed, Still, Dropped, KeysRead, Left, CleanupBegun,
      LoopTurned, Discovered, TurnDone, MissingFound, Replied, Received, Crashed,
      Threaded, Ended, SameRequest, Posted, Sent

\* A job that waits is reported as waiting or not at all.
LEMMA WaitStaysKept ==
  ASSUME BInv, [Next]_vars, UsersAway', NoLapse', NEW n \in Nodes
  PROVE  WaitKept(n)'
<1> USE DEF BInv, AInv, XInv, IInv
<1> SUFFICES ASSUME NEW j \in Jobs, status'[j] = "waiting"
             PROVE  /\ result'[n][j] \in {NoResult, "waiting"}
                    /\ Posted(n)' => poll'[n].finished[j] \in {NoResult, "waiting"}
  BY DEF WaitKept
<1>0. /\ NodeMoves(n) /\ result[n] \in [Jobs -> Outcomes \cup {NoResult}]
      /\ poll[n].finished \in [Jobs -> Outcomes \cup {NoResult}]
  BY EveryMove DEF TypeOK, PollType
<1>1. /\ result[n][j] \in {NoResult, "waiting"}
      /\ Posted(n) => poll[n].finished[j] \in {NoResult, "waiting"}
  <2>1. CASE status[j] = "waiting"
    BY <2>1 DEF WaitKept
  <2>2. CASE status[j] # "waiting"
    <3>1. PICK m \in Nodes : /\ poll[m].pc = "finish" /\ j \in Sent(m)
                             /\ poll[m].finished[j] = "waiting" /\ Owned(j, m)
      BY <2>2, EndsByReport
    <3>2. CASE m = n
      BY <3>1, <3>2 DEF ResultSent, Posted
    <3>3. CASE m # n
      <4>1. ~Owned(j, n)
        BY <3>1, <3>3 DEF Owned
      <4> QED BY <4>1 DEF ReportInv, ReportOwned, Sent, Reported
    <3> QED BY <3>2, <3>3
  <2> QED BY <2>1, <2>2
<1>2. result'[n][j] \in {NoResult, "waiting"}
  <2>1. CASE Ended(n)
    <3>1. ~Busy(n, j)
      BY <2>1 DEF Ended, BusyOpen, Done
    <3> QED BY <1>0, <1>1, <2>1, <3>1 DEF Ended
  <2>2. CASE ~Ended(n)
    BY <1>0, <1>1, <2>2
    DEF NodeMoves, ServedMoves, Closed, Still, Dropped, KeysRead, ResultsRead, Left, CleanupBegun,
        LoopTurned, Discovered, TurnDone, MissingFound, Replied, Received, Crashed,
        Threaded, Quiet, Purge, NoResults
  <2> QED BY <2>1, <2>2
<1>3. Posted(n)' => poll'[n].finished[j] \in {NoResult, "waiting"}
  BY <1>0, <1>1
  DEF NodeMoves, ServedMoves, Closed, Still, Dropped, KeysRead, ResultsRead, Left, CleanupBegun,
      LoopTurned, Discovered, TurnDone, MissingFound, Replied, Received, Crashed,
      Threaded, Ended, SameRequest, Posted, NoResults
<1> QED BY <1>2, <1>3

-----------------------------------------------------------------------------
(* The theorems.                                                           *)

\* The strengthened invariant holds initially.
LEMMA SettlingInit == Init => BInv
<1> SUFFICES ASSUME Init PROVE BInv
  OBVIOUS
<1>1. AInv
  BY ReportInit
<1>2. \A n \in Nodes : poll[n].pc = "idle"
  BY DEF Init, NoPoll
<1>3. \A n \in Nodes : \A j \in Jobs : worker[n][j] = "none" /\ result[n][j] = NoResult
  BY DEF Init, NoResults
<1>4. \A j \in Jobs : status[j] # "waiting"
  BY DEF Init
<1>5. overdue = {} /\ NoLapse /\ \A n \in Nodes : up[n]
  BY DEF Init, NoLapse, Unused
<1>6. ASSUME NEW n \in Nodes
      PROVE  /\ Down(n) /\ CleanDead(n) /\ ReplyReserved(n) /\ BusyOpen(n)
             /\ ResultEnded(n) /\ LoopOpen(n) /\ ResultSent(n) /\ WaitKept(n)
  BY <1>2, <1>3, <1>4, <1>5
  DEF Down, CleanDead, ReplyReserved, BusyOpen, ResultEnded, LoopOpen, ResultSent, WaitKept,
      Posted, Busy, BusyPhases, Reported
<1> QED BY <1>1, <1>5, <1>6 DEF BInv

\* Every step keeps the strengthened invariant, unless a user acts or a client is
\* cut off for two hours.
LEMMA SettlingStep ==
  ASSUME BInv, [Next]_vars, UsersAway', NoLapse'
  PROVE  BInv'
<1>1. AInv'
  BY ReportStep DEF BInv
<1>3. ASSUME NEW n \in Nodes
      PROVE  /\ Down(n)' /\ CleanDead(n)' /\ ReplyReserved(n)' /\ BusyOpen(n)'
             /\ ResultEnded(n)' /\ LoopOpen(n)' /\ ResultSent(n)' /\ WaitKept(n)'
  <2>1. IInv /\ NoLapse /\ Down(n) /\ ResultEnded(n)
    BY DEF BInv, AInv, XInv
  <2>2. ReplyUnfinished(n)
    BY DEF BInv, AInv, ReportInv, ResultCovered, ReplyNew, Posted, ReplyUnfinished
  <2>3. Down(n)' /\ ResultEnded(n)'
    BY <2>1, <2>2, DownStays, ResultStaysEnded
  <2> QED BY <2>3, CleanStays, ReplyStaysReserved, BusyStaysOpen,
             LoopStaysOpen, ResultStaysSent, WaitStaysKept
<1> QED BY <1>1, <1>3 DEF BInv

\* No user has acted and no client was cut off.
Untouched == UsersAway /\ NoLapse

\* The strengthened invariant holds until a user acts or a client is cut off.
LEMMA SettlingInvariant == Spec => [](IInv /\ Bounded /\ (Untouched => BInv))
<1>1. Init => IInv /\ Bounded /\ BInv
  BY InvInit, BoundedInit, SettlingInit
<1>2. IInv /\ Bounded /\ (Untouched => BInv) /\ [Next]_vars
        => (IInv /\ Bounded /\ (Untouched => BInv))'
  <2> SUFFICES ASSUME IInv, Bounded, Untouched => BInv, [Next]_vars
               PROVE  (IInv /\ Bounded /\ (Untouched => BInv))'
    OBVIOUS
  <2>1. IInv' /\ Bounded'
    BY TypeStep, PollInvStep, BudgetShrinks DEF IInv
  <2>2. ASSUME Untouched' PROVE BInv'
    <3>1. UsersAway' /\ NoLapse'
      BY <2>2 DEF Untouched
    <3>2. Untouched
      BY <3>1, BudgetShrinks DEF Untouched, UsersAway, NoLapse, IInv, Faults
    <3> QED BY <3>1, <3>2, SettlingStep
  <2> QED BY <2>1, <2>2
<1> QED BY <1>1, <1>2, PTL DEF Spec

\* Nothing was used of two budgets when their counts say so.
LEMMA UntouchedIsUnused ==
  ASSUME TypeOK, Used("user") = 0, Used("lapse") = 0
  PROVE  Untouched
BY UnusedIsUsed DEF Untouched, UsersAway, NoLapse, Faults

\* A job that the database calls success or failed has no live thread anywhere,
\* as long as no user has acted and no client that runs was cut off for two
\* hours: for any number of jobs, nodes, lost polls and crashes.  Both conditions
\* are needed: a result that is reported again after a lost reply settles a job
\* that a user restarted in between, and the cleanup fails the jobs of a client
\* that is only cut off.
THEOREM DoneJobsHaveStopped ==
  Spec => [](Used("user") = 0 /\ Used("lapse") = 0 => TerminalMeansStopped)
<1>1. BInv => TerminalMeansStopped
  BY DEF BInv, BusyOpen, TerminalMeansStopped, Executing, Busy, BusyPhases, Done
<1>2. IInv /\ Used("user") = 0 /\ Used("lapse") = 0 => Untouched
  BY UntouchedIsUnused DEF IInv
<1> QED BY SettlingInvariant, <1>1, <1>2, PTL

\* No step gives a waiting parent its verdict while a machine runs a child of it.
LEMMA VerdictStep ==
  ASSUME BInv, [Next]_vars, UsersAway', NoLapse', NEW p \in Jobs, NEW c \in Jobs, NEW n \in Nodes,
         status[p] = "waiting", status'[p] \in {"success", "failed"}, Parent[c] = p
  PROVE  c \notin Executing(n)
<1> USE DEF BInv, AInv, XInv, IInv
<1> SUFFICES ASSUME Busy(n, c) PROVE FALSE
  BY DEF Executing, Busy, BusyPhases
<1>1. Owned(c, n) /\ status[c] \notin Done
  BY DEF Busy, BusyPhases, Ownership, ThreadsOwned, BusyOpen
<1>2. Advances(p) \/ Marked(p) \/ Saved(p) \/ Judged(p)
  BY StatusMoves
<1>3. ~Advances(p) /\ ~Marked(p)
  BY DEF Advances, Marked
<1>4. ~Saved(p)
  <2> SUFFICES ASSUME NEW m \in Nodes, Saves(m, p, status'[p]) PROVE FALSE
    BY DEF Saved
  <2>1. poll[m].pc = "finish" /\ status'[p] = poll[m].finished[p] /\ p \in Sent(m)
    BY DEF Saves, LoopOpen
  <2>2. poll[m].finished[p] \in {NoResult, "waiting"}
    BY <2>1 DEF WaitKept, Posted
  <2> QED BY <2>1, <2>2 DEF NoResult
<1>5. PICK m \in Nodes, k \in Jobs, s \in {"success", "failed"} :
        /\ Saves(m, k, s)
        /\ \A d \in Jobs \ {k} : Parent[d] = p /\ status[d] \notin Absent
                                   => status[d] \in {"success", "failed"}
  BY <1>2, <1>3, <1>4 DEF Judged
<1>6. c # k
  BY <1>1, <1>5, SavedNotBusy
<1>7. status[c] \notin Absent
  BY <1>1 DEF Owned, Fresh, FamilyGiven, Absent
<1> QED BY <1>1, <1>5, <1>6, <1>7 DEF Done

\* UpdateParentJob (jobs/views.py) settles a parent only when all its children have
\* stopped, under the hypotheses of DoneJobsHaveStopped: no handler that runs
\* beside it brings the verdict too early.
THEOREM VerdictsWait ==
  ASSUME Budget["user"] = 0, Budget["lapse"] = 0
  PROVE  Spec => VerdictWaitsForChildren
<1>1. IInv /\ Bounded => Untouched
  <2> SUFFICES ASSUME IInv, Bounded PROVE Unused("user") /\ Unused("lapse")
    BY DEF Untouched, UsersAway, NoLapse
  <2>1. budget["user"] \in Nat /\ budget["lapse"] \in Nat
    BY DEF IInv, TypeOK, Faults
  <2>2. budget["user"] <= 0 /\ budget["lapse"] <= 0
    BY DEF Bounded, Faults
  <2> QED BY <2>1, <2>2 DEF Unused
<1>2. BInv /\ Untouched' /\ [Next]_vars =>
        [\A p \in Jobs :
           status[p] = "waiting" /\ status'[p] \in {"success", "failed"}
             => \A c \in Jobs, n \in Nodes : Parent[c] = p => c \notin Executing(n)]_vars
  BY VerdictStep DEF Untouched
<1> QED BY SettlingInvariant, <1>1, <1>2, PTL DEF Spec, VerdictWaitsForChildren
-----------------------------------------------------------------------------
(* If no message is lost, either, what succeeded stays a success, and a    *)
(* job runs only after those it depends on.                                *)

NoLoss == Unused("loss")

\* The handler of n has saved the result of j that it was sent.
Recorded(n, j) ==
  /\ poll[n].pc \in {"finish", "lost", "reply"} /\ j \in Sent(n)
  /\ poll[n].pc = "finish" => <<j, n>> \notin poll[n].todo

\* The client of n runs j, or has a result of it that is not recorded.
Live(n, j) == (Busy(n, j) \/ j \in Reported(result[n])) /\ ~Recorded(n, j)

FinishesOwn(n) == poll[n].pc = "finish" => \A t \in poll[n].todo : t[2] = n

\* A handler will still hear of j from n, or mark it as running.
Unsettled(n, j) ==
  \/ Live(n, j)
  \/ Posted(n) /\ j \in Sent(n) /\ ~Recorded(n, j)
  \/ poll[n].pc \in {"keys", "sent", "cleanup"} /\ j \in poll[n].running

UnsettledOpen(n) == \A j \in Jobs : Unsettled(n, j) => status[j] \notin Done

\* A row is made after those it depends on,
DependenciesBorn == \A j \in Jobs : status[j] # "unborn" => \A d \in Deps[j] : status[d] # "unborn"

\* and given away after their success.
DependenciesDone == \A j \in Jobs : status[j] \notin Fresh => \A d \in Deps[j] : status[d] = "success"

\* Inductive if no message is lost, either: implies DependenciesHold.
DInv ==
  /\ BInv /\ NoLoss /\ DependenciesBorn /\ DependenciesDone
  /\ \A n \in Nodes : FinishesOwn(n) /\ UnsettledOpen(n)

\* The moves of a node if no message is lost.
LEMMA HeardMove ==
  ASSUME IInv, NoLoss, NoLoss', [Next]_vars, NEW n \in Nodes
  PROVE  ServedMoves(n) \/ Crashed(n)
<1>1. ~\E m \in Nodes : LosePoll(m)
  BY NothingSpent DEF LosePoll, NoLoss, IInv, Faults
<1> QED BY <1>1, EveryMove

\* The loop over finished jobs is that of its node.
LEMMA FinishesOfItsNode ==
  ASSUME NEW n \in Nodes, NodeMoves(n), FinishesOwn(n)
  PROVE  FinishesOwn(n)'
<1>1. CASE Discovered(n)
  BY <1>1 DEF Discovered, FinishesOwn
<1>2. CASE poll'[n].pc = "finish" => poll[n].pc = "finish" /\ poll'[n].todo \subseteq poll[n].todo
  BY <1>2 DEF FinishesOwn
<1> QED BY <1>1, <1>2
     DEF NodeMoves, ServedMoves, Still, KeysRead, ResultsRead, Left, CleanupBegun, LoopTurned,
         TurnDone, MissingFound, Replied, Received, Closed, Dropped, Threaded, Ended, Crashed

\* A handler that ends without a reply is that of a client that is down, once
\* results were recorded: the parents of the rows it saves are there.
LEMMA ClosedIsSilent ==
  ASSUME BInv, NEW n \in Nodes, Closed(n)
  PROVE  poll[n].pc = "cleanup" \/ Silent(n)
<1> USE DEF BInv, AInv, XInv, IInv
<1>1. ASSUME poll[n].pc = "lost", NEW t \in poll[n].todo, Parent[t[1]] # NoJob
      PROVE  Exists(status, Parent[t[1]])
  <2>1. t[1] \in Jobs
    BY DEF TypeOK, PollType
  <2>2. status[t[1]] # "unborn"
    BY <1>1 DEF Ownership, LoopOwned, Owned, Fresh
  <2>3. Parent[t[1]] \in Jobs
    BY <1>1, <2>1, ConstantsAssumption
  <2>4. status[Parent[t[1]]] \notin Absent
    BY <1>1, <2>1, <2>2, <2>3 DEF FamilyGiven, Absent, Fresh
  <2> QED BY <1>1, <2>4 DEF Exists
<1> QED BY <1>1 DEF Closed, Down

\* A client has a job by its reply, and as long as its result is not saved.
LEMMA LiveSince ==
  ASSUME BInv, NEW n \in Nodes, ServedMoves(n) \/ Crashed(n), NEW j \in Jobs, Live(n, j)'
  PROVE  Live(n, j) \/ (Received(n) /\ j \in poll[n].jobs)
<1> USE DEF BInv, AInv, XInv, IInv
<1>0. /\ ServedMoves(n) /\ ResultEnded(n)
      /\ poll[n] \in PollType /\ result[n] \in [Jobs -> Outcomes \cup {NoResult}]
  <2>1. ~Crashed(n)
    BY DEF Crashed, Live, Busy, BusyPhases, Reported, NoResults
  <2> QED BY <2>1 DEF TypeOK
<1>1. CASE /\ Busy(n, j)' => Busy(n, j)
           /\ j \in Reported(result[n])' => j \in Reported(result[n])
           /\ Recorded(n, j) => Recorded(n, j)'
  BY <1>1 DEF Live
<1>2. CASE Quiet(n) /\ ~Threaded(n) /\ ~Ended(n) /\ ~Received(n)
  <2>1. /\ Busy(n, j)' => Busy(n, j)
        /\ j \in Reported(result[n])' => j \in Reported(result[n])
    BY <1>2 DEF Quiet, Busy, Reported
  <2>2. CASE Still(n)
    BY <1>1, <2>1, <2>2 DEF Still, Recorded, Sent
  <2>3. CASE poll[n].pc \notin {"finish", "lost", "reply"}
    BY <1>1, <2>1, <2>3 DEF Recorded
  <2>4. CASE LoopTurned(n) \/ Replied(n) \/ TurnDone(n) \/ MissingFound(n)
    <3>1. /\ SameRequest(n)
          /\ \/ poll[n].pc = "cleanup"
             \/ poll[n].pc \in {"finish", "lost"} /\ poll'[n].pc \in {"lost", "reply"}
             \/ /\ poll[n].pc = "finish" /\ poll'[n].pc = "finish"
                /\ poll'[n].todo \subseteq poll[n].todo
      BY <2>4 DEF LoopTurned, Replied, TurnDone, MissingFound
    <3> QED BY <1>1, <2>1, <3>1 DEF Recorded, SameRequest, Sent
  <2>5. CASE Closed(n) /\ Silent(n)
    <3>1. ~Busy(n, j) /\ j \notin Reported(result[n])
      BY <2>5 DEF Silent, Held, Busy, BusyPhases
    <3> QED BY <2>1, <3>1 DEF Live
  <2> QED BY <1>0, <1>2, <2>2, <2>3, <2>4, <2>5, ClosedIsSilent
       DEF ServedMoves, KeysRead, ResultsRead, Left, CleanupBegun, Discovered
<1>3. CASE Threaded(n)
  BY <1>1, <1>3 DEF Threaded, Recorded, Sent, Reported
<1>4. CASE Ended(n)
  <2>1. PICK k \in Jobs, r \in Outcomes :
          /\ Busy(n, k) /\ ~Busy(n, k)'
          /\ \A i \in Jobs : i # k => worker'[n][i] = worker[n][i]
          /\ result'[n] = [result[n] EXCEPT ![k] = r]
    BY <1>4 DEF Ended
  <2>2. Recorded(n, j)' <=> Recorded(n, j)
    BY <1>4 DEF Ended, Recorded, Sent
  <2>3. CASE j # k
    BY <1>0, <1>1, <2>1, <2>2, <2>3 DEF Busy, Reported
  <2>4. CASE j = k
    BY <2>1, <2>2, <2>4 DEF Live
  <2> QED BY <2>3, <2>4
<1>5. CASE Received(n)
  <2>1. /\ poll[n].pc = "reply"
        /\ Busy(n, j)' => Busy(n, j) \/ j \in poll[n].jobs
        /\ result'[n] = Purge(result[n], poll[n].finished)
    BY <1>5 DEF Received
  <2>2. Recorded(n, j) => j \in Sent(n)
    BY DEF Recorded
  <2>3. j \in Reported(result[n])' => j \in Reported(result[n]) /\ j \notin Sent(n)
    BY <2>1 DEF Reported, Purge, Sent
  <2>4. j \in Sent(n) => ~Busy(n, j)
    BY <1>0, <2>1 DEF ResultEnded, Posted
  <2> QED BY <1>5, <2>1, <2>2, <2>3, <2>4 DEF Live
<1> QED BY <1>0, <1>2, <1>3, <1>4, <1>5
     DEF ServedMoves, Still, KeysRead, ResultsRead, Left, CleanupBegun,
         LoopTurned, Discovered, TurnDone, MissingFound, Replied, Closed, Dropped

\* A node has something to say of a job by its reply, and until it has said it.
LEMMA UnsettledSince ==
  ASSUME BInv, PromptWrapper = TRUE, NEW n \in Nodes, ServedMoves(n) \/ Crashed(n),
         NEW j \in Jobs, Unsettled(n, j)'
  PROVE  Unsettled(n, j) \/ (Received(n) /\ j \in poll[n].jobs)
<1> USE DEF BInv, AInv, XInv, IInv
<1>0. poll[n] \in PollType /\ worker \in [Nodes -> [Jobs -> Phases]] /\ Reported(NoResults) = {}
  BY DEF TypeOK, Reported, NoResults
<1>1. CASE Live(n, j)'
  BY <1>1, LiveSince DEF Unsettled
<1>2. CASE poll'[n] = poll[n] /\ ~Live(n, j)'
  BY <1>2 DEF Unsettled, Posted, Sent, Recorded
<1>3. CASE KeysRead(n) /\ poll'[n].pc = "keys" /\ j \in poll'[n].running
  <2>1. j \in Held(n) /\ (PromptWrapper => worker[n][j] # "stored") /\ poll[n].pc = "idle"
    BY <1>3, Zenon DEF KeysRead
  <2>2. worker[n][j] # "stored"
    BY <2>1, Zenon
  <2>3. Busy(n, j)
    BY <1>0, <2>1, <2>2 DEF Held, Busy, BusyPhases, Phases
  <2>4. ~Recorded(n, j)
    BY <2>1 DEF Recorded
  <2> QED BY <2>3, <2>4 DEF Unsettled, Live
<1>4. CASE ResultsRead(n)
  <2>1. /\ poll[n].pc = "keys" /\ poll'[n].pc = "sent"
        /\ poll'[n].running = poll[n].running /\ poll'[n].finished = result[n]
    BY <1>4 DEF ResultsRead
  <2>2. CASE j \in poll'[n].running
    BY <2>1, <2>2 DEF Unsettled
  <2>3. CASE j \in Reported(result[n])
    BY <2>1, <2>3 DEF Unsettled, Live, Recorded
  <2> QED BY <1>1, <2>1, <2>2, <2>3 DEF Unsettled, Sent
<1>5. CASE Left(n)
  BY <1>0, <1>1, <1>5 DEF Left, Unsettled, Sent
<1>6. CASE /\ SameRequest(n) /\ Posted(n) /\ ~Live(n, j)'
           /\ poll'[n].pc \in {"sent", "cleanup"} => poll[n].pc \in {"sent", "cleanup"}
           /\ poll'[n].pc # "keys"
           /\ Recorded(n, j) => Recorded(n, j)'
  BY <1>6 DEF Unsettled, SameRequest, Sent
<1>7. CASE CleanupBegun(n) \/ LoopTurned(n) \/ Replied(n) \/ TurnDone(n) \/ MissingFound(n) \/ Discovered(n)
  <2>1. /\ SameRequest(n)
        /\ \/ poll[n].pc \in {"sent", "cleanup"} /\ poll'[n].pc \in {"cleanup", "finish"}
           \/ poll[n].pc \in {"finish", "lost"} /\ poll'[n].pc \in {"lost", "reply"}
           \/ /\ poll[n].pc = "finish" /\ poll'[n].pc = "finish"
              /\ poll'[n].todo \subseteq poll[n].todo
    BY <1>7 DEF CleanupBegun, LoopTurned, Replied, TurnDone, MissingFound, Discovered
  <2>2. Recorded(n, j) => Recorded(n, j)'
    BY <2>1 DEF Recorded, SameRequest, Sent
  <2> QED BY <1>1, <1>6, <2>1, <2>2 DEF Posted
<1>8. CASE poll'[n].pc = "idle"
  BY <1>1, <1>8 DEF Unsettled, Posted
<1> QED BY <1>1, <1>2, <1>3, <1>4, <1>5, <1>7, <1>8
     DEF ServedMoves, Still, KeysRead, Received, Closed, Dropped, Threaded, Ended, Crashed,
         Unsettled, Posted

\* What a node has something to say of is its own.
LEMMA UnsettledOwned ==
  ASSUME AInv, NEW n \in Nodes, NEW j \in Jobs, Unsettled(n, j)
  PROVE  Owned(j, n)
BY DEF AInv, XInv, Ownership, ThreadsOwned, ReportInv, ReportOwned, Unsettled, Live, Busy, BusyPhases

\* A job that is saved as done is settled everywhere.
LEMMA SettledOnce ==
  ASSUME DInv, [Next]_vars, UsersAway', NoLapse', NoLoss', PromptWrapper = TRUE,
         NEW n \in Nodes, NEW j \in Jobs, status'[j] \in Done, status'[j] # status[j]
  PROVE  ~Unsettled(n, j)'
<1> USE DEF DInv, BInv, AInv, XInv, IInv
<1> SUFFICES ASSUME Unsettled(n, j)' PROVE FALSE
  OBVIOUS
<1>1. Unsettled(n, j) /\ Owned(j, n)
  <2>1. ~Received(n)
    BY DEF Received
  <2>2. ServedMoves(n) \/ Crashed(n)
    BY HeardMove
  <2>3. Unsettled(n, j)
    BY <2>1, <2>2, UnsettledSince
  <2> QED BY <2>3, UnsettledOwned
<1>2. status[j] \notin Done
  BY <1>1 DEF UnsettledOpen
<1>3. PICK m \in Nodes : Saves(m, j, status'[j]) /\ PassedBy(m, j)
  <2>1. Advances(j) \/ Marked(j) \/ Saved(j) \/ Judged(j)
    BY StatusMoves
  <2> QED BY <1>2, <2>1 DEF Advances, Marked, Judged, Saved, Done
<1>4. CASE Gone(j, n)
  BY <1>1, <1>4 DEF Gone, Unsettled, Live, Busy, BusyPhases, Held, Reported
<1>5. CASE m = n /\ poll[n].pc = "lost"
  <2>1. j \notin poll[n].running /\ ~Busy(n, j)
    BY <1>1, <1>3, <1>5, SavedNotBusy DEF Saves, PollInv, LosesUnreported
  <2>2. j \in Reported(result[n]) => j \in Sent(n)
    BY <1>5, <2>1 DEF ReportInv, ResultCovered, Posted
  <2> QED BY <1>1, <1>5, <2>1, <2>2 DEF Unsettled, Live, Recorded
<1>6. CASE m = n /\ poll[n].pc = "finish"
  <2>1. <<j, n>> \notin poll'[n].todo /\ poll'[n].pc = "finish" /\ poll'[n].finished = poll[n].finished
    BY <1>3, <1>6 DEF PassedBy, FinishesOwn
  <2>2. j \in Sent(n)'
    BY <1>3, <1>6, <2>1 DEF Saves, Sent
  <2> QED BY <2>1, <2>2 DEF Unsettled, Live, Recorded
<1> QED BY <1>1, <1>3, <1>4, <1>5, <1>6, WhoSaves

\* What a node has something to say of is not done.
LEMMA UnsettledStaysOpen ==
  ASSUME DInv, [Next]_vars, UsersAway', NoLapse', NoLoss', PromptWrapper = TRUE, NEW n \in Nodes
  PROVE  UnsettledOpen(n)'
<1> USE DEF DInv, BInv, AInv, XInv, IInv
<1> SUFFICES ASSUME NEW j \in Jobs, Unsettled(n, j)', status'[j] \in Done PROVE FALSE
  BY DEF UnsettledOpen
<1>1. status'[j] = status[j]
  BY SettledOnce
<1>2. ~Unsettled(n, j)
  BY <1>1 DEF UnsettledOpen
<1>3. ServedMoves(n) \/ Crashed(n)
  BY HeardMove
<1>4. Received(n) /\ j \in poll[n].jobs
  BY <1>2, <1>3, UnsettledSince
<1> QED BY <1>1, <1>4 DEF Received, ReplyReserved, Done

\* A success is for ever.
LEMMA SuccessStays ==
  ASSUME DInv, [Next]_vars, UsersAway', NEW j \in Jobs, status[j] = "success"
  PROVE  status'[j] = "success"
<1> USE DEF DInv, BInv, AInv, XInv, IInv
<1> SUFFICES ASSUME status'[j] # status[j] PROVE FALSE
  OBVIOUS
<1>0. \A m \in Nodes : ~Unsettled(m, j)
  BY DEF UnsettledOpen, Done
<1>1. CASE Marked(j)
  BY <1>0, <1>1 DEF Marked, Unsettled
<1>2. ASSUME NEW m \in Nodes, Saves(m, j, status'[j]), PassedBy(m, j) PROVE FALSE
  <2>1. poll[m].pc = "finish" /\ j \in Sent(m) /\ <<j, m>> \in poll[m].todo
    BY <1>2 DEF Saves, LoopOpen, PassedBy, FinishesOwn
  <2> QED BY <1>0, <2>1 DEF Unsettled, Posted, Recorded
<1>3. Advances(j) \/ Marked(j) \/ Saved(j) \/ Judged(j)
  BY StatusMoves
<1> QED BY <1>1, <1>2, <1>3 DEF Advances, Judged, Saved

\* What a step gives away was ready, and its dependencies were met.
LEMMA GivenWhenMet ==
  ASSUME AInv, [Next]_vars, UsersAway', NEW j \in Jobs, status[j] \in Fresh, status'[j] # status[j]
  PROVE  Advances(j)
<1> USE DEF AInv, XInv, IInv
<1>1. Advances(j) \/ Marked(j) \/ Saved(j) \/ Judged(j)
  BY StatusMoves
<1>2. ~Marked(j)
  BY DEF Marked, ReportInv, ReportOwned, Owned
<1>3. ~Saved(j)
  <2>1. ASSUME NEW m \in Nodes, NEW i \in Nodes, poll[m].pc \in {"cleanup", "lost"}, <<j, i>> \in poll[m].todo
        PROVE  FALSE
    BY <2>1 DEF Ownership, LoopOwned, Owned
  <2> QED BY <2>1 DEF Saved, Saves, ReportInv, ReportOwned, Posted, Owned
<1>4. ~Judged(j)
  BY DEF Judged, Fresh
<1> QED BY <1>1, <1>2, <1>3, <1>4

\* Rows depend on rows.
LEMMA DependenciesStayBorn ==
  ASSUME AInv, DependenciesBorn, [Next]_vars, UsersAway'
  PROVE  DependenciesBorn'
<1> USE DEF AInv, XInv, IInv
<1>1. ASSUME NEW j \in Jobs, status[j] # "unborn" PROVE status'[j] # "unborn"
  <2>1. CASE status[j] \in Fresh /\ status'[j] # status[j]
    BY <1>1, <2>1, GivenWhenMet DEF Advances
  <2>2. CASE status[j] \notin Fresh
    BY <2>2, GivenForEver DEF Fresh
  <2> QED BY <1>1, <2>1, <2>2
<1>2. ASSUME NEW j \in Jobs, status[j] = "unborn", status'[j] # "unborn", NEW d \in Deps[j]
      PROVE  status[d] # "unborn"
  <2>1. Advances(j)
    BY <1>2, GivenWhenMet DEF Fresh
  <2> QED BY <1>2, <2>1 DEF Advances, Absent
<1>3. \A j \in Jobs : Deps[j] \subseteq Jobs
  BY ConstantsAssumption
<1> QED BY <1>1, <1>2, <1>3 DEF DependenciesBorn

\* What is given away depends on successes.
LEMMA DependenciesStayDone ==
  ASSUME DInv, [Next]_vars, UsersAway'
  PROVE  DependenciesDone'
<1> USE DEF DInv, BInv, AInv, XInv, IInv
<1> SUFFICES ASSUME NEW j \in Jobs, status'[j] \notin Fresh, NEW d \in Deps[j]
             PROVE  status'[d] = "success"
  BY DEF DependenciesDone
<1>0. d \in Jobs
  BY ConstantsAssumption
<1>1. status[d] = "success"
  <2>1. CASE status[j] \notin Fresh
    BY <2>1 DEF DependenciesDone
  <2>2. CASE status[j] \in Fresh
    <3>1. status[j] = "ready" /\ DependenciesMet(j)
      BY <2>2, GivenWhenMet DEF Advances, Fresh
    <3>2. status[d] \notin Absent
      BY <1>0, <3>1 DEF DependenciesBorn, FamilyGiven, Absent
    <3> QED BY <1>0, <3>1, <3>2, ConstantsAssumption DEF DependenciesMet, Exists
  <2> QED BY <2>1, <2>2
<1> QED BY <1>0, <1>1, SuccessStays

\* Rows that are there initially depend on rows that are there.
FirstRows == \A j \in Jobs : Parent[j] = NoJob => \A d \in Deps[j] : Parent[d] = NoJob

\* The invariant of dependencies holds initially,
LEMMA DependenciesInit ==
  ASSUME FirstRows, Init
  PROVE  DInv
<1>1. BInv
  BY SettlingInit
<1>2. \A n \in Nodes : poll[n].pc = "idle" /\ \A j \in Jobs : worker[n][j] = "none" /\ result[n][j] = NoResult
  BY DEF Init, NoPoll, NoResults
<1>3. \A n \in Nodes : FinishesOwn(n) /\ UnsettledOpen(n)
  BY <1>2 DEF FinishesOwn, UnsettledOpen, Unsettled, Live, Busy, BusyPhases, Reported, Posted
<1>4. \A j \in Jobs : Deps[j] \subseteq Jobs
  BY ConstantsAssumption
<1>5. DependenciesBorn
  BY <1>4 DEF DependenciesBorn, FirstRows, Init
<1>6. DependenciesDone
  BY DEF DependenciesDone, Fresh, Init
<1> QED BY <1>1, <1>3, <1>5, <1>6 DEF DInv, NoLoss, Unused, Init

\* and every step keeps it.
LEMMA DependenciesStep ==
  ASSUME DInv, [Next]_vars, UsersAway', NoLapse', NoLoss', PromptWrapper = TRUE
  PROVE  DInv'
<1>1. BInv' /\ DependenciesBorn' /\ DependenciesDone'
  BY SettlingStep, DependenciesStayBorn, DependenciesStayDone DEF DInv, BInv
<1>2. ASSUME NEW n \in Nodes PROVE FinishesOwn(n)' /\ UnsettledOpen(n)'
  <2>1. NodeMoves(n)
    BY EveryMove DEF DInv, BInv, AInv, XInv
  <2> QED BY <2>1, FinishesOfItsNode, UnsettledStaysOpen DEF DInv
<1> QED BY <1>1, <1>2 DEF DInv

\* No user has acted, no client was cut off, no message was lost.
Unspoilt == Untouched /\ NoLoss

\* The invariant of dependencies holds as long as these steps do not come.
LEMMA DependenciesInvariant ==
  ASSUME PromptWrapper = TRUE, FirstRows
  PROVE  Spec => [](IInv /\ Bounded /\ (Unspoilt => DInv))
<1>1. Init => IInv /\ Bounded /\ DInv
  BY InvInit, BoundedInit, DependenciesInit
<1>2. IInv /\ Bounded /\ (Unspoilt => DInv) /\ [Next]_vars
        => (IInv /\ Bounded /\ (Unspoilt => DInv))'
  <2> SUFFICES ASSUME IInv, Bounded, Unspoilt => DInv, [Next]_vars
               PROVE  (IInv /\ Bounded /\ (Unspoilt => DInv))'
    OBVIOUS
  <2>1. IInv' /\ Bounded'
    BY TypeStep, PollInvStep, BudgetShrinks DEF IInv
  <2>2. ASSUME Unspoilt' PROVE DInv'
    <3>1. UsersAway' /\ NoLapse' /\ NoLoss'
      BY <2>2 DEF Unspoilt, Untouched
    <3>2. Unspoilt
      BY <3>1, BudgetShrinks DEF Unspoilt, Untouched, UsersAway, NoLapse, NoLoss, IInv, Faults
    <3> QED BY <3>1, <3>2, DependenciesStep
  <2> QED BY <2>1, <2>2
<1> QED BY <1>1, <1>2, PTL DEF Spec

\* While a job runs, every job it depends on stays a success, as long as no user has
\* acted, no client was cut off and no message was lost: for any number of jobs,
\* nodes, dependencies and crashes.  The scheduler only looks when it gives the
\* job away; a lost reply makes a parent, settled by its children, wait again
\* when its report is repeated.  The rows of the beginning depend on each other,
\* as the foreign key demands.
THEOREM DependenciesStayMet ==
  ASSUME PromptWrapper = TRUE,
         \A j \in Jobs : Parent[j] = NoJob => \A d \in Deps[j] : Parent[d] = NoJob
  PROVE  Spec => []((Used("user") = 0 /\ Used("lapse") = 0 /\ Used("loss") = 0)
                      => DependenciesHold)
<1>1. FirstRows
  BY DEF FirstRows
<1>2. Spec => [](IInv /\ Bounded /\ (Unspoilt => DInv))
  BY <1>1, DependenciesInvariant
<1>3. DInv => DependenciesHold
  BY DEF DInv, BInv, AInv, XInv, Ownership, ThreadsOwned, Owned, DependenciesDone,
         DependenciesHold, Executing
<1>4. IInv /\ Used("user") = 0 /\ Used("lapse") = 0 /\ Used("loss") = 0 => Unspoilt
  BY UnusedIsUsed, UntouchedIsUnused DEF IInv, Unspoilt, NoLoss, Faults
<1> QED BY <1>2, <1>3, <1>4, PTL

-----------------------------------------------------------------------------
(* Users may kill, delete and restart jobs as often as they like while the *)
(* farm works: as long as no message is lost, no machine crashes and none  *)
(* is cut off, one machine at a time runs a job, a job that the database   *)
(* calls done has stopped, and a client that restarts loses no job.        *)

\* The setting: wrapper threads are not interrupted between their last two
\* statements, and users restart jobs that are done or wait for their children.
Setting == PromptWrapper = TRUE /\ RestartFrom \subseteq Done

Calm == Unused("loss") /\ Unused("crash") /\ Unused("lapse")

Active == {"reserved", "running", "terminating"}

-----------------------------------------------------------------------------
(* Who has a job: its client, from the reply to the moment in which the    *)
(* server saves the result.                                                *)

\* A reply with j is on its way to n.
Coming(n, j) == poll[n].pc = "reply" /\ j \in poll[n].jobs

Claims(n, j) == Live(n, j) \/ Coming(n, j)

OneClaim == \A j \in Jobs, n, m \in Nodes : Claims(n, j) /\ Claims(m, j) => n = m

\* A job that is believed to run is live at its node.
ActiveLive ==
  \A j \in Jobs : status[j] \in {"running", "terminating"}
                    => \E n \in Nodes : node[j] = n /\ Live(n, j)

\* Users cannot restart what is live or on its way; they can only delete its row.
LiveOwned(n) ==
  \A j \in Jobs : Live(n, j) => (node[j] = n /\ status[j] \in Active) \/ status[j] = "deleted"

ComingOwned(n) ==
  \A j \in Jobs : Coming(n, j) => (node[j] = n /\ status[j] = "reserved") \/ status[j] = "deleted"

ComingNew(n) == \A j \in Jobs : Coming(n, j) => ~Live(n, j)

\* What a request names is live until its results are saved,
RunningLive(n) ==
  poll[n].pc \in {"keys", "sent", "cleanup"} => \A j \in poll[n].running : Live(n, j)

\* is marked as running,
LiveMarked(n) ==
  poll[n].pc \in {"finish", "lost", "reply"} =>
    \A j \in poll[n].running : Live(n, j) => status[j] # "reserved"

\* and its results are those that the client has.
SentAsIs(n) == Posted(n) => \A j \in Sent(n) : result[n][j] = poll[n].finished[j]

\* No loop ever finds a job to fail.
NothingLost(n) == poll[n].pc \in {"cleanup", "lost"} => poll[n].todo = {}

\* Inductive in a calm farm, whatever users do: implies ExclusiveExecution and
\* TerminalMeansStopped.
CInv ==
  /\ IInv /\ Setting /\ Calm /\ OneClaim /\ ActiveLive
  /\ \A n \in Nodes :
       /\ Down(n) /\ ResultEnded(n) /\ ResultCovered(n) /\ SentAsIs(n) /\ FinishesOwn(n)
       /\ LiveOwned(n) /\ ComingOwned(n) /\ ComingNew(n) /\ RunningLive(n) /\ LiveMarked(n)
       /\ NothingLost(n)

-----------------------------------------------------------------------------
(* What a step may do to the row of a job.                                 *)

\* A row of a job that nobody has: it is launched, scheduled, judged or restarted.
Loose(j) == status[j] \notin Active \cup {"deleted"} /\ status'[j] \notin {"running", "terminating"}

Removed(j) == status'[j] = "deleted" /\ node'[j] = node[j]

Remarked(j) == status[j] # "deleted" /\ node'[j] = node[j] /\ Marked(j)

Killed(j) == status[j] = "running" /\ status'[j] = "terminating" /\ node'[j] = node[j]

\* The handler of m saves the result of j.
Settled(j) ==
  /\ status[j] # "deleted" /\ status'[j] \in Outcomes /\ node'[j] = node[j]
  /\ \E m \in Nodes : /\ poll[m].pc = "finish" /\ j \in Sent(m) /\ <<j, m>> \in poll[m].todo
                      /\ poll'[m].pc = "finish" /\ <<j, m>> \notin poll'[m].todo
                      /\ SameRequest(m)

RowMoves(j) == Loose(j) \/ Removed(j) \/ Remarked(j) \/ Killed(j) \/ Settled(j)

\* In a calm farm no message is lost and no machine crashes.
LEMMA NoFaults ==
  ASSUME CInv, Calm', NEW m \in Nodes
  PROVE  ~LosePoll(m) /\ ~Crash(m)
BY NothingSpent DEF CInv, IInv, Calm, Faults, LosePoll, Crash

\* In a calm farm every node makes one of the moves without faults.
LEMMA CalmMove ==
  ASSUME CInv, [Next]_vars, Calm', NEW n \in Nodes
  PROVE  ServedMoves(n)
BY NoFaults, EveryMove DEF CInv

\* The ways in which the row of a job changes in a calm farm.
LEMMA RowMove ==
  ASSUME CInv, [Next]_vars, Calm', NEW j \in Jobs, ~(status'[j] = status[j] /\ node'[j] = node[j])
  PROVE  RowMoves(j)
<1> USE DEF CInv, IInv, RowMoves
<1>0. /\ status \in StatusColumn /\ DOMAIN status = Jobs /\ DOMAIN poll = Nodes
      /\ node \in [Jobs -> Nodes \cup {NoNode}]
      /\ \A n \in Nodes : poll[n] \in PollType
      /\ NoPoll.pc = "idle"
  BY DEF TypeOK, StatusColumn, NoPoll
<1>1. ASSUME NEW m \in Nodes, NEW phase \in {"cleanup", "lost"}, FailLostJob(m, phase)
      PROVE  FALSE
  BY <1>1 DEF FailLostJob, NothingLost
<1>2. ASSUME NEW m \in Nodes, DiscoverNode(m) PROVE Remarked(j)
  <2>1. status' = MarkRunning(status, poll[m].running) /\ poll[m].pc = "cleanup" /\ node' = node
    BY <1>2 DEF DiscoverNode
  <2>2. poll'[m].pc \in {"finish", "idle"}
    BY <1>0, <1>2 DEF DiscoverNode, PollType
  <2>3. j \in poll[m].running /\ status'[j] = "running" /\ status[j] # "deleted"
    BY <2>1 DEF MarkRunning, Exists, Absent
  <2> QED BY <2>1, <2>2, <2>3 DEF Marked, Remarked
<1>3. ASSUME NEW m \in Nodes, FinishJob(m) PROVE Settled(j) \/ Loose(j)
  <2>1. PICK t \in poll[m].todo :
          /\ poll[m].pc = "finish"
          /\ status' = IF Exists(status, t[1])
                       THEN SaveAndNotify(status, t[1], poll[m].finished[t[1]])
                       ELSE status
          /\ poll' = [poll EXCEPT ![m].todo = @ \ {t}]
          /\ node' = node
    BY <1>3 DEF FinishJob
  <2>2. t[1] \in Sent(m) /\ t[1] \in Jobs /\ t = <<t[1], m>>
    BY <1>0, <2>1 DEF PollInv, FinishesReported, Sent, Reported, FinishesOwn, PollType
  <2>3. poll[m].finished[t[1]] \in Outcomes
    BY <1>0, <2>2 DEF Sent, Reported, PollType
  <2>4. /\ Exists(status, t[1]) /\ node'[j] = node[j]
        /\ status' = SaveAndNotify(status, t[1], poll[m].finished[t[1]])
    BY <2>1
  <2>5. CASE j = t[1]
    <3>1. status[j] # "deleted" /\ status'[j] \in Outcomes
      BY <1>0, <2>2, <2>3, <2>4, <2>5, SaveSets DEF Exists, Absent
    <3>2. /\ poll'[m].pc = "finish" /\ <<j, m>> \notin poll'[m].todo /\ SameRequest(m)
      BY <1>0, <2>1, <2>2, <2>5 DEF PollType, SameRequest
    <3> QED BY <2>1, <2>2, <2>4, <2>5, <3>1, <3>2 DEF Settled
  <2>6. CASE j # t[1]
    <3>1. status'[j] # status[j]
      BY <2>1
    <3>2. status[j] = "waiting" /\ status'[j] \in {"success", "failed"}
      BY <1>0, <2>2, <2>3, <2>4, <2>6, <3>1, SaveMoves
    <3> QED BY <3>2 DEF Loose, Active
  <2> QED BY <2>5, <2>6
<1>4. ASSUME NEW m \in Nodes, Schedule(m) PROVE Loose(j) \/ Removed(j)
  <2>1. PICK k \in Best(m) :
          /\ status' = [DeleteRows(status, Children(status, k)) EXCEPT ![k] = "reserved"]
          /\ node' = [node EXCEPT ![k] = m]
    BY <1>4 DEF Schedule
  <2>2. k \in Jobs /\ status[k] = "ready"
    BY DEF Best, Runnable, MayReserve
  <2>3. CASE j = k
    BY <1>0, <2>1, <2>2, <2>3, DeleteRowsType DEF Loose, Active, StatusColumn
  <2>4. CASE j # k
    <3>1. node'[j] = node[j] /\ status'[j] = DeleteRows(status, Children(status, k))[j]
      BY <1>0, <2>1, <2>4, DeleteRowsType DEF StatusColumn
    <3> QED BY <3>1 DEF DeleteRows, Removed
  <2> QED BY <2>3, <2>4
<1>5. ASSUME NEW m \in Nodes, NEW k \in Jobs, NEW c \in Jobs,
             LaunchChild(m, k, c) \/ ReleaseChild(m, k, c)
      PROVE  Loose(j)
  <2>1. status[c] \in {"unborn", "created"} /\ status'[c] \in {"created", "ready"}
    BY <1>0, <1>5 DEF LaunchChild, ReleaseChild
  <2>2. j = c
    BY <1>0, <1>5 DEF LaunchChild, ReleaseChild
  <2> QED BY <2>1, <2>2 DEF Loose, Active
<1>6. ASSUME NEW k \in Jobs, KillJob(k) PROVE Killed(j)
  BY <1>0, <1>6 DEF KillJob, Killed
<1>7. ASSUME NEW k \in Jobs, DeleteJob(k) PROVE Removed(j)
  BY <1>0, <1>7 DEF DeleteJob, DeleteRows, Removed
<1>8. ASSUME NEW k \in Jobs, NEW same \in BOOLEAN, RestartJob(k, same)
      PROVE  Loose(j) \/ Removed(j)
  <2>1. /\ status' = [DeleteRows(status, Children(status, k)) EXCEPT ![k] = "ready"]
        /\ status[k] \in Done
    BY <1>8 DEF RestartJob, Restartable, Setting
  <2>2. j # k => node'[j] = node[j]
    BY <1>0, <1>8 DEF RestartJob
  <2>3. CASE j = k
    BY <1>0, <2>1, <2>3, DeleteRowsType DEF Loose, Active, StatusColumn, Done
  <2>4. CASE j # k
    <3>1. status'[j] = DeleteRows(status, Children(status, k))[j]
      BY <1>0, <2>1, <2>4, DeleteRowsType DEF StatusColumn
    <3> QED BY <2>2, <2>4, <3>1 DEF DeleteRows, Removed
  <2> QED BY <2>3, <2>4
<1>9. ASSUME NEW p \in Jobs, NEW same \in BOOLEAN, RestartFailedChildren(p, same)
      PROVE  Loose(j)
  <2> DEFINE failed == {c \in Children(status, p) : status[c] = "failed"}
  <2>1. /\ status[p] \in Done
        /\ status'[j] = IF j \in failed THEN "ready" ELSE IF j = p THEN "waiting" ELSE status[j]
        /\ node'[j] = IF j \in failed /\ ~same THEN NoNode ELSE node[j]
    BY <1>9 DEF RestartFailedChildren, Restartable, Setting
  <2>2. j \in failed \/ j = p
    BY <2>1
  <2>3. status[j] \in Done
    BY <2>1, <2>2 DEF Done
  <2>4. status'[j] \in {"ready", "waiting"}
    BY <2>1, <2>2
  <2> QED BY <2>3, <2>4 DEF Loose, Active, Done
<1>10. CASE UserStep
  BY <1>6, <1>7, <1>8, <1>9, <1>10 DEF UserStep, ReloadClient
<1>11. ASSUME NEW m \in Nodes, PollStep(m) PROVE RowMoves(j)
  BY <1>1, <1>2, <1>3, <1>4, <1>11
  DEF PollStep, ReadRunning, ReadFinished, BeginCleanup, CleanupDeadJob,
      FindMissingJobs, FailMissingJob, HandleReply, RefuseOrphan, db
<1>12. ASSUME NEW m \in Nodes, GracefulExit(m) \/ StartClient(m) \/ Fault(m)
       PROVE  FALSE
  BY <1>12 DEF GracefulExit, StartClient, Fault, LosePoll, Crash, TwoHoursPass, db
<1>13. ASSUME NEW m \in Nodes, NEW k \in Jobs, JobStep(m, k) PROVE Loose(j)
  BY <1>5, <1>13 DEF JobStep, EndJob, ForgetThread, db
<1>14. CASE UNCHANGED vars
  BY <1>14 DEF vars
<1> QED BY <1>10, <1>11, <1>12, <1>13, <1>14 DEF Next

-----------------------------------------------------------------------------
(* What a step may do to those who have a job.                             *)

\* A job is live by its reply, and as long as its result is not saved.
LEMMA LiveMoves ==
  ASSUME CInv, [Next]_vars, Calm', NEW n \in Nodes, NEW j \in Jobs
  PROVE  /\ Live(n, j)' => Live(n, j) \/ (Received(n) /\ Coming(n, j))
         /\ Live(n, j) => \/ Live(n, j)'
                          \/ /\ TurnDone(n) /\ j \in Sent(n)
                             /\ <<j, n>> \in poll[n].todo /\ <<j, n>> \notin poll'[n].todo
<1>0. /\ ServedMoves(n) /\ ResultEnded(n) /\ FinishesOwn(n) /\ Down(n) /\ NothingLost(n)
      /\ poll[n] \in PollType /\ result[n] \in [Jobs -> Outcomes \cup {NoResult}]
  BY CalmMove DEF CInv, IInv, TypeOK
<1> DEFINE Stored == j \in Reported(result[n])
           Goal == /\ Live(n, j)' => Live(n, j) \/ (Received(n) /\ Coming(n, j))
                   /\ Live(n, j) => \/ Live(n, j)'
                                    \/ /\ TurnDone(n) /\ j \in Sent(n)
                                       /\ <<j, n>> \in poll[n].todo /\ <<j, n>> \notin poll'[n].todo
<1>1. CASE /\ Busy(n, j)' <=> Busy(n, j)
           /\ j \in Reported(result[n])' <=> Stored
           /\ Recorded(n, j)' <=> Recorded(n, j)
  BY <1>1 DEF Live
<1>2. CASE Quiet(n) /\ ~Threaded(n) /\ ~Ended(n) /\ ~Received(n)
  <2>1. /\ Busy(n, j)' <=> Busy(n, j)
        /\ j \in Reported(result[n])' <=> Stored
    BY <1>2 DEF Quiet, Busy, Reported
  <2>2. CASE Still(n)
    BY <1>1, <2>1, <2>2 DEF Still, Recorded, Sent
  <2>3. CASE KeysRead(n) \/ ResultsRead(n) \/ Left(n) \/ CleanupBegun(n)
    <3>1. poll[n].pc \in {"idle", "keys", "sent"} /\ poll'[n].pc \in {"keys", "sent", "cleanup"}
      BY <2>3 DEF KeysRead, ResultsRead, Left, CleanupBegun
    <3> QED BY <1>1, <2>1, <3>1 DEF Recorded
  <2>4. CASE LoopTurned(n) \/ Replied(n)
    <3>1. /\ SameRequest(n)
          /\ \/ poll[n].pc = "cleanup" /\ poll'[n].pc = "cleanup"
             \/ poll[n].pc = "lost" /\ poll'[n].pc \in {"lost", "reply"}
      BY <2>4 DEF LoopTurned, Replied
    <3> QED BY <1>1, <2>1, <3>1 DEF Recorded, SameRequest, Sent
  <2>5. CASE Discovered(n)
    <3>1. /\ SameRequest(n) /\ poll[n].pc = "cleanup" /\ poll'[n].pc = "finish"
          /\ poll'[n].todo = {<<i, n>> : i \in Sent(n)}
      BY <2>5 DEF Discovered
    <3>2. ~Recorded(n, j) /\ ~Recorded(n, j)'
      BY <3>1 DEF Recorded, SameRequest, Sent
    <3> QED BY <1>1, <2>1, <3>2
  <2>6. CASE TurnDone(n)
    <3>1. /\ SameRequest(n) /\ poll[n].pc = "finish" /\ poll'[n].pc = "finish"
          /\ poll'[n].todo \subseteq poll[n].todo
      BY <2>6 DEF TurnDone
    <3> QED BY <2>1, <2>6, <3>1 DEF Live, Recorded, SameRequest, Sent
  <2>7. CASE MissingFound(n)
    <3>1. /\ SameRequest(n) /\ poll[n].pc = "finish" /\ poll'[n].pc = "lost"
          /\ poll[n].todo = {}
      BY <2>7 DEF MissingFound
    <3> QED BY <1>1, <2>1, <3>1 DEF Recorded, SameRequest, Sent
  <2>8. CASE Closed(n)
    <3>1. CASE Silent(n)
      <4>1. ~Busy(n, j) /\ ~Stored
        BY <3>1 DEF Silent, Held, Busy, BusyPhases
      <4> QED BY <2>1, <4>1 DEF Live
    <3>2. CASE ~Silent(n)
      <4>1. poll[n].pc = "cleanup" /\ poll'[n].pc = "idle"
        BY <1>0, <2>8, <3>2 DEF Closed, Dropped, Down, NothingLost
      <4> QED BY <1>1, <2>1, <4>1 DEF Recorded
    <3> QED BY <3>1, <3>2
  <2> QED BY <1>0, <1>2, <2>2, <2>3, <2>4, <2>5, <2>6, <2>7, <2>8 DEF ServedMoves
<1>3. CASE Threaded(n)
  BY <1>1, <1>3 DEF Threaded, Recorded, Sent, Reported
<1>4. CASE Ended(n)
  <2>1. PICK k \in Jobs, r \in Outcomes :
          /\ Busy(n, k) /\ ~Busy(n, k)'
          /\ \A i \in Jobs : i # k => worker'[n][i] = worker[n][i]
          /\ result'[n] = [result[n] EXCEPT ![k] = r]
    BY <1>4 DEF Ended
  <2>2. Recorded(n, j)' <=> Recorded(n, j)
    BY <1>4 DEF Ended, Recorded, Sent
  <2>3. CASE j # k
    BY <1>0, <1>1, <2>1, <2>2, <2>3 DEF Busy, Reported
  <2>4. CASE j = k
    <3>1. j \in Reported(result[n])'
      BY <1>0, <2>1, <2>4 DEF Reported, Outcomes, NoResult
    <3>2. ~Recorded(n, j)
      BY <1>0, <2>1, <2>4 DEF Recorded, ResultEnded, Posted
    <3> QED BY <2>1, <2>2, <2>4, <3>1, <3>2 DEF Live
  <2> QED BY <2>3, <2>4
<1>5. CASE Received(n)
  <2>1. /\ poll[n].pc = "reply" /\ poll'[n].pc = "idle"
        /\ Busy(n, j) => Busy(n, j)'
        /\ Busy(n, j)' => Busy(n, j) \/ j \in poll[n].jobs
        /\ result'[n] = Purge(result[n], poll[n].finished)
    BY <1>5 DEF Received
  <2>2. ~Recorded(n, j)' /\ (Recorded(n, j) <=> j \in Sent(n))
    BY <2>1 DEF Recorded
  <2>3. j \in Reported(result[n])' <=> Stored /\ j \notin Sent(n)
    BY <2>1 DEF Reported, Purge, Sent
  <2>4. j \in Sent(n) => ~Busy(n, j)
    BY <1>0, <2>1 DEF ResultEnded, Posted
  <2> QED BY <1>5, <2>1, <2>2, <2>3, <2>4 DEF Live, Coming
<1> QED BY <1>0, <1>2, <1>3, <1>4, <1>5
     DEF ServedMoves, Still, KeysRead, ResultsRead, Left, CleanupBegun,
         LoopTurned, Discovered, TurnDone, MissingFound, Replied, Closed, Dropped

\* A job comes to a node by the reply of the scheduler.
LEMMA ComingMoves ==
  ASSUME CInv, [Next]_vars, Calm', NEW n \in Nodes, NEW j \in Jobs, Coming(n, j)'
  PROVE  \/ Coming(n, j) /\ poll'[n] = poll[n]
         \/ Replied(n) /\ status'[j] = "reserved" /\ node'[j] = n
<1>1. ServedMoves(n)
  BY CalmMove
<1>2. CASE Replied(n)
  BY <1>2 DEF Replied, ToSubmit, Coming
<1>3. CASE poll'[n] = poll[n]
  BY <1>3 DEF Coming
<1> QED BY <1>1, <1>2, <1>3
     DEF ServedMoves, Still, KeysRead, ResultsRead, Left, CleanupBegun, LoopTurned,
         Discovered, TurnDone, MissingFound, Received, Closed, Dropped, Threaded, Ended, Coming

\* A row of a job that somebody has is deleted, marked or killed as it runs, or
\* settled by the handler that has its result.
LEMMA ClaimedRow ==
  ASSUME CInv, [Next]_vars, Calm', NEW n \in Nodes, NEW j \in Jobs, Claims(n, j)
  PROVE  \/ status'[j] = status[j] /\ node'[j] = node[j]
         \/ status'[j] = "deleted"
         \/ Live(n, j) /\ node'[j] = node[j] /\ status'[j] \in {"running", "terminating"}
         \/ Live(n, j) /\ ~Live(n, j)' /\ poll'[n].pc = "finish" /\ status'[j] \in Outcomes
<1> SUFFICES ASSUME ~(status'[j] = status[j] /\ node'[j] = node[j])
             PROVE  \/ status'[j] = "deleted"
                    \/ Live(n, j) /\ node'[j] = node[j] /\ status'[j] \in {"running", "terminating"}
                    \/ Live(n, j) /\ ~Live(n, j)' /\ poll'[n].pc = "finish" /\ status'[j] \in Outcomes
  OBVIOUS
<1> USE DEF CInv, IInv
<1>0. /\ Live(n, j) => (node[j] = n /\ status[j] \in Active) \/ status[j] = "deleted"
      /\ Coming(n, j) => (node[j] = n /\ status[j] = "reserved") \/ status[j] = "deleted"
      /\ Live(n, j) \/ Coming(n, j)
  BY DEF LiveOwned, ComingOwned, Claims
<1>1. RowMoves(j)
  BY RowMove
<1>2. CASE Loose(j)
  BY <1>0, <1>2 DEF Loose, Active
<1>3. CASE Removed(j)
  BY <1>3 DEF Removed
<1>4. CASE Remarked(j)
  <2>1. PICK m \in Nodes : poll[m].pc = "cleanup" /\ j \in poll[m].running /\ status'[j] = "running"
    BY <1>4 DEF Remarked, Marked
  <2>2. Live(m, j)
    BY <2>1 DEF RunningLive
  <2>3. m = n
    BY <2>2 DEF OneClaim, Claims
  <2> QED BY <1>4, <2>1, <2>2, <2>3 DEF Remarked
<1>5. CASE Killed(j)
  BY <1>0, <1>5 DEF Killed
<1>6. CASE Settled(j)
  <2>1. PICK m \in Nodes : /\ poll[m].pc = "finish" /\ j \in Sent(m) /\ <<j, m>> \in poll[m].todo
                           /\ poll'[m].pc = "finish" /\ <<j, m>> \notin poll'[m].todo
                           /\ SameRequest(m)
    BY <1>6 DEF Settled
  <2>2. result[m][j] = poll[m].finished[j]
    BY <2>1 DEF SentAsIs, Posted
  <2>3. Live(m, j)
    BY <2>1, <2>2 DEF Live, Recorded, Sent, Reported
  <2>4. m = n
    BY <2>3 DEF OneClaim, Claims
  <2>5. ~Live(n, j)'
    BY <2>1, <2>4 DEF Live, Recorded, SameRequest, Sent
  <2> QED BY <1>6, <2>1, <2>3, <2>4, <2>5 DEF Settled
<1> QED BY <1>1, <1>2, <1>3, <1>4, <1>5, <1>6 DEF RowMoves

\* What is live belongs to its node after every step, or was deleted.
LEMMA LiveStaysOwned ==
  ASSUME CInv, [Next]_vars, Calm', NEW n \in Nodes
  PROVE  LiveOwned(n)'
<1> SUFFICES ASSUME NEW j \in Jobs, Live(n, j)'
             PROVE  (node'[j] = n /\ status'[j] \in Active) \/ status'[j] = "deleted"
  BY DEF LiveOwned
<1>0. LiveOwned(n) /\ ComingOwned(n)
  BY DEF CInv
<1>1. CASE Live(n, j)
  <2>1. (node[j] = n /\ status[j] \in Active) \/ status[j] = "deleted"
    BY <1>0, <1>1 DEF LiveOwned
  <2>2. \/ status'[j] = status[j] /\ node'[j] = node[j]
        \/ status'[j] = "deleted"
        \/ node'[j] = node[j] /\ status'[j] \in {"running", "terminating"} /\ ~Loose(j)
    BY <1>1, ClaimedRow DEF Claims, Loose
  <2>3. CASE status'[j] \in {"running", "terminating"} /\ status[j] = "deleted"
    <3>1. RowMoves(j)
      BY <2>3, RowMove
    <3> QED BY <2>3, <3>1 DEF RowMoves, Loose, Removed, Remarked, Killed, Settled
  <2> QED BY <2>1, <2>2, <2>3 DEF Active
<1>2. CASE Received(n) /\ Coming(n, j)
  <2>1. (node[j] = n /\ status[j] = "reserved") \/ status[j] = "deleted"
    BY <1>0, <1>2 DEF ComingOwned
  <2>2. \/ status'[j] = status[j] /\ node'[j] = node[j]
        \/ status'[j] = "deleted"
    <3>1. status'[j] = status[j]
      BY <1>2 DEF Received
    <3>2. ~Live(n, j)
      BY <1>2 DEF CInv, ComingNew
    <3> QED BY <1>2, <3>2, ClaimedRow DEF Claims
  <2> QED BY <2>1, <2>2 DEF Active
<1> QED BY <1>1, <1>2, LiveMoves

\* So does what is on its way.
LEMMA ComingStaysOwned ==
  ASSUME CInv, [Next]_vars, Calm', NEW n \in Nodes
  PROVE  ComingOwned(n)'
<1> SUFFICES ASSUME NEW j \in Jobs, Coming(n, j)'
             PROVE  (node'[j] = n /\ status'[j] = "reserved") \/ status'[j] = "deleted"
  BY DEF ComingOwned
<1>1. CASE Coming(n, j)
  <2>1. (node[j] = n /\ status[j] = "reserved") \/ status[j] = "deleted"
    BY <1>1 DEF CInv, ComingOwned
  <2>2. ~Live(n, j)
    BY <1>1 DEF CInv, ComingNew
  <2>3. \/ status'[j] = status[j] /\ node'[j] = node[j]
        \/ status'[j] = "deleted"
    BY <1>1, <2>2, ClaimedRow DEF Claims
  <2> QED BY <2>1, <2>3
<1> QED BY <1>1, ComingMoves

\* Nobody comes to have a job that somebody else has.
LEMMA ClaimsStayUnique ==
  ASSUME CInv, [Next]_vars, Calm'
  PROVE  OneClaim'
<1> SUFFICES ASSUME NEW j \in Jobs, NEW n \in Nodes, NEW m \in Nodes, Claims(n, j)', Claims(m, j)'
             PROVE  n = m
  BY DEF OneClaim
<1>1. ASSUME NEW i \in Nodes, Claims(i, j)'
      PROVE  node'[j] = i \/ status'[j] = "deleted"
  BY <1>1, LiveStaysOwned, ComingStaysOwned DEF Claims, LiveOwned, ComingOwned
<1>2. ASSUME NEW i \in Nodes, Claims(i, j)', status'[j] = "deleted"
      PROVE  Claims(i, j)
  BY <1>2, LiveMoves, ComingMoves DEF Claims
<1>3. CASE status'[j] = "deleted"
  BY <1>2, <1>3 DEF CInv, OneClaim
<1>4. CASE status'[j] # "deleted"
  BY <1>1, <1>4
<1> QED BY <1>3, <1>4

\* A job that is believed to run stays live until its result is saved.
LEMMA ActiveStaysLive ==
  ASSUME CInv, [Next]_vars, Calm'
  PROVE  ActiveLive'
<1> SUFFICES ASSUME NEW j \in Jobs, status'[j] \in {"running", "terminating"}
             PROVE  \E n \in Nodes : node'[j] = n /\ Live(n, j)'
  BY DEF ActiveLive
<1> USE DEF CInv
<1>1. PICK n \in Nodes : Live(n, j) /\ node[j] = n /\ node'[j] = n
  <2>1. CASE status'[j] = status[j] /\ node'[j] = node[j]
    BY <2>1 DEF ActiveLive
  <2>2. CASE ~(status'[j] = status[j] /\ node'[j] = node[j])
    <3>1. Remarked(j) \/ Killed(j)
      BY <2>2, RowMove DEF RowMoves, Loose, Removed, Settled, Outcomes
    <3>2. CASE Remarked(j)
      <4>1. PICK m \in Nodes : poll[m].pc = "cleanup" /\ j \in poll[m].running
        BY <3>2 DEF Remarked, Marked
      <4>2. Live(m, j)
        BY <4>1 DEF RunningLive
      <4> QED BY <3>2, <4>2 DEF LiveOwned, Remarked
    <3>3. CASE Killed(j)
      BY <3>3 DEF Killed, ActiveLive
    <3> QED BY <3>1, <3>2, <3>3
  <2> QED BY <2>1, <2>2
<1>2. SUFFICES ASSUME ~Live(n, j)' PROVE FALSE
  BY <1>1
<1>3. /\ TurnDone(n) /\ j \in Sent(n)
      /\ <<j, n>> \in poll[n].todo /\ <<j, n>> \notin poll'[n].todo
  BY <1>1, <1>2, LiveMoves
<1>4. status[j] \notin Absent
  <2>1. status[j] # "deleted"
    <3>1. SUFFICES ASSUME status[j] = "deleted" PROVE FALSE
      OBVIOUS
    <3>2. RowMoves(j)
      BY <3>1, RowMove
    <3> QED BY <3>1, <3>2 DEF RowMoves, Loose, Removed, Remarked, Killed, Settled
  <2> QED BY <1>1, <2>1 DEF LiveOwned, Active, Absent
<1>5. status'[j] = poll[n].finished[j]
  BY <1>3, <1>4 DEF TurnDone
<1>6. poll[n].finished[j] \in Outcomes
  BY <1>3 DEF Sent, Reported, IInv, TypeOK, PollType
<1> QED BY <1>5, <1>6 DEF Outcomes

\* What a request names is live until the handler has marked it.
LEMMA RunningStaysLive ==
  ASSUME CInv, [Next]_vars, Calm', NEW n \in Nodes
  PROVE  RunningLive(n)'
<1> SUFFICES ASSUME poll'[n].pc \in {"keys", "sent", "cleanup"}, NEW j \in poll'[n].running
             PROVE  Live(n, j)'
  BY DEF RunningLive
<1>0. ServedMoves(n) /\ RunningLive(n) /\ poll[n].running \subseteq Jobs
  BY CalmMove DEF CInv, IInv, TypeOK, PollType
<1>1. CASE KeysRead(n)
  <2>1. j \in Held(n) /\ worker[n][j] # "stored" /\ poll'[n].pc = "keys" /\ Quiet(n)
    BY <1>1 DEF KeysRead, CInv, Setting
  <2>2. worker[n][j] \in Phases
    BY <2>1 DEF Held, CInv, IInv, TypeOK
  <2>3. Busy(n, j)
    BY <2>1, <2>2 DEF Held, Busy, BusyPhases, Phases
  <2> QED BY <2>1, <2>3 DEF Live, Recorded, Quiet, Busy
<1>2. CASE /\ poll[n].pc \in {"keys", "sent", "cleanup"} /\ poll'[n].running = poll[n].running
  <2>1. Live(n, j) /\ ~TurnDone(n)
    BY <1>0, <1>2 DEF RunningLive, TurnDone
  <2> QED BY <1>0, <1>2, <2>1, LiveMoves
<1>3. CASE Left(n)
  BY <1>3 DEF Left
<1> QED BY <1>0, <1>1, <1>2, <1>3
     DEF ServedMoves, Still, ResultsRead, CleanupBegun, LoopTurned, Discovered, TurnDone,
         MissingFound, Replied, Received, Closed, Dropped, Threaded, Ended, SameRequest

\* A reserved job that somebody has was reserved before.
LEMMA ReservedBefore ==
  ASSUME CInv, [Next]_vars, Calm', NEW n \in Nodes, NEW j \in Jobs, Claims(n, j), status'[j] = "reserved"
  PROVE  status[j] = "reserved"
BY ClaimedRow DEF Outcomes

\* The scheduler sends no job that its client still has.
LEMMA ComingStaysNew ==
  ASSUME CInv, [Next]_vars, Calm', NEW n \in Nodes
  PROVE  ComingNew(n)'
<1> SUFFICES ASSUME NEW j \in Jobs, Coming(n, j)', Live(n, j)' PROVE FALSE
  BY DEF ComingNew
<1>0. poll'[n].pc = "reply"
  BY DEF Coming
<1>1. Live(n, j)
  BY <1>0, LiveMoves DEF Received
<1>2. Replied(n) /\ status'[j] = "reserved"
  BY <1>1, ComingMoves DEF CInv, ComingNew
<1>3. status[j] = "reserved"
  BY <1>1, <1>2, ReservedBefore DEF Claims
<1>4. poll[n].pc = "lost" /\ j \notin Sent(n)
  BY <1>1, <1>2 DEF Replied, Live, Recorded
<1>5. j \in poll[n].running
  <2>1. CASE Busy(n, j)
    BY <1>4, <2>1 DEF CInv, IInv, PollInv, ReportCovers, Held, Busy, BusyPhases, InFlight, Handling
  <2>2. CASE j \in Reported(result[n])
    BY <1>4, <2>2 DEF CInv, ResultCovered, Posted
  <2> QED BY <1>1, <2>1, <2>2 DEF Live
<1> QED BY <1>1, <1>3, <1>4, <1>5 DEF CInv, LiveMarked

\* What a request names is marked from then on.
LEMMA LiveStaysMarked ==
  ASSUME CInv, [Next]_vars, Calm', NEW n \in Nodes
  PROVE  LiveMarked(n)'
<1> SUFFICES ASSUME poll'[n].pc \in {"finish", "lost", "reply"}, NEW j \in poll'[n].running,
                    Live(n, j)', status'[j] = "reserved"
             PROVE  FALSE
  BY DEF LiveMarked
<1>0. /\ ServedMoves(n) /\ LiveMarked(n)
      /\ poll[n].running \subseteq Jobs /\ poll'[n].running \subseteq Jobs
  <2>1. TypeOK'
    BY TypeStep DEF CInv, IInv
  <2> QED BY <2>1, CalmMove DEF CInv, IInv, TypeOK, PollType
<1>1. Live(n, j)
  BY <1>0, LiveMoves DEF Received
<1>2. status[j] = "reserved"
  BY <1>0, <1>1, ReservedBefore DEF Claims
<1>3. CASE Discovered(n)
  BY <1>2, <1>3 DEF Discovered, Absent, SameRequest
<1>4. CASE poll[n].pc \in {"finish", "lost", "reply"} /\ poll'[n].running = poll[n].running
  BY <1>0, <1>1, <1>2, <1>4 DEF LiveMarked
<1> QED BY <1>0, <1>3, <1>4
     DEF ServedMoves, Still, KeysRead, ResultsRead, Left, CleanupBegun, LoopTurned, TurnDone,
         MissingFound, Replied, Received, Closed, Dropped, Threaded, Ended, SameRequest

\* A result that was sent stays what it is until the reply.
LEMMA SentStaysAsIs ==
  ASSUME CInv, [Next]_vars, Calm', NEW n \in Nodes
  PROVE  SentAsIs(n)'
<1> SUFFICES ASSUME Posted(n)', NEW j \in Sent(n)'
             PROVE  result'[n][j] = poll'[n].finished[j]
  BY DEF SentAsIs
<1>0. /\ ServedMoves(n) /\ j \in Jobs /\ Reported(NoResults) = {}
      /\ result[n] \in [Jobs -> Outcomes \cup {NoResult}]
  BY CalmMove DEF CInv, IInv, TypeOK, Reported, NoResults, Sent
<1>1. CASE Posted(n) /\ poll'[n].finished = poll[n].finished /\ Quiet(n)
  BY <1>1 DEF CInv, SentAsIs, Sent, Quiet
<1>2. CASE poll'[n] = poll[n]
  <2>1. Posted(n) /\ j \in Sent(n)
    BY <1>2 DEF Posted, Sent
  <2>2. result[n][j] = poll[n].finished[j] /\ ~Busy(n, j)
    BY <2>1 DEF CInv, SentAsIs, ResultEnded
  <2>3. CASE Ended(n)
    BY <1>0, <1>2, <2>2, <2>3 DEF Ended
  <2>4. CASE Threaded(n) \/ Quiet(n)
    BY <1>2, <2>2, <2>4 DEF Threaded, Quiet
  <2>5. ~Received(n)
    BY <1>2 DEF Received
  <2> QED BY <1>0, <2>3, <2>4, <2>5
       DEF ServedMoves, Still, KeysRead, ResultsRead, Left, CleanupBegun, LoopTurned,
           Discovered, TurnDone, MissingFound, Replied, Closed, Dropped
<1>3. CASE ResultsRead(n)
  BY <1>3 DEF ResultsRead, Quiet
<1>4. CASE Left(n)
  BY <1>0, <1>4 DEF Left, Sent
<1> QED BY <1>0, <1>1, <1>2, <1>3, <1>4
     DEF ServedMoves, Still, KeysRead, CleanupBegun, LoopTurned, Discovered, TurnDone,
         MissingFound, Replied, Received, Closed, Dropped, Threaded, Ended, SameRequest, Posted

\* The loop over finished jobs is that of its node.
LEMMA FinishesStayOwn ==
  ASSUME CInv, [Next]_vars, Calm', NEW n \in Nodes
  PROVE  FinishesOwn(n)'
BY CalmMove, FinishesOfItsNode DEF CInv, NodeMoves

\* No handler finds a job to fail: what should run is live at its node, and what
\* is live is named by the request.
LEMMA NothingGetsLost ==
  ASSUME CInv, [Next]_vars, Calm', NEW n \in Nodes
  PROVE  NothingLost(n)'
<1> USE DEF CInv, IInv
<1>0. ServedMoves(n) /\ NothingLost(n) /\ ActiveLive
  BY CalmMove
<1>1. CASE CleanupBegun(n)
  <2>1. SUFFICES ASSUME NEW t \in ActiveOn(overdue) PROVE FALSE
    BY <1>1 DEF CleanupBegun, NothingLost
  <2>2. t[1] \in Jobs /\ t[2] \in overdue /\ t[2] \in Nodes /\ Live(t[2], t[1])
    BY <2>1 DEF ActiveOn, ActiveLive, TypeOK
  <2>3. Silent(t[2])
    BY <2>2 DEF Down
  <2> QED BY <2>2, <2>3 DEF Silent, Live, Held, Busy, BusyPhases
<1>2. CASE MissingFound(n)
  <2>1. SUFFICES ASSUME NEW t \in Missing(n) PROVE FALSE
    BY <1>2 DEF MissingFound, NothingLost
  <2>2. t[1] \in Jobs /\ t[1] \notin poll[n].running /\ Live(n, t[1])
    BY <2>1 DEF Missing, ActiveOn, ActiveLive
  <2>3. poll[n].pc = "finish" /\ poll[n].todo = {}
    BY <1>2 DEF MissingFound
  <2>4. t[1] \notin Sent(n)
    BY <2>2, <2>3 DEF Live, Recorded
  <2>5. ~Busy(n, t[1])
    BY <2>2, <2>3 DEF PollInv, ReportCovers, Held, Busy, BusyPhases, InFlight, Handling
  <2>6. t[1] \notin Reported(result[n])
    BY <2>2, <2>3, <2>4 DEF ResultCovered, Posted
  <2> QED BY <2>2, <2>5, <2>6 DEF Live
<1>3. CASE poll'[n].pc \in {"cleanup", "lost"} =>
             poll'[n].pc = poll[n].pc /\ poll'[n].todo \subseteq poll[n].todo
  BY <1>0, <1>3 DEF NothingLost
<1> QED BY <1>0, <1>1, <1>2, <1>3
     DEF ServedMoves, Still, KeysRead, ResultsRead, Left, LoopTurned, Discovered, TurnDone,
         Replied, Received, Closed, Dropped, Threaded, Ended

-----------------------------------------------------------------------------
(* The theorems.                                                           *)

\* The invariant holds initially.
LEMMA CalmInit ==
  ASSUME Setting
  PROVE  Init => CInv
<1> SUFFICES ASSUME Init PROVE CInv
  OBVIOUS
<1>1. IInv /\ Setting /\ Calm
  BY InvInit DEF Init, Calm, Unused
<1>2. overdue = {} /\ \A n \in Nodes : up[n] /\ poll[n].pc = "idle"
  BY DEF Init, NoPoll
<1>3. \A n \in Nodes : \A j \in Jobs : worker[n][j] = "none" /\ result[n][j] = NoResult
  BY DEF Init, NoResults
<1>4. \A n \in Nodes : \A j \in Jobs : ~Live(n, j) /\ ~Coming(n, j)
  BY <1>2, <1>3 DEF Live, Coming, Busy, BusyPhases, Reported
<1>5. OneClaim /\ ActiveLive
  BY <1>4 DEF OneClaim, Claims, ActiveLive, Init
<1>6. ASSUME NEW n \in Nodes
      PROVE  /\ Down(n) /\ ResultEnded(n) /\ ResultCovered(n) /\ SentAsIs(n) /\ FinishesOwn(n)
             /\ LiveOwned(n) /\ ComingOwned(n) /\ ComingNew(n) /\ RunningLive(n) /\ LiveMarked(n)
             /\ NothingLost(n)
  BY <1>2, <1>3, <1>4
  DEF Down, ResultEnded, ResultCovered, SentAsIs, FinishesOwn, LiveOwned, ComingOwned,
      ComingNew, RunningLive, LiveMarked, NothingLost, Posted, Busy, BusyPhases, Reported
<1> QED BY <1>1, <1>5, <1>6 DEF CInv

\* Every step of a calm farm keeps the invariant.
LEMMA CalmStep ==
  ASSUME CInv, [Next]_vars, Calm'
  PROVE  CInv'
<1>1. IInv'
  BY TypeStep, PollInvStep DEF CInv, IInv
<1>2. Setting'
  BY DEF CInv, Setting
<1>3. ASSUME NEW n \in Nodes
      PROVE  Down(n)' /\ ResultEnded(n)' /\ ResultCovered(n)'
  <2>1. IInv /\ NoLapse /\ NoLapse' /\ Down(n) /\ ResultEnded(n) /\ ResultCovered(n)
    BY DEF CInv, Calm, NoLapse
  <2>2. ReplyUnfinished(n)
    <3> SUFFICES ASSUME poll[n].pc = "reply", NEW j \in poll[n].jobs, j \in Reported(result[n]),
                        j \notin Sent(n)
                 PROVE  FALSE
      BY DEF ReplyUnfinished
    <3>1. j \in Jobs /\ Live(n, j) /\ Coming(n, j)
      BY DEF Live, Recorded, Coming, Reported
    <3> QED BY <3>1 DEF CInv, ComingNew
  <2> QED BY <2>1, <2>2, DownStays, ResultStaysEnded, ResultStaysCovered
<1>4. ASSUME NEW n \in Nodes
      PROVE  /\ SentAsIs(n)' /\ FinishesOwn(n)' /\ LiveOwned(n)' /\ ComingOwned(n)'
             /\ ComingNew(n)' /\ RunningLive(n)' /\ LiveMarked(n)' /\ NothingLost(n)'
  BY SentStaysAsIs, FinishesStayOwn, LiveStaysOwned, ComingStaysOwned, ComingStaysNew,
     RunningStaysLive, LiveStaysMarked, NothingGetsLost
<1> QED BY <1>1, <1>2, <1>3, <1>4, ClaimsStayUnique, ActiveStaysLive DEF CInv

\* A thread that works has its job.
LEMMA ExecutingIsLive ==
  ASSUME CInv, NEW n \in Nodes, NEW j \in Jobs, j \in Executing(n)
  PROVE  Live(n, j)
<1>1. Busy(n, j)
  BY DEF Executing, Busy, BusyPhases
<1>2. ~Recorded(n, j)
  BY <1>1 DEF CInv, ResultEnded, Recorded, Posted
<1> QED BY <1>1, <1>2 DEF Live

\* The invariant holds until the farm is disturbed.
LEMMA CalmInvariant ==
  ASSUME Setting
  PROVE  Spec => [](IInv /\ Bounded /\ (Calm => CInv))
<1>1. Init => IInv /\ Bounded /\ CInv
  BY InvInit, BoundedInit, CalmInit
<1>2. IInv /\ Bounded /\ (Calm => CInv) /\ [Next]_vars
        => (IInv /\ Bounded /\ (Calm => CInv))'
  <2> SUFFICES ASSUME IInv, Bounded, Calm => CInv, [Next]_vars
               PROVE  (IInv /\ Bounded /\ (Calm => CInv))'
    OBVIOUS
  <2>1. IInv' /\ Bounded'
    BY TypeStep, PollInvStep, BudgetShrinks DEF IInv
  <2>2. ASSUME Calm' PROVE CInv'
    <3>1. Calm
      BY <2>2, BudgetShrinks DEF Calm, IInv, Faults
    <3> QED BY <2>2, <3>1, CalmStep
  <2> QED BY <2>1, <2>2
<1> QED BY <1>1, <1>2, PTL DEF Spec

\* No message was lost, no machine has crashed and no client was cut off.
Undisturbed == Used("loss") = 0 /\ Used("crash") = 0 /\ Used("lapse") = 0

\* Nothing was used of the three budgets when their counts say so.
LEMMA UndisturbedIsCalm ==
  ASSUME TypeOK, Undisturbed
  PROVE  Calm
BY UnusedIsUsed DEF Undisturbed, Calm, Faults

\* In a calm farm (no lost message, no crash, no client cut off for two hours)
\* one machine at a time runs a job, whatever users kill, delete, restart or
\* reload, in any order and beside any handler: for any number of jobs, nodes and
\* requests of users.  Users restart what is done or waits, as the page lets them.
THEOREM ExclusiveWithUsers ==
  ASSUME PromptWrapper = TRUE, RestartFrom \subseteq {"waiting", "success", "failed"}
  PROVE  Spec => [](Undisturbed => ExclusiveExecution)
<1>1. Setting
  BY DEF Setting, Done
<1>2. CInv => ExclusiveExecution
  BY ExecutingIsLive DEF CInv, OneClaim, Claims, ExclusiveExecution
<1>3. IInv /\ Undisturbed => Calm
  BY UndisturbedIsCalm DEF IInv
<1>4. Spec => [](IInv /\ Bounded /\ (Calm => CInv))
  BY <1>1, CalmInvariant
<1> QED BY <1>2, <1>3, <1>4, PTL

\* In a calm farm a job that the database calls success or failed has no live
\* thread anywhere, whatever users do: a kill that arrives late, a restart or a
\* deletion beside a handler brings no verdict on a job that runs.
THEOREM DoneJobsHaveStoppedWithUsers ==
  ASSUME PromptWrapper = TRUE, RestartFrom \subseteq {"waiting", "success", "failed"}
  PROVE  Spec => [](Undisturbed => TerminalMeansStopped)
<1>1. Setting
  BY DEF Setting, Done
<1>2. CInv => TerminalMeansStopped
  BY ExecutingIsLive DEF CInv, LiveOwned, Active, TerminalMeansStopped
<1>3. IInv /\ Undisturbed => Calm
  BY UndisturbedIsCalm DEF IInv
<1>4. Spec => [](IInv /\ Bounded /\ (Calm => CInv))
  BY <1>1, CalmInvariant
<1> QED BY <1>2, <1>3, <1>4, PTL

\* A job that the database calls success or failed has stopped, unless a client
\* was cut off for two hours, or users acted in a farm that lost a message or a
\* machine: the property that the runs with users check.
THEOREM StoppedWhenDone ==
  ASSUME PromptWrapper = TRUE, RestartFrom \subseteq {"waiting", "success", "failed"}
  PROVE  Spec => []StoppedUnlessSilent
<1>1. Setting
  BY DEF Setting, Done
<1>2. Spec => [](IInv /\ Bounded /\ (Calm => CInv))
  BY <1>1, CalmInvariant
<1>3. ASSUME IInv, Bounded, Used("lapse") = 0, Used("crash") + Used("loss") = 0
      PROVE  Undisturbed
  <2>1. \A kind \in Faults : budget[kind] \in Nat /\ Budget[kind] \in Nat
                              /\ budget[kind] <= Budget[kind]
    BY <1>3, ConstantsAssumption DEF IInv, TypeOK, Bounded
  <2>2. Used("crash") = 0 /\ Used("loss") = 0
    BY <1>3, <2>1 DEF Used, Faults
  <2> QED BY <1>3, <2>2 DEF Undisturbed
<1>4. IInv /\ Bounded /\ (Undisturbed => TerminalMeansStopped)
        /\ (Used("user") = 0 /\ Used("lapse") = 0 => TerminalMeansStopped)
        => StoppedUnlessSilent
  BY <1>3 DEF StoppedUnlessSilent
<1> QED BY <1>2, <1>4, DoneJobsHaveStopped, DoneJobsHaveStoppedWithUsers, PTL

-----------------------------------------------------------------------------
(* A client that was asked to restart.                                     *)

\* The handler of a poll knows whether its client is to restart.
Told == {"finish", "lost", "reply"}

ReservedFor(n) == {j \in Jobs : status[j] = "reserved" /\ node[j] = n}

\* A client that is to restart was asked to, and its polls get no new job;
AsksAgain(n) ==
  /\ needRestart[n] /\ up[n] => reqRestart[n] /\ ~firstUpdate[n]
  /\ poll[n].pc \in Told /\ poll[n].restart => reqRestart[n]
  /\ poll[n].pc \in Told /\ needRestart[n] /\ up[n] => poll[n].restart

\* what it may still get is new to it,
SendsRest(n) ==
  /\ poll[n].pc \in Told /\ poll[n].restart => poll[n].running \cap ReservedFor(n) = {}
  /\ poll[n].pc = "reply" => ReservedFor(n) \subseteq poll[n].jobs
  /\ poll[n].pc = "reply" /\ poll[n].restart => poll[n].jobs \cap poll[n].running = {}

\* and it has all that is reserved for it.
HasReserved(n) == needRestart[n] /\ up[n] => \A j \in ReservedFor(n) : Claims(n, j)

\* Inductive in a calm farm: implies RestartLosesNothing.
RestartInv == \A n \in Nodes : AsksAgain(n) /\ SendsRest(n) /\ HasReserved(n)

\* What a step does to the flags of a client and of its poll.
FlagsStay(n) ==
  /\ up'[n] = up[n] /\ firstUpdate'[n] = firstUpdate[n] /\ needRestart'[n] = needRestart[n]
  /\ reqRestart[n] => reqRestart'[n]
  /\ poll'[n].pc \in Told => poll[n].pc \in Told /\ poll'[n].restart = poll[n].restart
  /\ poll[n].pc = "reply" => poll'[n] = poll[n]

Asked(n) ==
  /\ poll[n].pc = "cleanup"
  /\ up'[n] = up[n] /\ firstUpdate'[n] = firstUpdate[n] /\ needRestart'[n] = needRestart[n]
  /\ reqRestart'[n] = (reqRestart[n] /\ (firstUpdate[n] => poll[n].offline))
  /\ poll'[n].pc \in Told => ~poll[n].offline /\ poll'[n].restart = reqRestart'[n]

Obeyed(n) ==
  /\ poll[n].pc = "reply" /\ poll'[n].pc = "idle" /\ up'[n] = up[n]
  /\ ~firstUpdate'[n] /\ reqRestart'[n] = reqRestart[n]
  /\ needRestart'[n] = (needRestart[n] \/ poll[n].restart)
  /\ poll[n].jobs \cap Held(n) = {} => \A j \in poll[n].jobs : Busy(n, j)'

Switched(n) == (~up'[n] \/ ~needRestart'[n]) /\ poll'[n].pc \notin Told

\* The flags of a client change in one of these ways in a calm farm.
LEMMA FlagMoves ==
  ASSUME CInv, [Next]_vars, Calm', NEW n \in Nodes
  PROVE  FlagsStay(n) \/ Asked(n) \/ Obeyed(n) \/ Switched(n)
<1> USE DEF CInv, IInv
<1>0. /\ DOMAIN poll = Nodes /\ DOMAIN up = Nodes /\ DOMAIN firstUpdate = Nodes
      /\ DOMAIN needRestart = Nodes /\ DOMAIN reqRestart = Nodes
      /\ \A m \in Nodes : poll[m] \in PollType
      /\ NoPoll.pc = "idle" /\ LastPoll.pc = "sent"
      /\ reqRestart[n] \in BOOLEAN
  BY DEF TypeOK, NoPoll, LastPoll
<1>1. ASSUME NEW m \in Nodes, ReadRunning(m) \/ ReadFinished(m) \/ BeginCleanup(m)
      PROVE  FlagsStay(n)
  <2>1. /\ up' = up /\ firstUpdate' = firstUpdate /\ needRestart' = needRestart
        /\ reqRestart' = reqRestart
    BY <1>1 DEF ReadRunning, ReadFinished, BeginCleanup, client, db
  <2>2. CASE m # n
    BY <1>0, <1>1, <2>1, <2>2 DEF ReadRunning, ReadFinished, BeginCleanup, FlagsStay
  <2>3. CASE m = n
    <3>1. ReadRunning(n) => poll[n].pc = "idle" /\ poll'[n].pc = "keys"
      BY <1>0 DEF ReadRunning, NoPoll
    <3>2. ReadFinished(n) => poll[n].pc = "keys" /\ poll'[n].pc = "sent"
      BY <1>0 DEF ReadFinished, PollType
    <3>3. BeginCleanup(n) => poll[n].pc = "sent" /\ poll'[n].pc = "cleanup"
      BY <1>0 DEF BeginCleanup, PollType
    <3> QED BY <1>1, <2>1, <2>3, <3>1, <3>2, <3>3 DEF FlagsStay, Told
  <2> QED BY <2>2, <2>3
<1>2. ASSUME NEW m \in Nodes, NEW phase \in {"cleanup", "lost"}, FailLostJob(m, phase)
      PROVE  FlagsStay(n)
  <2>1. /\ up' = up /\ firstUpdate' = firstUpdate /\ needRestart' = needRestart
        /\ reqRestart' = reqRestart
        /\ \/ poll'[n] = poll[n]
           \/ /\ poll[n].pc \in {"cleanup", "lost"} /\ poll'[n].pc = poll[n].pc
              /\ poll'[n].restart = poll[n].restart
    BY <1>0, <1>2 DEF FailLostJob, client, PollType
  <2> QED BY <2>1 DEF FlagsStay, Told
<1>3. ASSUME NEW m \in Nodes, FinishJob(m) \/ FindMissingJobs(m) \/ Schedule(m) \/ RefuseOrphan(m)
      PROVE  FlagsStay(n)
  <2>1. /\ up' = up /\ firstUpdate' = firstUpdate /\ needRestart' = needRestart
        /\ reqRestart' = reqRestart
    BY <1>3 DEF FinishJob, FindMissingJobs, Schedule, RefuseOrphan, client, db
  <2>2. CASE m # n
    BY <1>0, <1>3, <2>1, <2>2 DEF FinishJob, FindMissingJobs, Schedule, RefuseOrphan, FlagsStay
  <2>3. CASE m = n
    <3>1. FinishJob(n) \/ FindMissingJobs(n)
            => poll[n].pc = "finish" /\ poll'[n].restart = poll[n].restart
      BY <1>0 DEF FinishJob, FindMissingJobs, PollType
    <3>2. Schedule(n)
            => poll[n].pc = "lost" /\ (poll'[n].pc = "idle" \/ poll'[n].restart = poll[n].restart)
      BY <1>0 DEF Schedule, PollType
    <3>3. RefuseOrphan(n) => poll[n].pc \in {"cleanup", "lost"} /\ poll'[n].pc = "idle"
      BY <1>0 DEF RefuseOrphan
    <3> QED BY <1>3, <2>1, <2>3, <3>1, <3>2, <3>3 DEF FlagsStay, Told
  <2> QED BY <2>2, <2>3
<1>4. ASSUME NEW m \in Nodes, DiscoverNode(m) PROVE FlagsStay(n) \/ Asked(n)
  <2>1. /\ up' = up /\ firstUpdate' = firstUpdate /\ needRestart' = needRestart
    BY <1>4 DEF DiscoverNode, client
  <2>2. CASE m # n
    <3>1. poll'[n] = poll[n] /\ reqRestart'[n] = reqRestart[n]
      BY <1>0, <1>4, <2>2 DEF DiscoverNode
    <3> QED BY <2>1, <3>1 DEF FlagsStay
  <2>3. CASE m = n
    <3>1. reqRestart'[n] = (reqRestart[n] /\ (firstUpdate[n] => poll[n].offline))
      BY <1>0, <1>4, <2>3 DEF DiscoverNode
    <3>2. poll[n].offline => poll'[n].pc = "idle"
      BY <1>0, <1>4, <2>3 DEF DiscoverNode
    <3>3. ~poll[n].offline => poll'[n].restart = reqRestart'[n]
      BY <1>0, <1>4, <2>3 DEF DiscoverNode, PollType
    <3>4. poll[n].pc = "cleanup"
      BY <1>4, <2>3 DEF DiscoverNode
    <3> QED BY <2>1, <3>1, <3>2, <3>3, <3>4, Zenon DEF Asked, Told
  <2> QED BY <2>2, <2>3
<1>5. ASSUME NEW m \in Nodes, HandleReply(m) PROVE FlagsStay(n) \/ Obeyed(n)
  <2>1. CASE m # n
    BY <1>0, <1>5, <2>1 DEF HandleReply, FlagsStay, db
  <2>2. CASE m = n
    <3>1. ASSUME poll[n].jobs \cap Held(n) = {}, NEW j \in poll[n].jobs PROVE Busy(n, j)'
      <4>1. PICK K \in {{}, poll[n].kill} : worker'[n] = Threads(worker[n], poll[n].jobs, K)
        BY <1>0, <1>5, <2>2, <3>1 DEF HandleReply, TypeOK
      <4>2. j \in Jobs
        BY <1>0 DEF PollType
      <4> QED BY <4>1, <4>2 DEF Threads, Busy, BusyPhases
    <3>2. /\ poll[n].pc = "reply" /\ poll'[n].pc = "idle" /\ up'[n] = up[n]
          /\ ~firstUpdate'[n] /\ reqRestart'[n] = reqRestart[n]
          /\ needRestart'[n] = (needRestart[n] \/ poll[n].restart)
      BY <1>0, <1>5, <2>2 DEF HandleReply, db
    <3> QED BY <3>1, <3>2 DEF Obeyed
  <2> QED BY <2>1, <2>2
<1>6. ASSUME NEW m \in Nodes, GracefulExit(m) \/ StartClient(m) PROVE FlagsStay(n) \/ Switched(n)
  <2>1. CASE m # n
    BY <1>0, <1>6, <2>1 DEF GracefulExit, StartClient, FlagsStay, db
  <2>2. CASE m = n
    BY <1>0, <1>6, <2>2 DEF GracefulExit, StartClient, Switched, Told
  <2> QED BY <2>1, <2>2
<1>7. ASSUME NEW m \in Nodes, Fault(m) PROVE FlagsStay(n)
  <2>1. TwoHoursPass(m)
    BY <1>7, NoFaults DEF Fault
  <2> QED BY <2>1 DEF TwoHoursPass, FlagsStay, client
<1>8. ASSUME NEW m \in Nodes, NEW k \in Jobs, JobStep(m, k) PROVE FlagsStay(n)
  BY <1>8 DEF JobStep, LaunchChild, ReleaseChild, EndJob, ForgetThread, FlagsStay, client, db
<1>9. CASE UserStep
  <2>1. /\ up' = up /\ firstUpdate' = firstUpdate /\ needRestart' = needRestart /\ poll' = poll
        /\ reqRestart[n] => reqRestart'[n]
    BY <1>0, <1>9 DEF UserStep, KillJob, DeleteJob, RestartJob, RestartFailedChildren,
                      ReloadClient, client
  <2> QED BY <2>1 DEF FlagsStay
<1>10. CASE UNCHANGED vars
  BY <1>10 DEF vars, FlagsStay
<1>11. ASSUME NEW m \in Nodes, PollStep(m) PROVE FlagsStay(n) \/ Asked(n) \/ Obeyed(n)
  BY <1>1, <1>2, <1>3, <1>4, <1>5, <1>11 DEF PollStep, CleanupDeadJob, FailMissingJob
<1> QED BY <1>6, <1>7, <1>8, <1>9, <1>10, <1>11 DEF Next

\* A client is asked again until it restarts.
LEMMA KeepsAsking ==
  ASSUME CInv, [Next]_vars, Calm', NEW n \in Nodes, AsksAgain(n)
  PROVE  AsksAgain(n)'
<1>0. /\ FlagsStay(n) \/ Asked(n) \/ Obeyed(n) \/ Switched(n)
      /\ reqRestart[n] \in BOOLEAN /\ poll[n].restart \in BOOLEAN
  BY FlagMoves DEF CInv, IInv, TypeOK, PollType
<1>1. CASE FlagsStay(n)
  BY <1>1 DEF FlagsStay, AsksAgain
<1>2. CASE Asked(n)
  BY <1>0, <1>2 DEF Asked, AsksAgain, Told
<1>3. CASE Obeyed(n)
  BY <1>0, <1>3 DEF Obeyed, AsksAgain, Told
<1>4. CASE Switched(n)
  BY <1>4 DEF Switched, AsksAgain
<1> QED BY <1>0, <1>1, <1>2, <1>3, <1>4

\* A job is reserved for n by the scheduler, in a poll whose client is not to restart.
LEMMA ReservedBySchedule ==
  ASSUME CInv, [Next]_vars, Calm', NEW n \in Nodes, NEW j \in ReservedFor(n)', j \notin ReservedFor(n)
  PROVE  Schedule(n) /\ ~poll[n].restart
<1> USE DEF CInv, IInv
<1>0. /\ j \in Jobs /\ status'[j] = "reserved" /\ node'[j] = n
      /\ ~(status[j] = "reserved" /\ node[j] = n)
      /\ status \in StatusColumn /\ DOMAIN status = Jobs /\ DOMAIN node = Jobs
      /\ \A m \in Nodes : poll[m] \in PollType
  BY DEF ReservedFor, TypeOK, StatusColumn
<1>1. Loose(j)
  <2>1. RowMoves(j)
    BY <1>0, RowMove
  <2> QED BY <1>0, <2>1 DEF RowMoves, Removed, Remarked, Marked, Killed, Settled, Outcomes
<1>2. status'[j] # status[j]
  BY <1>0, <1>1 DEF Loose, Active
<1>3. ASSUME NEW m \in Nodes, Schedule(m) PROVE m = n /\ ~poll[m].restart
  <2>1. PICK k \in Best(m) :
          /\ ~poll[m].restart
          /\ status' = [DeleteRows(status, Children(status, k)) EXCEPT ![k] = "reserved"]
          /\ node' = [node EXCEPT ![k] = m]
    BY <1>2, <1>3 DEF Schedule
  <2>2. k \in Jobs
    BY DEF Best, Runnable
  <2>3. j = k
    <3>1. SUFFICES ASSUME j # k PROVE FALSE
      OBVIOUS
    <3>2. status'[j] = DeleteRows(status, Children(status, k))[j]
      BY <1>0, <2>1, <3>1, DeleteRowsType DEF StatusColumn
    <3> QED BY <1>0, <1>2, <3>2 DEF DeleteRows
  <2> QED BY <1>0, <2>1, <2>3
<1>4. ASSUME NEW m \in Nodes, NEW phase \in {"cleanup", "lost"}, FailLostJob(m, phase)
      PROVE  FALSE
  BY <1>4 DEF FailLostJob, NothingLost
<1>5. ASSUME NEW m \in Nodes, DiscoverNode(m) PROVE FALSE
  BY <1>0, <1>2, <1>5 DEF DiscoverNode, MarkRunning
<1>6. ASSUME NEW m \in Nodes, FinishJob(m) PROVE FALSE
  <2>1. PICK t \in poll[m].todo :
          /\ poll[m].pc = "finish"
          /\ status' = IF Exists(status, t[1])
                       THEN SaveAndNotify(status, t[1], poll[m].finished[t[1]])
                       ELSE status
    BY <1>6 DEF FinishJob
  <2>2. t[1] \in Jobs /\ poll[m].finished[t[1]] \in Outcomes
    BY <1>0, <2>1 DEF PollType, PollInv, FinishesReported, Reported
  <2>3. status'[j] \in Outcomes
    BY <1>0, <1>2, <2>1, <2>2, SaveMoves DEF Outcomes
  <2> QED BY <1>0, <2>3 DEF Outcomes
<1>7. ASSUME NEW m \in Nodes, NEW k \in Jobs, JobStep(m, k) PROVE FALSE
  BY <1>0, <1>2, <1>7 DEF JobStep, LaunchChild, ReleaseChild, EndJob, ForgetThread, db
<1>8. ASSUME NEW k \in Jobs, KillJob(k) \/ DeleteJob(k) PROVE FALSE
  BY <1>0, <1>2, <1>8 DEF KillJob, DeleteJob, DeleteRows
<1>9. ASSUME NEW k \in Jobs, NEW same \in BOOLEAN, RestartJob(k, same) PROVE FALSE
  <2>1. status' = [DeleteRows(status, Children(status, k)) EXCEPT ![k] = "ready"]
    BY <1>9 DEF RestartJob
  <2>2. status'[j] \in {"ready", "deleted", status[j]}
    BY <1>0, <2>1, DeleteRowsType DEF DeleteRows, StatusColumn
  <2> QED BY <1>0, <1>2, <2>2
<1>10. ASSUME NEW k \in Jobs, NEW same \in BOOLEAN, RestartFailedChildren(k, same) PROVE FALSE
  BY <1>0, <1>2, <1>10 DEF RestartFailedChildren
<1>11. CASE UserStep
  BY <1>2, <1>8, <1>9, <1>10, <1>11 DEF UserStep, ReloadClient
<1>12. ASSUME NEW m \in Nodes, PollStep(m) PROVE Schedule(n) /\ ~poll[n].restart
  BY <1>2, <1>3, <1>4, <1>5, <1>6, <1>12
  DEF PollStep, ReadRunning, ReadFinished, BeginCleanup, CleanupDeadJob,
      FindMissingJobs, FailMissingJob, HandleReply, RefuseOrphan, db
<1>13. ASSUME NEW m \in Nodes, GracefulExit(m) \/ StartClient(m) \/ Fault(m)
       PROVE  FALSE
  BY <1>2, <1>13 DEF GracefulExit, StartClient, Fault, LosePoll, Crash, TwoHoursPass, db
<1>14. CASE UNCHANGED vars
  BY <1>2, <1>14 DEF vars
<1> QED BY <1>7, <1>11, <1>12, <1>13, <1>14 DEF Next

\* A poll that knows whether its client is to restart keeps what it knows.
LEMMA ToldMoves ==
  ASSUME CInv, [Next]_vars, Calm', NEW n \in Nodes, poll'[n].pc \in Told
  PROVE  /\ \/ Discovered(n)
            \/ /\ poll[n].pc \in Told /\ poll'[n].running = poll[n].running
               /\ poll'[n].restart = poll[n].restart
         /\ poll'[n].pc = "reply" => \/ Replied(n)
                                     \/ poll'[n] = poll[n]
<1>0. ServedMoves(n)
  BY CalmMove
<1>1. CASE Discovered(n)
  BY <1>1 DEF Discovered
<1>2. CASE ~Discovered(n)
  <2>1. poll[n].pc \in Told /\ poll'[n].running = poll[n].running
    BY <1>0, <1>2
    DEF ServedMoves, Still, KeysRead, ResultsRead, Left, CleanupBegun, LoopTurned, TurnDone,
        MissingFound, Replied, Received, Closed, Dropped, Threaded, Ended, SameRequest, Told
  <2>2. poll'[n].restart = poll[n].restart
    BY <2>1, FlagMoves DEF FlagsStay, Asked, Obeyed, Switched, Told
  <2> QED BY <1>0, <1>2, <2>1, <2>2
       DEF ServedMoves, Still, KeysRead, ResultsRead, Left, CleanupBegun, LoopTurned, TurnDone,
           MissingFound, Replied, Received, Closed, Dropped, Threaded, Ended, Told
<1> QED BY <1>1, <1>2

\* A client that is to restart is sent what is reserved for it, and that is new to it.
LEMMA KeepsSending ==
  ASSUME CInv, [Next]_vars, Calm', NEW n \in Nodes, SendsRest(n)
  PROVE  SendsRest(n)'
<1> USE DEF Told
<1>1. ASSUME poll'[n].pc \in Told, poll'[n].restart,
             NEW j \in poll'[n].running, j \in ReservedFor(n)'
      PROVE  FALSE
  <2>0. j \in Jobs /\ status'[j] = "reserved"
    BY <1>1 DEF ReservedFor
  <2>1. CASE Discovered(n)
    <3>1. poll[n].pc = "cleanup" /\ j \in poll[n].running
      BY <1>1, <2>1 DEF Discovered, SameRequest
    <3>2. status[j] = "reserved"
      BY <2>0, <3>1, ReservedBefore DEF CInv, RunningLive, Claims
    <3> QED BY <2>0, <2>1, <3>1, <3>2 DEF Discovered, Absent
  <2>2. CASE ~Discovered(n)
    <3>1. poll[n].pc \in Told /\ j \in poll[n].running /\ poll[n].restart
      BY <1>1, <2>2, ToldMoves
    <3>2. j \notin ReservedFor(n)
      BY <3>1 DEF SendsRest
    <3> QED BY <1>1, <3>1, <3>2, ReservedBySchedule
  <2> QED BY <2>1, <2>2
<1>2. ASSUME poll'[n].pc = "reply" PROVE ReservedFor(n)' \subseteq poll'[n].jobs
  <2>1. CASE Replied(n)
    BY <2>1 DEF Replied, ToSubmit, ReservedFor
  <2>2. CASE poll'[n] = poll[n]
    <3>1. ASSUME NEW j \in ReservedFor(n)' PROVE j \in ReservedFor(n)
      BY <1>2, <2>2, <3>1, ReservedBySchedule DEF Schedule
    <3> QED BY <1>2, <2>2, <3>1 DEF SendsRest
  <2> QED BY <1>2, <2>1, <2>2, ToldMoves
<1>3. ASSUME poll'[n].pc = "reply", poll'[n].restart PROVE poll'[n].jobs \cap poll'[n].running = {}
  <2>1. CASE Replied(n)
    <3>1. poll'[n].jobs = ReservedFor(n)'
      BY <2>1 DEF Replied, ToSubmit, ReservedFor
    <3> QED BY <1>1, <1>3, <3>1
  <2>2. CASE poll'[n] = poll[n]
    BY <1>3, <2>2 DEF SendsRest
  <2> QED BY <1>3, <2>1, <2>2, ToldMoves
<1>4. (poll[n].pc \in Told /\ poll[n].restart => poll[n].running \cap ReservedFor(n) = {})'
  BY <1>1
<1>5. (poll[n].pc = "reply" => ReservedFor(n) \subseteq poll[n].jobs)'
  BY <1>2
<1>6. (poll[n].pc = "reply" /\ poll[n].restart => poll[n].jobs \cap poll[n].running = {})'
  BY <1>3
<1> QED BY <1>4, <1>5, <1>6 DEF SendsRest

\* A client that is to restart has what is reserved for it.
LEMMA KeepsReserved ==
  ASSUME CInv, [Next]_vars, Calm', NEW n \in Nodes, AsksAgain(n), SendsRest(n), HasReserved(n)
  PROVE  HasReserved(n)'
<1> SUFFICES ASSUME needRestart'[n], up'[n], NEW j \in ReservedFor(n)' PROVE Claims(n, j)'
  BY DEF HasReserved
<1>0. j \in Jobs /\ status'[j] = "reserved"
  BY DEF ReservedFor
<1>1. CASE Obeyed(n)
  <2>1. poll[n].pc = "reply" /\ up[n] /\ poll[n].restart
    BY <1>1 DEF Obeyed, AsksAgain, Told
  <2>2. j \in poll[n].jobs
    BY <2>1, ReservedBySchedule DEF SendsRest, Schedule
  <2>3. Held(n) \subseteq poll[n].running
    BY <2>1 DEF CInv, IInv, PollInv, ReportCovers, InFlight
  <2>4. poll[n].jobs \cap Held(n) = {}
    BY <2>1, <2>3 DEF SendsRest
  <2>5. Busy(n, j)' /\ poll'[n].pc = "idle"
    BY <1>1, <2>2, <2>4 DEF Obeyed
  <2> QED BY <2>5 DEF Claims, Live, Recorded
<1>2. CASE FlagsStay(n) \/ Asked(n)
  <2>1. needRestart[n] /\ up[n]
    BY <1>2 DEF FlagsStay, Asked
  <2>2. j \in ReservedFor(n)
    <3>1. SUFFICES ASSUME j \notin ReservedFor(n) PROVE FALSE
      OBVIOUS
    <3>2. poll[n].pc = "lost" /\ ~poll[n].restart
      BY <3>1, ReservedBySchedule DEF Schedule
    <3> QED BY <2>1, <3>2 DEF AsksAgain, Told
  <2>3. status[j] = "reserved" /\ Claims(n, j)
    BY <2>1, <2>2 DEF HasReserved, ReservedFor
  <2>4. CASE Live(n, j)
    <3>1. SUFFICES ASSUME ~Live(n, j)' PROVE FALSE
      BY DEF Claims
    <3>2. /\ TurnDone(n) /\ j \in Sent(n)
          /\ <<j, n>> \in poll[n].todo /\ <<j, n>> \notin poll'[n].todo
      BY <1>0, <2>4, <3>1, LiveMoves
    <3>3. status'[j] = poll[n].finished[j]
      BY <1>0, <2>3, <3>2 DEF TurnDone, Absent
    <3>4. poll[n].finished[j] \in Outcomes
      BY <1>0, <3>2 DEF Sent, Reported, CInv, IInv, TypeOK, PollType
    <3> QED BY <1>0, <3>3, <3>4 DEF Outcomes
  <2>5. CASE Coming(n, j)
    BY <1>2, <2>5 DEF FlagsStay, Asked, Coming, Claims
  <2> QED BY <2>3, <2>4, <2>5 DEF Claims
<1>3. ~Switched(n)
  BY DEF Switched
<1> QED BY <1>1, <1>2, <1>3, FlagMoves

\* The invariants hold until the farm is disturbed.
LEMMA RestartInvariant ==
  ASSUME Setting
  PROVE  Spec => [](Calm => RestartInv)
<1>1. Init => RestartInv
  BY DEF Init, NoPoll, RestartInv, AsksAgain, SendsRest, HasReserved, Told
<1>2. IInv /\ Bounded /\ (Calm => CInv) /\ (Calm => RestartInv) /\ [Next]_vars
        => (Calm => RestartInv)'
  <2> SUFFICES ASSUME IInv, Bounded, Calm => CInv, Calm => RestartInv, [Next]_vars, Calm'
               PROVE  RestartInv'
    OBVIOUS
  <2>1. Calm
    BY BudgetShrinks DEF Calm, IInv, Faults
  <2> QED BY <2>1, KeepsAsking, KeepsSending, KeepsReserved DEF RestartInv
<1> QED BY <1>1, <1>2, CalmInvariant, PTL DEF Spec

\* A client that restarts on request, in a calm farm, leaves no job of its node
\* unfinished in the database, whatever users do meanwhile: the poll that tells it
\* to restart gets no new job, and brings it all those reserved for it before.
THEOREM RestartsLoseNothing ==
  ASSUME PromptWrapper = TRUE, RestartFrom \subseteq {"waiting", "success", "failed"},
         Budget["loss"] = 0, Budget["crash"] = 0, Budget["lapse"] = 0
  PROVE  Spec => RestartLosesNothing
<1>1. Setting
  BY DEF Setting, Done
<1>2. IInv /\ Bounded => Calm
  <2> SUFFICES ASSUME IInv, Bounded PROVE Calm
    OBVIOUS
  <2>1. \A kind \in {"loss", "crash", "lapse"} : budget[kind] \in Nat /\ budget[kind] <= 0
    BY DEF IInv, TypeOK, Bounded, Faults
  <2> QED BY <2>1 DEF Calm, Unused
<1>3. ASSUME CInv, RestartInv, NEW n \in Nodes, GracefulExit(n), NEW j \in Jobs, node[j] = n
      PROVE  status[j] \notin {"reserved", "running", "terminating"}
  <2>1. ~Claims(n, j)
    BY <1>3 DEF GracefulExit, CanExit, Claims, Live, Coming, Held, Busy, BusyPhases
  <2>2. status[j] # "reserved"
    BY <1>3, <2>1 DEF GracefulExit, CanExit, RestartInv, HasReserved, ReservedFor
  <2>3. status[j] \notin {"running", "terminating"}
    BY <1>3, <2>1 DEF CInv, ActiveLive, Claims
  <2> QED BY <2>2, <2>3
<1>4. CInv /\ RestartInv /\ [Next]_vars =>
        [\A n \in Nodes : GracefulExit(n) =>
           \A j \in Jobs : node[j] = n => status[j] \notin {"reserved", "running", "terminating"}]_vars
  BY <1>3
<1>5. Spec => [](IInv /\ Bounded /\ (Calm => CInv)) /\ [](Calm => RestartInv)
  BY <1>1, CalmInvariant, RestartInvariant, PTL
<1> QED BY <1>2, <1>4, <1>5, PTL DEF Spec, RestartLosesNothing

=============================================================================
