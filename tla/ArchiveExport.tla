---------------------------- MODULE ArchiveExport ----------------------------
(***************************************************************************)
(* What becomes of the files of a take after it was recorded: requests of  *)
(* users to export and delete takes (ava/archive/views.py), and the jobs   *)
(* those requests leave in the farm (job_client/jobs/archive.py), which    *)
(* copy the files of a recording machine to an export path, delete them    *)
(* there, and delete both copies of a take that was deleted.               *)
(*                                                                         *)
(* The farm (module JobFarm) is reduced to what these jobs see of it: a    *)
(* machine runs one of them at a time (the heavy channel), a parent that   *)
(* waits takes the verdict of its children, a job starts when its          *)
(* dependencies succeeded.  A request names one take; a list of takes is a *)
(* series of such requests.                                                *)
(***************************************************************************)
EXTENDS Naturals, Sequences, FiniteSets

CONSTANTS
  Takes,
  Machines,     \* machines that run jobs; those with files recorded the takes
  NumFiles,     \* [Takes -> [Machines -> Nat]], files of a take on each machine
  Paths,        \* export paths, on storage that all machines share
  NoPath,       \* the export path of a take that was never exported
  NoMachine,    \* the node of a job that any machine may run
  Handlers,     \* requests the backend can have open at the same time
  MaxExports, MaxDeletes,    \* bounds: export and delete requests of a behaviour
  MaxRestarts,  \* bound: restarts of a behaviour
  Faults,       \* the faults that happen, a subset of FaultKinds
  MaxFaults     \* bound: faults of a behaviour

\* A job is killed or raises, os.remove fails, the backend dies in a request.
FaultKinds == {"kill", "remove", "crash"}

ASSUME ArchiveAssumption ==
  /\ Takes # {}
  /\ NumFiles \in [Takes -> [Machines -> Nat]]
  /\ NoPath \notin Paths /\ NoMachine \notin Machines
  /\ MaxExports \in Nat /\ MaxDeletes \in Nat /\ MaxRestarts \in Nat /\ MaxFaults \in Nat
  /\ Faults \subseteq FaultKinds

VARIABLES
  take,      \* [Takes -> Row], the take rows
  src,       \* files that are on their recording machine
  dest,      \* [Files \X Paths -> Content], files at the export paths
  jobs,      \* the rows of the farm's jobs, in the order they were made
  run,       \* [Machines -> Run], the job each machine runs
  req,       \* [Handlers -> Request], the open requests
  exports, deletes, restarts, faults,    \* what has been spent of the bounds
  released,  \* history: takes whose rows were deleted
  strayed,   \* history: takes whose row no longer names the one place where
             \* their files are or will be; whose jobs may run elsewhere; whose
             \* files os.remove failed to delete; or whose export was resumed
             \* with a part of its children
  overtaken  \* history: takes that an export, or another deletion, overtook
             \* between the list a deletion made of their files and its rows

rows   == <<take, jobs>>
disk   == <<src, dest>>
bounds == <<exports, deletes, restarts, faults>>
vars   == <<take, src, dest, jobs, run, req, exports, deletes, restarts, faults,
            released, strayed, overtaken>>

Files    == UNION {{t} \X {m} \X (1 .. NumFiles[t][m]) : t \in Takes, m \in Machines}
Recorders(t) == {m \in Machines : NumFiles[t][m] > 0}     \* machines with files of a take
Contents == {"none", "part", "whole"}
Row      == [there : BOOLEAN, cameras : BOOLEAN, path : Paths \cup {NoPath}]
Statuses == {"created", "ready", "running", "waiting", "success", "failed", "deleted"}
Job      == [class : {"export", "copy", "delete", "thumb"}, status : Statuses, take : Takes,
             path : Paths \cup {NoPath}, cameras : BOOLEAN,
             files : Machines \cup {NoMachine},    \* the machine its files are from
             node : Machines \cup {NoMachine}, parent : Nat, needs : Nat]
Run      == [job : Nat, at : Nat, phase : {"idle", "copy", "write", "erase"}]
Steps    == {"", "job", "thumb", "ready", "rows", "files", "upload"}
Request  == [kind : {"none", "export", "delete", "upload"}, at : Steps, take : Takes,
             row : Row, job : Nat, thumb : Nat, left : SUBSET Machines]

NoRun   == [job |-> 0, at |-> 0, phase |-> "idle"]
NoRow   == [there |-> FALSE, cameras |-> FALSE, path |-> NoPath]
NoReq   == [kind |-> "none", at |-> "", take |-> CHOOSE t \in Takes : TRUE, row |-> NoRow,
            job |-> 0, thumb |-> 0, left |-> {}]

\* The takes were recorded, and their files are on the recording machines.
Init ==
  /\ take = [t \in Takes |-> [there |-> TRUE, cameras |-> TRUE, path |-> NoPath]]
  /\ src = Files
  /\ dest = [fp \in Files \X Paths |-> "none"]
  /\ jobs = <<>>
  /\ run = [m \in Machines |-> NoRun]
  /\ req = [r \in Handlers |-> NoReq]
  /\ exports = 0 /\ deletes = 0 /\ restarts = 0 /\ faults = 0
  /\ released = {} /\ strayed = {} /\ overtaken = {}

Spend(f) == /\ f \in Faults /\ faults < MaxFaults
            /\ faults' = faults + 1

-----------------------------------------------------------------------------
(* The farm.                                                               *)

NewJob(class, status, t, path) ==
  [class |-> class, status |-> status, take |-> t, path |-> path, cameras |-> TRUE,
   files |-> NoMachine, node |-> NoMachine, parent |-> 0, needs |-> 0]

Children(js, j) == {c \in DOMAIN js : js[c].parent = j /\ js[c].status # "deleted"}

DeleteChildren(js, j) ==
  [c \in DOMAIN js |-> IF c \in Children(js, j) THEN [js[c] EXCEPT !.status = "deleted"]
                       ELSE js[c]]

\* Mutant of Settle: the first child that ends decides.
SettleAtOnce(js, j, s) ==
  LET p == js[j].parent
      ks == [js EXCEPT ![j].status = s]
  IN IF p # 0 /\ ks[p].status = "waiting" THEN [ks EXCEPT ![p].status = s] ELSE ks

\* Job j ends with status s, and its parent takes the verdict of its children.
Settle(js, j, s) ==
  LET p == js[j].parent
      ks == [js EXCEPT ![j].status = s]
      ended == {ks[c].status : c \in Children(ks, p)}
  IN IF p # 0 /\ ks[p].status = "waiting" /\ ended \subseteq {"success", "failed"}
     THEN [ks EXCEPT ![p].status = IF "failed" \in ended THEN "failed" ELSE "success"]
     ELSE ks

Startable(j) == /\ jobs[j].status = "ready"
                /\ jobs[j].needs # 0 => jobs[jobs[j].needs].status = "success"

\* Mutant of Start: a job that any machine may run is not assigned to m.
StartUnassigned(m) ==
  /\ run[m] = NoRun
  /\ \E j \in DOMAIN jobs :
       /\ jobs[j].class # "thumb" /\ Startable(j) /\ jobs[j].node \in {m, NoMachine}
       /\ jobs' = [DeleteChildren(jobs, j) EXCEPT ![j].status = "running"]
       /\ run' = [run EXCEPT ![m] = [job |-> j, at |-> 1, phase |-> "copy"]]
  /\ UNCHANGED <<take, disk, req, bounds, released, strayed, overtaken>>

\* A machine gets a job; what is left of an earlier turn of the job is deleted.
Start(m) ==
  /\ run[m] = NoRun
  /\ \E j \in DOMAIN jobs :
       /\ jobs[j].class # "thumb" /\ Startable(j) /\ jobs[j].node \in {m, NoMachine}
       /\ jobs' = [DeleteChildren(jobs, j) EXCEPT ![j].status = "running", ![j].node = m]
       /\ run' = [run EXCEPT ![m] = [job |-> j, at |-> 1, phase |-> "copy"]]
  /\ UNCHANGED <<take, disk, req, bounds, released, strayed, overtaken>>

\* The job of m ends.
End(m, s) ==
  /\ run' = [run EXCEPT ![m] = NoRun]
  /\ jobs' = Settle(jobs, run[m].job, s)

\* A user kills the job of m, its machine fails, or the copy raises.
Kill(m) ==
  /\ run[m] # NoRun
  /\ Spend("kill")
  /\ End(m, "failed")
  /\ UNCHANGED <<take, disk, req, exports, deletes, restarts, released, strayed, overtaken>>

Again(js, S, same) ==
  [j \in DOMAIN js |->
     IF j \in S THEN [js[j] EXCEPT !.status = "ready", !.node = IF same THEN @ ELSE NoMachine]
     ELSE js[j]]

\* Machines with files of the take for which export job j has no CopyFiles yet.
Unlaunched(j) == Recorders(jobs[j].take) \ {jobs[c].files : c \in Children(jobs, j)}

\* restart_job, offered for a job that failed, succeeded or waits; by default
\* the job loses its machine.  Where exports and thumbnails run is all the same.
RestartJob(j, same) ==
  /\ restarts < MaxRestarts
  /\ jobs[j].status \in {"failed", "success", "waiting"}
  /\ \A c \in Children(jobs, j) : jobs[c].status \notin {"running", "waiting"}
  /\ jobs' = Again(DeleteChildren(jobs, j), {j}, same)
  /\ restarts' = restarts + 1
  /\ strayed' = IF same \/ jobs[j].class \in {"export", "thumb"} THEN strayed
                ELSE strayed \cup {jobs[j].take}
  /\ UNCHANGED <<take, disk, run, req, exports, deletes, faults, released, overtaken>>

\* restart_job with "Clone and start": a new job, without parent, dependencies and
\* children of the first: the clone of a thumbnail job waits for no export.
CloneJob(j, same) ==
  /\ restarts < MaxRestarts
  /\ jobs[j].status \in {"failed", "success", "waiting"}
  /\ jobs' = Append(jobs, [jobs[j] EXCEPT !.status = "ready", !.parent = 0, !.needs = 0,
                                          !.node = IF same THEN @ ELSE NoMachine])
  /\ restarts' = restarts + 1
  /\ strayed' = IF same \/ jobs[j].class \in {"export", "thumb"} THEN strayed
                ELSE strayed \cup {jobs[j].take}
  /\ UNCHANGED <<take, disk, run, req, exports, deletes, faults, released, overtaken>>

\* restart_job_failed_child.  The parent waits for the children it has, also
\* when it was stopped before it had launched all of them.
RestartFailedChildren(j, same) ==
  LET failed == {c \in Children(jobs, j) : jobs[c].status = "failed"}
  IN /\ restarts < MaxRestarts
     /\ jobs[j].status \in {"failed", "success", "waiting"} /\ failed # {}
     /\ jobs' = [Again(jobs, failed, same) EXCEPT ![j].status = "waiting"]
     /\ restarts' = restarts + 1
     /\ strayed' = IF same /\ Unlaunched(j) = {} THEN strayed ELSE strayed \cup {jobs[j].take}
     /\ UNCHANGED <<take, disk, run, req, exports, deletes, faults, released, overtaken>>

-----------------------------------------------------------------------------
(* The jobs.                                                               *)

Running(m, class) == run[m] # NoRun /\ jobs[run[m].job].class = class

JobOf(m)  == jobs[run[m].job]
Length(m) == NumFiles[JobOf(m).take][JobOf(m).files]
\* The file a job is at.  Both jobs go twice over their list: CopyFiles copies
\* and then deletes, DeleteFiles deletes the recorded and then the exported files.
File(m)    == LET n == Length(m)
              IN <<JobOf(m).take, JobOf(m).files, IF run[m].at > n THEN run[m].at - n ELSE run[m].at>>
Export(m)  == <<File(m), JobOf(m).path>>
Visible(m) == File(m) \in src /\ JobOf(m).files = m      \* os.path.exists(src)
Copying(m) == Running(m, "copy") /\ run[m].at <= Length(m)
Erasing(m) == Running(m, "copy") /\ run[m].at \in Length(m) + 1 .. 2 * Length(m)

GoOn(m) == [run EXCEPT ![m].at = @ + 1, ![m].phase = "copy"]

\* ExportTake posts one CopyFiles for each machine of the take, tied to that
\* machine, and then waits for them.  Without any machine it raises.
LaunchCopy(m) ==
  /\ Running(m, "export") /\ JobOf(m).cameras
  /\ \E s \in Unlaunched(run[m].job) :
       jobs' = Append(jobs, [NewJob("copy", "ready", JobOf(m).take, JobOf(m).path) EXCEPT
                               !.files = s, !.node = s, !.parent = run[m].job])
  /\ UNCHANGED <<take, disk, run, req, bounds, released, strayed, overtaken>>

YieldToChildren(m) ==
  /\ Running(m, "export")
  /\ JobOf(m).cameras => Unlaunched(run[m].job) = {}
  /\ End(m, IF JobOf(m).cameras THEN "waiting" ELSE "failed")
  /\ UNCHANGED <<take, disk, req, bounds, released, strayed, overtaken>>

\* Mutant of SkipFile: a file at the destination is skipped, whatever is here.
SkipExisting(m) ==
  /\ Copying(m) /\ run[m].phase = "copy"
  /\ dest[Export(m)] # "none"
  /\ run' = GoOn(m)
  /\ UNCHANGED <<rows, disk, req, bounds, released, strayed, overtaken>>

\* CopyFiles.  A file is skipped if it is at the destination and not here.
SkipFile(m) ==
  /\ Copying(m) /\ run[m].phase = "copy" /\ ~Visible(m)
  /\ dest[Export(m)] # "none"
  /\ run' = GoOn(m)
  /\ UNCHANGED <<rows, disk, req, bounds, released, strayed, overtaken>>

MissFile(m) ==
  /\ Copying(m) /\ run[m].phase = "copy" /\ ~Visible(m)
  /\ dest[Export(m)] = "none"
  /\ End(m, "failed")
  /\ UNCHANGED <<take, disk, req, bounds, released, strayed, overtaken>>

\* safeCopyFile removes the destination and opens it again ...
BeginFile(m) ==
  /\ Copying(m) /\ run[m].phase = "copy" /\ Visible(m)
  /\ dest' = [dest EXCEPT ![Export(m)] = "part"]
  /\ run' = [run EXCEPT ![m].phase = "write"]
  /\ UNCHANGED <<rows, src, req, bounds, released, strayed, overtaken>>

\* Mutant of EndFile: the source is deleted as soon as its copy has begun.
EndFileMoved(m) ==
  /\ Copying(m) /\ run[m].phase = "write"
  /\ run' = GoOn(m)
  /\ src' = src \ {File(m)}
  /\ UNCHANGED <<rows, dest, req, bounds, released, strayed, overtaken>>

\* ... and when it has written all, the size of the destination is compared.
EndFile(m) ==
  /\ Copying(m) /\ run[m].phase = "write" /\ dest[Export(m)] = "part"
  /\ dest' = [dest EXCEPT ![Export(m)] = "whole"]
  /\ run' = GoOn(m)
  /\ UNCHANGED <<rows, src, req, bounds, released, strayed, overtaken>>

LoseFile(m) ==
  /\ Copying(m) /\ run[m].phase = "write" /\ dest[Export(m)] = "none"
  /\ End(m, "failed")
  /\ UNCHANGED <<take, disk, req, bounds, released, strayed, overtaken>>

EraseSource(m) ==
  /\ Erasing(m)
  /\ src' = IF Visible(m) THEN src \ {File(m)} ELSE src
  /\ run' = GoOn(m)
  /\ UNCHANGED <<rows, dest, req, bounds, released, strayed, overtaken>>

\* DeleteFiles.
Deleting(m) == /\ Running(m, "delete")
               /\ run[m].at <= Length(m) * (IF JobOf(m).path = NoPath THEN 1 ELSE 2)

DeleteFile(m) ==
  /\ Deleting(m)
  /\ IF run[m].at <= Length(m)
     THEN /\ src' = IF Visible(m) THEN src \ {File(m)} ELSE src
          /\ UNCHANGED dest
     ELSE /\ dest' = [dest EXCEPT ![Export(m)] = "none"]
          /\ UNCHANGED src
  /\ run' = GoOn(m)
  /\ UNCHANGED <<rows, req, bounds, released, strayed, overtaken>>

\* os.remove raises: CopyFiles logs it, DeleteFiles passes; neither fails.
FailRemove(m) ==
  /\ Erasing(m) \/ Deleting(m)
  /\ Spend("remove")
  /\ run' = GoOn(m)
  /\ strayed' = strayed \cup {JobOf(m).take}
  /\ UNCHANGED <<rows, disk, req, exports, deletes, restarts, released, overtaken>>

Succeed(m) ==
  /\ \/ Running(m, "copy") /\ run[m].at > 2 * Length(m)
     \/ Running(m, "delete") /\ ~Deleting(m)
  /\ End(m, "success")
  /\ UNCHANGED <<take, disk, req, bounds, released, strayed, overtaken>>

\* GenerateThumbnail reads the exported files.  It runs beside the other jobs
\* of its machine (the light channel).
StartThumbnail(j) ==
  /\ jobs[j].class = "thumb" /\ Startable(j)
  /\ jobs' = [jobs EXCEPT ![j].status = "running"]
  /\ UNCHANGED <<take, disk, run, req, bounds, released, strayed, overtaken>>

-----------------------------------------------------------------------------
(* The requests.                                                           *)

Strays(t, path) == IF take[t].path \notin {NoPath, path} THEN strayed \cup {t} ELSE strayed

Reply(r) == req' = [req EXCEPT ![r] = NoReq]

\* post_export_takes reads the row of the take and saves it with its new path.
SaveExport(r, t, path) ==
  /\ req[r] = NoReq /\ exports < MaxExports
  /\ take[t].there
  /\ take' = [take EXCEPT ![t].path = path]
  /\ strayed' = Strays(t, path)
  /\ req' = [req EXCEPT ![r] = [NoReq EXCEPT !.kind = "export", !.at = "job", !.take = t,
                                             !.row = take'[t]]]
  /\ exports' = exports + 1
  /\ UNCHANGED <<jobs, disk, run, deletes, restarts, faults, released, overtaken>>

\* The job refers to the take: its row cannot be made if the take is gone.
SubmitExport(r) ==
  LET t == req[r].take
  IN /\ req[r].at = "job"
     /\ IF take[t].there
        THEN /\ jobs' = Append(jobs, [NewJob("export", "ready", t, req[r].row.path)
                                        EXCEPT !.cameras = take[t].cameras])
             /\ req' = [req EXCEPT ![r].at = "thumb", ![r].job = Len(jobs')]
        ELSE Reply(r) /\ UNCHANGED jobs
     /\ UNCHANGED <<take, disk, run, bounds, released, strayed, overtaken>>

\* The job of the thumbnails is made, nobody starts it while it is "created", and
\* it gets its dependency on the export; then it is made ready.
SubmitThumbnail(r) ==
  /\ req[r].at = "thumb"
  /\ IF take[req[r].take].there
     THEN /\ jobs' = Append(jobs, [NewJob("thumb", "created", req[r].take, req[r].row.path)
                                     EXCEPT !.needs = req[r].job])
          /\ req' = [req EXCEPT ![r].at = "ready", ![r].thumb = Len(jobs')]
     ELSE Reply(r) /\ UNCHANGED jobs
  /\ UNCHANGED <<take, disk, run, bounds, released, strayed, overtaken>>

ReleaseThumbnail(r) ==
  /\ req[r].at = "ready"
  /\ jobs' = IF take[req[r].take].there THEN [jobs EXCEPT ![req[r].thumb].status = "ready"]
             ELSE jobs
  /\ Reply(r)
  /\ UNCHANGED <<take, disk, run, bounds, released, strayed, overtaken>>

\* post_delete_takes lists the files of the take, here the place of each copy,
GatherFiles(r, t) ==
  /\ req[r] = NoReq /\ deletes < MaxDeletes
  /\ take[t].there
  /\ req' = [req EXCEPT ![r] = [NoReq EXCEPT !.kind = "delete", !.at = "rows", !.take = t,
               !.row = take[t], !.left = IF take[t].cameras THEN Recorders(t) ELSE {}]]
  /\ deletes' = deletes + 1
  /\ UNCHANGED <<rows, disk, run, exports, restarts, faults, released, strayed, overtaken>>

\* deletes its rows if they are there (the jobs of the take lose their reference to it),
\* whatever an export has saved in them since the list was made,
DeleteRows(r) ==
  LET t == req[r].take
  IN /\ req[r].at = "rows"
     /\ take' = [take EXCEPT ![t] = NoRow]
     /\ released' = released \cup {t}
     /\ overtaken' = IF ~take[t].there \/ take[t].path # req[r].row.path
                     THEN overtaken \cup {t} ELSE overtaken
     /\ req' = [req EXCEPT ![r].at = "files"]
     /\ UNCHANGED <<jobs, disk, run, bounds, strayed>>

\* Mutant of SubmitDelete: the exported files are not in the list.
SubmitDeleteLocal(r) ==
  /\ req[r].at = "files"
  /\ IF req[r].left = {} THEN Reply(r) /\ UNCHANGED jobs
     ELSE \E m \in req[r].left :
            /\ jobs' = Append(jobs, [NewJob("delete", "ready", req[r].take, NoPath)
                                       EXCEPT !.files = m, !.node = m])
            /\ req' = [req EXCEPT ![r].left = @ \ {m}]
  /\ UNCHANGED <<take, disk, run, bounds, released, strayed, overtaken>>

\* and makes a DeleteFiles job for each machine.
SubmitDelete(r) ==
  /\ req[r].at = "files"
  /\ IF req[r].left = {} THEN Reply(r) /\ UNCHANGED jobs
     ELSE \E m \in req[r].left :
            /\ jobs' = Append(jobs, [NewJob("delete", "ready", req[r].take, req[r].row.path)
                                       EXCEPT !.files = m, !.node = m])
            /\ req' = [req EXCEPT ![r].left = @ \ {m}]
  /\ UNCHANGED <<take, disk, run, bounds, released, strayed, overtaken>>

\* post_take_video_thumbnail, called by the thumbnail job: the row is read, the
\* uploaded file is written, and the row is saved, also if it was deleted since.
ReadUpload(r, j) ==
  /\ jobs[j].class = "thumb" /\ jobs[j].status = "running"
  /\ req[r] = NoReq /\ \A q \in Handlers : ~(req[q].kind = "upload" /\ req[q].thumb = j)
  /\ IF take[jobs[j].take].there
     THEN /\ req' = [req EXCEPT ![r] = [NoReq EXCEPT !.kind = "upload", !.at = "upload",
                       !.take = jobs[j].take, !.row = take[jobs[j].take], !.thumb = j]]
          /\ UNCHANGED jobs
     ELSE /\ jobs' = [jobs EXCEPT ![j].status = "failed"]
          /\ UNCHANGED req
  /\ UNCHANGED <<take, disk, run, bounds, released, strayed, overtaken>>

SaveUpload(r) ==
  LET t == req[r].take
  IN /\ req[r].at = "upload"
     /\ take' = [take EXCEPT ![t] = [req[r].row EXCEPT !.cameras = take[t].cameras]]
     /\ strayed' = Strays(t, req[r].row.path)
     /\ jobs' = [jobs EXCEPT ![req[r].thumb].status = "success"]
     /\ Reply(r)
     /\ UNCHANGED <<disk, run, bounds, released, overtaken>>

\* The process of the backend dies: its request ends where it is.
Crash(r) ==
  /\ req[r] # NoReq
  /\ Spend("crash")
  /\ Reply(r)
  /\ jobs' = IF req[r].kind = "upload" THEN [jobs EXCEPT ![req[r].thumb].status = "failed"]
             ELSE jobs
  /\ UNCHANGED <<take, disk, run, exports, deletes, restarts, released, strayed, overtaken>>

-----------------------------------------------------------------------------

Work(m) ==
  \/ Start(m) \/ Kill(m) \/ LaunchCopy(m) \/ YieldToChildren(m)
  \/ SkipFile(m) \/ MissFile(m) \/ BeginFile(m) \/ EndFile(m) \/ LoseFile(m)
  \/ EraseSource(m) \/ DeleteFile(m) \/ FailRemove(m) \/ Succeed(m)

Serve(r) ==
  \/ \E t \in Takes, p \in Paths : SaveExport(r, t, p)
  \/ SubmitExport(r) \/ SubmitThumbnail(r) \/ ReleaseThumbnail(r)
  \/ \E t \in Takes : GatherFiles(r, t)
  \/ DeleteRows(r) \/ SubmitDelete(r)
  \/ \E j \in DOMAIN jobs : ReadUpload(r, j)
  \/ SaveUpload(r) \/ Crash(r)

Next ==
  \/ \E m \in Machines : Work(m)
  \/ \E r \in Handlers : Serve(r)
  \/ \E j \in DOMAIN jobs :
       \/ StartThumbnail(j)
       \/ \E same \in BOOLEAN :
            RestartJob(j, same) \/ CloneJob(j, same) \/ RestartFailedChildren(j, same)

Spec == Init /\ [][Next]_vars

-----------------------------------------------------------------------------
(* Properties.                                                             *)

(* Rows, jobs, machines and requests have the values of their kinds, and   *)
(* children and dependencies are jobs made before the job that names them  *)
(* is served (post_export_takes, ExportTake).                              *)
TypeOK ==
  /\ take \in [Takes -> Row]
  /\ src \subseteq Files
  /\ dest \in [Files \X Paths -> Contents]
  /\ jobs \in Seq(Job)
  /\ \A j \in DOMAIN jobs : jobs[j].parent < j /\ jobs[j].needs < j
  /\ run \in [Machines -> Run]
  /\ \A m \in Machines : run[m] # NoRun => JobOf(m).status = "running" /\ JobOf(m).node = m
  /\ req \in [Handlers -> Request]
  /\ exports \in Nat /\ deletes \in Nat /\ restarts \in Nat /\ faults \in Nat
  /\ released \subseteq Takes /\ strayed \subseteq Takes /\ overtaken \subseteq Takes

(* Footage is in custody: whatever is killed, restarted, exported again or *)
(* elsewhere, a file leaves its last whole place only when its take was    *)
(* deleted, and is whole only where it was copied from a whole file        *)
(* (CopyFiles deletes sources after all are copied, archive.py:151-208).   *)
Local == "local"
ASSUME LocalAssumption == Local \notin Paths     \* a place of its own
Custody == INSTANCE FootageCustody WITH
  Files    <- Files,
  Places   <- Paths \cup {Local},
  places   <- [f \in Files |-> (IF f \in src THEN {Local} ELSE {})
                               \cup {p \in Paths : dest[<<f, p>>] = "whole"}],
  released <- {f \in Files : f[1] \in released}
FootageInCustody == Custody!Spec

CopySucceeds(j) == /\ jobs[j].class = "copy" /\ jobs[j].status # "success"
                   /\ jobs'[j].status = "success"
AllWhole(t, ms, path) == \A f \in Files : f[1] = t /\ f[2] \in ms => dest[f, path] = "whole"

(* "Everything copied" (archive.py:198): a CopyFiles job that succeeds     *)
(* leaves every file of its list whole at its destination.                 *)
EverythingCopied ==
  [][\A j \in DOMAIN jobs : CopySucceeds(j) =>
       AllWhole(jobs[j].take, {jobs[j].files}, jobs[j].path)]_vars

(* The same, for takes that keep one export path and whose jobs are        *)
(* restarted on the same machines: then a job that was killed in the       *)
(* middle of a file does not take what it left for a copy.                 *)
CopiedMeansWhole ==
  [][\A j \in DOMAIN jobs :
       (CopySucceeds(j) /\ jobs[j].take \notin strayed \cup released) =>
         AllWhole(jobs[j].take, {jobs[j].files}, jobs[j].path)]_vars

(* When the thumbnail job of a take starts, all files of the take are      *)
(* whole at its export path: it depends on the export, which waits for its *)
(* children (views.py:575-616).  A clone has lost that dependency, but the *)
(* pages only clone a job that failed, succeeded or waits (the frontend's  *)
(* jobs/job_block.html:12), so one whose export had ended.                 *)
ThumbnailFindsFiles ==
  [][\A j \in DOMAIN jobs :
       (StartThumbnail(j) /\ jobs[j].take \notin strayed \cup released) =>
         AllWhole(jobs[j].take, Machines, jobs[j].path)]_vars

Done(j)    == jobs[j].class = "delete" /\ jobs[j].status = "success"
FilesOf(j) == {f \in Files : f[1] = jobs[j].take /\ f[2] = jobs[j].files}

(* "Create list of files to delete, both on server and on the nodes, and   *)
(* on the exported location" (views.py:198): when the DeleteFiles job of a *)
(* machine has succeeded, nothing that its list names is left or comes     *)
(* back, the recorded files and their copies where the take was exported   *)
(* when the list was made; also when jobs are killed and restarted, for    *)
(* takes that keep one export path and whose jobs stay on their machines,  *)
(* and unless os.remove failed.                                            *)
(*                                                                         *)
(* Nothing of the take from that machine is left anywhere unless the       *)
(* deletion was overtaken: the list is made (201-220) before the rows are  *)
(* deleted (223), and when an export saves its path in between (549-551)   *)
(* the list lacks the copies it makes.  They survive, and no row names     *)
(* them any more.                                                          *)
DeletedStaysGone ==
  \A j \in DOMAIN jobs : (Done(j) /\ jobs[j].take \notin strayed) =>
    \A f \in FilesOf(j) :
      /\ f \notin src
      /\ \A p \in Paths : p = jobs[j].path \/ jobs[j].take \notin overtaken => dest[f, p] = "none"
=============================================================================
