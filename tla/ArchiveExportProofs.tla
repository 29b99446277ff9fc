------------------------ MODULE ArchiveExportProofs ------------------------
(***************************************************************************)
(* Footage stays in custody: ArchiveExport implements FootageCustody; what *)
(* was deleted stays gone; and what was copied is whole where the next job *)
(* looks for it: for any takes, machines, export paths, open requests,     *)
(* restarts and faults.                                                    *)
(*                                                                         *)
(* Two facts carry it.  A machine that writes a copy still has the source  *)
(* (Write), since only the machine itself removes files from its disk and  *)
(* it runs one of these jobs at a time.  And the files that a CopyFiles    *)
(* job has passed are whole at its path, or gone from the disk, or of a    *)
(* take that was deleted (Copied), so that the second round through the    *)
(* list may delete them.  The rest of the invariant says that jobs keep    *)
(* their arguments, that a machine's job is not taken from it, and that    *)
(* only deletions make DeleteFiles jobs.                                   *)
(*                                                                         *)
(* That deleted files stay gone rests on the list of the deletion: the job *)
(* that succeeds has passed every file and copy it names (Progress), no    *)
(* job copies a file that is on no machine (NothingReturns), and the list  *)
(* names all copies if there is one place per take (At): whatever names a  *)
(* path of the take, its row, a job, an open request or a file, names the  *)
(* same one, or none at all.  An export that saves its path after the list *)
(* was made gives the take a place that the list lacks (overtaken).        *)
(*                                                                         *)
(* That copies are whole is the converse of custody: a file that left its  *)
(* machine is whole at some path (Held), and a take has only one (At).  A  *)
(* copy that succeeds has emptied its machine (Emptied, Moved), and so has *)
(* an export its take, which waits only with a copy for each machine       *)
(* (Complete).  A thumbnail that has started stays after it (Viewed), also *)
(* as the clone that needs no export.                                      *)
(***************************************************************************)
EXTENDS ArchiveExport, TLAPS

-----------------------------------------------------------------------------
(* The invariant.                                                          *)

\* What a job is for its whole life.
Same(x, y) ==
  /\ x.class = y.class /\ x.take = y.take /\ x.path = y.path /\ x.cameras = y.cameras
  /\ x.files = y.files /\ x.parent = y.parent /\ x.needs = y.needs

\* The arguments of a job.  Only exports have children, and only copies are children;
\* thumbnails need an export, unless they are clones; both are of the take of that export.
Argued(j) ==
  /\ jobs[j].class = "delete" => jobs[j].take \in released
  /\ jobs[j].class # "delete" => jobs[j].path \in Paths
  /\ jobs[j].parent # 0 => /\ jobs[j].class = "copy" /\ jobs[jobs[j].parent].class = "export"
                           /\ jobs[jobs[j].parent].take = jobs[j].take
  /\ (jobs[j].class = "thumb" /\ jobs[j].needs # 0) =>
       /\ jobs[j].needs \in DOMAIN jobs /\ jobs[jobs[j].needs].class = "export"
       /\ jobs[jobs[j].needs].take = jobs[j].take

\* A job that waits for a machine has no children any more.
Childless(j) ==
  jobs[j].status = "ready" =>
    \A c \in DOMAIN jobs : jobs[c].parent = j => jobs[c].status = "deleted"

JobsInv == \A j \in DOMAIN jobs : Argued(j) /\ Childless(j)

\* The job of a machine is a row, and no thumbnail.
RunInv == \A m \in Machines : run[m] # NoRun =>
  run[m].job \in DOMAIN jobs /\ JobOf(m).class # "thumb"

\* What an open request has made so far.
ReqInv == \A r \in Handlers :
  /\ req[r].at = "files" => req[r].take \in released
  /\ req[r].at \in {"job", "thumb", "ready"} => req[r].row.path \in Paths
  /\ req[r].at = "thumb" => /\ req[r].job \in DOMAIN jobs /\ jobs[req[r].job].class = "export"
                            /\ jobs[req[r].job].take = req[r].take
  /\ req[r].at \in {"ready", "upload"} =>
       req[r].thumb \in DOMAIN jobs /\ jobs[req[r].thumb].class = "thumb"
  /\ req[r].kind = "upload" <=> req[r].at = "upload"

Write(m) == run[m].phase = "write" =>
  /\ JobOf(m).class = "copy" /\ JobOf(m).files = m
  /\ run[m].at <= Length(m) /\ File(m) \in src

Copied(m) == (Running(m, "copy") /\ JobOf(m).files = m) =>
  \A k \in 1 .. Length(m) :
    LET f == <<JobOf(m).take, m, k>>
    IN  (k < run[m].at /\ f \in src) =>
          dest[<<f, JobOf(m).path>>] = "whole" \/ JobOf(m).take \in released

FilesInv == \A m \in Machines : Write(m) /\ Copied(m)

IInv == TypeOK /\ JobsInv /\ RunInv /\ ReqInv /\ FilesInv

-----------------------------------------------------------------------------
(* Rows of jobs.                                                           *)

(* A row that gets a status, or a status and a machine.                    *)
LEMMA Restated ==
  ASSUME NEW x \in Job, NEW s \in Statuses
  PROVE  /\ [x EXCEPT !.status = s] \in Job
         /\ Same(x, [x EXCEPT !.status = s])
         /\ [x EXCEPT !.status = s].status = s /\ [x EXCEPT !.status = s].node = x.node
BY DEF Job, Same

(* A row that gets a status and a machine.                                 *)
LEMMA Reassigned ==
  ASSUME NEW x \in Job, NEW s \in Statuses, NEW m \in Machines \cup {NoMachine}
  PROVE  /\ [x EXCEPT !.status = s, !.node = m] \in Job
         /\ Same(x, [x EXCEPT !.status = s, !.node = m])
         /\ [x EXCEPT !.status = s, !.node = m].status = s
         /\ [x EXCEPT !.status = s, !.node = m].node = m
BY DEF Job, Same

(* A sequence of rows that gets one more.                                  *)
LEMMA Appended ==
  ASSUME NEW js \in Seq(Job), NEW x \in Job
  PROVE  /\ Append(js, x) \in Seq(Job)
         /\ DOMAIN js = 1 .. Len(js)
         /\ DOMAIN Append(js, x) = 1 .. Len(js) + 1
         /\ Len(Append(js, x)) = Len(js) + 1
         /\ \A i \in DOMAIN js : Append(js, x)[i] = js[i]
         /\ Append(js, x)[Len(js) + 1] = x
OBVIOUS

(* A row is replaced.                                                      *)
LEMMA Replaced ==
  ASSUME NEW js \in Seq(Job), NEW j \in DOMAIN js, NEW x \in Job
  PROVE  /\ [js EXCEPT ![j] = x] \in Seq(Job)
         /\ DOMAIN [js EXCEPT ![j] = x] = DOMAIN js
         /\ [js EXCEPT ![j] = x][j] = x
         /\ \A i \in DOMAIN js \ {j} : [js EXCEPT ![j] = x][i] = js[i]
OBVIOUS

(* What a handler or a machine may do to the rows of jobs other than E: they *)
(* keep their arguments; a job that runs on a machine goes on there; a       *)
(* deleted child stays deleted.                                              *)
Kept(js, ks, E) ==
  /\ ks \in Seq(Job) /\ DOMAIN js \subseteq DOMAIN ks
  /\ \A i \in DOMAIN js :
       /\ Same(js[i], ks[i])
       /\ (js[i].status = "running" /\ js[i].class # "thumb" /\ i \notin E) =>
            ks[i].status = "running" /\ ks[i].node = js[i].node
       /\ (js[i].class = "copy" /\ js[i].status = "deleted") => ks[i].status = "deleted"

(* DeleteChildren deletes the children, and nothing else.                  *)
LEMMA ChildrenDeleted ==
  ASSUME NEW js \in Seq(Job), NEW j \in DOMAIN js
  PROVE  LET ks == DeleteChildren(js, j)
         IN  /\ ks \in Seq(Job) /\ DOMAIN ks = DOMAIN js
             /\ \A i \in DOMAIN js :
                  /\ Same(js[i], ks[i]) /\ ks[i].node = js[i].node
                  /\ ks[i] = js[i] \/ ks[i].status = "deleted"
                  /\ js[i].parent = j => ks[i].status = "deleted"
                  /\ js[i].parent # j => ks[i] = js[i]
<1> DEFINE ks == DeleteChildren(js, j)
<1>1. ks = [c \in DOMAIN js |-> IF c \in Children(js, j)
                                THEN [js[c] EXCEPT !.status = "deleted"] ELSE js[c]]
  BY DEF DeleteChildren
<1>2. ASSUME NEW i \in DOMAIN js
      PROVE  /\ ks[i] \in Job /\ Same(js[i], ks[i]) /\ ks[i].node = js[i].node
             /\ ks[i] = js[i] \/ ks[i].status = "deleted"
             /\ js[i].parent = j => ks[i].status = "deleted"
             /\ js[i].parent # j => ks[i] = js[i]
  <2>1. js[i] \in Job OBVIOUS
  <2>2. CASE i \in Children(js, j)
    <3>1. ks[i] = [js[i] EXCEPT !.status = "deleted"] BY <1>1, <2>2
    <3>2. "deleted" \in Statuses BY DEF Statuses
    <3>3. js[i].parent = j BY <2>2 DEF Children
    <3> QED BY <2>1, <3>1, <3>2, <3>3, Restated
  <2>3. CASE i \notin Children(js, j)
    <3>1. ks[i] = js[i] BY <1>1, <2>3
    <3>2. js[i].parent = j => js[i].status = "deleted" BY <2>3 DEF Children
    <3> QED BY <2>1, <3>1, <3>2 DEF Same
  <2> QED BY <2>2, <2>3
<1>3. ks \in Seq(Job) /\ DOMAIN ks = DOMAIN js
  <2>1. DOMAIN js = 1 .. Len(js) /\ Len(js) \in Nat OBVIOUS
  <2>2. ks \in [1 .. Len(js) -> Job] BY <1>1, <1>2, <2>1
  <2> QED BY <1>1, <2>1, <2>2
<1> QED BY <1>2, <1>3

(* Again makes the rows of S ready.                                        *)
LEMMA StartedAgain ==
  ASSUME NEW js \in Seq(Job), NEW S, NEW same \in BOOLEAN
  PROVE  LET ks == Again(js, S, same)
         IN  /\ ks \in Seq(Job) /\ DOMAIN ks = DOMAIN js
             /\ \A i \in DOMAIN js :
                  /\ Same(js[i], ks[i])
                  /\ i \in S => ks[i].status = "ready"
                  /\ i \notin S => ks[i] = js[i]
<1> DEFINE ks == Again(js, S, same)
<1>1. ks = [j \in DOMAIN js |->
              IF j \in S THEN [js[j] EXCEPT !.status = "ready", !.node = IF same THEN @ ELSE NoMachine]
              ELSE js[j]]
  BY DEF Again
<1>2. ASSUME NEW i \in DOMAIN js
      PROVE  /\ ks[i] \in Job /\ Same(js[i], ks[i])
             /\ i \in S => ks[i].status = "ready"
             /\ i \notin S => ks[i] = js[i]
  <2>0. js[i] \in Job OBVIOUS
  <2>1. js[i] \in Job /\ js[i].node \in Machines \cup {NoMachine} BY <2>0 DEF Job
  <2>2. CASE i \in S
    <3> DEFINE n == IF same THEN js[i].node ELSE NoMachine
    <3>1. ks[i] = [js[i] EXCEPT !.status = "ready", !.node = n] BY <1>1, <2>2
    <3>2. "ready" \in Statuses BY DEF Statuses
    <3>3. n \in Machines \cup {NoMachine} BY <2>1
    <3> HIDE DEF n
    <3> DEFINE y == [js[i] EXCEPT !.status = "ready", !.node = n]
    <3>4. y \in Job /\ Same(js[i], y) /\ y.status = "ready" BY <2>1, <3>2, <3>3 DEF Job, Same
    <3>5. ks[i] = y BY <3>1
    <3> HIDE DEF y
    <3> QED BY <2>2, <3>4, <3>5
  <2>3. CASE i \notin S
    BY <1>1, <2>1, <2>3 DEF Same
  <2> QED BY <2>2, <2>3
<1>3. ks \in Seq(Job) /\ DOMAIN ks = DOMAIN js
  <2>1. DOMAIN js = 1 .. Len(js) /\ Len(js) \in Nat OBVIOUS
  <2>2. DOMAIN ks = DOMAIN js /\ ks = [i \in DOMAIN ks |-> ks[i]] BY <1>1
  <2> HIDE DEF ks
  <2>3. ks \in [1 .. Len(js) -> Job] BY <1>2, <2>1, <2>2
  <2> QED BY <2>1, <2>2, <2>3
<1> QED BY <1>2, <1>3

\* Row j gets status s, its parent any; no row changes its machine.
Closed(js, ks, j, s) ==
  /\ ks[j].status = s
  /\ \A i \in DOMAIN js : /\ ks[i].node = js[i].node
                          /\ i = j \/ ks[i] = js[i] \/ (i = js[j].parent /\ i # 0)

(* A job ends, and its parent, if it waits, may end with it.               *)
LEMMA Settled ==
  ASSUME NEW js \in Seq(Job), NEW j \in DOMAIN js, js[j].parent < j,
         js[j].status = "running", NEW s \in Statuses \ {"ready", "deleted"}
  PROVE  LET ks == Settle(js, j, s)
         IN  /\ Kept(js, ks, {j}) /\ DOMAIN ks = DOMAIN js
             /\ \A i \in DOMAIN js : ks[i].status = "ready" => js[i].status = "ready"
             /\ Closed(js, ks, j, s)
<1> DEFINE p  == js[j].parent
           js2 == [js EXCEPT ![j].status = s]
           verdict == IF "failed" \in {js2[c].status : c \in Children(js2, p)}
                      THEN "failed" ELSE "success"
           ks == Settle(js, j, s)
<1>0. js[j] \in Job OBVIOUS
<1>1. js[j] \in Job /\ s \in Statuses /\ p \in Nat BY <1>0 DEF Job
<1>2. /\ js2 \in Seq(Job) /\ DOMAIN js2 = DOMAIN js
      /\ js2[j].status = s /\ js2[j].node = js[j].node /\ Same(js[j], js2[j])
      /\ \A i \in DOMAIN js \ {j} : js2[i] = js[i]
  <2>1. js2 = [js EXCEPT ![j] = [js[j] EXCEPT !.status = s]] OBVIOUS
  <2>2. [js[j] EXCEPT !.status = s] \in Job /\ Same(js[j], [js[j] EXCEPT !.status = s])
        /\ [js[j] EXCEPT !.status = s].status = s /\ [js[j] EXCEPT !.status = s].node = js[j].node
    BY <1>1, Restated
  <2> HIDE DEF js2
  <2> QED BY <2>1, <2>2, Replaced
<1>3. Kept(js, js2, {j})
  <2>1. \A i \in DOMAIN js : js[i] \in Job OBVIOUS
  <2> QED
    BY <1>2, <2>1 DEF Kept, Same
<1> HIDE DEF js2
<1>4. CASE p # 0 /\ js2[p].status = "waiting"
           /\ {js2[c].status : c \in Children(js2, p)} \subseteq {"success", "failed"}
  <2>1. ks = [js2 EXCEPT ![p].status = verdict] BY <1>4 DEF Settle, js2
  <2>2. verdict \in {"success", "failed"} OBVIOUS
  <2>9. verdict \in Statuses BY <2>2 DEF Statuses
  <2> HIDE DEF verdict
  <2>3. p \in DOMAIN js /\ p # j /\ js2[p] = js[p] /\ js2[p] \in Job
    <3>1. p \in 1 .. j - 1 /\ j \in 1 .. Len(js) BY <1>1, <1>4
    <3> QED BY <1>2, <3>1
  <2> DEFINE y == [js2[p] EXCEPT !.status = verdict]
  <2>4. y \in Job /\ Same(js2[p], y) /\ y.status = verdict /\ y.node = js2[p].node
    BY <2>3, <2>9, Restated
  <2>5. ks = [js2 EXCEPT ![p] = y] BY <2>1
  <2> HIDE DEF y
  <2>6. /\ ks \in Seq(Job) /\ DOMAIN ks = DOMAIN js /\ ks[p] = y
        /\ \A i \in DOMAIN js \ {p} : ks[i] = js2[i]
    BY <1>2, <2>3, <2>4, <2>5, Replaced
  <2>7. js[p].status = "waiting" BY <1>4, <2>3
  <2>8. Kept(js, ks, {j}) BY <1>2, <1>3, <2>2, <2>3, <2>4, <2>6, <2>7 DEF Kept, Same
  <2>10. Closed(js, ks, j, s) BY <1>2, <1>4, <2>3, <2>4, <2>6 DEF Closed
  <2> QED BY <1>2, <1>4, <2>2, <2>3, <2>4, <2>6, <2>8, <2>10
<1>5. CASE ~(p # 0 /\ js2[p].status = "waiting"
             /\ {js2[c].status : c \in Children(js2, p)} \subseteq {"success", "failed"})
  <2>1. ks = js2 BY <1>5 DEF Settle, js2
  <2>2. Closed(js, js2, j, s) BY <1>2 DEF Closed
  <2> QED BY <1>2, <1>3, <2>1, <2>2
<1> QED BY <1>4, <1>5

-----------------------------------------------------------------------------
(* What every step does to jobs and machines.                              *)

\* Rows that are new have their arguments; their parents do not wait for a machine.
NewRows == \A i \in DOMAIN jobs' \ DOMAIN jobs :
  /\ jobs'[i].parent < i /\ jobs'[i].needs < i
  /\ jobs'[i].class = "delete" => jobs'[i].take \in released
  /\ jobs'[i].class # "delete" => jobs'[i].path \in Paths
  /\ jobs'[i].parent # 0 =>
       /\ jobs'[i].class = "copy" /\ jobs'[i].parent \in DOMAIN jobs
       /\ jobs[jobs'[i].parent].class = "export" /\ jobs'[jobs'[i].parent].status # "ready"
       /\ jobs[jobs'[i].parent].take = jobs'[i].take
  /\ (jobs'[i].class = "thumb" /\ jobs'[i].needs # 0) =>
       /\ jobs'[i].needs \in DOMAIN jobs /\ jobs[jobs'[i].needs].class = "export"
       /\ jobs[jobs'[i].needs].take = jobs'[i].take

\* An export that is made ready loses its children.
NewlyReady == \A i \in DOMAIN jobs :
  (jobs'[i].status = "ready" /\ jobs[i].status # "ready" /\ jobs[i].class = "export") =>
    \A c \in DOMAIN jobs : jobs[c].parent = i => jobs'[c].status = "deleted"

\* A machine stays at its job, or gets rid of it, or starts one.
Turn(m, E) ==
  \/ run'[m] = NoRun
  \/ run[m] # NoRun /\ run'[m].job = run[m].job /\ run[m].job \notin E
  \/ /\ run'[m].job \in DOMAIN jobs' /\ run'[m].at = 1 /\ run'[m].phase = "copy"
     /\ jobs'[run'[m].job].status = "running" /\ jobs'[run'[m].job].node = m
     /\ jobs'[run'[m].job].class # "thumb"

Move(E) ==
  /\ Kept(jobs, jobs', E) /\ NewRows /\ NewlyReady
  /\ released \subseteq released'
  /\ run' \in [Machines -> Run]
  /\ \A m \in Machines : Turn(m, E)

(* The rows that are there have their types.                               *)
LEMMA JobFacts ==
  ASSUME TypeOK, JobsInv, NEW j \in DOMAIN jobs
  PROVE  /\ jobs \in Seq(Job) /\ jobs[j] \in Job /\ j \in Nat \ {0}
         /\ jobs[j].parent \in Nat /\ jobs[j].parent < j /\ jobs[j].needs < j
         /\ jobs[j].parent # 0 => jobs[j].parent \in DOMAIN jobs
         /\ Argued(j) /\ Childless(j)
<1>1. jobs \in Seq(Job) BY DEF TypeOK
<1>2. jobs[j] \in Job /\ j \in Nat \ {0} BY <1>1
<1>3. jobs[j].parent \in Nat /\ jobs[j].parent < j /\ jobs[j].needs < j
  BY <1>2 DEF TypeOK, Job
<1>4. jobs[j].parent # 0 => jobs[j].parent \in DOMAIN jobs
  BY <1>1, <1>2, <1>3
<1> QED BY <1>1, <1>2, <1>3, <1>4 DEF JobsInv

(* The job of a machine that runs one.                                     *)
LEMMA RunFacts ==
  ASSUME TypeOK, JobsInv, RunInv, NEW m \in Machines, run[m] # NoRun
  PROVE  /\ run \in [Machines -> Run] /\ run[m] \in Run /\ run[m].job \in DOMAIN jobs
         /\ JobOf(m) \in Job /\ JobOf(m) = jobs[run[m].job]
         /\ JobOf(m).status = "running" /\ JobOf(m).node = m /\ JobOf(m).class # "thumb"
         /\ Argued(run[m].job) /\ JobOf(m).parent < run[m].job
<1>1. run[m].job \in DOMAIN jobs /\ JobOf(m).class # "thumb" BY DEF RunInv
<1>2. run \in [Machines -> Run] /\ JobOf(m).status = "running" /\ JobOf(m).node = m
  BY DEF TypeOK
<1> QED BY <1>1, <1>2, JobFacts DEF JobOf

(* No step.                                                                *)
LEMMA SameJobs ==
  ASSUME TypeOK, jobs' = jobs
  PROVE  /\ Kept(jobs, jobs', {}) /\ NewRows /\ NewlyReady
<1>1. jobs \in Seq(Job) BY DEF TypeOK
<1> QED BY <1>1 DEF Kept, NewRows, NewlyReady, Same

(* Machines that stay at their jobs.                                       *)
LEMMA SameRuns ==
  ASSUME TypeOK, run' = run
  PROVE  run' \in [Machines -> Run] /\ \A m \in Machines : Turn(m, {})
BY DEF TypeOK, Turn

(* A machine goes on in its list.                                          *)
LEMMA GoneOn ==
  ASSUME TypeOK, NEW m \in Machines, run[m] # NoRun,
         NEW k \in Nat, NEW phase \in {"idle", "copy", "write", "erase"},
         run' = [run EXCEPT ![m] = [job |-> run[m].job, at |-> k, phase |-> phase]]
  PROVE  run' \in [Machines -> Run] /\ \A n \in Machines : Turn(n, {})
<1>1. run \in [Machines -> Run] /\ run[m] \in Run BY DEF TypeOK
<1>2. [job |-> run[m].job, at |-> k, phase |-> phase] \in Run BY <1>1 DEF Run
<1> QED BY <1>1, <1>2 DEF Turn

(* A machine's job ends.                                                   *)
LEMMA Ended ==
  ASSUME TypeOK, JobsInv, RunInv, NEW m \in Machines, run[m] # NoRun,
         NEW s \in {"failed", "success", "waiting"}, End(m, s), released' = released
  PROVE  Move({run[m].job})
<1> DEFINE j == run[m].job
<1>1. j \in DOMAIN jobs /\ jobs[j].status = "running" /\ jobs[j].parent < j /\ jobs \in Seq(Job)
      /\ jobs[j].node = m
  BY RunFacts, JobFacts
<1>2. jobs' = Settle(jobs, j, s) /\ run' = [run EXCEPT ![m] = NoRun] BY DEF End
<1>3. s \in Statuses \ {"ready", "deleted"} BY DEF Statuses
<1>4. /\ Kept(jobs, jobs', {j}) /\ DOMAIN jobs' = DOMAIN jobs
      /\ \A i \in DOMAIN jobs : jobs'[i].status = "ready" => jobs[i].status = "ready"
  <2> HIDE DEF j
  <2> QED BY <1>1, <1>2, <1>3, Settled
<1>5. NewRows /\ NewlyReady BY <1>4 DEF NewRows, NewlyReady
<1>7. run' \in [Machines -> Run]
  BY <1>2 DEF TypeOK, NoRun, Run
<1>8. ASSUME NEW n \in Machines PROVE Turn(n, {j})
  <2>1. CASE n = m BY <1>2, <2>1 DEF Turn, TypeOK
  <2>2. CASE n # m /\ run[n] = NoRun BY <1>2, <2>2 DEF Turn, TypeOK
  <2>3. CASE n # m /\ run[n] # NoRun
    <3>1. jobs[run[n].job].node = n BY <2>3, RunFacts
    <3>2. run'[n] = run[n] BY <1>2, <2>3 DEF TypeOK
    <3> QED BY <1>1, <2>3, <3>1, <3>2 DEF Turn
  <2> QED BY <2>1, <2>2, <2>3
<1> QED BY <1>4, <1>5, <1>7, <1>8 DEF Move

(* A job is made.                                                          *)
LEMMA Made ==
  ASSUME TypeOK, JobsInv, NEW x \in Job, jobs' = Append(jobs, x),
         x.parent < Len(jobs) + 1, x.needs < Len(jobs) + 1,
         x.class = "delete" => x.take \in released,
         x.class # "delete" => x.path \in Paths,
         x.parent # 0 => /\ x.class = "copy" /\ x.parent \in DOMAIN jobs
                         /\ jobs[x.parent].class = "export" /\ jobs[x.parent].status = "running"
                         /\ jobs[x.parent].take = x.take,
         (x.class = "thumb" /\ x.needs # 0) =>
           /\ x.needs \in DOMAIN jobs /\ jobs[x.needs].class = "export"
           /\ jobs[x.needs].take = x.take
  PROVE  Kept(jobs, jobs', {}) /\ NewRows /\ NewlyReady
<1>1. jobs \in Seq(Job) BY DEF TypeOK
<1>2. /\ jobs' \in Seq(Job) /\ DOMAIN jobs = 1 .. Len(jobs) /\ DOMAIN jobs' = 1 .. Len(jobs) + 1
      /\ \A i \in DOMAIN jobs : jobs'[i] = jobs[i] /\ jobs[i] \in Job
      /\ jobs'[Len(jobs) + 1] = x /\ Len(jobs) \in Nat
  BY <1>1, Appended
<1>3. DOMAIN jobs' \ DOMAIN jobs = {Len(jobs) + 1} BY <1>2
<1>4. Kept(jobs, jobs', {}) BY <1>2 DEF Kept, Same
<1>5. NewRows
  <2> SUFFICES ASSUME NEW i \in DOMAIN jobs' \ DOMAIN jobs
               PROVE  /\ jobs'[i].parent < i /\ jobs'[i].needs < i
                      /\ jobs'[i].class = "delete" => jobs'[i].take \in released
                      /\ jobs'[i].class # "delete" => jobs'[i].path \in Paths
                      /\ jobs'[i].parent # 0 =>
                           /\ jobs'[i].class = "copy" /\ jobs'[i].parent \in DOMAIN jobs
                           /\ jobs[jobs'[i].parent].class = "export"
                           /\ jobs'[jobs'[i].parent].status # "ready"
                           /\ jobs[jobs'[i].parent].take = jobs'[i].take
                      /\ (jobs'[i].class = "thumb" /\ jobs'[i].needs # 0) =>
                           /\ jobs'[i].needs \in DOMAIN jobs
                           /\ jobs[jobs'[i].needs].class = "export"
                           /\ jobs[jobs'[i].needs].take = jobs'[i].take
    BY DEF NewRows
  <2>1. i = Len(jobs) + 1 /\ jobs'[i] = x BY <1>2, <1>3
  <2>2. x.parent # 0 => jobs'[x.parent] = jobs[x.parent] BY <1>2
  <2> QED BY <1>2, <2>1, <2>2
<1>6. NewlyReady BY <1>2 DEF NewlyReady
<1> QED BY <1>4, <1>5, <1>6

(* The status of a thumbnail changes.                                      *)
LEMMA ThumbnailMoved ==
  ASSUME TypeOK, NEW j \in DOMAIN jobs, jobs[j].class = "thumb", NEW s \in Statuses,
         jobs' = [jobs EXCEPT ![j].status = s]
  PROVE  Kept(jobs, jobs', {}) /\ NewRows /\ NewlyReady /\ DOMAIN jobs' = DOMAIN jobs
<1>1. jobs \in Seq(Job) /\ jobs[j] \in Job BY DEF TypeOK
<1> DEFINE y == [jobs[j] EXCEPT !.status = s]
<1>2. y \in Job /\ Same(jobs[j], y) BY <1>1, Restated
<1>3. jobs' = [jobs EXCEPT ![j] = y] OBVIOUS
<1> HIDE DEF y
<1>4. /\ jobs' \in Seq(Job) /\ DOMAIN jobs' = DOMAIN jobs /\ jobs'[j] = y
      /\ \A i \in DOMAIN jobs \ {j} : jobs'[i] = jobs[i]
  BY <1>1, <1>2, <1>3, Replaced
<1>5. \A i \in DOMAIN jobs : jobs[i] \in Job BY <1>1
<1> QED BY <1>2, <1>4, <1>5 DEF Kept, NewRows, NewlyReady, Same

(* A machine gets a job.                                                   *)
LEMMA StartMoves ==
  ASSUME TypeOK, JobsInv, RunInv, NEW m \in Machines, Start(m)
  PROVE  Move({})
<1>1. PICK j \in DOMAIN jobs :
        /\ jobs[j].class # "thumb" /\ jobs[j].status = "ready"
        /\ jobs' = [DeleteChildren(jobs, j) EXCEPT ![j].status = "running", ![j].node = m]
        /\ run' = [run EXCEPT ![m] = [job |-> j, at |-> 1, phase |-> "copy"]]
  BY DEF Start, Startable
<1>2. run[m] = NoRun /\ released' = released BY DEF Start
<1>3. jobs \in Seq(Job) /\ jobs[j] \in Job /\ j \in Nat /\ Childless(j) /\ jobs[j].parent < j
  BY JobFacts
<1> DEFINE ks == DeleteChildren(jobs, j)
<1>4. /\ ks \in Seq(Job) /\ DOMAIN ks = DOMAIN jobs
      /\ \A i \in DOMAIN jobs :
           /\ Same(jobs[i], ks[i])
           /\ ks[i] = jobs[i] \/ ks[i].status = "deleted"
           /\ jobs[i].parent # j => ks[i] = jobs[i]
  BY <1>3, ChildrenDeleted
<1> HIDE DEF ks
<1>5. ks[j] = jobs[j] /\ ks[j] \in Job
  <2>1. jobs[j].parent # j BY <1>3 DEF Job
  <2> QED BY <1>3, <1>4, <2>1
<1> DEFINE y == [ks[j] EXCEPT !.status = "running", !.node = m]
<1>6. jobs' = [ks EXCEPT ![j] = y]
  <2>1. jobs' = [ks EXCEPT ![j].status = "running", ![j].node = m] BY <1>1 DEF ks
  <2> QED BY <2>1, <1>4
<1>7. y \in Job /\ Same(jobs[j], y) /\ y.status = "running" /\ y.node = m
  BY <1>5 DEF Job, Same, Statuses
<1> HIDE DEF y
<1>8. /\ jobs' \in Seq(Job) /\ DOMAIN jobs' = DOMAIN jobs /\ jobs'[j] = y
      /\ \A i \in DOMAIN jobs \ {j} : jobs'[i] = ks[i]
  BY <1>4, <1>6, <1>7, Replaced
<1>9. \A i \in DOMAIN jobs : jobs[i].parent = j => jobs[i].status = "deleted"
  BY <1>1, <1>3 DEF Childless
<1>10. Kept(jobs, jobs', {})
  BY <1>1, <1>4, <1>7, <1>8, <1>9 DEF Kept
<1>11. NewRows /\ NewlyReady
  BY <1>4, <1>7, <1>8 DEF NewRows, NewlyReady
<1>12. run' \in [Machines -> Run]
  BY <1>1, <1>3 DEF TypeOK, Run
<1>13. ASSUME NEW n \in Machines PROVE Turn(n, {})
  <2>1. CASE n = m
    <3>1. run'[n].job = j /\ run'[n].at = 1 /\ run'[n].phase = "copy" BY <1>1, <2>1 DEF TypeOK
    <3>2. y.class # "thumb" BY <1>1, <1>7 DEF Same
    <3> QED BY <1>7, <1>8, <2>1, <3>1, <3>2 DEF Turn
  <2>2. CASE n # m
    <3>1. run'[n] = run[n] BY <1>1, <2>2 DEF TypeOK
    <3> QED BY <3>1 DEF Turn
  <2> QED BY <2>1, <2>2
<1> QED BY <1>2, <1>10, <1>11, <1>12, <1>13 DEF Move

(* A user starts a job again.                                              *)
LEMMA RestartMoves ==
  ASSUME TypeOK, JobsInv, NEW j \in DOMAIN jobs, NEW same \in BOOLEAN, RestartJob(j, same)
  PROVE  Move({})
<1> DEFINE ks == DeleteChildren(jobs, j)
<1>1. /\ jobs[j].status \in {"failed", "success", "waiting"}
      /\ \A c \in Children(jobs, j) : jobs[c].status \notin {"running", "waiting"}
      /\ jobs' = Again(ks, {j}, same) /\ run' = run /\ released' = released
  BY DEF RestartJob
<1>2. jobs \in Seq(Job) /\ jobs[j] \in Job /\ j \in Nat /\ jobs[j].parent < j
  BY JobFacts
<1>3. /\ ks \in Seq(Job) /\ DOMAIN ks = DOMAIN jobs
      /\ \A i \in DOMAIN jobs :
           /\ Same(jobs[i], ks[i])
           /\ ks[i] = jobs[i] \/ ks[i].status = "deleted"
           /\ jobs[i].parent = j => ks[i].status = "deleted"
           /\ jobs[i].parent # j => ks[i] = jobs[i]
  BY <1>2, ChildrenDeleted
<1> HIDE DEF ks
<1>4. /\ jobs' \in Seq(Job) /\ DOMAIN jobs' = DOMAIN jobs
      /\ \A i \in DOMAIN jobs :
           /\ Same(ks[i], jobs'[i])
           /\ i # j => jobs'[i] = ks[i]
  <2>1. \A i \in DOMAIN ks : Same(ks[i], jobs'[i]) /\ (i \notin {j} => jobs'[i] = ks[i])
    BY <1>1, <1>3, StartedAgain
  <2>2. jobs' \in Seq(Job) /\ DOMAIN jobs' = DOMAIN ks BY <1>1, <1>3, StartedAgain
  <2> QED BY <1>3, <2>1, <2>2
<1>5. \A i \in DOMAIN jobs : jobs[i].parent = j => i # j BY <1>2
<1>6. \A i \in DOMAIN jobs : jobs[i].status = "running" => jobs[i].parent # j /\ i # j
  BY <1>1 DEF Children
<1>7. Kept(jobs, jobs', {})
  <2>1. \A i \in DOMAIN jobs : Same(jobs[i], jobs'[i]) BY <1>3, <1>4 DEF Same
  <2>2. \A i \in DOMAIN jobs : jobs[i].status = "running" => jobs'[i] = jobs[i]
    BY <1>3, <1>4, <1>6
  <2>3. \A i \in DOMAIN jobs : jobs[i].status = "deleted" => jobs'[i].status = "deleted"
    BY <1>1, <1>3, <1>4
  <2> QED BY <1>4, <2>1, <2>2, <2>3 DEF Kept
<1>8. NewRows /\ NewlyReady
  BY <1>3, <1>4, <1>5 DEF NewRows, NewlyReady
<1> QED BY <1>1, <1>7, <1>8, SameRuns DEF Move

(* A user starts the failed children of a job again.                       *)
LEMMA RestartFailedMoves ==
  ASSUME TypeOK, JobsInv, NEW j \in DOMAIN jobs, NEW same \in BOOLEAN,
         RestartFailedChildren(j, same)
  PROVE  Move({})
<1> DEFINE failed == {c \in Children(jobs, j) : jobs[c].status = "failed"}
           ks == Again(jobs, failed, same)
<1>1. /\ jobs[j].status \in {"failed", "success", "waiting"}
      /\ jobs' = [ks EXCEPT ![j].status = "waiting"] /\ run' = run /\ released' = released
  BY DEF RestartFailedChildren
<1>2. jobs \in Seq(Job) /\ jobs[j] \in Job /\ j \in Nat \ {0} /\ jobs[j].parent < j
  BY JobFacts
<1>3. \A i \in failed : i \in DOMAIN jobs /\ jobs[i].parent = j /\ jobs[i].status = "failed"
  BY DEF Children
<1>4. \A i \in failed : jobs[i].class = "copy" BY <1>2, <1>3 DEF JobsInv, Argued
<1> HIDE DEF failed
<1>5. /\ ks \in Seq(Job) /\ DOMAIN ks = DOMAIN jobs
      /\ \A i \in DOMAIN jobs : Same(jobs[i], ks[i]) /\ (i \notin failed => ks[i] = jobs[i])
  BY <1>2, StartedAgain
<1> HIDE DEF ks
<1> DEFINE y == [ks[j] EXCEPT !.status = "waiting"]
<1>6. ks[j] = jobs[j] /\ y \in Job /\ Same(ks[j], y) /\ y.status = "waiting"
  <2>1. j \notin failed BY <1>2, <1>3 DEF Job
  <2>2. ks[j] \in Job /\ "waiting" \in Statuses BY <1>5 DEF Statuses
  <2> QED BY <1>5, <2>1, <2>2, Restated
<1>7. jobs' = [ks EXCEPT ![j] = y] BY <1>1
<1> HIDE DEF y
<1>8. /\ jobs' \in Seq(Job) /\ DOMAIN jobs' = DOMAIN jobs /\ jobs'[j] = y
      /\ \A i \in DOMAIN jobs \ {j} : jobs'[i] = ks[i]
  BY <1>5, <1>6, <1>7, Replaced
<1>9. \A i \in DOMAIN jobs : Same(jobs[i], jobs'[i]) BY <1>5, <1>6, <1>8 DEF Same
<1>10. \A i \in DOMAIN jobs :
         jobs[i].status \in {"running", "deleted"} => jobs'[i] = jobs[i]
  BY <1>1, <1>3, <1>5, <1>8
<1>11. Kept(jobs, jobs', {}) BY <1>8, <1>9, <1>10 DEF Kept
<1>12. NewRows /\ NewlyReady
  BY <1>4, <1>5, <1>6, <1>8 DEF NewRows, NewlyReady
<1> QED BY <1>1, <1>11, <1>12, SameRuns DEF Move

(* The rows of runs that GoOn and BeginFile make.                          *)
LEMMA RunRow ==
  ASSUME NEW x \in Run, NEW k \in Nat
  PROVE  /\ LET y == [x EXCEPT !.at = k, !.phase = "copy"]
            IN  y \in Run /\ y.job = x.job /\ y.at = k /\ y.phase = "copy"
         /\ LET y == [x EXCEPT !.phase = "write"]
            IN  y \in Run /\ y.job = x.job /\ y.at = x.at /\ y.phase = "write"
BY DEF Run

(* GoOn, and the start of a file, change the row of m alone.               *)
LEMMA Advanced ==
  ASSUME TypeOK, NEW m \in Machines
  PROVE  /\ run' = GoOn(m) =>
              /\ run' \in [Machines -> Run]
              /\ run'[m].job = run[m].job /\ run'[m].at = run[m].at + 1 /\ run'[m].phase = "copy"
              /\ \A n \in Machines \ {m} : run'[n] = run[n]
         /\ run' = [run EXCEPT ![m].phase = "write"] =>
              /\ run' \in [Machines -> Run]
              /\ run'[m].job = run[m].job /\ run'[m].at = run[m].at /\ run'[m].phase = "write"
              /\ \A n \in Machines \ {m} : run'[n] = run[n]
<1>1. run \in [Machines -> Run] /\ run[m] \in Run BY DEF TypeOK
<1>2. run[m].at \in Nat BY <1>1 DEF Run
<1>3. run[m].at + 1 \in Nat BY <1>2
<1>4. ASSUME run' = GoOn(m)
      PROVE  /\ run' \in [Machines -> Run]
             /\ run'[m].job = run[m].job /\ run'[m].at = run[m].at + 1 /\ run'[m].phase = "copy"
             /\ \A n \in Machines \ {m} : run'[n] = run[n]
  <2> DEFINE k == run[m].at + 1
             y == [run[m] EXCEPT !.at = k, !.phase = "copy"]
  <2>1. run' = [run EXCEPT ![m] = y] BY <1>4 DEF GoOn
  <2>2. k \in Nat BY <1>3
  <2>3. k = run[m].at + 1 OBVIOUS
  <2> HIDE DEF k
  <2>4. y \in Run /\ y.job = run[m].job /\ y.at = k /\ y.phase = "copy"
    BY <1>1, <2>2, RunRow
  <2> HIDE DEF y
  <2> QED BY <1>1, <2>1, <2>3, <2>4
<1>5. ASSUME run' = [run EXCEPT ![m].phase = "write"]
      PROVE  /\ run' \in [Machines -> Run]
             /\ run'[m].job = run[m].job /\ run'[m].at = run[m].at /\ run'[m].phase = "write"
             /\ \A n \in Machines \ {m} : run'[n] = run[n]
  <2> DEFINE y == [run[m] EXCEPT !.phase = "write"]
  <2>1. run' = [run EXCEPT ![m] = y] BY <1>5
  <2>2. y \in Run /\ y.job = run[m].job /\ y.at = run[m].at /\ y.phase = "write"
    BY <1>1, <1>2, RunRow
  <2> HIDE DEF y
  <2> QED BY <1>1, <2>1, <2>2
<1> QED BY <1>4, <1>5

(* A step that leaves the rows of jobs alone, and the machine m goes on.   *)
LEMMA WorkMoves ==
  ASSUME TypeOK, NEW m \in Machines, run[m] # NoRun, jobs' = jobs, released' = released,
         run' = GoOn(m) \/ run' = [run EXCEPT ![m].phase = "write"]
  PROVE  Move({})
<1>1. /\ run' \in [Machines -> Run] /\ run'[m].job = run[m].job
      /\ \A n \in Machines \ {m} : run'[n] = run[n]
  BY Advanced
<1>2. \A n \in Machines : Turn(n, {}) BY <1>1 DEF Turn
<1> QED BY <1>1, <1>2, SameJobs DEF Move

(* Steps that leave jobs and machines alone.                               *)
LEMMA StillMoves ==
  ASSUME TypeOK, jobs' = jobs, run' = run, released \subseteq released'
  PROVE  Move({})
BY SameJobs, SameRuns DEF Move

(* The rows that the handlers and the jobs make.                           *)
LEMMA NewRow ==
  ASSUME NEW c \in {"export", "copy", "delete", "thumb"}, NEW s \in Statuses,
         NEW t \in Takes, NEW p \in Paths \cup {NoPath}
  PROVE  LET x == NewJob(c, s, t, p)
         IN  /\ x \in Job /\ x.class = c /\ x.take = t /\ x.path = p
             /\ x.parent = 0 /\ x.needs = 0
BY DEF NewJob, Job

(* LaunchCopy makes a child of an export that runs.                        *)
LEMMA Launched ==
  ASSUME TypeOK, JobsInv, RunInv, NEW m \in Machines, LaunchCopy(m)
  PROVE  Move({})
<1>1. run[m] # NoRun /\ JobOf(m).class = "export" /\ run' = run /\ released' = released
  BY DEF LaunchCopy, Running, JobOf
<1> DEFINE j == run[m].job
           z == NewJob("copy", "ready", JobOf(m).take, JobOf(m).path)
<1>2. PICK s \in Machines :
        jobs' = Append(jobs, [z EXCEPT !.files = s, !.node = s, !.parent = j])
  BY DEF LaunchCopy, Unlaunched, Recorders
<1>3. /\ j \in DOMAIN jobs /\ JobOf(m) \in Job /\ JobOf(m).status = "running"
      /\ JobOf(m).path \in Paths /\ JobOf(m) = jobs[j]
  BY <1>1, RunFacts DEF Argued
<1>4. jobs \in Seq(Job) /\ j \in 1 .. Len(jobs) /\ Len(jobs) \in Nat
  BY <1>3 DEF TypeOK
<1>5. /\ z \in Job /\ z.class = "copy" /\ z.path = JobOf(m).path /\ z.needs = 0
      /\ z.take = JobOf(m).take
  <2>1. JobOf(m).take \in Takes BY <1>3 DEF Job
  <2>2. "ready" \in Statuses BY DEF Statuses
  <2> HIDE DEF z
  <2> QED BY <1>3, <2>1, <2>2, NewRow DEF z
<1> HIDE DEF z
<1> DEFINE x == [z EXCEPT !.files = s, !.node = s, !.parent = j]
<1>6. /\ x \in Job /\ x.class = "copy" /\ x.parent = j /\ x.needs = 0 /\ x.path = JobOf(m).path
      /\ x.take = JobOf(m).take
  <2>1. j \in Nat BY <1>4
  <2>2. z \in Job BY <1>5
  <2> HIDE DEF j
  <2>3. /\ x \in Job /\ x.class = z.class /\ x.take = z.take /\ x.path = z.path
        /\ x.parent = j /\ x.needs = z.needs
    BY <2>1, <2>2, s \in Machines DEF Job
  <2> HIDE DEF x
  <2> QED BY <1>5, <2>3
<1>7. jobs' = Append(jobs, x) BY <1>2
<1> HIDE DEF x, j
<1>8. Kept(jobs, jobs', {}) /\ NewRows /\ NewlyReady
  BY <1>1, <1>3, <1>4, <1>6, <1>7, Made
<1> QED BY <1>1, <1>8, SameRuns DEF Move

(* Every step of a machine.                                                *)
LEMMA WorkStep ==
  ASSUME TypeOK, JobsInv, RunInv, NEW m \in Machines, Work(m)
  PROVE  Move({}) \/ (run[m] # NoRun /\ run[m].job \in DOMAIN jobs /\ Move({run[m].job}))
<1>1. CASE Start(m) BY <1>1, StartMoves
<1>2. CASE Kill(m)
  BY <1>2, Ended, RunFacts DEF Kill
<1>3. CASE LaunchCopy(m) BY <1>3, Launched
<1>4. CASE YieldToChildren(m)
  <2>1. run[m] # NoRun /\ released' = released BY <1>4 DEF YieldToChildren, Running
  <2>2. PICK s \in {"failed", "success", "waiting"} : End(m, s) BY <1>4 DEF YieldToChildren
  <2> QED BY <2>1, <2>2, Ended, RunFacts
<1>5. CASE SkipFile(m)
  BY <1>5, WorkMoves DEF SkipFile, Copying, Running, rows
<1>6. CASE MissFile(m)
  BY <1>6, Ended, RunFacts DEF MissFile, Copying, Running
<1>7. CASE BeginFile(m)
  BY <1>7, WorkMoves DEF BeginFile, Copying, Running, rows
<1>8. CASE EndFile(m)
  BY <1>8, WorkMoves DEF EndFile, Copying, Running, rows
<1>9. CASE LoseFile(m)
  BY <1>9, Ended, RunFacts DEF LoseFile, Copying, Running
<1>10. CASE EraseSource(m)
  BY <1>10, WorkMoves DEF EraseSource, Erasing, Running, rows
<1>11. CASE DeleteFile(m)
  BY <1>11, WorkMoves DEF DeleteFile, Deleting, Running, rows
<1>12. CASE FailRemove(m)
  BY <1>12, WorkMoves DEF FailRemove, Erasing, Deleting, Running, rows
<1>13. CASE Succeed(m)
  BY <1>13, Ended, RunFacts DEF Succeed, Running
<1> QED
  BY <1>1, <1>2, <1>3, <1>4, <1>5, <1>6, <1>7, <1>8, <1>9, <1>10, <1>11, <1>12, <1>13 DEF Work

(* The facts about an open request.                                        *)
LEMMA ReqFacts ==
  ASSUME TypeOK, NEW r \in Handlers
  PROVE  /\ req \in [Handlers -> Request] /\ req[r] \in Request
         /\ req[r].take \in Takes /\ req[r].row \in Row /\ req[r].row.path \in Paths \cup {NoPath}
         /\ req[r].job \in Nat /\ req[r].thumb \in Nat
<1>1. req \in [Handlers -> Request] /\ req[r] \in Request BY DEF TypeOK
<1>2. req[r].take \in Takes /\ req[r].row \in Row /\ req[r].job \in Nat /\ req[r].thumb \in Nat
  BY <1>1 DEF Request
<1> QED BY <1>1, <1>2 DEF Row

(* A request makes a job without parent.                                   *)
LEMMA RequestMoves ==
  ASSUME TypeOK, JobsInv, NEW x \in Job, jobs' = Append(jobs, x),
         x.parent = 0, x.needs = 0 \/ x.needs \in DOMAIN jobs,
         x.class = "delete" => x.take \in released,
         x.class # "delete" => x.path \in Paths,
         (x.class = "thumb" /\ x.needs # 0) =>
           /\ x.needs \in DOMAIN jobs /\ jobs[x.needs].class = "export"
           /\ jobs[x.needs].take = x.take,
         run' = run, released' = released
  PROVE  Move({})
<1>1. jobs \in Seq(Job) BY DEF TypeOK
<1>2. x.parent < Len(jobs) + 1 /\ x.needs < Len(jobs) + 1 BY <1>1
<1>3. Kept(jobs, jobs', {}) /\ NewRows /\ NewlyReady BY <1>2, Made
<1> QED BY <1>3, SameRuns DEF Move

(* SubmitExport makes an export.                                           *)
LEMMA ExportMoves ==
  ASSUME TypeOK, JobsInv, ReqInv, NEW r \in Handlers, SubmitExport(r)
  PROVE  Move({})
<1> DEFINE t == req[r].take
           z == NewJob("export", "ready", t, req[r].row.path)
           x == [z EXCEPT !.cameras = take[t].cameras]
<1>1. CASE take[t].there
  <2>1. jobs' = Append(jobs, x) /\ run' = run /\ released' = released
    BY <1>1 DEF SubmitExport
  <2>2. req[r].at = "job" /\ req[r].row.path \in Paths
    BY DEF SubmitExport, ReqInv
  <2>3. t \in Takes /\ req[r].row.path \in Paths \cup {NoPath} /\ take[t].cameras \in BOOLEAN
    BY ReqFacts DEF TypeOK, Row
  <2>4. /\ z \in Job /\ z.class = "export" /\ z.path = req[r].row.path /\ z.parent = 0 /\ z.needs = 0
    <3>1. "ready" \in Statuses BY DEF Statuses
    <3> HIDE DEF t, z
    <3> QED BY <2>3, <3>1, NewRow DEF z
  <2> HIDE DEF z
  <2>5. /\ x \in Job /\ x.class = "export" /\ x.path = req[r].row.path /\ x.parent = 0 /\ x.needs = 0
    <3>1. z \in Job BY <2>4
    <3>2. /\ x \in Job /\ x.class = z.class /\ x.path = z.path /\ x.parent = z.parent
          /\ x.needs = z.needs
      BY <2>3, <3>1 DEF Job
    <3> HIDE DEF x
    <3> QED BY <2>4, <3>2
  <2> HIDE DEF x
  <2> QED BY <2>1, <2>2, <2>5, RequestMoves
<1>2. CASE ~take[t].there
  BY <1>2, StillMoves DEF SubmitExport
<1> QED BY <1>1, <1>2

(* SubmitThumbnail makes a thumbnail that needs the export.                *)
LEMMA ThumbnailMoves ==
  ASSUME TypeOK, JobsInv, ReqInv, NEW r \in Handlers, SubmitThumbnail(r)
  PROVE  Move({})
<1> DEFINE t == req[r].take
           i == req[r].job
           z == NewJob("thumb", "created", t, req[r].row.path)
           x == [z EXCEPT !.needs = i]
<1>1. CASE take[t].there
  <2>1. jobs' = Append(jobs, x) /\ run' = run /\ released' = released
    BY <1>1 DEF SubmitThumbnail
  <2>2. req[r].at = "thumb" /\ req[r].row.path \in Paths /\ i \in DOMAIN jobs
        /\ jobs[i].class = "export" /\ jobs[i].take = t
    BY DEF SubmitThumbnail, ReqInv
  <2>3. t \in Takes /\ req[r].row.path \in Paths \cup {NoPath} /\ i \in Nat
    BY ReqFacts
  <2>4. /\ z \in Job /\ z.class = "thumb" /\ z.path = req[r].row.path /\ z.parent = 0
        /\ z.take = t
    <3>1. "created" \in Statuses BY DEF Statuses
    <3> HIDE DEF t, z
    <3> QED BY <2>3, <3>1, NewRow DEF z
  <2> HIDE DEF z
  <2>5. /\ x \in Job /\ x.class = "thumb" /\ x.path = req[r].row.path /\ x.parent = 0 /\ x.needs = i
        /\ x.take = t
    <3>1. z \in Job BY <2>4
    <3>2. /\ x \in Job /\ x.class = z.class /\ x.path = z.path /\ x.parent = z.parent
          /\ x.needs = i /\ x.take = z.take
      BY <2>3, <3>1 DEF Job
    <3> HIDE DEF x
    <3> QED BY <2>4, <3>2
  <2> HIDE DEF x
  <2> QED BY <2>1, <2>2, <2>5, RequestMoves
<1>2. CASE ~take[t].there
  BY <1>2, StillMoves DEF SubmitThumbnail
<1> QED BY <1>1, <1>2

(* SubmitDelete makes a deletion, of a take whose rows are gone.           *)
LEMMA DeleteMoves ==
  ASSUME TypeOK, JobsInv, ReqInv, NEW r \in Handlers, SubmitDelete(r)
  PROVE  Move({})
<1> DEFINE t == req[r].take
           z == NewJob("delete", "ready", t, req[r].row.path)
<1>1. CASE req[r].left # {}
  <2>0. req[r].at = "files" /\ req[r].left \subseteq Machines /\ t \in released
    <3>1. req[r] \in Request BY ReqFacts
    <3>2. req[r].left \subseteq Machines BY <3>1 DEF Request
    <3> QED BY <3>2 DEF SubmitDelete, ReqInv
  <2>1. PICK m \in Machines : jobs' = Append(jobs, [z EXCEPT !.files = m, !.node = m])
    BY <1>1, <2>0 DEF SubmitDelete
  <2> DEFINE x == [z EXCEPT !.files = m, !.node = m]
  <2>2. jobs' = Append(jobs, x) /\ run' = run /\ released' = released
    BY <2>1 DEF SubmitDelete
  <2>3. t \in Takes /\ req[r].row.path \in Paths \cup {NoPath}
    BY ReqFacts
  <2>4. /\ z \in Job /\ z.class = "delete" /\ z.take = t /\ z.parent = 0 /\ z.needs = 0
    <3>1. "ready" \in Statuses BY DEF Statuses
    <3> HIDE DEF t, z
    <3> QED BY <2>3, <3>1, NewRow DEF z
  <2> HIDE DEF z
  <2>5. /\ x \in Job /\ x.class = "delete" /\ x.take = t /\ x.parent = 0 /\ x.needs = 0
    <3>1. z \in Job BY <2>4
    <3>2. /\ x \in Job /\ x.class = z.class /\ x.take = z.take /\ x.parent = z.parent
          /\ x.needs = z.needs
      BY <3>1, m \in Machines DEF Job
    <3> HIDE DEF x
    <3> QED BY <2>4, <3>2
  <2> HIDE DEF x
  <2> QED BY <2>0, <2>2, <2>5, RequestMoves
<1>2. CASE req[r].left = {}
  BY <1>2, StillMoves DEF SubmitDelete
<1> QED BY <1>1, <1>2

(* The thumbnail of a request changes its status.                          *)
LEMMA UploadMoves ==
  ASSUME TypeOK, NEW j \in DOMAIN jobs, jobs[j].class = "thumb",
         NEW s \in {"ready", "running", "success", "failed"},
         jobs' = [jobs EXCEPT ![j].status = s], run' = run, released' = released
  PROVE  Move({})
<1>1. s \in Statuses BY DEF Statuses
<1> QED BY <1>1, ThumbnailMoved, SameRuns DEF Move

(* Every step of a request.                                                *)
LEMMA ServeStep ==
  ASSUME TypeOK, JobsInv, ReqInv, NEW r \in Handlers, Serve(r)
  PROVE  Move({})
<1>1. CASE \E t \in Takes, p \in Paths : SaveExport(r, t, p)
  BY <1>1, StillMoves DEF SaveExport
<1>2. CASE SubmitExport(r) BY <1>2, ExportMoves
<1>3. CASE SubmitThumbnail(r) BY <1>3, ThumbnailMoves
<1>4. CASE ReleaseThumbnail(r)
  <2>1. req[r].thumb \in DOMAIN jobs /\ jobs[req[r].thumb].class = "thumb"
    BY <1>4 DEF ReleaseThumbnail, ReqInv
  <2>2. /\ run' = run /\ released' = released
        /\ jobs' = jobs \/ jobs' = [jobs EXCEPT ![req[r].thumb].status = "ready"]
    BY <1>4 DEF ReleaseThumbnail
  <2> QED BY <2>1, <2>2, UploadMoves, StillMoves
<1>5. CASE \E t \in Takes : GatherFiles(r, t)
  BY <1>5, StillMoves DEF GatherFiles, rows
<1>6. CASE DeleteRows(r)
  BY <1>6, StillMoves DEF DeleteRows
<1>7. CASE SubmitDelete(r) BY <1>7, DeleteMoves
<1>8. CASE \E j \in DOMAIN jobs : ReadUpload(r, j)
  <2>1. PICK j \in DOMAIN jobs : ReadUpload(r, j) BY <1>8
  <2>2. /\ run' = run /\ released' = released /\ jobs[j].class = "thumb"
        /\ jobs' = jobs \/ jobs' = [jobs EXCEPT ![j].status = "failed"]
    BY <2>1 DEF ReadUpload
  <2> QED BY <2>2, UploadMoves, StillMoves
<1>9. CASE SaveUpload(r)
  <2>1. req[r].thumb \in DOMAIN jobs /\ jobs[req[r].thumb].class = "thumb"
    BY <1>9 DEF SaveUpload, ReqInv
  <2>2. /\ run' = run /\ released' = released
        /\ jobs' = [jobs EXCEPT ![req[r].thumb].status = "success"]
    BY <1>9 DEF SaveUpload
  <2> QED BY <2>1, <2>2, UploadMoves
<1>10. CASE Crash(r)
  <2>1. req[r].kind = "upload" =>
          req[r].thumb \in DOMAIN jobs /\ jobs[req[r].thumb].class = "thumb"
    BY DEF ReqInv
  <2>2. /\ run' = run /\ released' = released
        /\ jobs' = IF req[r].kind = "upload" THEN [jobs EXCEPT ![req[r].thumb].status = "failed"]
                   ELSE jobs
    BY <1>10 DEF Crash
  <2>3. CASE req[r].kind = "upload" BY <2>1, <2>2, <2>3, UploadMoves
  <2>4. CASE req[r].kind # "upload" BY <2>2, <2>4, StillMoves
  <2> QED BY <2>3, <2>4
<1> QED
  BY <1>1, <1>2, <1>3, <1>4, <1>5, <1>6, <1>7, <1>8, <1>9, <1>10 DEF Serve

(* A user clones a job.                                                    *)
LEMMA CloneMoves ==
  ASSUME TypeOK, JobsInv, NEW j \in DOMAIN jobs, NEW same \in BOOLEAN, CloneJob(j, same)
  PROVE  Move({})
<1> DEFINE n == IF same THEN jobs[j].node ELSE NoMachine
           x == [jobs[j] EXCEPT !.status = "ready", !.parent = 0, !.needs = 0, !.node = n]
<1>1. jobs' = Append(jobs, x) /\ run' = run /\ released' = released
  BY DEF CloneJob
<1>2. jobs[j] \in Job /\ Argued(j) BY JobFacts
<1>3. n \in Machines \cup {NoMachine} BY <1>2 DEF Job
<1> HIDE DEF n
<1>4. /\ x \in Job /\ x.class = jobs[j].class /\ x.take = jobs[j].take /\ x.path = jobs[j].path
      /\ x.parent = 0 /\ x.needs = 0
  BY <1>2, <1>3 DEF Job, Statuses
<1> HIDE DEF x
<1> QED BY <1>1, <1>2, <1>4, RequestMoves DEF Argued

(* Every step moves jobs and machines in this way.                         *)
LEMMA NextMoves ==
  ASSUME IInv, Next
  PROVE  \E E \in SUBSET DOMAIN jobs : Move(E)
<1> USE DEF IInv
<1>1. CASE \E m \in Machines : Work(m)
  <2>1. PICK m \in Machines : Work(m) BY <1>1
  <2>2. Move({}) \/ (run[m].job \in DOMAIN jobs /\ Move({run[m].job})) BY <2>1, WorkStep
  <2> QED BY <2>2
<1>2. CASE \E r \in Handlers : Serve(r)
  <2>1. Move({}) BY <1>2, ServeStep
  <2> QED BY <2>1
<1>3. CASE \E j \in DOMAIN jobs :
             \/ StartThumbnail(j)
             \/ \E same \in BOOLEAN :
                  RestartJob(j, same) \/ CloneJob(j, same) \/ RestartFailedChildren(j, same)
  <2>1. PICK j \in DOMAIN jobs :
             \/ StartThumbnail(j)
             \/ \E same \in BOOLEAN :
                  RestartJob(j, same) \/ CloneJob(j, same) \/ RestartFailedChildren(j, same)
    BY <1>3
  <2>2. CASE StartThumbnail(j)
    <3>1. /\ jobs[j].class = "thumb" /\ run' = run /\ released' = released
          /\ jobs' = [jobs EXCEPT ![j].status = "running"]
      BY <2>2 DEF StartThumbnail
    <3>2. Move({}) BY <3>1, UploadMoves
    <3> QED BY <3>2
  <2>3. CASE \E same \in BOOLEAN :
               RestartJob(j, same) \/ CloneJob(j, same) \/ RestartFailedChildren(j, same)
    <3>1. Move({}) BY <2>3, RestartMoves, CloneMoves, RestartFailedMoves
    <3> QED BY <3>1
  <2> QED BY <2>1, <2>2, <2>3
<1> QED BY <1>1, <1>2, <1>3 DEF Next

(* Such a step keeps what the invariant says of jobs and machines.         *)
LEMMA MoveKeeps ==
  ASSUME IInv, NEW E \in SUBSET DOMAIN jobs, Move(E)
  PROVE  /\ JobsInv' /\ RunInv'
         /\ jobs' \in Seq(Job)
         /\ \A j \in DOMAIN jobs' : jobs'[j].parent < j /\ jobs'[j].needs < j
         /\ run' \in [Machines -> Run]
         /\ \A m \in Machines : run'[m] # NoRun =>
              JobOf(m)'.status = "running" /\ JobOf(m)'.node = m
<1>1. TypeOK /\ JobsInv /\ RunInv BY DEF IInv
<1>2. /\ jobs' \in Seq(Job) /\ DOMAIN jobs \subseteq DOMAIN jobs' /\ jobs \in Seq(Job)
      /\ \A i \in DOMAIN jobs : Same(jobs[i], jobs'[i])
      /\ \A i \in DOMAIN jobs :
           (jobs[i].class = "copy" /\ jobs[i].status = "deleted") => jobs'[i].status = "deleted"
  BY <1>1 DEF Move, Kept, TypeOK
<1>3. NewRows /\ NewlyReady /\ released \subseteq released' /\ run' \in [Machines -> Run]
  BY DEF Move
<1>4. \A j \in DOMAIN jobs' : jobs'[j].parent < j /\ jobs'[j].needs < j
  <2>1. \A j \in DOMAIN jobs : jobs'[j].parent < j /\ jobs'[j].needs < j
    BY <1>1, <1>2 DEF TypeOK, Same
  <2> QED BY <1>3, <2>1 DEF NewRows
<1>5. ASSUME NEW j \in DOMAIN jobs' PROVE Argued(j)'
  <2>1. CASE j \in DOMAIN jobs
    <3>1. Argued(j) /\ Same(jobs[j], jobs'[j]) BY <1>1, <1>2, <2>1 DEF JobsInv
    <3>2. jobs[j].parent # 0 => Same(jobs[jobs[j].parent], jobs'[jobs[j].parent])
      BY <1>1, <1>2, <2>1, JobFacts
    <3>3. (jobs[j].class = "thumb" /\ jobs[j].needs # 0) => Same(jobs[jobs[j].needs], jobs'[jobs[j].needs])
      BY <1>2, <3>1 DEF Argued
    <3> QED BY <1>2, <1>3, <3>1, <3>2, <3>3 DEF Argued, Same
  <2>2. CASE j \notin DOMAIN jobs
    <3>1. jobs'[j].parent # 0 => /\ jobs'[jobs'[j].parent].class = jobs[jobs'[j].parent].class
                                 /\ jobs'[jobs'[j].parent].take = jobs[jobs'[j].parent].take
      BY <1>2, <1>3, <2>2 DEF NewRows, Same
    <3>2. (jobs'[j].class = "thumb" /\ jobs'[j].needs # 0) =>
            /\ jobs'[j].needs \in DOMAIN jobs'
            /\ jobs'[jobs'[j].needs].class = jobs[jobs'[j].needs].class
            /\ jobs'[jobs'[j].needs].take = jobs[jobs'[j].needs].take
      BY <1>2, <1>3, <2>2 DEF NewRows, Same
    <3> QED BY <1>3, <2>2, <3>1, <3>2 DEF NewRows, Argued
  <2> QED BY <2>1, <2>2
<1>6. ASSUME NEW j \in DOMAIN jobs', jobs'[j].status = "ready",
             NEW c \in DOMAIN jobs', jobs'[c].parent = j
      PROVE  jobs'[c].status = "deleted"
  <2>0. j # 0 /\ jobs'[c].parent < c BY <1>2, <1>4
  <2>1. CASE c \in DOMAIN jobs
    <3>1. jobs[c].parent = j /\ j \in DOMAIN jobs /\ jobs[c].class = "copy" /\ jobs[j].class = "export"
      <4>1. jobs[c].parent = j BY <1>2, <1>6, <2>1 DEF Same
      <4> QED BY <1>1, <2>0, <2>1, <4>1, JobFacts DEF Argued
    <3>2. CASE jobs[j].status = "ready"
      <4>1. jobs[c].status = "deleted" BY <1>1, <2>1, <3>1, <3>2 DEF JobsInv, Childless
      <4> QED BY <1>2, <2>1, <3>1, <4>1
    <3>3. CASE jobs[j].status # "ready"
      BY <1>3, <1>6, <2>1, <3>1, <3>3 DEF NewlyReady
    <3> QED BY <3>2, <3>3
  <2>2. CASE c \notin DOMAIN jobs
    BY <1>3, <1>6, <2>0, <2>2 DEF NewRows
  <2> QED BY <2>1, <2>2
<1>7. JobsInv' BY <1>5, <1>6 DEF JobsInv, Childless
<1>8. ASSUME NEW m \in Machines, run'[m] # NoRun
      PROVE  /\ run'[m].job \in DOMAIN jobs' /\ JobOf(m)'.class # "thumb"
             /\ JobOf(m)'.status = "running" /\ JobOf(m)'.node = m
  <2>1. CASE run[m] # NoRun /\ run'[m].job = run[m].job /\ run[m].job \notin E
    <3>1. /\ run[m].job \in DOMAIN jobs /\ jobs[run[m].job].class # "thumb"
          /\ jobs[run[m].job].status = "running" /\ jobs[run[m].job].node = m
      BY <1>1, <2>1, RunFacts DEF JobOf
    <3>2. /\ jobs'[run[m].job].status = "running" /\ jobs'[run[m].job].node = m
          /\ Same(jobs[run[m].job], jobs'[run[m].job])
      BY <2>1, <3>1 DEF Move, Kept
    <3> QED BY <1>2, <2>1, <3>1, <3>2 DEF JobOf, Same
  <2>2. CASE ~(run[m] # NoRun /\ run'[m].job = run[m].job /\ run[m].job \notin E)
    BY <1>8, <2>2 DEF Move, Turn, JobOf
  <2> QED BY <2>1, <2>2
<1>9. RunInv' BY <1>8 DEF RunInv, JobOf, NoRun
<1> QED BY <1>2, <1>3, <1>4, <1>7, <1>8, <1>9

-----------------------------------------------------------------------------
(* Requests.                                                               *)

(* A request that a step does not concern keeps what it has made.          *)
LEMMA Unasked ==
  ASSUME IInv, NEW E \in SUBSET DOMAIN jobs, Move(E), NEW q \in Handlers, req'[q] = req[q]
  PROVE  /\ req'[q].at = "files" => req'[q].take \in released'
         /\ req'[q].at \in {"job", "thumb", "ready"} => req'[q].row.path \in Paths
         /\ req'[q].at = "thumb" => /\ req'[q].job \in DOMAIN jobs' /\ jobs'[req'[q].job].class = "export"
                                    /\ jobs'[req'[q].job].take = req'[q].take
         /\ req'[q].at \in {"ready", "upload"} =>
              req'[q].thumb \in DOMAIN jobs' /\ jobs'[req'[q].thumb].class = "thumb"
         /\ req'[q].kind = "upload" <=> req'[q].at = "upload"
<1>1. ReqInv BY DEF IInv
<1>2. DOMAIN jobs \subseteq DOMAIN jobs' /\ released \subseteq released'
  BY DEF Move, Kept
<1>3. \A i \in DOMAIN jobs : jobs'[i].class = jobs[i].class /\ jobs'[i].take = jobs[i].take
  BY DEF Move, Kept, Same
<1> QED BY <1>1, <1>2, <1>3 DEF ReqInv

(* A step that gives request r the row y.                                  *)
LEMMA Asked ==
  ASSUME IInv, NEW E \in SUBSET DOMAIN jobs, Move(E), NEW r \in Handlers, NEW y \in Request,
         req' = [req EXCEPT ![r] = y],
         y.at = "files" => y.take \in released',
         y.at \in {"job", "thumb", "ready"} => y.row.path \in Paths,
         y.at = "thumb" => /\ y.job \in DOMAIN jobs' /\ jobs'[y.job].class = "export"
                           /\ jobs'[y.job].take = y.take,
         y.at \in {"ready", "upload"} => y.thumb \in DOMAIN jobs' /\ jobs'[y.thumb].class = "thumb",
         y.kind = "upload" <=> y.at = "upload"
  PROVE  req' \in [Handlers -> Request] /\ ReqInv'
<1>1. req \in [Handlers -> Request] BY DEF IInv, TypeOK
<1>2. req' \in [Handlers -> Request] /\ req'[r] = y /\ \A q \in Handlers \ {r} : req'[q] = req[q]
  BY <1>1
<1>3. ASSUME NEW q \in Handlers
      PROVE  /\ req'[q].at = "files" => req'[q].take \in released'
             /\ req'[q].at \in {"job", "thumb", "ready"} => req'[q].row.path \in Paths
             /\ req'[q].at = "thumb" =>
                  /\ req'[q].job \in DOMAIN jobs' /\ jobs'[req'[q].job].class = "export"
                  /\ jobs'[req'[q].job].take = req'[q].take
             /\ req'[q].at \in {"ready", "upload"} =>
                  req'[q].thumb \in DOMAIN jobs' /\ jobs'[req'[q].thumb].class = "thumb"
             /\ req'[q].kind = "upload" <=> req'[q].at = "upload"
  <2>1. CASE q = r BY <1>2, <2>1
  <2>2. CASE q # r
    <3>1. req'[q] = req[q] BY <1>2, <2>2
    <3> QED BY <3>1, Unasked
  <2> QED BY <2>1, <2>2
<1> QED BY <1>2, <1>3 DEF ReqInv

(* A request that nobody makes.                                            *)
LEMMA NoRequest == NoReq \in Request /\ NoReq.at = "" /\ NoReq.kind = "none"
<1>1. (CHOOSE t \in Takes : TRUE) \in Takes BY ArchiveAssumption
<1>2. NoRow \in Row BY DEF NoRow, Row
<1>3. NoReq.at = "" /\ NoReq.kind = "none" BY DEF NoReq
<1> QED BY <1>1, <1>2, <1>3 DEF NoReq, Request, Steps

(* A request ends.                                                         *)
LEMMA Replied ==
  ASSUME IInv, NEW E \in SUBSET DOMAIN jobs, Move(E), NEW r \in Handlers, Reply(r)
  PROVE  req' \in [Handlers -> Request] /\ ReqInv'
<1>1. req' = [req EXCEPT ![r] = NoReq] BY DEF Reply
<1> DEFINE y == NoReq
<1>2. y \in Request /\ y.at = "" /\ y.kind = "none" BY NoRequest
<1>3. req' = [req EXCEPT ![r] = y] BY <1>1
<1> HIDE DEF y
<1> QED BY <1>2, <1>3, Asked

(* A step that no request takes.                                           *)
LEMMA Unanswered ==
  ASSUME IInv, NEW E \in SUBSET DOMAIN jobs, Move(E), req' = req
  PROVE  req' \in [Handlers -> Request] /\ ReqInv'
<1>1. req' \in [Handlers -> Request] BY DEF IInv, TypeOK
<1>2. \A q \in Handlers : req'[q] = req[q] OBVIOUS
<1> QED BY <1>1, <1>2, Unasked DEF ReqInv

(* The rows that requests write.                                           *)
LEMMA TakeRows ==
  ASSUME NEW w \in Row, NEW p \in Paths \cup {NoPath}, NEW b \in BOOLEAN
  PROVE  /\ [w EXCEPT !.path = p] \in Row /\ [w EXCEPT !.path = p].path = p
         /\ [w EXCEPT !.cameras = b] \in Row
         /\ NoRow \in Row
BY DEF Row, NoRow

(* Requests keep their types, and what the invariant says of them.         *)
LEMMA ServedRequests ==
  ASSUME IInv, NEW r \in Handlers, Serve(r)
  PROVE  req' \in [Handlers -> Request] /\ ReqInv'
<1>0. TypeOK /\ JobsInv /\ ReqInv BY DEF IInv
<1>1. Move({}) BY <1>0, ServeStep
<1>2. req[r] \in Request /\ {} \in SUBSET DOMAIN jobs BY <1>0, ReqFacts
<1>3. CASE Reply(r) BY <1>1, <1>2, <1>3, Replied
<1>4. CASE req' = req BY <1>1, <1>2, <1>4, Unanswered
<1>5. ASSUME NEW t \in Takes, NEW p \in Paths, SaveExport(r, t, p)
      PROVE  req' \in [Handlers -> Request] /\ ReqInv'
  <2> DEFINE w == [take[t] EXCEPT !.path = p]
             x == NoReq
             y == [x EXCEPT !.kind = "export", !.at = "job", !.take = t, !.row = w]
  <2>1. take[t] \in Row /\ take'[t] = w BY <1>0, <1>5 DEF TypeOK, SaveExport
  <2>2. req' = [req EXCEPT ![r] = y] BY <1>5, <2>1 DEF SaveExport
  <2>3. w \in Row /\ w.path = p BY <2>1, TakeRows
  <2> HIDE DEF w
  <2>4. x \in Request BY NoRequest
  <2> HIDE DEF x
  <2>5. y \in Request /\ y.kind = "export" /\ y.at = "job" /\ y.row = w
    BY <2>3, <2>4, t \in Takes DEF Request, Steps
  <2> HIDE DEF y
  <2> QED BY <1>1, <1>2, <2>2, <2>3, <2>5, Asked
<1>6. ASSUME SubmitExport(r) \/ SubmitThumbnail(r) \/ DeleteRows(r)
      PROVE  req' \in [Handlers -> Request] /\ ReqInv'
  <2> DEFINE n == Len(jobs')
             a == [req[r] EXCEPT !.at = "thumb", !.job = n]
             b == [req[r] EXCEPT !.at = "ready", !.thumb = n]
             c == [req[r] EXCEPT !.at = "files"]
  <2>1. jobs' \in Seq(Job) /\ jobs \in Seq(Job) BY <1>0, <1>1 DEF Move, Kept, TypeOK
  <2>2. n \in Nat BY <2>1
  <2>3. /\ a \in Request /\ a.kind = req[r].kind /\ a.at = "thumb" /\ a.row = req[r].row /\ a.job = n
        /\ a.take = req[r].take
        /\ b \in Request /\ b.kind = req[r].kind /\ b.at = "ready" /\ b.row = req[r].row /\ b.thumb = n
        /\ c \in Request /\ c.kind = req[r].kind /\ c.at = "files" /\ c.take = req[r].take
    <3> HIDE DEF n
    <3>1. /\ a \in Request /\ a.kind = req[r].kind /\ a.at = "thumb" /\ a.row = req[r].row
          /\ a.job = n /\ a.take = req[r].take
      BY <1>2, <2>2 DEF Request, Steps
    <3>2. /\ b \in Request /\ b.kind = req[r].kind /\ b.at = "ready" /\ b.row = req[r].row
          /\ b.thumb = n
      BY <1>2, <2>2 DEF Request, Steps
    <3>3. c \in Request /\ c.kind = req[r].kind /\ c.at = "files" /\ c.take = req[r].take
      BY <1>2 DEF Request, Steps
    <3> HIDE DEF a, b, c
    <3> QED BY <3>1, <3>2, <3>3
  <2>4. /\ SubmitExport(r) => (Reply(r) \/ req' = [req EXCEPT ![r] = a])
        /\ SubmitThumbnail(r) => (Reply(r) \/ req' = [req EXCEPT ![r] = b])
        /\ DeleteRows(r) => req' = [req EXCEPT ![r] = c]
    BY DEF SubmitExport, SubmitThumbnail, DeleteRows
  <2> HIDE DEF a, b, c
  <2>5. CASE SubmitExport(r) /\ ~Reply(r)
    <3>1. req[r].at = "job" /\ req[r].kind # "upload" /\ req[r].row.path \in Paths
      BY <1>0, <2>5 DEF SubmitExport, ReqInv
    <3>2. n \in DOMAIN jobs' /\ jobs'[n].class = "export" /\ jobs'[n].take = req[r].take
      <4> DEFINE t == req[r].take
                 z == NewJob("export", "ready", t, req[r].row.path)
                 x == [z EXCEPT !.cameras = take[t].cameras]
      <4>1. jobs' = Append(jobs, x) BY <2>5 DEF SubmitExport
      <4>2. "ready" \in Statuses /\ t \in Takes /\ take[t].cameras \in BOOLEAN
            /\ req[r].row.path \in Paths \cup {NoPath}
        BY <1>0, ReqFacts DEF Statuses, TypeOK, Row
      <4>3. z \in Job /\ z.class = "export" /\ z.take = t
        <5> HIDE DEF t, z
        <5> QED BY <4>2, NewRow DEF z
      <4> HIDE DEF z
      <4>4. x \in Job /\ x.class = z.class /\ x.take = z.take BY <4>2, <4>3 DEF Job
      <4> HIDE DEF x, t
      <4>5. n \in DOMAIN jobs' /\ jobs'[n] = x BY <2>1, <4>1, <4>4, Appended
      <4> QED BY <4>3, <4>4, <4>5 DEF t
    <3> HIDE DEF n
    <3> QED BY <1>1, <1>2, <2>3, <2>4, <2>5, <3>1, <3>2, Asked
  <2>6. CASE SubmitThumbnail(r) /\ ~Reply(r)
    <3>1. req[r].at = "thumb" /\ req[r].kind # "upload" /\ req[r].row.path \in Paths
          /\ req[r].job \in Nat /\ req[r].take \in Takes
      BY <1>0, <2>6, ReqFacts DEF SubmitThumbnail, ReqInv
    <3> DEFINE z == NewJob("thumb", "created", req[r].take, req[r].row.path)
               x == [z EXCEPT !.needs = req[r].job]
    <3>2. jobs' = Append(jobs, x) BY <2>6 DEF SubmitThumbnail
    <3>3. z \in Job /\ z.class = "thumb"
      <4>1. "created" \in Statuses /\ req[r].row.path \in Paths \cup {NoPath} BY <3>1 DEF Statuses
      <4> QED BY <3>1, <4>1, NewRow
    <3> HIDE DEF z
    <3>4. x \in Job /\ x.class = z.class BY <3>1, <3>3 DEF Job
    <3> HIDE DEF x
    <3>5. n \in DOMAIN jobs' /\ jobs'[n].class = "thumb"
      BY <2>1, <3>2, <3>3, <3>4, Appended
    <3> HIDE DEF n
    <3> QED BY <1>1, <1>2, <2>3, <2>4, <2>6, <3>1, <3>5, Asked
  <2>7. CASE DeleteRows(r)
    <3>1. req[r].at = "rows" /\ req[r].kind # "upload" /\ req[r].take \in released'
      BY <1>0, <2>7 DEF DeleteRows, ReqInv
    <3> QED BY <1>1, <1>2, <2>3, <2>4, <2>7, <3>1, Asked
  <2> QED BY <1>3, <1>6, <2>5, <2>6, <2>7
<1>7. CASE ReleaseThumbnail(r) BY <1>3, <1>7 DEF ReleaseThumbnail
<1>8. ASSUME NEW t \in Takes, GatherFiles(r, t)
      PROVE  req' \in [Handlers -> Request] /\ ReqInv'
  <2> DEFINE S == IF take[t].cameras THEN Recorders(t) ELSE {}
             x == NoReq
             w == take[t]
             y == [x EXCEPT !.kind = "delete", !.at = "rows", !.take = t, !.row = w, !.left = S]
  <2>1. req' = [req EXCEPT ![r] = y] BY <1>8 DEF GatherFiles
  <2>2. w \in Row /\ S \in SUBSET Machines BY <1>0 DEF TypeOK, Recorders
  <2>3. x \in Request BY NoRequest
  <2> HIDE DEF x, S, w
  <2>4. y \in Request /\ y.kind = "delete" /\ y.at = "rows"
    BY <2>2, <2>3, t \in Takes DEF Request, Steps
  <2> HIDE DEF y
  <2> QED BY <1>1, <1>2, <2>1, <2>4, Asked
<1>9. ASSUME req[r].at = "files", SubmitDelete(r), ~Reply(r)
      PROVE  req' \in [Handlers -> Request] /\ ReqInv'
  <2>1. PICK m \in req[r].left : req' = [req EXCEPT ![r].left = @ \ {m}]
    BY <1>9 DEF SubmitDelete
  <2> DEFINE S == req[r].left \ {m}
             y == [req[r] EXCEPT !.left = S]
  <2>2. req' = [req EXCEPT ![r] = y] BY <2>1
  <2>3. S \in SUBSET Machines BY <1>2 DEF Request
  <2> HIDE DEF S
  <2>4. y \in Request /\ y.kind = req[r].kind /\ y.at = req[r].at /\ y.take = req[r].take
    BY <1>2, <2>3 DEF Request
  <2> HIDE DEF y
  <2>5. req[r].take \in released' /\ req[r].kind # "upload"
    BY <1>0, <1>1, <1>9 DEF Move, ReqInv
  <2> QED BY <1>1, <1>2, <1>9, <2>2, <2>4, <2>5, Asked
<1>10. ASSUME NEW j \in DOMAIN jobs, ReadUpload(r, j)
       PROVE  req' \in [Handlers -> Request] /\ ReqInv'
  <2> DEFINE t == jobs[j].take
             x == NoReq
             w == take[t]
             y == [x EXCEPT !.kind = "upload", !.at = "upload", !.take = t, !.row = w, !.thumb = j]
  <2>1. jobs[j].class = "thumb" /\ (req' = req \/ req' = [req EXCEPT ![r] = y])
    BY <1>10 DEF ReadUpload
  <2>2. t \in Takes /\ w \in Row /\ j \in Nat
    <3>1. jobs[j] \in Job /\ j \in Nat BY <1>0, JobFacts
    <3>2. t \in Takes BY <3>1 DEF Job
    <3> QED BY <1>0, <3>1, <3>2 DEF TypeOK
  <2>3. x \in Request BY NoRequest
  <2> HIDE DEF x, w, t
  <2>4. y \in Request /\ y.kind = "upload" /\ y.at = "upload" /\ y.thumb = j
    BY <2>2, <2>3 DEF Request, Steps
  <2> HIDE DEF y
  <2>5. j \in DOMAIN jobs' /\ jobs'[j].class = "thumb" BY <1>1, <2>1 DEF Move, Kept, Same
  <2> QED BY <1>1, <1>2, <1>4, <2>1, <2>4, <2>5, Asked
<1>11. CASE SaveUpload(r) BY <1>3, <1>11 DEF SaveUpload
<1>12. CASE Crash(r) BY <1>3, <1>12 DEF Crash
<1>13. SubmitDelete(r) => req[r].at = "files" BY DEF SubmitDelete
<1> QED
  BY <1>3, <1>5, <1>6, <1>7, <1>8, <1>9, <1>10, <1>11, <1>12, <1>13 DEF Serve

-----------------------------------------------------------------------------
(* Rows of takes, the disks and what was spent.                            *)

\* What the steps of machine m may do besides its job.
Aside(m) ==
  /\ take' = take /\ released' = released /\ overtaken' = overtaken /\ req' = req
  /\ exports' = exports /\ deletes' = deletes /\ restarts' = restarts
  /\ faults' = faults \/ faults' = faults + 1
  /\ strayed' = strayed \/ (run[m] # NoRun /\ strayed' = strayed \cup {JobOf(m).take})

(* No step of a machine does more to takes, requests and bounds.           *)
LEMMA WorkAside == ASSUME NEW m, Work(m) PROVE Aside(m)
<1> USE DEF Aside, disk, rows, bounds
<1>1. CASE Start(m) BY <1>1 DEF Start
<1>2. CASE Kill(m) BY <1>2 DEF Kill, Spend
<1>3. CASE LaunchCopy(m) BY <1>3 DEF LaunchCopy
<1>4. CASE YieldToChildren(m) BY <1>4 DEF YieldToChildren
<1>5. CASE SkipFile(m) BY <1>5 DEF SkipFile
<1>6. CASE MissFile(m) BY <1>6 DEF MissFile
<1>7. CASE BeginFile(m) BY <1>7 DEF BeginFile
<1>8. CASE EndFile(m) BY <1>8 DEF EndFile
<1>9. CASE LoseFile(m) BY <1>9 DEF LoseFile
<1>10. CASE EraseSource(m) BY <1>10 DEF EraseSource
<1>11. CASE DeleteFile(m) BY <1>11 DEF DeleteFile
<1>12. CASE FailRemove(m) BY <1>12 DEF FailRemove, Spend, Erasing, Deleting, Running
<1>13. CASE Succeed(m) BY <1>13 DEF Succeed
<1> QED
  BY <1>1, <1>2, <1>3, <1>4, <1>5, <1>6, <1>7, <1>8, <1>9, <1>10, <1>11, <1>12, <1>13 DEF Work

\* What the steps of machine m may do to the files.
Handled(m) ==
  \/ src' = src /\ dest' = dest
  \/ /\ BeginFile(m) /\ src' = src /\ dest' = [dest EXCEPT ![Export(m)] = "part"]
  \/ /\ EndFile(m) /\ src' = src /\ dest' = [dest EXCEPT ![Export(m)] = "whole"]
  \/ /\ EraseSource(m) \/ (DeleteFile(m) /\ run[m].at <= Length(m))
     /\ Visible(m) /\ src' = src \ {File(m)} /\ dest' = dest
  \/ /\ DeleteFile(m) /\ ~(run[m].at <= Length(m))
     /\ src' = src /\ dest' = [dest EXCEPT ![Export(m)] = "none"]

(* No step of a machine does more to files.                                *)
LEMMA WorkHandles == ASSUME NEW m, Work(m) PROVE Handled(m)
<1>1. CASE Start(m) BY <1>1 DEF Start, Handled, disk
<1>2. CASE Kill(m) BY <1>2 DEF Kill, Handled, disk
<1>3. CASE LaunchCopy(m) BY <1>3 DEF LaunchCopy, Handled, disk
<1>4. CASE YieldToChildren(m) BY <1>4 DEF YieldToChildren, Handled, disk
<1>5. CASE SkipFile(m) BY <1>5 DEF SkipFile, Handled, disk
<1>6. CASE MissFile(m) BY <1>6 DEF MissFile, Handled, disk
<1>7. CASE BeginFile(m)
  <2>1. src' = src /\ dest' = [dest EXCEPT ![Export(m)] = "part"] BY <1>7 DEF BeginFile
  <2> QED BY <1>7, <2>1 DEF Handled
<1>8. CASE EndFile(m)
  <2>1. src' = src /\ dest' = [dest EXCEPT ![Export(m)] = "whole"] BY <1>8 DEF EndFile
  <2> QED BY <1>8, <2>1 DEF Handled
<1>9. CASE LoseFile(m) BY <1>9 DEF LoseFile, Handled, disk
<1>10. CASE EraseSource(m)
  <2>1. dest' = dest /\ (src' = src \/ (Visible(m) /\ src' = src \ {File(m)}))
    BY <1>10 DEF EraseSource
  <2> QED BY <1>10, <2>1 DEF Handled
<1>11. CASE DeleteFile(m)
  <2>2. CASE run[m].at <= Length(m)
    <3>1. dest' = dest /\ (src' = src \/ (Visible(m) /\ src' = src \ {File(m)}))
      BY <1>11, <2>2 DEF DeleteFile
    <3> QED BY <1>11, <2>2, <3>1 DEF Handled
  <2>3. CASE ~(run[m].at <= Length(m))
    <3>1. src' = src /\ dest' = [dest EXCEPT ![Export(m)] = "none"]
      BY <1>11, <2>3 DEF DeleteFile
    <3> QED BY <1>11, <2>3, <3>1 DEF Handled
  <2> QED BY <2>2, <2>3
<1>12. CASE FailRemove(m) BY <1>12 DEF FailRemove, Handled, disk
<1>13. CASE Succeed(m) BY <1>13 DEF Succeed, Handled, disk
<1> QED
  BY <1>1, <1>2, <1>3, <1>4, <1>5, <1>6, <1>7, <1>8, <1>9, <1>10, <1>11, <1>12, <1>13 DEF Work

\* What requests and users may do besides.
Elsewhere ==
  /\ src' = src /\ dest' = dest /\ run' = run
  /\ exports' \in Nat /\ deletes' \in Nat /\ restarts' \in Nat /\ faults' \in Nat
  /\ take' \in [Takes -> Row] /\ released' \subseteq Takes /\ strayed' \subseteq Takes /\ overtaken' \subseteq Takes

(* Requests touch neither files nor machines.                              *)
LEMMA ServeElsewhere ==
  ASSUME IInv, NEW r \in Handlers, Serve(r)
  PROVE  Elsewhere
<1>0. /\ take \in [Takes -> Row] /\ released \subseteq Takes /\ strayed \subseteq Takes /\ overtaken \subseteq Takes
      /\ exports \in Nat /\ deletes \in Nat /\ restarts \in Nat /\ faults \in Nat
  BY DEF IInv, TypeOK
<1>1. exports + 1 \in Nat /\ deletes + 1 \in Nat /\ restarts + 1 \in Nat /\ faults + 1 \in Nat
  BY <1>0
<1>2. req[r].take \in Takes /\ req[r].row \in Row
  BY ReqFacts DEF IInv
<1>3. ASSUME NEW t \in Takes, NEW p \in Paths, SaveExport(r, t, p) PROVE Elsewhere
  <2>1. [take[t] EXCEPT !.path = p] \in Row BY <1>0, TakeRows
  <2>2. take' = [take EXCEPT ![t] = [take[t] EXCEPT !.path = p]] BY <1>3 DEF SaveExport
  <2>3. take' \in [Takes -> Row] BY <1>0, <2>1, <2>2
  <2>4. strayed' \subseteq Takes BY <1>0, <1>3 DEF SaveExport, Strays
  <2> QED BY <1>0, <1>1, <1>3, <2>3, <2>4 DEF SaveExport, Elsewhere, disk
<1>4. CASE SubmitExport(r) BY <1>0, <1>4 DEF SubmitExport, Elsewhere, disk, bounds
<1>5. CASE SubmitThumbnail(r) BY <1>0, <1>5 DEF SubmitThumbnail, Elsewhere, disk, bounds
<1>6. CASE ReleaseThumbnail(r) BY <1>0, <1>6 DEF ReleaseThumbnail, Elsewhere, disk, bounds
<1>7. ASSUME NEW t \in Takes, GatherFiles(r, t) PROVE Elsewhere
  BY <1>0, <1>1, <1>7 DEF GatherFiles, Elsewhere, disk, rows
<1>8. CASE DeleteRows(r)
  <2>1. take' = [take EXCEPT ![req[r].take] = NoRow] BY <1>8 DEF DeleteRows
  <2>2. take' \in [Takes -> Row] BY <1>0, <2>1, TakeRows
  <2>3. overtaken' \subseteq Takes /\ released' \subseteq Takes BY <1>0, <1>2, <1>8 DEF DeleteRows
  <2> QED BY <1>0, <1>8, <2>2, <2>3 DEF DeleteRows, Elsewhere, disk, bounds
<1>9. CASE SubmitDelete(r) BY <1>0, <1>9 DEF SubmitDelete, Elsewhere, disk, bounds
<1>10. ASSUME NEW j \in DOMAIN jobs, ReadUpload(r, j) PROVE Elsewhere
  BY <1>0, <1>10 DEF ReadUpload, Elsewhere, disk, bounds
<1>11. CASE SaveUpload(r)
  <2> DEFINE t == req[r].take
             b == take[t].cameras
             y == [req[r].row EXCEPT !.cameras = b]
  <2>1. b \in BOOLEAN BY <1>0, <1>2 DEF Row
  <2>2. take' = [take EXCEPT ![t] = y] BY <1>11 DEF SaveUpload
  <2> HIDE DEF b
  <2>3. y \in Row BY <1>2, <2>1, TakeRows
  <2> HIDE DEF y
  <2>4. take' \in [Takes -> Row] BY <1>0, <2>2, <2>3
  <2>5. strayed' \subseteq Takes BY <1>0, <1>2, <1>11 DEF SaveUpload, Strays
  <2> QED BY <1>0, <1>11, <2>4, <2>5 DEF SaveUpload, Elsewhere, disk, bounds
<1>12. CASE Crash(r)
  BY <1>0, <1>1, <1>12 DEF Crash, Spend, Elsewhere, disk
<1> QED
  BY <1>3, <1>4, <1>5, <1>6, <1>7, <1>8, <1>9, <1>10, <1>11, <1>12 DEF Serve

\* What users do to the farm.
Order(j) ==
  \/ StartThumbnail(j)
  \/ \E same \in BOOLEAN :
       RestartJob(j, same) \/ CloneJob(j, same) \/ RestartFailedChildren(j, same)

(* Users touch neither files nor machines nor requests.                    *)
LEMMA OrderElsewhere ==
  ASSUME IInv, NEW j \in DOMAIN jobs, Order(j)
  PROVE  Elsewhere /\ req' = req /\ released' = released
<1>0. /\ take \in [Takes -> Row] /\ released \subseteq Takes /\ strayed \subseteq Takes /\ overtaken \subseteq Takes
      /\ exports \in Nat /\ deletes \in Nat /\ restarts \in Nat /\ faults \in Nat
  BY DEF IInv, TypeOK
<1>1. restarts + 1 \in Nat BY <1>0
<1>2. jobs[j].take \in Takes
  <2>1. jobs[j] \in Job BY JobFacts DEF IInv
  <2> QED BY <2>1 DEF Job
<1>3. CASE StartThumbnail(j)
  BY <1>0, <1>3 DEF StartThumbnail, Elsewhere, disk, bounds
<1>4. ASSUME NEW same \in BOOLEAN, RestartJob(j, same)
      PROVE  Elsewhere /\ req' = req /\ released' = released
  <2>1. strayed' \subseteq Takes BY <1>0, <1>2, <1>4 DEF RestartJob
  <2> QED BY <1>0, <1>1, <1>4, <2>1 DEF RestartJob, Elsewhere, disk
<1>5. ASSUME NEW same \in BOOLEAN, CloneJob(j, same)
      PROVE  Elsewhere /\ req' = req /\ released' = released
  <2>1. strayed' \subseteq Takes BY <1>0, <1>2, <1>5 DEF CloneJob
  <2> QED BY <1>0, <1>1, <1>5, <2>1 DEF CloneJob, Elsewhere, disk
<1>6. ASSUME NEW same \in BOOLEAN, RestartFailedChildren(j, same)
      PROVE  Elsewhere /\ req' = req /\ released' = released
  <2>1. strayed' \subseteq Takes BY <1>0, <1>2, <1>6 DEF RestartFailedChildren
  <2> QED BY <1>0, <1>1, <1>6, <2>1 DEF RestartFailedChildren, Elsewhere, disk
<1> QED BY <1>3, <1>4, <1>5, <1>6 DEF Order

-----------------------------------------------------------------------------
(* Files that are written and files that were passed.                      *)

(* The job of a machine that goes on is the same job.                      *)
LEMMA SameTurn ==
  ASSUME IInv, NEW E \in SUBSET DOMAIN jobs, Move(E), NEW n \in Machines,
         run[n] # NoRun, run'[n].job = run[n].job
  PROVE  /\ JobOf(n)'.class = JobOf(n).class /\ JobOf(n)'.take = JobOf(n).take
         /\ JobOf(n)'.path = JobOf(n).path /\ JobOf(n)'.files = JobOf(n).files
         /\ Length(n)' = Length(n)
<1>1. run[n].job \in DOMAIN jobs BY DEF IInv, RunInv
<1>2. Same(jobs[run[n].job], jobs'[run[n].job]) BY <1>1 DEF Move, Kept
<1>3. JobOf(n) = jobs[run[n].job] /\ JobOf(n)' = jobs'[run[n].job] BY DEF JobOf
<1>4. /\ JobOf(n)'.class = JobOf(n).class /\ JobOf(n)'.take = JobOf(n).take
      /\ JobOf(n)'.path = JobOf(n).path /\ JobOf(n)'.files = JobOf(n).files
  BY <1>2, <1>3 DEF Same
<1> QED BY <1>4 DEF Length

(* The types of what a machine works on.                                   *)
LEMMA TurnFacts ==
  ASSUME IInv, NEW m \in Machines, run[m] # NoRun
  PROVE  /\ run[m].at \in Nat /\ JobOf(m).take \in Takes
         /\ JobOf(m).class # "delete" => JobOf(m).path \in Paths
         /\ JobOf(m).class = "delete" => JobOf(m).take \in released
         /\ JobOf(m).files = m => Length(m) \in Nat /\ Length(m) = NumFiles[JobOf(m).take][m]
<1>1. /\ run[m] \in Run /\ JobOf(m) \in Job /\ Argued(run[m].job)
      /\ JobOf(m) = jobs[run[m].job]
  BY RunFacts DEF IInv
<1>2. run[m].at \in Nat BY <1>1 DEF Run
<1>3. JobOf(m).take \in Takes BY <1>1 DEF Job
<1>4. Length(m) = NumFiles[JobOf(m).take][JobOf(m).files] BY DEF Length
<1>5. NumFiles[JobOf(m).take][m] \in Nat BY <1>3, ArchiveAssumption
<1> QED BY <1>1, <1>2, <1>3, <1>4, <1>5 DEF Argued

(* A machine whose files nobody touches.                                   *)
LEMMA Untouched ==
  ASSUME IInv, NEW E \in SUBSET DOMAIN jobs, Move(E), NEW n \in Machines, run'[n] = run[n],
         src' \subseteq src, \A f \in src : f[2] = n => f \in src',
         \A f \in Files, p \in Paths :
           (f[2] = n /\ dest[<<f, p>>] = "whole") => dest'[<<f, p>>] = "whole" \/ f[1] \in released'
  PROVE  Write(n)' /\ Copied(n)'
<1>1. CASE run[n] = NoRun
  <2>1. run'[n] = NoRun BY <1>1
  <2> QED BY <2>1 DEF Write, Copied, Running, NoRun
<1>2. CASE run[n] # NoRun
  <2>1. /\ JobOf(n)'.class = JobOf(n).class /\ JobOf(n)'.take = JobOf(n).take
        /\ JobOf(n)'.path = JobOf(n).path /\ JobOf(n)'.files = JobOf(n).files
        /\ Length(n)' = Length(n)
    BY <1>2, SameTurn
  <2>2. File(n)' = File(n) BY <2>1 DEF File
  <2>3. Write(n) /\ Copied(n) /\ src \subseteq Files BY DEF IInv, FilesInv, TypeOK
  <2>4. Write(n)'
    <3>1. JobOf(n).files = n => File(n)[2] = n BY DEF File
    <3> QED BY <2>1, <2>2, <2>3, <3>1 DEF Write
  <2>5. Copied(n)'
    <3> SUFFICES ASSUME JobOf(n)'.class = "copy", JobOf(n)'.files = n,
                        NEW k \in 1 .. Length(n)', k < run'[n].at,
                        <<JobOf(n)'.take, n, k>> \in src'
                 PROVE  \/ dest'[<<<<JobOf(n)'.take, n, k>>, JobOf(n)'.path>>] = "whole"
                        \/ JobOf(n)'.take \in released'
      BY DEF Copied, Running, JobOf
    <3> DEFINE f == <<JobOf(n).take, n, k>>
    <3>1. f \in src /\ k \in 1 .. Length(n) /\ k < run[n].at BY <2>1
    <3>2. dest[<<f, JobOf(n).path>>] = "whole" \/ JobOf(n).take \in released
      BY <1>2, <2>1, <2>3, <3>1 DEF Copied, Running, JobOf
    <3>3. f \in Files /\ f[1] = JobOf(n).take /\ f[2] = n BY <2>3, <3>1
    <3>4. JobOf(n).path \in Paths BY <1>2, <2>1, TurnFacts
    <3>5. released \subseteq released' BY DEF Move
    <3> QED BY <2>1, <3>2, <3>3, <3>4, <3>5
  <2> QED BY <2>4, <2>5
<1> QED BY <1>1, <1>2

(* A machine that goes on to the next file.                                *)
LEMMA Passed ==
  ASSUME IInv, NEW m \in Machines, run[m] # NoRun, jobs' = jobs, run' = GoOn(m),
         released' = released, src' \subseteq src,
         ASSUME JobOf(m).class = "copy", JobOf(m).files = m, NEW k \in 1 .. Length(m),
                k < run[m].at + 1, <<JobOf(m).take, m, k>> \in src'
         PROVE  \/ dest'[<<<<JobOf(m).take, m, k>>, JobOf(m).path>>] = "whole"
                \/ JobOf(m).take \in released
  PROVE  Write(m)' /\ Copied(m)'
<1>1. run'[m].job = run[m].job /\ run'[m].at = run[m].at + 1 /\ run'[m].phase = "copy"
  BY Advanced DEF IInv
<1>2. JobOf(m)' = JobOf(m) /\ Length(m)' = Length(m) BY <1>1 DEF JobOf, Length
<1>3. Write(m)' BY <1>1 DEF Write
<1>4. Copied(m)'
  <2> SUFFICES ASSUME JobOf(m)'.class = "copy", JobOf(m)'.files = m,
                      NEW k \in 1 .. Length(m)', k < run'[m].at,
                      <<JobOf(m)'.take, m, k>> \in src'
               PROVE  \/ dest'[<<<<JobOf(m)'.take, m, k>>, JobOf(m)'.path>>] = "whole"
                      \/ JobOf(m)'.take \in released'
    BY DEF Copied, Running, JobOf
  <2> QED BY <1>1, <1>2
<1> QED BY <1>3, <1>4

(* Only the machine itself takes another turn.                             *)
LEMMA OtherRuns ==
  ASSUME IInv, NEW m \in Machines, Work(m), NEW n \in Machines \ {m}
  PROVE  run'[n] = run[n]
<1>0. TypeOK /\ run \in [Machines -> Run] BY DEF IInv, TypeOK
<1>1. CASE Start(m) BY <1>0, <1>1 DEF Start
<1>2. CASE \E s : End(m, s) BY <1>0, <1>2 DEF End
<1>3. CASE run' = GoOn(m) BY <1>0, <1>3, Advanced
<1>4. CASE run' = run BY <1>4
<1>5. CASE run' = [run EXCEPT ![m].phase = "write"] BY <1>0, <1>5, Advanced
<1>6. \/ Start(m) \/ (\E s : End(m, s)) \/ run' = GoOn(m) \/ run' = run
      \/ run' = [run EXCEPT ![m].phase = "write"]
  BY DEF Work, Kill, LaunchCopy, YieldToChildren, SkipFile, MissFile, BeginFile, EndFile,
         LoseFile, EraseSource, DeleteFile, FailRemove, Succeed
<1> QED BY <1>1, <1>2, <1>3, <1>4, <1>5, <1>6

(* A machine that copies sees its own files.                               *)
LEMMA VisibleFacts ==
  ASSUME NEW m, Visible(m)
  PROVE  JobOf(m).files = m /\ File(m) \in src /\ File(m)[1] = JobOf(m).take /\ File(m)[2] = m
BY DEF Visible, File

(* What a machine does leaves the files of the others alone.               *)
LEMMA OtherFiles ==
  ASSUME IInv, NEW E \in SUBSET DOMAIN jobs, Move(E), NEW m \in Machines, Work(m),
         NEW n \in Machines, n # m
  PROVE  Write(n)' /\ Copied(n)'
<1>1. run'[n] = run[n] BY OtherRuns
<1>2. Handled(m) BY WorkHandles
<1>3. /\ dest \in [Files \X Paths -> Contents] BY DEF IInv, TypeOK
<1>4. released \subseteq released' BY DEF Move
<1>5. CASE src' = src /\ dest' = dest BY <1>1, <1>5, Untouched
<1>6. CASE BeginFile(m) /\ src' = src /\ dest' = [dest EXCEPT ![Export(m)] = "part"]
  <2>1. File(m)[2] = m BY <1>6, VisibleFacts DEF BeginFile
  <2>2. \A f \in Files, p \in Paths : f[2] = n => dest'[<<f, p>>] = dest[<<f, p>>]
    <3> SUFFICES ASSUME NEW f \in Files, NEW p \in Paths, f[2] = n
                 PROVE  dest'[<<f, p>>] = dest[<<f, p>>]
      OBVIOUS
    <3>1. f # File(m) BY <2>1
    <3>2. <<f, p>> # Export(m) BY <3>1 DEF Export
    <3> QED BY <1>3, <1>6, <3>2
  <2> QED BY <1>1, <1>6, <2>2, Untouched
<1>7. CASE EndFile(m) /\ src' = src /\ dest' = [dest EXCEPT ![Export(m)] = "whole"]
  <2>1. \A f \in Files, p \in Paths : dest[<<f, p>>] = "whole" => dest'[<<f, p>>] = "whole"
    BY <1>3, <1>7
  <2> QED BY <1>1, <1>7, <2>1, Untouched
<1>8. CASE Visible(m) /\ src' = src \ {File(m)} /\ dest' = dest
  <2>1. File(m)[2] = m BY <1>8, VisibleFacts
  <2> QED BY <1>1, <1>8, <2>1, Untouched
<1>9. CASE DeleteFile(m) /\ src' = src /\ dest' = [dest EXCEPT ![Export(m)] = "none"]
  <2>1. run[m] # NoRun /\ JobOf(m).class = "delete"
    BY <1>9 DEF DeleteFile, Deleting, Running, JobOf
  <2>2. JobOf(m).take \in released /\ File(m)[1] = JobOf(m).take
    BY <2>1, TurnFacts DEF File
  <2>3. \A f \in Files, p \in Paths :
          dest'[<<f, p>>] = dest[<<f, p>>] \/ f[1] \in released'
    <3> SUFFICES ASSUME NEW f \in Files, NEW p \in Paths, f[1] \notin released'
                 PROVE  dest'[<<f, p>>] = dest[<<f, p>>]
      OBVIOUS
    <3>1. f # File(m) BY <1>4, <2>2
    <3>2. <<f, p>> # Export(m) BY <3>1 DEF Export
    <3> QED BY <1>3, <1>9, <3>2
  <2> QED BY <1>1, <1>9, <2>3, Untouched
<1> QED BY <1>2, <1>5, <1>6, <1>7, <1>8, <1>9 DEF Handled

(* What a machine does to its own files.                                   *)
LEMMA OwnFiles ==
  ASSUME IInv, NEW E \in SUBSET DOMAIN jobs, Move(E), NEW m \in Machines, Work(m)
  PROVE  Write(m)' /\ Copied(m)'
<1>0. /\ TypeOK /\ Write(m) /\ Copied(m) /\ run \in [Machines -> Run]
      /\ dest \in [Files \X Paths -> Contents]
  BY DEF IInv, FilesInv, TypeOK
<1>1. ASSUME NEW s, End(m, s) PROVE Write(m)' /\ Copied(m)'
  <2>1. run'[m] = NoRun BY <1>0, <1>1 DEF End
  <2> QED BY <2>1 DEF Write, Copied, Running, NoRun
<1>2. CASE Start(m)
  <2>1. run'[m].at = 1 /\ run'[m].phase = "copy" BY <1>0, <1>2 DEF Start
  <2> QED BY <2>1 DEF Write, Copied
<1>3. CASE LaunchCopy(m)
  <2>1. run'[m] = run[m] /\ src' = src /\ dest' = dest BY <1>3 DEF LaunchCopy, disk
  <2> QED BY <2>1, Untouched
<1>4. CASE SkipFile(m)
  <2>1. /\ run[m] # NoRun /\ jobs' = jobs /\ run' = GoOn(m) /\ src' = src /\ dest' = dest
        /\ released' = released /\ ~Visible(m) /\ run[m].at <= Length(m)
        /\ JobOf(m).class = "copy"
    BY <1>4 DEF SkipFile, Copying, Running, JobOf, disk, rows
  <2>2. ASSUME JobOf(m).class = "copy", JobOf(m).files = m, NEW k \in 1 .. Length(m),
               k < run[m].at + 1, <<JobOf(m).take, m, k>> \in src'
        PROVE  \/ dest'[<<<<JobOf(m).take, m, k>>, JobOf(m).path>>] = "whole"
               \/ JobOf(m).take \in released
    <3>1. run[m].at \in Nat /\ Length(m) \in Nat BY <2>1, <2>2, TurnFacts
    <3>2. File(m) = <<JobOf(m).take, m, run[m].at>> BY <2>1, <2>2, <3>1 DEF File
    <3>3. k # run[m].at BY <2>1, <2>2, <3>2 DEF Visible
    <3>4. k < run[m].at BY <2>2, <3>1, <3>3
    <3> QED BY <1>0, <2>1, <2>2, <3>4 DEF Copied, Running, JobOf
  <2> QED BY <2>1, <2>2, Passed
<1>5. CASE BeginFile(m)
  <2>1. /\ run[m] # NoRun /\ jobs' = jobs /\ src' = src /\ Visible(m)
        /\ run[m].at <= Length(m) /\ JobOf(m).class = "copy" /\ released' = released
        /\ run' = [run EXCEPT ![m].phase = "write"] /\ dest' = [dest EXCEPT ![Export(m)] = "part"]
    BY <1>5 DEF BeginFile, Copying, Running, JobOf, disk, rows
  <2>2. run'[m].job = run[m].job /\ run'[m].at = run[m].at /\ run'[m].phase = "write"
    BY <1>0, <2>1, Advanced
  <2>3. JobOf(m)' = JobOf(m) /\ Length(m)' = Length(m) /\ File(m)' = File(m)
    BY <2>1, <2>2 DEF JobOf, Length, File
  <2>4. JobOf(m).files = m /\ File(m) \in src BY <2>1, VisibleFacts
  <2>5. Write(m)' BY <2>1, <2>2, <2>3, <2>4 DEF Write
  <2>6. run[m].at \in Nat /\ Length(m) \in Nat /\ JobOf(m).path \in Paths
    BY <2>1, <2>4, TurnFacts
  <2>7. File(m) = <<JobOf(m).take, m, run[m].at>> BY <2>1, <2>4, <2>6 DEF File
  <2>8. ASSUME NEW k \in 1 .. Length(m), k < run[m].at, <<JobOf(m).take, m, k>> \in src
        PROVE  \/ dest'[<<<<JobOf(m).take, m, k>>, JobOf(m).path>>] = "whole"
               \/ JobOf(m).take \in released
    <3> DEFINE f == <<JobOf(m).take, m, k>>
    <3>1. dest[<<f, JobOf(m).path>>] = "whole" \/ JobOf(m).take \in released
      BY <1>0, <2>1, <2>4, <2>8 DEF Copied, Running, JobOf
    <3>2. k # run[m].at BY <2>6, <2>8
    <3>3. f # File(m) BY <2>7, <3>2
    <3>4. f \in Files BY <2>8 DEF IInv, TypeOK
    <3> HIDE DEF f
    <3>5. <<f, JobOf(m).path>> # Export(m) BY <3>3 DEF Export
    <3>6. dest'[<<f, JobOf(m).path>>] = dest[<<f, JobOf(m).path>>]
      BY <1>0, <2>1, <2>6, <3>4, <3>5
    <3> QED BY <3>1, <3>6 DEF f
  <2>9. Copied(m)'
    <3> SUFFICES ASSUME JobOf(m)'.class = "copy", JobOf(m)'.files = m,
                        NEW k \in 1 .. Length(m)', k < run'[m].at,
                        <<JobOf(m)'.take, m, k>> \in src'
                 PROVE  \/ dest'[<<<<JobOf(m)'.take, m, k>>, JobOf(m)'.path>>] = "whole"
                        \/ JobOf(m)'.take \in released'
      BY DEF Copied, Running, JobOf
    <3> QED BY <2>1, <2>2, <2>3, <2>8
  <2> QED BY <2>5, <2>9
<1>6. CASE EndFile(m)
  <2>1. /\ run[m] # NoRun /\ jobs' = jobs /\ run' = GoOn(m) /\ src' = src
        /\ released' = released /\ run[m].at <= Length(m) /\ run[m].phase = "write"
        /\ dest' = [dest EXCEPT ![Export(m)] = "whole"]
    BY <1>6 DEF EndFile, Copying, Running, JobOf, disk, rows
  <2>2. ASSUME JobOf(m).class = "copy", JobOf(m).files = m, NEW k \in 1 .. Length(m),
               k < run[m].at + 1, <<JobOf(m).take, m, k>> \in src'
        PROVE  \/ dest'[<<<<JobOf(m).take, m, k>>, JobOf(m).path>>] = "whole"
               \/ JobOf(m).take \in released
    <3>1. run[m].at \in Nat /\ Length(m) \in Nat /\ JobOf(m).path \in Paths
      BY <2>1, <2>2, TurnFacts
    <3>2. File(m) = <<JobOf(m).take, m, run[m].at>> BY <2>1, <2>2, <3>1 DEF File
    <3> DEFINE f == <<JobOf(m).take, m, k>>
    <3>3. f \in Files BY <2>1, <2>2 DEF IInv, TypeOK
    <3>4. dest[<<f, JobOf(m).path>>] = "whole" => dest'[<<f, JobOf(m).path>>] = "whole"
      <4> HIDE DEF f
      <4> QED BY <1>0, <2>1, <3>1, <3>3
    <3>5. CASE k = run[m].at
      <4>1. <<f, JobOf(m).path>> = Export(m) BY <3>2, <3>5 DEF Export
      <4> HIDE DEF f
      <4>2. dest'[<<f, JobOf(m).path>>] = "whole" BY <1>0, <2>1, <3>1, <3>3, <4>1
      <4> QED BY <4>2 DEF f
    <3>6. CASE k # run[m].at
      <4>1. k < run[m].at BY <2>2, <3>1, <3>6
      <4> QED BY <1>0, <2>1, <2>2, <3>4, <4>1 DEF Copied, Running, JobOf
    <3> QED BY <3>5, <3>6
  <2> QED BY <2>1, <2>2, Passed
<1>7. CASE (EraseSource(m) \/ FailRemove(m)) /\ Erasing(m)
  <2>1. /\ run[m] # NoRun /\ jobs' = jobs /\ run' = GoOn(m) /\ src' \subseteq src
        /\ released' = released /\ run[m].at \in Length(m) + 1 .. 2 * Length(m) /\ dest' = dest
    BY <1>7 DEF EraseSource, FailRemove, Erasing, Running, JobOf, disk, rows
  <2>2. ASSUME JobOf(m).class = "copy", JobOf(m).files = m, NEW k \in 1 .. Length(m),
               k < run[m].at + 1, <<JobOf(m).take, m, k>> \in src'
        PROVE  \/ dest'[<<<<JobOf(m).take, m, k>>, JobOf(m).path>>] = "whole"
               \/ JobOf(m).take \in released
    <3>1. run[m].at \in Nat /\ Length(m) \in Nat BY <2>1, <2>2, TurnFacts
    <3>2. k < run[m].at BY <2>1, <2>2, <3>1
    <3> QED BY <1>0, <2>1, <2>2, <3>2 DEF Copied, Running, JobOf
  <2> QED BY <2>1, <2>2, Passed
<1>8. CASE (DeleteFile(m) \/ FailRemove(m)) /\ Deleting(m)
  <2>1. /\ run[m] # NoRun /\ jobs' = jobs /\ run' = GoOn(m) /\ released' = released
        /\ JobOf(m).class = "delete"
    BY <1>8 DEF DeleteFile, FailRemove, Deleting, Running, JobOf, disk, rows
  <2>2. src' \subseteq src BY <1>8 DEF DeleteFile, FailRemove, disk
  <2>3. JobOf(m).class # "copy" BY <2>1
  <2> QED BY <2>1, <2>2, <2>3, Passed
<1>9. \/ (\E s : End(m, s)) \/ Start(m) \/ LaunchCopy(m) \/ SkipFile(m) \/ BeginFile(m) \/ EndFile(m)
      \/ (EraseSource(m) \/ FailRemove(m)) /\ Erasing(m)
      \/ (DeleteFile(m) \/ FailRemove(m)) /\ Deleting(m)
  BY DEF Work, Kill, YieldToChildren, MissFile, LoseFile, Succeed, EraseSource, DeleteFile, FailRemove
<1> QED BY <1>1, <1>2, <1>3, <1>4, <1>5, <1>6, <1>7, <1>8, <1>9

(* Every step keeps what is written and what was passed.                   *)
LEMMA NextFiles ==
  ASSUME IInv, NEW E \in SUBSET DOMAIN jobs, Move(E), Next
  PROVE  FilesInv'
<1>1. CASE Elsewhere
  <2>1. src' = src /\ dest' = dest /\ run' = run BY <1>1 DEF Elsewhere
  <2>2. \A n \in Machines : Write(n)' /\ Copied(n)' BY <2>1, Untouched
  <2> QED BY <2>2 DEF FilesInv
<1>2. ASSUME NEW m \in Machines, Work(m) PROVE FilesInv'
  BY <1>2, OwnFiles, OtherFiles DEF FilesInv
<1>3. (\E m \in Machines : Work(m)) \/ Elsewhere
  BY ServeElsewhere, OrderElsewhere DEF Next, Order
<1> QED BY <1>1, <1>2, <1>3

-----------------------------------------------------------------------------
(* The invariant holds.                                                    *)

LEMMA InitInvariant == Init => IInv
<1> SUFFICES ASSUME Init PROVE IInv
  OBVIOUS
<1>1. take \in [Takes -> Row] BY DEF Init, Row
<1>2. src \subseteq Files /\ dest \in [Files \X Paths -> Contents] BY DEF Init, Contents
<1>3. jobs = <<>> /\ jobs \in Seq(Job) /\ DOMAIN jobs = {} BY DEF Init
<1>4. /\ run \in [Machines -> Run] /\ \A m \in Machines : run[m] = NoRun
      /\ \A m \in Machines : run[m].phase = "idle"
  <2>1. NoRun \in Run /\ NoRun.phase = "idle" BY DEF NoRun, Run
  <2>2. run = [m \in Machines |-> NoRun] BY DEF Init
  <2> QED BY <2>1, <2>2
<1>5. req \in [Handlers -> Request] /\ \A r \in Handlers : req[r].at = "" /\ req[r].kind = "none"
  <2>1. req = [r \in Handlers |-> NoReq] BY DEF Init
  <2> QED BY <2>1, NoRequest
<1>6. /\ exports \in Nat /\ deletes \in Nat /\ restarts \in Nat /\ faults \in Nat
      /\ released \subseteq Takes /\ strayed \subseteq Takes /\ overtaken \subseteq Takes
  BY DEF Init
<1>7. TypeOK BY <1>1, <1>2, <1>3, <1>4, <1>5, <1>6 DEF TypeOK
<1>8. JobsInv /\ RunInv BY <1>3, <1>4 DEF JobsInv, RunInv
<1>9. ReqInv BY <1>5 DEF ReqInv
<1>10. FilesInv BY <1>4 DEF FilesInv, Write, Copied, Running
<1> QED BY <1>7, <1>8, <1>9, <1>10 DEF IInv

(* Every step keeps the invariant.                                         *)
LEMMA NextInvariant == IInv /\ [Next]_vars => IInv'
<1> SUFFICES ASSUME IInv, [Next]_vars PROVE IInv'
  OBVIOUS
<1>1. CASE Next
  <2>1. PICK E \in SUBSET DOMAIN jobs : Move(E) BY <1>1, NextMoves
  <2>2. /\ JobsInv' /\ RunInv' /\ jobs' \in Seq(Job)
        /\ \A j \in DOMAIN jobs' : jobs'[j].parent < j /\ jobs'[j].needs < j
        /\ run' \in [Machines -> Run]
        /\ \A m \in Machines : run'[m] # NoRun =>
             JobOf(m)'.status = "running" /\ JobOf(m)'.node = m
    BY <2>1, MoveKeeps
  <2>3. FilesInv' BY <1>1, <2>1, NextFiles
  <2>4. /\ take \in [Takes -> Row] /\ src \subseteq Files /\ dest \in [Files \X Paths -> Contents]
        /\ exports \in Nat /\ deletes \in Nat /\ restarts \in Nat /\ faults \in Nat
        /\ released \subseteq Takes /\ strayed \subseteq Takes /\ overtaken \subseteq Takes
    BY DEF IInv, TypeOK
  <2>5. /\ take' \in [Takes -> Row] /\ src' \subseteq Files /\ dest' \in [Files \X Paths -> Contents]
        /\ exports' \in Nat /\ deletes' \in Nat /\ restarts' \in Nat /\ faults' \in Nat
        /\ released' \subseteq Takes /\ strayed' \subseteq Takes /\ overtaken' \subseteq Takes
        /\ req' \in [Handlers -> Request] /\ ReqInv'
    <3>1. ASSUME NEW m \in Machines, Work(m)
          PROVE  /\ take' \in [Takes -> Row] /\ src' \subseteq Files
                 /\ dest' \in [Files \X Paths -> Contents]
                 /\ exports' \in Nat /\ deletes' \in Nat /\ restarts' \in Nat /\ faults' \in Nat
                 /\ released' \subseteq Takes /\ strayed' \subseteq Takes /\ overtaken' \subseteq Takes
                 /\ req' \in [Handlers -> Request] /\ ReqInv'
      <4>1. Aside(m) /\ Handled(m) BY <3>1, WorkAside, WorkHandles
      <4>2. run[m] # NoRun => JobOf(m).take \in Takes BY TurnFacts
      <4>3. faults + 1 \in Nat BY <2>4
      <4>4. /\ take' \in [Takes -> Row] /\ exports' \in Nat /\ deletes' \in Nat
            /\ restarts' \in Nat /\ faults' \in Nat
            /\ released' \subseteq Takes /\ strayed' \subseteq Takes /\ overtaken' \subseteq Takes
        BY <2>4, <4>1, <4>2, <4>3 DEF Aside
      <4>5. req' \in [Handlers -> Request] /\ ReqInv'
        <5>1. req' = req BY <4>1 DEF Aside
        <5> QED BY <2>1, <5>1, Unanswered
      <4>6. src' \subseteq Files BY <2>4, <4>1 DEF Handled
      <4>7. dest' \in [Files \X Paths -> Contents]
        <5>1. {"none", "part", "whole"} \subseteq Contents BY DEF Contents
        <5>2. dest' = dest \/ \E c \in Contents : dest' = [dest EXCEPT ![Export(m)] = c]
          BY <4>1, <5>1 DEF Handled
        <5> QED BY <2>4, <5>2
      <4> QED BY <4>4, <4>5, <4>6, <4>7
    <3>2. ASSUME Elsewhere
          PROVE  /\ take' \in [Takes -> Row] /\ src' \subseteq Files
                 /\ dest' \in [Files \X Paths -> Contents]
                 /\ exports' \in Nat /\ deletes' \in Nat /\ restarts' \in Nat /\ faults' \in Nat
                 /\ released' \subseteq Takes /\ strayed' \subseteq Takes /\ overtaken' \subseteq Takes
      BY <2>4, <3>2 DEF Elsewhere
    <3>3. ASSUME NEW r \in Handlers, Serve(r)
          PROVE  Elsewhere /\ req' \in [Handlers -> Request] /\ ReqInv'
      BY <3>3, ServeElsewhere, ServedRequests
    <3>4. ASSUME NEW j \in DOMAIN jobs, Order(j)
          PROVE  Elsewhere /\ req' \in [Handlers -> Request] /\ ReqInv'
      <4>1. Elsewhere /\ req' = req BY <3>4, OrderElsewhere
      <4> QED BY <2>1, <4>1, Unanswered
    <3>5. \/ \E m \in Machines : Work(m)
          \/ \E r \in Handlers : Serve(r)
          \/ \E j \in DOMAIN jobs : Order(j)
      BY <1>1 DEF Next, Order
    <3> QED BY <3>1, <3>2, <3>3, <3>4, <3>5
  <2>6. TypeOK' BY <2>2, <2>5 DEF TypeOK
  <2> QED BY <2>2, <2>3, <2>5, <2>6 DEF IInv
<1>2. CASE UNCHANGED vars
  <2>1. /\ take' = take /\ src' = src /\ dest' = dest /\ jobs' = jobs /\ run' = run /\ req' = req
        /\ exports' = exports /\ deletes' = deletes /\ restarts' = restarts /\ faults' = faults
        /\ released' = released /\ strayed' = strayed /\ overtaken' = overtaken
    BY <1>2 DEF vars
  <2>2. TypeOK /\ JobsInv /\ RunInv /\ ReqInv /\ FilesInv BY DEF IInv
  <2>3. TypeOK' BY <2>1, <2>2 DEF TypeOK, JobOf
  <2>4. JobsInv' /\ RunInv' BY <2>1, <2>2 DEF JobsInv, RunInv, Argued, Childless, JobOf
  <2>5. ReqInv' BY <2>1, <2>2 DEF ReqInv
  <2>6. FilesInv'
    BY <2>1, <2>2 DEF FilesInv, Write, Copied, Running, JobOf, Length, File
  <2> QED BY <2>3, <2>4, <2>5, <2>6 DEF IInv
<1> QED BY <1>1, <1>2

(* The invariant of jobs, machines, requests and files (IInv) holds in     *)
(* every reachable state of ArchiveExport, whatever is killed, restarted,  *)
(* cloned, exported again or deleted.                                      *)
THEOREM InvariantHolds == Spec => []IInv
<1>1. Init => IInv BY InitInvariant
<1>2. IInv /\ [Next]_vars => IInv' BY NextInvariant
<1> QED BY <1>1, <1>2, PTL DEF Spec

(* Rows, jobs, machines and requests have the values of their kinds; a     *)
(* machine runs a job that the farm believes to run there (job_client, the *)
(* rows of ava/jobs/models.py).                                            *)
THEOREM TypeCorrect == Spec => []TypeOK
<1>1. IInv => TypeOK BY DEF IInv
<1> QED BY <1>1, InvariantHolds, PTL

-----------------------------------------------------------------------------
(* Custody.                                                                *)

\* Where a file is whole.
WholeAt(f) == (IF f \in src THEN {Local} ELSE {}) \cup {p \in Paths : dest[<<f, p>>] = "whole"}
Located    == [f \in Files |-> WholeAt(f)]
Given      == {f \in Files : f[1] \in released}

(* The steps of FootageCustody in these terms.                             *)
LEMMA CustodyCopy ==
  ASSUME NEW f \in Files, NEW p \in Paths \cup {Local}, WholeAt(f) # {},
         Located' = [Located EXCEPT ![f] = @ \cup {p}], Given' = Given
  PROVE  Custody!Next
<1>1. Located[f] # {} BY DEF Located
<1>2. Custody!Copy(f, p) BY <1>1 DEF Custody!Copy, Located, WholeAt, Given
<1> QED BY <1>2 DEF Custody!Next

(* A file leaves a place.                                                  *)
LEMMA CustodyDrop ==
  ASSUME NEW f \in Files, NEW p \in Paths \cup {Local}, WholeAt(f) \ {p} # {} \/ f[1] \in released,
         Located' = [Located EXCEPT ![f] = @ \ {p}], Given' = Given
  PROVE  Custody!Next
<1>1. Located[f] \ {p} # {} \/ f \in Given BY DEF Located, Given
<1>2. Custody!Drop(f, p) BY <1>1 DEF Custody!Drop, Located, WholeAt, Given
<1> QED BY <1>2 DEF Custody!Next

(* Files are given away.                                                   *)
LEMMA CustodyRelease ==
  ASSUME NEW S \in SUBSET Files, Located' = Located, Given' = Given \cup S
  PROVE  Custody!Next
<1>1. Custody!Release(S) BY DEF Custody!Release, Located, WholeAt, Given
<1> QED BY <1>1 DEF Custody!Next

(* Nothing that FootageCustody sees changes.                               *)
LEMMA CustodyStays ==
  ASSUME Located' = Located, Given' = Given
  PROVE  UNCHANGED Custody!custody
BY DEF Custody!custody, Located, WholeAt, Given

(* One file changes its places.                                            *)
LEMMA Relocated ==
  ASSUME NEW f \in Files, NEW W, WholeAt(f)' = W, \A g \in Files \ {f} : WholeAt(g)' = WholeAt(g)
  PROVE  Located' = [Located EXCEPT ![f] = W]
<1>1. Located' = [g \in Files |-> WholeAt(g)'] BY DEF Located, Files
<1> QED BY <1>1 DEF Located

(* The steps that move no file and delete no take.                         *)
LEMMA StayStep ==
  ASSUME src' = src, dest' = dest, released' = released
  PROVE  UNCHANGED Custody!custody
<1>1. Located' = Located BY DEF Located, WholeAt, Files
<1>2. Given' = Given BY DEF Given, Files
<1> QED BY <1>1, <1>2, CustodyStays

(* The copy of a file at path p becomes c.                                 *)
LEMMA CopyChanged ==
  ASSUME NEW f \in Files, NEW p \in Paths, NEW c \in Contents,
         dest \in [Files \X Paths -> Contents],
         src' = src, dest' = [dest EXCEPT ![<<f, p>>] = c]
  PROVE  /\ c = "whole" => Located' = [Located EXCEPT ![f] = @ \cup {p}]
         /\ c # "whole" => Located' = [Located EXCEPT ![f] = @ \ {p}]
<1>0. p # Local BY LocalAssumption
<1>1. \A g \in Files, q \in Paths : <<g, q>> # <<f, p>> => dest'[<<g, q>>] = dest[<<g, q>>]
  OBVIOUS
<1>2. dest'[<<f, p>>] = c OBVIOUS
<1>3. ASSUME NEW g \in Files \ {f} PROVE WholeAt(g)' = WholeAt(g)
  BY <1>1 DEF WholeAt
<1>4. ASSUME c = "whole" PROVE WholeAt(f)' = WholeAt(f) \cup {p}
  BY <1>1, <1>2, <1>4 DEF WholeAt
<1>5. ASSUME c # "whole" PROVE WholeAt(f)' = WholeAt(f) \ {p}
  BY <1>0, <1>1, <1>2, <1>5 DEF WholeAt
<1>6. Located[f] = WholeAt(f) BY DEF Located
<1>7. Located' = [Located EXCEPT ![f] = WholeAt(f)'] BY <1>3, Relocated
<1> QED BY <1>4, <1>5, <1>6, <1>7

(* A file leaves the disk of its machine.                                  *)
LEMMA SourceErased ==
  ASSUME NEW f \in Files, src' = src \ {f}, dest' = dest
  PROVE  Located' = [Located EXCEPT ![f] = @ \ {Local}]
<1>1. ASSUME NEW g \in Files \ {f} PROVE WholeAt(g)' = WholeAt(g)
  BY DEF WholeAt
<1>2. WholeAt(f)' = WholeAt(f) \ {Local} BY LocalAssumption DEF WholeAt
<1>3. Located[f] = WholeAt(f) BY DEF Located
<1>4. Located' = [Located EXCEPT ![f] = WholeAt(f)'] BY <1>1, Relocated
<1> QED BY <1>2, <1>3, <1>4

(* What the jobs do to files is a copy or a drop.                          *)
LEMMA WorkCustody ==
  ASSUME IInv, NEW m \in Machines, Work(m)
  PROVE  Custody!Next \/ UNCHANGED Custody!custody
<1>0. /\ Write(m) /\ Copied(m) /\ src \subseteq Files /\ dest \in [Files \X Paths -> Contents]
      /\ {"none", "part", "whole"} \subseteq Contents
  BY DEF IInv, FilesInv, TypeOK, Contents
<1>1. Handled(m) /\ released' = released BY WorkHandles, WorkAside DEF Aside
<1>2. Given' = Given BY <1>1 DEF Given, Files
<1>3. CASE src' = src /\ dest' = dest BY <1>1, <1>3, StayStep
<1>4. ASSUME BeginFile(m) \/ EndFile(m)
      PROVE  File(m) \in Files /\ File(m) \in src /\ JobOf(m).path \in Paths
  <2>1. run[m] # NoRun /\ JobOf(m).class = "copy"
    BY <1>4 DEF BeginFile, EndFile, Copying, Running, JobOf
  <2>2. File(m) \in src BY <1>0, <1>4 DEF BeginFile, EndFile, Visible, Write
  <2> QED BY <1>0, <2>1, <2>2, TurnFacts
<1>5. CASE BeginFile(m) /\ src' = src /\ dest' = [dest EXCEPT ![Export(m)] = "part"]
  <2> DEFINE f == File(m)
             p == JobOf(m).path
  <2>1. f \in Files /\ f \in src /\ p \in Paths BY <1>4, <1>5
  <2>2. dest' = [dest EXCEPT ![<<f, p>>] = "part"] BY <1>5 DEF Export
  <2> HIDE DEF f, p
  <2>3. Located' = [Located EXCEPT ![f] = @ \ {p}] BY <1>0, <1>5, <2>1, <2>2, CopyChanged
  <2>4. Local \in WholeAt(f) \ {p} BY <2>1, LocalAssumption DEF WholeAt
  <2> QED BY <1>2, <2>1, <2>3, <2>4, CustodyDrop
<1>6. CASE EndFile(m) /\ src' = src /\ dest' = [dest EXCEPT ![Export(m)] = "whole"]
  <2> DEFINE f == File(m)
             p == JobOf(m).path
  <2>1. f \in Files /\ f \in src /\ p \in Paths BY <1>4, <1>6
  <2>2. dest' = [dest EXCEPT ![<<f, p>>] = "whole"] BY <1>6 DEF Export
  <2> HIDE DEF f, p
  <2>3. Located' = [Located EXCEPT ![f] = @ \cup {p}] BY <1>0, <1>6, <2>1, <2>2, CopyChanged
  <2>4. Local \in WholeAt(f) BY <2>1 DEF WholeAt
  <2> QED BY <1>2, <2>1, <2>3, <2>4, CustodyCopy
<1>7. CASE EraseSource(m) /\ Visible(m) /\ src' = src \ {File(m)} /\ dest' = dest
  <2>1. /\ run[m] # NoRun /\ JobOf(m).class = "copy" /\ run[m].at \in Length(m) + 1 .. 2 * Length(m)
    BY <1>7 DEF EraseSource, Erasing, Running, JobOf
  <2>2. JobOf(m).files = m /\ File(m) \in src BY <1>7, VisibleFacts
  <2>3. run[m].at \in Nat /\ Length(m) \in Nat /\ JobOf(m).path \in Paths
    BY <2>1, <2>2, TurnFacts
  <2> DEFINE k == run[m].at - Length(m)
             f == <<JobOf(m).take, m, k>>
             p == JobOf(m).path
  <2>4. k \in 1 .. Length(m) /\ k < run[m].at /\ run[m].at > Length(m) BY <2>1, <2>3
  <2>5. File(m) = f BY <2>2, <2>4 DEF File
  <2>6. f \in src /\ f \in Files /\ p \in Paths /\ f[1] = JobOf(m).take BY <1>0, <2>2, <2>3, <2>5
  <2>7. dest[<<f, p>>] = "whole" \/ JobOf(m).take \in released
    BY <1>0, <2>1, <2>2, <2>4, <2>6 DEF Copied, Running, JobOf
  <2> HIDE DEF f, p
  <2>8. WholeAt(f) \ {Local} # {} \/ f[1] \in released
    BY <2>6, <2>7, LocalAssumption DEF WholeAt
  <2>9. Located' = [Located EXCEPT ![f] = @ \ {Local}] BY <1>7, <2>5, <2>6, SourceErased
  <2>10. Local \in Paths \cup {Local} OBVIOUS
  <2> QED BY <1>2, <2>6, <2>8, <2>9, <2>10, CustodyDrop
<1>8. CASE DeleteFile(m)
  <2>1. run[m] # NoRun /\ JobOf(m).class = "delete"
    BY <1>8 DEF DeleteFile, Deleting, Running, JobOf
  <2>2. JobOf(m).take \in released /\ File(m)[1] = JobOf(m).take BY <2>1, TurnFacts DEF File
  <2> DEFINE f == File(m)
             p == JobOf(m).path
  <2>3. CASE Visible(m) /\ src' = src \ {f} /\ dest' = dest
    <3>1. f \in Files BY <1>0, <2>3, VisibleFacts
    <3>2. Located' = [Located EXCEPT ![f] = @ \ {Local}] BY <2>3, <3>1, SourceErased
    <3>3. f[1] \in released /\ Local \in Paths \cup {Local} BY <2>2
    <3> HIDE DEF f
    <3> QED BY <1>2, <3>1, <3>2, <3>3, CustodyDrop
  <2>4. CASE src' = src /\ dest' = [dest EXCEPT ![Export(m)] = "none"]
    <3>1. dest' = [dest EXCEPT ![<<f, p>>] = "none"] BY <2>4 DEF Export
    <3>2. f[1] \in released BY <2>2
    <3> HIDE DEF f, p
    <3>3. CASE f \in Files /\ p \in Paths
      <4>1. Located' = [Located EXCEPT ![f] = @ \ {p}]
        BY <1>0, <2>4, <3>1, <3>3, CopyChanged
      <4> QED BY <1>2, <3>2, <3>3, <4>1, CustodyDrop
    <3>4. CASE ~(f \in Files /\ p \in Paths)
      <4>1. dest' = dest BY <1>0, <3>1, <3>4
      <4> QED BY <1>1, <2>4, <4>1, StayStep
    <3> QED BY <3>3, <3>4
  <2>5. \/ src' = src /\ dest' = dest
        \/ Visible(m) /\ src' = src \ {f} /\ dest' = dest
        \/ src' = src /\ dest' = [dest EXCEPT ![Export(m)] = "none"]
    BY <1>8 DEF DeleteFile
  <2> QED BY <1>3, <2>3, <2>4, <2>5
<1> QED BY <1>1, <1>3, <1>5, <1>6, <1>7, <1>8 DEF Handled

(* Only DeleteRows gives files away.                                       *)
LEMMA ServeCustody ==
  ASSUME IInv, NEW r \in Handlers, Serve(r)
  PROVE  Custody!Next \/ UNCHANGED Custody!custody
<1>1. src' = src /\ dest' = dest BY ServeElsewhere DEF Elsewhere
<1>2. CASE released' = released BY <1>1, <1>2, StayStep
<1>3. CASE DeleteRows(r)
  <2> DEFINE S == {f \in Files : f[1] = req[r].take}
  <2>1. released' = released \cup {req[r].take} BY <1>3 DEF DeleteRows
  <2>2. Given' = Given \cup S BY <2>1 DEF Given, Files
  <2>3. Located' = Located BY <1>1 DEF Located, WholeAt, Files
  <2>4. S \in SUBSET Files OBVIOUS
  <2> HIDE DEF S
  <2> QED BY <2>2, <2>3, <2>4, CustodyRelease
<1>4. released' = released \/ DeleteRows(r)
  BY DEF Serve, SaveExport, SubmitExport, SubmitThumbnail, ReleaseThumbnail, GatherFiles,
         SubmitDelete, ReadUpload, SaveUpload, Crash
<1> QED BY <1>2, <1>3, <1>4

(* Every step is a step of FootageCustody, or none that it sees.           *)
LEMMA CustodyStep == IInv /\ [Next]_vars => [Custody!Next]_(Custody!custody)
<1> SUFFICES ASSUME IInv, [Next]_vars PROVE Custody!Next \/ UNCHANGED Custody!custody
  OBVIOUS
<1>1. CASE UNCHANGED vars BY <1>1, StayStep DEF vars
<1>2. ASSUME NEW j \in DOMAIN jobs, Order(j) PROVE UNCHANGED Custody!custody
  BY <1>2, OrderElsewhere, StayStep DEF Elsewhere
<1>3. CASE Next
  BY <1>2, <1>3, WorkCustody, ServeCustody DEF Next, Order
<1> QED BY <1>1, <1>3

(* At first every file is on its machine.                                  *)
LEMMA CustodyInit == Init => Custody!Init
<1> SUFFICES ASSUME Init PROVE Custody!Init
  OBVIOUS
<1>1. Located = [f \in Files |-> {Local}]
  <2>1. \A f \in Files : WholeAt(f) = {Local} BY DEF Init, WholeAt
  <2> QED BY <2>1 DEF Located
<1>2. Given = {} BY DEF Init, Given
<1>3. Local \in Paths \cup {Local} OBVIOUS
<1> QED BY <1>1, <1>2, <1>3 DEF Custody!Init, Located, WholeAt, Given

(* Footage is in custody: ArchiveExport implements FootageCustody.  However*)
(* CopyFiles and DeleteFiles jobs are killed, restarted elsewhere, cloned or*)
(* overlap, a file leaves its last whole place only if its take was deleted*)
(* (archive.py:151-208 deletes sources after all files were copied).       *)
THEOREM FilesStayInCustody == Spec => FootageInCustody
<1>1. Init => Custody!Init BY CustodyInit
<1>2. IInv /\ [Next]_vars => [Custody!Next]_(Custody!custody) BY CustodyStep
<1> QED BY <1>1, <1>2, InvariantHolds, PTL DEF Spec, Custody!Spec, FootageInCustody

-----------------------------------------------------------------------------
(* Deleted files stay gone.                                                *)

\* Requests whose row will name the place of files.
Open == {"job", "thumb", "ready", "upload", "files"}

\* Take t was exported nowhere but to p, or never if p is NoPath: its row, its jobs, its
\* requests and its files know no other place.  The deletion of a take that was never
\* exported finds neither jobs nor exported files.
At(t, p) ==
  /\ take[t].there => take[t].path = p
  /\ \A j \in DOMAIN jobs : jobs[j].take = t => jobs[j].path = p
  /\ \A r \in Handlers : (req[r].take = t /\ req[r].at \in Open) => req[r].row.path = p
  /\ \A f \in Files, q \in Paths : (f[1] = t /\ dest[<<f, q>>] # "none") => q = p
  /\ p = NoPath => \A r \in Handlers : req[r].take = t => req[r].at # "upload"
  /\ (take[t].there /\ p = NoPath) =>
       /\ \A j \in DOMAIN jobs : jobs[j].take # t
       /\ \A r \in Handlers : req[r].take = t => req[r].at # "files"

\* Takes of which nothing is known: their places are many, or a deletion missed one.
Lost == strayed \cup overtaken

Placed == \A t \in Takes \ Lost : \E p \in Paths \cup {NoPath} : At(t, p)

\* Copies and deletions stay on the machines whose files they copy or delete.
Owned == \A j \in DOMAIN jobs :
  (jobs[j].class \in {"copy", "delete"} /\ jobs[j].take \notin strayed) =>
    jobs[j].node = jobs[j].files /\ jobs[j].files \in Machines

\* What the deletion on machine m has passed is gone: on the disk, and in its second
\* round through the list at the path of the deletion.
Progress(m) == (Running(m, "delete") /\ JobOf(m).take \notin strayed) =>
  \A k \in 1 .. Length(m) :
    LET f == <<JobOf(m).take, m, k>>
    IN  /\ k < run[m].at => f \notin src
        /\ (k + Length(m) < run[m].at /\ JobOf(m).path # NoPath) =>
             dest[<<f, JobOf(m).path>>] = "none"

\* Nothing that the list of a deletion names is left once it has succeeded.
Listed == \A j \in DOMAIN jobs : (Done(j) /\ jobs[j].take \notin strayed) =>
  \A f \in FilesOf(j) :
    f \notin src /\ (jobs[j].path # NoPath => dest[<<f, jobs[j].path>>] = "none")

DInv ==
  /\ Placed /\ Owned /\ (\A m \in Machines : Progress(m)) /\ Listed
  /\ overtaken \subseteq released

\* A new row is of a take and a path that a job or an open request names.
Sourced(i) ==
  /\ jobs'[i].class \in {"copy", "delete"} =>
       jobs'[i].node = jobs'[i].files /\ jobs'[i].files \in Machines
  /\ jobs'[i].status \notin {"success", "waiting"}
  /\ \/ \E k \in DOMAIN jobs : jobs[k].take = jobs'[i].take /\ jobs[k].path = jobs'[i].path
     \/ \E r \in Handlers : /\ req[r].take = jobs'[i].take /\ req[r].row.path = jobs'[i].path
                             /\ req[r].at \in {"job", "thumb", "files"}

\* What a step does to copies and deletions: they succeed only on a machine, and keep
\* it if their take has not strayed.
Ordered ==
  /\ \A i \in DOMAIN jobs : jobs[i].class \in {"copy", "delete"} =>
       /\ jobs[i].take \notin strayed' => jobs'[i].node = jobs[i].node
       /\ jobs'[i].status = "success" =>
            jobs[i].status = "success" \/ \E m \in Machines : Succeed(m) /\ run[m].job = i
  /\ \A i \in DOMAIN jobs' \ DOMAIN jobs : jobs'[i].take \notin strayed' => Sourced(i)

(* Rows that keep their machine, and no copy or deletion that succeeds.    *)
LEMMA QuietRows ==
  ASSUME DOMAIN jobs' = DOMAIN jobs,
         \A i \in DOMAIN jobs : jobs[i].class \in {"copy", "delete"} =>
           /\ jobs[i].take \notin strayed' => jobs'[i].node = jobs[i].node
           /\ jobs'[i].status = "success" => jobs[i].status = "success"
  PROVE  Ordered
BY DEF Ordered

(* One new row.                                                            *)
LEMMA OneRow ==
  ASSUME TypeOK, NEW x \in Job, jobs' = Append(jobs, x),
         x.take \notin strayed' => Sourced(Len(jobs) + 1)
  PROVE  Ordered
<1>1. jobs \in Seq(Job) BY DEF TypeOK
<1>2. /\ DOMAIN jobs = 1 .. Len(jobs) /\ DOMAIN jobs' = 1 .. Len(jobs) + 1 /\ Len(jobs) \in Nat
      /\ \A i \in DOMAIN jobs : jobs'[i] = jobs[i]
      /\ jobs'[Len(jobs) + 1] = x
  BY <1>1, Appended
<1>3. DOMAIN jobs' \ DOMAIN jobs = {Len(jobs) + 1} BY <1>2
<1> QED BY <1>2, <1>3 DEF Ordered

(* The row that is appended is the new one.                                *)
LEMMA RowAppended ==
  ASSUME TypeOK, NEW x \in Job, jobs' = Append(jobs, x)
  PROVE  jobs'[Len(jobs) + 1] = x
<1>1. jobs \in Seq(Job) BY DEF TypeOK
<1> QED BY <1>1, Appended

(* A thumbnail changes its status.                                         *)
LEMMA ThumbnailRows ==
  ASSUME TypeOK, NEW j \in DOMAIN jobs, jobs[j].class = "thumb", NEW s \in Statuses,
         jobs' = [jobs EXCEPT ![j].status = s]
  PROVE  Ordered
<1>1. jobs \in Seq(Job) /\ jobs[j] \in Job BY DEF TypeOK
<1> DEFINE y == [jobs[j] EXCEPT !.status = s]
<1>2. y \in Job BY <1>1, Restated
<1>3. jobs' = [jobs EXCEPT ![j] = y] OBVIOUS
<1> HIDE DEF y
<1>4. DOMAIN jobs' = DOMAIN jobs /\ \A i \in DOMAIN jobs \ {j} : jobs'[i] = jobs[i]
  BY <1>1, <1>2, <1>3, Replaced
<1> QED BY <1>4, QuietRows

(* A machine's job ends: a copy or a deletion succeeds only so.            *)
LEMMA EndedRows ==
  ASSUME TypeOK, JobsInv, RunInv, NEW m \in Machines, run[m] # NoRun,
         NEW s \in {"failed", "success", "waiting"}, End(m, s),
         (s = "success" /\ JobOf(m).class \in {"copy", "delete"}) => Succeed(m)
  PROVE  Ordered
<1> DEFINE j == run[m].job
<1>1. /\ j \in DOMAIN jobs /\ jobs[j].parent < j /\ jobs \in Seq(Job) /\ Argued(j)
      /\ JobOf(m) = jobs[j] /\ jobs[j].status = "running"
  BY RunFacts, JobFacts
<1>2. jobs' = Settle(jobs, j, s) BY DEF End
<1>3. s \in Statuses \ {"ready", "deleted"} BY DEF Statuses
<1>4. /\ DOMAIN jobs' = DOMAIN jobs
      /\ \A i \in DOMAIN jobs : /\ jobs'[i].node = jobs[i].node
                                /\ i = j \/ jobs'[i] = jobs[i] \/ (i = jobs[j].parent /\ i # 0)
      /\ jobs'[j].status = s
  <2> HIDE DEF j
  <2>1. DOMAIN jobs' = DOMAIN jobs /\ Closed(jobs, jobs', j, s) BY <1>1, <1>2, <1>3, Settled
  <2> QED BY <2>1 DEF Closed
<1>5. jobs[j].parent # 0 => jobs[jobs[j].parent].class = "export" BY <1>1 DEF Argued
<1>6. ASSUME NEW i \in DOMAIN jobs, jobs[i].class \in {"copy", "delete"}, jobs'[i].status = "success"
      PROVE  jobs[i].status = "success" \/ (Succeed(m) /\ j = i)
  <2>1. CASE i = j BY <1>1, <1>4, <1>6, <2>1
  <2>2. CASE i # j
    <3>1. jobs'[i] = jobs[i] BY <1>4, <1>5, <1>6, <2>2
    <3> QED BY <1>6, <3>1
  <2> QED BY <2>1, <2>2
<1> QED BY <1>4, <1>6 DEF Ordered

(* A machine gets a job: a copy or a deletion only on its machine.         *)
LEMMA StartRows ==
  ASSUME TypeOK, JobsInv, Owned, NEW m \in Machines, Start(m)
  PROVE  Ordered
<1>1. PICK j \in DOMAIN jobs :
        /\ jobs[j].node \in {m, NoMachine}
        /\ jobs' = [DeleteChildren(jobs, j) EXCEPT ![j].status = "running", ![j].node = m]
  BY DEF Start
<1>2. strayed' = strayed BY DEF Start
<1>3. jobs \in Seq(Job) /\ jobs[j] \in Job BY JobFacts
<1> DEFINE ks == DeleteChildren(jobs, j)
<1>4. /\ ks \in Seq(Job) /\ DOMAIN ks = DOMAIN jobs
      /\ \A i \in DOMAIN jobs : ks[i].node = jobs[i].node /\ (ks[i] = jobs[i] \/ ks[i].status = "deleted")
  BY <1>3, ChildrenDeleted
<1>5. jobs' = [ks EXCEPT ![j].status = "running", ![j].node = m] BY <1>1
<1> HIDE DEF ks
<1> DEFINE y == [ks[j] EXCEPT !.status = "running", !.node = m]
<1>6. ks[j] \in Job /\ "running" \in Statuses BY <1>4 DEF Statuses
<1>7. y \in Job /\ y.status = "running" /\ y.node = m BY <1>6 DEF Job
<1>8. jobs' = [ks EXCEPT ![j] = y] BY <1>4, <1>5
<1> HIDE DEF y
<1>9. /\ DOMAIN jobs' = DOMAIN jobs /\ jobs'[j] = y
      /\ \A i \in DOMAIN jobs \ {j} : jobs'[i] = ks[i]
  BY <1>4, <1>7, <1>8, Replaced
<1>10. (jobs[j].class \in {"copy", "delete"} /\ jobs[j].take \notin strayed) => jobs[j].node = m
  BY <1>1, ArchiveAssumption DEF Owned
<1> QED BY <1>2, <1>4, <1>7, <1>9, <1>10, QuietRows

(* An export launches a copy.                                              *)
LEMMA LaunchRows ==
  ASSUME TypeOK, JobsInv, RunInv, NEW m \in Machines, LaunchCopy(m)
  PROVE  Ordered
<1> DEFINE j == run[m].job
           z == NewJob("copy", "ready", JobOf(m).take, JobOf(m).path)
<1>1. PICK s \in Machines :
        jobs' = Append(jobs, [z EXCEPT !.files = s, !.node = s, !.parent = j])
  BY DEF LaunchCopy, Unlaunched, Recorders
<1>2. j \in DOMAIN jobs /\ JobOf(m) = jobs[j] /\ JobOf(m) \in Job /\ j \in Nat
  BY RunFacts, JobFacts DEF LaunchCopy, Running
<1>3. JobOf(m).take \in Takes /\ JobOf(m).path \in Paths \cup {NoPath} BY <1>2 DEF Job
<1>4. /\ z \in Job /\ z.class = "copy" /\ z.take = JobOf(m).take /\ z.path = JobOf(m).path
      /\ z.status = "ready"
  <2>1. "ready" \in Statuses /\ z.status = "ready" BY DEF Statuses, NewJob
  <2> HIDE DEF z
  <2> QED BY <1>3, <2>1, NewRow DEF z
<1> HIDE DEF z
<1> DEFINE x == [z EXCEPT !.files = s, !.node = s, !.parent = j]
<1>5. /\ x \in Job /\ x.class = z.class /\ x.take = z.take /\ x.path = z.path
      /\ x.files = s /\ x.node = s /\ x.status = z.status
  <2> HIDE DEF j
  <2> QED BY <1>2, <1>4, s \in Machines DEF Job
<1>6. jobs' = Append(jobs, x) BY <1>1
<1> HIDE DEF x, j
<1>7. jobs'[Len(jobs) + 1] = x BY <1>5, <1>6, RowAppended
<1>8. Sourced(Len(jobs) + 1) BY <1>2, <1>4, <1>5, <1>7, s \in Machines DEF Sourced
<1> QED BY <1>5, <1>6, <1>8, OneRow

(* A machine's step.                                                       *)
LEMMA WorkRows ==
  ASSUME TypeOK, JobsInv, RunInv, Owned, NEW m \in Machines, Work(m)
  PROVE  Ordered
<1>0. jobs' = jobs => Ordered BY QuietRows
<1>1. CASE Start(m) BY <1>1, StartRows
<1>2. CASE Kill(m) BY <1>2, EndedRows DEF Kill
<1>3. CASE LaunchCopy(m) BY <1>3, LaunchRows
<1>4. CASE YieldToChildren(m)
  <2>1. run[m] # NoRun BY <1>4 DEF YieldToChildren, Running
  <2>2. PICK s \in {"failed", "waiting"} : End(m, s) BY <1>4 DEF YieldToChildren
  <2> QED BY <2>1, <2>2, EndedRows
<1>5. CASE SkipFile(m) BY <1>0, <1>5 DEF SkipFile, rows
<1>6. CASE MissFile(m) BY <1>6, EndedRows DEF MissFile, Copying, Running
<1>7. CASE BeginFile(m) BY <1>0, <1>7 DEF BeginFile, rows
<1>8. CASE EndFile(m) BY <1>0, <1>8 DEF EndFile, rows
<1>9. CASE LoseFile(m) BY <1>9, EndedRows DEF LoseFile, Copying, Running
<1>10. CASE EraseSource(m) BY <1>0, <1>10 DEF EraseSource, rows
<1>11. CASE DeleteFile(m) BY <1>0, <1>11 DEF DeleteFile, rows
<1>12. CASE FailRemove(m) BY <1>0, <1>12 DEF FailRemove, rows
<1>13. CASE Succeed(m)
  <2>1. run[m] # NoRun /\ End(m, "success") BY <1>13 DEF Succeed, Running
  <2> QED BY <1>13, <2>1, EndedRows
<1> QED
  BY <1>1, <1>2, <1>3, <1>4, <1>5, <1>6, <1>7, <1>8, <1>9, <1>10, <1>11, <1>12, <1>13 DEF Work

(* A user starts a job again: on its machine, or its take strays.          *)
LEMMA RestartRows ==
  ASSUME TypeOK, JobsInv, NEW j \in DOMAIN jobs, NEW same \in BOOLEAN, RestartJob(j, same)
  PROVE  Ordered
<1> DEFINE ks == DeleteChildren(jobs, j)
<1>1. /\ jobs' = Again(ks, {j}, same)
      /\ strayed' = IF same \/ jobs[j].class \in {"export", "thumb"} THEN strayed
                    ELSE strayed \cup {jobs[j].take}
  BY DEF RestartJob
<1>2. jobs \in Seq(Job) BY JobFacts
<1>3. /\ ks \in Seq(Job) /\ DOMAIN ks = DOMAIN jobs
      /\ \A i \in DOMAIN jobs :
           ks[i].node = jobs[i].node /\ (ks[i] = jobs[i] \/ ks[i].status = "deleted")
  BY <1>2, ChildrenDeleted
<1> HIDE DEF ks
<1>4. /\ DOMAIN jobs' = DOMAIN jobs
      /\ \A i \in DOMAIN jobs : /\ i = j => jobs'[i].status = "ready"
                                /\ i # j => jobs'[i] = ks[i]
  <2>1. \A i \in DOMAIN ks : (i \in {j} => jobs'[i].status = "ready") /\ (i \notin {j} => jobs'[i] = ks[i])
    BY <1>1, <1>3, StartedAgain
  <2>2. DOMAIN jobs' = DOMAIN ks BY <1>1, <1>3, StartedAgain
  <2> QED BY <1>3, <2>1, <2>2
<1>5. same => jobs'[j].node = ks[j].node
  <2>1. jobs' = [i \in DOMAIN ks |-> IF i \in {j} THEN
                    [ks[i] EXCEPT !.status = "ready", !.node = IF same THEN @ ELSE NoMachine]
                    ELSE ks[i]]
    BY <1>1 DEF Again
  <2>2. ks[j] \in Job /\ j \in DOMAIN ks BY <1>3
  <2>3. same => jobs'[j] = [ks[j] EXCEPT !.status = "ready", !.node = ks[j].node] BY <2>1, <2>2
  <2>4. ks[j].node \in Machines \cup {NoMachine} /\ "ready" \in Statuses BY <2>2 DEF Job, Statuses
  <2>5. [ks[j] EXCEPT !.status = "ready", !.node = ks[j].node].node = ks[j].node
    BY <2>2, <2>4 DEF Job
  <2> QED BY <2>3, <2>5
<1>6. (jobs[j].class \in {"copy", "delete"} /\ jobs[j].take \notin strayed') => same BY <1>1
<1> QED BY <1>3, <1>4, <1>5, <1>6, QuietRows

(* A user starts the failed children of a job again: copies of its take, on*)
(* their machines, or the take strays.                                     *)
LEMMA RestartFailedRows ==
  ASSUME TypeOK, JobsInv, NEW j \in DOMAIN jobs, NEW same \in BOOLEAN,
         RestartFailedChildren(j, same)
  PROVE  Ordered
<1> DEFINE failed == {c \in Children(jobs, j) : jobs[c].status = "failed"}
           ks == Again(jobs, failed, same)
<1>1. /\ jobs' = [ks EXCEPT ![j].status = "waiting"] /\ failed # {}
      /\ same \/ jobs[j].take \in strayed'
  BY DEF RestartFailedChildren
<1>2. jobs \in Seq(Job) /\ jobs[j] \in Job /\ j \in Nat \ {0} BY JobFacts
<1>3. \A i \in failed : i \in DOMAIN jobs /\ jobs[i].parent = j BY DEF Children
<1>4. /\ \A i \in failed : jobs[i].class = "copy" /\ jobs[i].take = jobs[j].take
      /\ jobs[j].class = "export"
  BY <1>1, <1>2, <1>3 DEF JobsInv, Argued
<1> HIDE DEF failed
<1>5. /\ ks \in Seq(Job) /\ DOMAIN ks = DOMAIN jobs
      /\ \A i \in DOMAIN jobs : /\ i \in failed => ks[i].status = "ready"
                                /\ i \notin failed => ks[i] = jobs[i]
  BY <1>2, StartedAgain
<1>6. ASSUME same, NEW i \in failed PROVE ks[i].node = jobs[i].node
  <2>1. jobs[i] \in Job /\ i \in DOMAIN jobs BY <1>2, <1>3
  <2>2. ks[i] = [jobs[i] EXCEPT !.status = "ready", !.node = jobs[i].node]
    BY <1>6, <2>1 DEF Again
  <2>3. jobs[i].node \in Machines \cup {NoMachine} /\ "ready" \in Statuses
    BY <2>1 DEF Job, Statuses
  <2>4. [jobs[i] EXCEPT !.status = "ready", !.node = jobs[i].node].node = jobs[i].node
    BY <2>1, <2>3 DEF Job
  <2> QED BY <2>2, <2>4
<1> HIDE DEF ks
<1> DEFINE y == [ks[j] EXCEPT !.status = "waiting"]
<1>7. y \in Job
  <2>1. ks[j] \in Job /\ "waiting" \in Statuses BY <1>5 DEF Statuses
  <2> QED BY <2>1, Restated
<1>8. jobs' = [ks EXCEPT ![j] = y] BY <1>1
<1> HIDE DEF y
<1>9. DOMAIN jobs' = DOMAIN jobs /\ \A i \in DOMAIN jobs \ {j} : jobs'[i] = ks[i]
  BY <1>5, <1>7, <1>8, Replaced
<1> QED BY <1>1, <1>4, <1>5, <1>6, <1>9, QuietRows

(* A user clones a job: for its machine, or its take strays.               *)
LEMMA CloneRows ==
  ASSUME TypeOK, JobsInv, Owned, NEW j \in DOMAIN jobs, NEW same \in BOOLEAN, CloneJob(j, same)
  PROVE  Ordered
<1> DEFINE n == IF same THEN jobs[j].node ELSE NoMachine
           x == [jobs[j] EXCEPT !.status = "ready", !.parent = 0, !.needs = 0, !.node = n]
<1>1. /\ jobs' = Append(jobs, x)
      /\ strayed' = IF same \/ jobs[j].class \in {"export", "thumb"} THEN strayed
                    ELSE strayed \cup {jobs[j].take}
  BY DEF CloneJob
<1>2. jobs[j] \in Job BY JobFacts
<1>3. n \in Machines \cup {NoMachine} /\ (same => n = jobs[j].node) BY <1>2 DEF Job
<1> HIDE DEF n
<1>4. /\ x \in Job /\ x.class = jobs[j].class /\ x.take = jobs[j].take /\ x.path = jobs[j].path
      /\ x.files = jobs[j].files /\ x.node = n /\ x.status = "ready"
  BY <1>2, <1>3 DEF Job, Statuses
<1> HIDE DEF x
<1>5. jobs'[Len(jobs) + 1] = x BY <1>1, <1>4, RowAppended
<1>6. (jobs[j].class \in {"copy", "delete"} /\ jobs[j].take \notin strayed') =>
        same /\ jobs[j].node = jobs[j].files /\ jobs[j].files \in Machines
  BY <1>1 DEF Owned
<1>7. x.take \notin strayed' => Sourced(Len(jobs) + 1)
  BY <1>3, <1>4, <1>5, <1>6 DEF Sourced
<1> QED BY <1>1, <1>4, <1>7, OneRow

(* A request makes an export of its take, to its path.                     *)
LEMMA ExportRows ==
  ASSUME TypeOK, NEW r \in Handlers, SubmitExport(r)
  PROVE  Ordered
<1> DEFINE t == req[r].take
           z == NewJob("export", "ready", t, req[r].row.path)
           x == [z EXCEPT !.cameras = take[t].cameras]
<1>1. req[r].at = "job" /\ (jobs' = jobs \/ jobs' = Append(jobs, x)) BY DEF SubmitExport
<1>2. t \in Takes /\ req[r].row.path \in Paths \cup {NoPath} /\ take[t].cameras \in BOOLEAN
  BY ReqFacts DEF TypeOK, Row
<1>3. /\ z \in Job /\ z.class = "export" /\ z.take = t /\ z.path = req[r].row.path
      /\ z.status = "ready"
  <2>1. "ready" \in Statuses /\ z.status = "ready" BY DEF Statuses, NewJob
  <2> HIDE DEF t, z
  <2> QED BY <1>2, <2>1, NewRow DEF z
<1> HIDE DEF z
<1>4. /\ x \in Job /\ x.class = z.class /\ x.take = z.take /\ x.path = z.path
      /\ x.status = z.status
  BY <1>2, <1>3 DEF Job
<1> HIDE DEF x
<1>5. CASE jobs' = Append(jobs, x)
  <2>1. jobs'[Len(jobs) + 1] = x BY <1>4, <1>5, RowAppended
  <2>2. Sourced(Len(jobs) + 1) BY <1>1, <1>3, <1>4, <2>1 DEF Sourced
  <2> QED BY <1>4, <1>5, <2>2, OneRow
<1> QED BY <1>1, <1>5, QuietRows

(* A request makes a thumbnail of its take, at its path.                   *)
LEMMA ThumbnailMadeRows ==
  ASSUME TypeOK, NEW r \in Handlers, SubmitThumbnail(r)
  PROVE  Ordered
<1> DEFINE t == req[r].take
           z == NewJob("thumb", "created", t, req[r].row.path)
           x == [z EXCEPT !.needs = req[r].job]
<1>1. req[r].at = "thumb" /\ (jobs' = jobs \/ jobs' = Append(jobs, x)) BY DEF SubmitThumbnail
<1>2. t \in Takes /\ req[r].row.path \in Paths \cup {NoPath} /\ req[r].job \in Nat
  BY ReqFacts
<1>3. /\ z \in Job /\ z.class = "thumb" /\ z.take = t /\ z.path = req[r].row.path
      /\ z.status = "created"
  <2>1. "created" \in Statuses /\ z.status = "created" BY DEF Statuses, NewJob
  <2> HIDE DEF t, z
  <2> QED BY <1>2, <2>1, NewRow DEF z
<1> HIDE DEF z
<1>4. /\ x \in Job /\ x.class = z.class /\ x.take = z.take /\ x.path = z.path
      /\ x.status = z.status
  BY <1>2, <1>3 DEF Job
<1> HIDE DEF x
<1>5. CASE jobs' = Append(jobs, x)
  <2>1. jobs'[Len(jobs) + 1] = x BY <1>4, <1>5, RowAppended
  <2>2. Sourced(Len(jobs) + 1) BY <1>1, <1>3, <1>4, <2>1 DEF Sourced
  <2> QED BY <1>4, <1>5, <2>2, OneRow
<1> QED BY <1>1, <1>5, QuietRows

(* A request makes a deletion of its take, at its path, for one machine.   *)
LEMMA DeleteMadeRows ==
  ASSUME TypeOK, NEW r \in Handlers, SubmitDelete(r)
  PROVE  Ordered
<1> DEFINE t == req[r].take
           z == NewJob("delete", "ready", t, req[r].row.path)
<1>1. CASE req[r].left = {}
  BY <1>1, QuietRows DEF SubmitDelete
<1>2. CASE req[r].left # {}
  <2>1. req[r].at = "files" /\ req[r].left \subseteq Machines
    <3>1. req[r] \in Request BY ReqFacts
    <3> QED BY <3>1 DEF SubmitDelete, Request
  <2>2. PICK m \in Machines : jobs' = Append(jobs, [z EXCEPT !.files = m, !.node = m])
    BY <1>2, <2>1 DEF SubmitDelete
  <2> DEFINE x == [z EXCEPT !.files = m, !.node = m]
  <2>3. jobs' = Append(jobs, x) BY <2>2
  <2>4. t \in Takes /\ req[r].row.path \in Paths \cup {NoPath} BY ReqFacts
  <2>5. /\ z \in Job /\ z.class = "delete" /\ z.take = t /\ z.path = req[r].row.path
        /\ z.status = "ready"
    <3>1. "ready" \in Statuses /\ z.status = "ready" BY DEF Statuses, NewJob
    <3> HIDE DEF t, z
    <3> QED BY <2>4, <3>1, NewRow DEF z
  <2> HIDE DEF z
  <2>6. /\ x \in Job /\ x.class = z.class /\ x.take = z.take /\ x.path = z.path
        /\ x.files = m /\ x.node = m /\ x.status = z.status
    BY <2>5, m \in Machines DEF Job
  <2> HIDE DEF x
  <2>7. jobs'[Len(jobs) + 1] = x BY <2>3, <2>6, RowAppended
  <2>8. Sourced(Len(jobs) + 1) BY <2>1, <2>5, <2>6, <2>7 DEF Sourced
  <2> QED BY <2>3, <2>6, <2>8, OneRow
<1> QED BY <1>1, <1>2

(* Every step orders the copies and the deletions.                         *)
LEMMA NextRows ==
  ASSUME IInv, Owned, Next
  PROVE  Ordered
<1>0. TypeOK /\ JobsInv /\ RunInv /\ ReqInv BY DEF IInv
<1>1. ASSUME NEW m \in Machines, Work(m) PROVE Ordered BY <1>0, <1>1, WorkRows
<1>2. jobs' = jobs => Ordered BY QuietRows
<1>3. {"ready", "running", "success", "failed"} \subseteq Statuses BY DEF Statuses
<1>4. ASSUME NEW j \in DOMAIN jobs, jobs[j].class = "thumb",
             NEW s \in {"ready", "running", "success", "failed"},
             jobs' = [jobs EXCEPT ![j].status = s]
      PROVE  Ordered
  BY <1>0, <1>3, <1>4, ThumbnailRows
<1>5. ASSUME NEW r \in Handlers, Serve(r) PROVE Ordered
  <2>1. CASE SubmitExport(r) BY <1>0, <2>1, ExportRows
  <2>2. CASE SubmitThumbnail(r) BY <1>0, <2>2, ThumbnailMadeRows
  <2>3. CASE SubmitDelete(r) BY <1>0, <2>3, DeleteMadeRows
  <2>4. ASSUME NEW j \in DOMAIN jobs, ReadUpload(r, j) PROVE Ordered
    <3>1. jobs[j].class = "thumb" /\ (jobs' = jobs \/ jobs' = [jobs EXCEPT ![j].status = "failed"])
      BY <2>4 DEF ReadUpload
    <3> QED BY <1>2, <1>4, <3>1
  <2>5. ASSUME ReleaseThumbnail(r) \/ SaveUpload(r) \/ Crash(r) PROVE Ordered
    <3> DEFINE j == req[r].thumb
    <3>1. \/ jobs' = jobs
          \/ /\ req[r].at \in {"ready", "upload"}
             /\ \E s \in {"ready", "success", "failed"} : jobs' = [jobs EXCEPT ![j].status = s]
      BY <1>0, <2>5 DEF ReleaseThumbnail, SaveUpload, Crash, ReqInv
    <3>2. CASE jobs' = jobs BY <1>2, <3>2
    <3>3. ASSUME req[r].at \in {"ready", "upload"}, NEW s \in {"ready", "success", "failed"},
                 jobs' = [jobs EXCEPT ![j].status = s]
          PROVE  Ordered
      <4>1. j \in DOMAIN jobs /\ jobs[j].class = "thumb" BY <1>0, <3>3 DEF ReqInv
      <4> HIDE DEF j
      <4> QED BY <1>4, <3>3, <4>1
    <3> QED BY <3>1, <3>2, <3>3
  <2>6. CASE \/ \E t \in Takes, p \in Paths : SaveExport(r, t, p)
             \/ \E t \in Takes : GatherFiles(r, t)
             \/ DeleteRows(r)
    BY <1>2, <2>6 DEF SaveExport, GatherFiles, DeleteRows, rows
  <2> QED BY <1>5, <2>1, <2>2, <2>3, <2>4, <2>5, <2>6 DEF Serve
<1>6. ASSUME NEW j \in DOMAIN jobs, Order(j) PROVE Ordered
  <2>1. CASE StartThumbnail(j) BY <1>4, <2>1 DEF StartThumbnail
  <2>2. ASSUME NEW same \in BOOLEAN,
               RestartJob(j, same) \/ CloneJob(j, same) \/ RestartFailedChildren(j, same)
        PROVE  Ordered
    BY <1>0, <2>2, RestartRows, CloneRows, RestartFailedRows
  <2> QED BY <1>6, <2>1, <2>2 DEF Order
<1> QED BY <1>1, <1>5, <1>6 DEF Next, Order

(* Takes stray for good.                                                   *)
LEMMA StrayedStays ==
  ASSUME Next
  PROVE  strayed \subseteq strayed' /\ overtaken \subseteq overtaken' /\ Lost \subseteq Lost'
<1> SUFFICES strayed \subseteq strayed' /\ overtaken \subseteq overtaken' BY DEF Lost
<1>1. ASSUME NEW m \in Machines, Work(m)
      PROVE  strayed \subseteq strayed' /\ overtaken \subseteq overtaken'
  BY <1>1, WorkAside DEF Aside
<1>2. ASSUME NEW r \in Handlers, Serve(r)
      PROVE  strayed \subseteq strayed' /\ overtaken \subseteq overtaken'
  BY <1>2 DEF Serve, SaveExport, SubmitExport, SubmitThumbnail, ReleaseThumbnail, GatherFiles,
              DeleteRows, SubmitDelete, ReadUpload, SaveUpload, Crash, Strays
<1>3. ASSUME NEW j \in DOMAIN jobs, Order(j)
      PROVE  strayed \subseteq strayed' /\ overtaken \subseteq overtaken'
  BY <1>3 DEF Order, StartThumbnail, RestartJob, CloneJob, RestartFailedChildren
<1> QED BY <1>1, <1>2, <1>3 DEF Next, Order

(* Copies and deletions stay on the machines of their files.               *)
LEMMA OwnedStays ==
  ASSUME IInv, Owned, Next
  PROVE  Owned'
<1>1. Ordered /\ strayed \subseteq strayed' BY NextRows, StrayedStays
<1>2. DOMAIN jobs \subseteq DOMAIN jobs' /\ \A i \in DOMAIN jobs : Same(jobs[i], jobs'[i])
  BY NextMoves DEF Move, Kept
<1> SUFFICES ASSUME NEW j \in DOMAIN jobs', jobs'[j].class \in {"copy", "delete"},
                    jobs'[j].take \notin strayed'
             PROVE  jobs'[j].node = jobs'[j].files /\ jobs'[j].files \in Machines
  BY DEF Owned
<1>3. CASE j \in DOMAIN jobs
  <2>1. Same(jobs[j], jobs'[j]) BY <1>2, <1>3
  <2>2. /\ jobs[j].class \in {"copy", "delete"} /\ jobs[j].take \notin strayed'
        /\ jobs'[j].files = jobs[j].files
    BY <2>1 DEF Same
  <2>3. jobs'[j].node = jobs[j].node BY <1>1, <1>3, <2>2 DEF Ordered
  <2> QED BY <1>1, <1>3, <2>2, <2>3 DEF Owned
<1>4. CASE j \notin DOMAIN jobs
  BY <1>1, <1>4 DEF Ordered, Sourced
<1> QED BY <1>3, <1>4

(* What a step may do to the files: it copies those that are on their      *)
(* machine, and moves no file back.                                        *)
LEMMA NothingReturns ==
  ASSUME IInv, Next
  PROVE  /\ src' \subseteq src
         /\ \A f \in Files, p \in Paths : dest'[<<f, p>>] = "none" \/ dest'[<<f, p>>] = dest[<<f, p>>]
              \/ (f \in src /\ \E j \in DOMAIN jobs : jobs[j].take = f[1] /\ jobs[j].path = p)
<1>0. dest \in [Files \X Paths -> Contents] /\ src \subseteq Files BY DEF IInv, TypeOK
<1>1. CASE src' = src /\ dest' = dest BY <1>1
<1>2. ASSUME NEW m \in Machines, Work(m), ~(src' = src /\ dest' = dest)
      PROVE  /\ src' \subseteq src
             /\ \A f \in Files, p \in Paths :
                  \/ dest'[<<f, p>>] = "none" \/ dest'[<<f, p>>] = dest[<<f, p>>]
                  \/ f \in src /\ \E j \in DOMAIN jobs : jobs[j].take = f[1] /\ jobs[j].path = p
  <2>1. Handled(m) BY <1>2, WorkHandles
  <2>2. CASE dest' = dest /\ src' = src \ {File(m)} BY <2>2
  <2>3. CASE src' = src /\ dest' = [dest EXCEPT ![Export(m)] = "none"] BY <1>0, <2>3
  <2>4. ASSUME BeginFile(m) \/ EndFile(m), src' = src,
               NEW c \in Contents, dest' = [dest EXCEPT ![Export(m)] = c]
        PROVE  \A f \in Files, p \in Paths : dest'[<<f, p>>] = dest[<<f, p>>]
                  \/ (f \in src /\ \E j \in DOMAIN jobs : jobs[j].take = f[1] /\ jobs[j].path = p)
    <3>1. File(m) \in src /\ run[m] # NoRun
      BY <2>4 DEF BeginFile, EndFile, Visible, Copying, Running, IInv, FilesInv, Write
    <3>2. run[m].job \in DOMAIN jobs /\ JobOf(m) = jobs[run[m].job]
      BY <3>1 DEF IInv, RunInv, JobOf
    <3>3. File(m)[1] = JobOf(m).take BY DEF File
    <3> DEFINE g == File(m)
               q == JobOf(m).path
    <3>4. dest' = [dest EXCEPT ![<<g, q>>] = c] BY <2>4 DEF Export
    <3> HIDE DEF g, q
    <3>5. \A f \in Files, p \in Paths : dest'[<<f, p>>] = dest[<<f, p>>] \/ (f = g /\ p = q)
      BY <1>0, <3>4
    <3> QED BY <3>1, <3>2, <3>3, <3>5 DEF g, q
  <2>5. "part" \in Contents /\ "whole" \in Contents BY DEF Contents
  <2> QED BY <1>2, <2>1, <2>2, <2>3, <2>4, <2>5 DEF Handled
<1>3. ASSUME NEW r \in Handlers, Serve(r) PROVE src' = src /\ dest' = dest
  BY <1>3, ServeElsewhere DEF Elsewhere
<1>4. ASSUME NEW j \in DOMAIN jobs, Order(j) PROVE src' = src /\ dest' = dest
  BY <1>4, OrderElsewhere DEF Elsewhere
<1> QED BY <1>1, <1>2, <1>3, <1>4 DEF Next, Order

\* What a step may do to the row of take t, if t does not stray: nothing, an export to p,
\* the first one or to the same path; a deletion; or the end of an upload.
Rewritten(t) ==
  \/ take'[t] = take[t]
  \/ /\ take[t].there /\ take'[t].there /\ take'[t].path \in Paths
     /\ take[t].path \in {NoPath, take'[t].path}
  \/ take[t].there /\ ~take'[t].there
  \/ \E r \in Handlers : /\ req[r].at = "upload" /\ req[r].take = t
                         /\ take'[t].path = req[r].row.path

\* Where the path of a request for t comes from: from the request, from the row of the
\* take that was read, or from the row that was deleted.
Asks(q) ==
  \/ /\ req[q].take = req'[q].take /\ req[q].row.path = req'[q].row.path
     /\ req[q].at \in Open
     /\ req'[q].at \in {"files", "upload"} => req[q].at = req'[q].at
  \/ /\ take'[req'[q].take].there /\ req'[q].row.path = take'[req'[q].take].path
     /\ req'[q].at # "files"
     /\ req'[q].at = "upload" => \E j \in DOMAIN jobs : /\ jobs[j].take = req'[q].take
                                                        /\ jobs[j].class = "thumb"
  \/ /\ req'[q].at = "files" /\ take[req'[q].take].there /\ ~take'[req'[q].take].there
     /\ req'[q].row.path = take[req'[q].take].path

(* A take that has not strayed stays at its place, or gets one.            *)
LEMMA PlaceKept ==
  ASSUME IInv, Next, Ordered, NEW t \in Takes, t \notin Lost', Rewritten(t),
         \A q \in Handlers : (req'[q].take = t /\ req'[q].at \in Open) => Asks(q),
         NEW p \in Paths \cup {NoPath}, At(t, p)
  PROVE  \E q \in Paths \cup {NoPath} : At(t, q)'
<1> DEFINE first == p = NoPath /\ take'[t].there /\ take'[t].path # NoPath
           q == IF first THEN take'[t].path ELSE p
<1>0. TypeOK /\ JobsInv /\ ReqInv BY DEF IInv
<1>1. /\ \A j \in DOMAIN jobs : jobs[j].take = t => jobs[j].path = p
      /\ take[t].there => take[t].path = p
      /\ \A r \in Handlers : (req[r].take = t /\ req[r].at \in Open) => req[r].row.path = p
      /\ \A f \in Files, w \in Paths : (f[1] = t /\ dest[<<f, w>>] # "none") => w = p
      /\ p = NoPath => \A r \in Handlers : req[r].take = t => req[r].at # "upload"
      /\ (take[t].there /\ p = NoPath) =>
           /\ \A j \in DOMAIN jobs : jobs[j].take # t
           /\ \A r \in Handlers : req[r].take = t => req[r].at # "files"
  BY DEF At
<1>2. DOMAIN jobs \subseteq DOMAIN jobs' /\ \A i \in DOMAIN jobs : Same(jobs[i], jobs'[i])
  BY NextMoves DEF Move, Kept
<1>3. p = NoPath => \A r \in Handlers : req[r].take = t => req[r].at \notin {"job", "thumb", "ready", "upload"}
  BY <1>0, <1>1, ArchiveAssumption DEF ReqInv, Open
<1>4. first => take[t].there
  BY <1>1, <1>3 DEF Rewritten
<1>5. q \in Paths \cup {NoPath}
  <2>1. take'[t] \in Row BY NextInvariant DEF IInv, TypeOK
  <2>2. take'[t].path \in Paths \cup {NoPath} BY <2>1 DEF Row
  <2> QED BY <2>2
<1>6. ASSUME NEW j \in DOMAIN jobs', jobs'[j].take = t
      PROVE  jobs'[j].path = q /\ ~(p = NoPath /\ take[t].there)
  <2>1. CASE j \in DOMAIN jobs
    <3>1. jobs[j].take = t /\ jobs'[j].path = jobs[j].path BY <1>2, <1>6, <2>1 DEF Same
    <3> QED BY <1>1, <1>4, <2>1, <3>1
  <2>2. CASE j \notin DOMAIN jobs
    <3>1. Sourced(j) BY <1>6, <2>2 DEF Ordered, Lost
    <3>2. CASE \E k \in DOMAIN jobs : jobs[k].take = t /\ jobs[k].path = jobs'[j].path
      BY <1>1, <1>4, <3>2
    <3>3. CASE \E r \in Handlers : /\ req[r].take = t /\ req[r].row.path = jobs'[j].path
                                   /\ req[r].at \in {"job", "thumb", "files"}
      BY <1>1, <1>3, <1>4, <3>3 DEF Open
    <3> QED BY <1>6, <3>1, <3>2, <3>3 DEF Sourced
  <2> QED BY <2>1, <2>2
<1>7. take'[t].there => take'[t].path = q
  BY <1>1, <1>3 DEF Rewritten, Open
<1>8. p = NoPath => \A j \in DOMAIN jobs : jobs[j].take = t => jobs[j].class # "thumb"
  BY <1>0, <1>1, ArchiveAssumption DEF JobsInv, Argued
<1>9. ASSUME NEW r \in Handlers, req'[r].take = t, req'[r].at \in Open
      PROVE  /\ req'[r].row.path = q
             /\ q = NoPath => req'[r].at # "upload"
             /\ (take'[t].there /\ q = NoPath) => req'[r].at # "files"
  <2>1. Asks(r) BY <1>9
  <2>2. CASE /\ req[r].take = t /\ req[r].row.path = req'[r].row.path /\ req[r].at \in Open
             /\ req'[r].at \in {"files", "upload"} => req[r].at = req'[r].at
    <3>1. req'[r].row.path = p BY <1>1, <2>2
    <3>2. ~first BY <1>1, <1>3, <1>4, <2>2 DEF Open
    <3>3. (take'[t].there /\ p = NoPath) => take[t].there BY <1>3, <3>2 DEF Rewritten
    <3> QED BY <1>1, <2>2, <3>1, <3>2, <3>3
  <2>3. CASE /\ take'[t].there /\ req'[r].row.path = take'[t].path /\ req'[r].at # "files"
             /\ req'[r].at = "upload" => \E j \in DOMAIN jobs : /\ jobs[j].take = t
                                                               /\ jobs[j].class = "thumb"
    BY <1>7, <1>8, <2>3
  <2>4. CASE /\ req'[r].at = "files" /\ take[t].there /\ ~take'[t].there
             /\ req'[r].row.path = take[t].path
    BY <1>1, <2>4
  <2> HIDE DEF q
  <2> QED BY <1>9, <2>1, <2>2, <2>3, <2>4 DEF Asks
<1>10. ASSUME NEW f \in Files, NEW w \in Paths, f[1] = t, dest'[<<f, w>>] # "none"
       PROVE  w = q
  <2>1. \/ dest'[<<f, w>>] = dest[<<f, w>>]
        \/ \E j \in DOMAIN jobs : jobs[j].take = t /\ jobs[j].path = w
    BY <1>10, NothingReturns
  <2>2. w = p BY <1>1, <1>10, <2>1
  <2> QED BY <2>2, ArchiveAssumption
<1>11. (take'[t].there /\ q = NoPath) => take[t].there /\ p = NoPath
  <2>1. q = NoPath => p = NoPath /\ ~first OBVIOUS
  <2> QED BY <1>3, <2>1 DEF Rewritten
<1> HIDE DEF q, first
<1>12. ASSUME take'[t].there, q = NoPath
       PROVE  /\ \A j \in DOMAIN jobs' : jobs'[j].take # t
              /\ \A r \in Handlers : req'[r].take = t => req'[r].at # "files"
  BY <1>6, <1>9, <1>11, <1>12 DEF Open
<1>13. \A r \in Handlers : (req'[r].take = t /\ q = NoPath) => req'[r].at # "upload"
  BY <1>9 DEF Open
<1>14. \A f \in Files, w \in Paths : (f[1] = t /\ dest'[<<f, w>>] # "none") => w = q
  BY <1>10
<1>15. PICK v \in Paths \cup {NoPath} : v = q BY <1>5
<1>16. At(t, v)'
  BY <1>6, <1>7, <1>9, <1>12, <1>13, <1>14, <1>15 DEF At, Files
<1> QED BY <1>16

\* What a step does to the rows and the requests of takes that do not stray.
Told ==
  /\ \A t \in Takes \ Lost' : Rewritten(t)
  /\ \A q \in Handlers : (req'[q].at \in Open /\ req'[q].take \notin Lost') => Asks(q)

(* Nothing is told.                                                        *)
LEMMA NothingTold ==
  ASSUME take' = take, req' = req
  PROVE  Told
BY DEF Told, Rewritten, Asks

(* One request goes on.                                                    *)
LEMMA OneTold ==
  ASSUME TypeOK, NEW r \in Handlers, NEW y \in Request, req' = [req EXCEPT ![r] = y],
         (y.at \in Open /\ y.take \notin Lost') => Asks(r),
         \A t \in Takes \ Lost' : Rewritten(t)
  PROVE  Told
<1>1. req \in [Handlers -> Request] BY DEF TypeOK
<1>2. ASSUME NEW q \in Handlers, req'[q].at \in Open, req'[q].take \notin Lost'
      PROVE  Asks(q)
  <2>1. CASE q = r
    <3>1. req'[r] = y BY <1>1
    <3> QED BY <1>2, <2>1, <3>1
  <2>2. CASE q # r
    <3>1. req'[q] = req[q] BY <1>1, <2>2
    <3> QED BY <1>2, <3>1 DEF Asks
  <2> QED BY <2>1, <2>2
<1> QED BY <1>2 DEF Told

(* A request that gets an answer tells nothing.                            *)
LEMMA RepliedTold ==
  ASSUME TypeOK, NEW r \in Handlers, Reply(r), \A t \in Takes \ Lost' : Rewritten(t)
  PROVE  Told
<1>1. NoReq \in Request /\ NoReq.at \notin Open BY NoRequest DEF Open
<1>2. req' = [req EXCEPT ![r] = NoReq] BY DEF Reply
<1> QED BY <1>1, <1>2, OneTold

(* Requests tell the path of their take.                                   *)
LEMMA ServeTold ==
  ASSUME IInv, NEW r \in Handlers, Serve(r)
  PROVE  Told
<1>0. TypeOK /\ take \in [Takes -> Row] /\ req \in [Handlers -> Request] BY DEF IInv, TypeOK
<1>1. /\ req[r] \in Request /\ req[r].take \in Takes /\ req[r].row \in Row
      /\ req[r].row.path \in Paths \cup {NoPath}
  BY <1>0, ReqFacts
<1>2. ASSUME take' = take, Reply(r) PROVE Told
  BY <1>0, <1>2, RepliedTold DEF Rewritten
<1>3. ASSUME take' = take, NEW y \in Request, req' = [req EXCEPT ![r] = y],
             y.take = req[r].take, y.row = req[r].row, req[r].at \in Open,
             y.at = req[r].at \/ y.at \notin {"files", "upload"}
      PROVE  Told
  <2>1. req'[r] = y BY <1>0, <1>3
  <2>2. Asks(r) BY <1>3, <2>1 DEF Asks
  <2> QED BY <1>0, <1>3, <2>2, OneTold DEF Rewritten
<1>4. ASSUME NEW t \in Takes, NEW p \in Paths, SaveExport(r, t, p) PROVE Told
  <2> DEFINE w == [take[t] EXCEPT !.path = p]
             x == NoReq
             y == [x EXCEPT !.kind = "export", !.at = "job", !.take = t, !.row = w]
  <2>1. /\ take' = [take EXCEPT ![t] = w] /\ take[t].there
        /\ t \notin Lost' => take[t].path \in {NoPath, p}
    BY <1>4 DEF SaveExport, Strays, Lost
  <2>2. take[t] \in Row /\ take'[t] = w BY <1>0, <2>1
  <2>3. w \in Row /\ w.path = p /\ w.there = take[t].there BY <2>2 DEF Row
  <2>4. req' = [req EXCEPT ![r] = y] BY <1>4, <2>2 DEF SaveExport
  <2>5. \A u \in Takes \ {t} : take'[u] = take[u] BY <1>0, <2>1
  <2> HIDE DEF w
  <2>6. x \in Request BY NoRequest
  <2> HIDE DEF x
  <2>7. y \in Request /\ y.at = "job" /\ y.take = t /\ y.row = w
    BY <2>3, <2>6, t \in Takes DEF Request, Steps
  <2> HIDE DEF y
  <2>8. req'[r] = y BY <1>0, <2>4
  <2>9. Asks(r) BY <2>1, <2>2, <2>3, <2>7, <2>8 DEF Asks
  <2>10. \A u \in Takes \ Lost' : Rewritten(u)
    BY <2>1, <2>2, <2>3, <2>5 DEF Rewritten
  <2> QED BY <1>0, <2>4, <2>7, <2>9, <2>10, OneTold
<1>5. CASE SubmitExport(r)
  <2> DEFINE n == Len(jobs')
             y == [req[r] EXCEPT !.at = "thumb", !.job = n]
  <2>1. take' = take /\ req[r].at = "job" /\ (Reply(r) \/ req' = [req EXCEPT ![r] = y])
    BY <1>5 DEF SubmitExport
  <2>2. n \in Nat
    <3>1. jobs' \in Seq(Job) BY <1>0, ServeStep DEF IInv, Move, Kept
    <3> QED BY <3>1
  <2> HIDE DEF n
  <2>3. y \in Request /\ y.at = "thumb" /\ y.take = req[r].take /\ y.row = req[r].row
    BY <1>1, <2>2 DEF Request, Steps
  <2> HIDE DEF y
  <2> QED BY <1>2, <1>3, <2>1, <2>3 DEF Open
<1>6. CASE SubmitThumbnail(r)
  <2> DEFINE n == Len(jobs')
             y == [req[r] EXCEPT !.at = "ready", !.thumb = n]
  <2>1. take' = take /\ req[r].at = "thumb" /\ (Reply(r) \/ req' = [req EXCEPT ![r] = y])
    BY <1>6 DEF SubmitThumbnail
  <2>2. n \in Nat
    <3>1. jobs' \in Seq(Job) BY <1>0, ServeStep DEF IInv, Move, Kept
    <3> QED BY <3>1
  <2> HIDE DEF n
  <2>3. y \in Request /\ y.at = "ready" /\ y.take = req[r].take /\ y.row = req[r].row
    BY <1>1, <2>2 DEF Request, Steps
  <2> HIDE DEF y
  <2> QED BY <1>2, <1>3, <2>1, <2>3 DEF Open
<1>7. CASE ReleaseThumbnail(r) BY <1>2, <1>7 DEF ReleaseThumbnail
<1>8. ASSUME NEW t \in Takes, GatherFiles(r, t) PROVE Told
  <2> DEFINE S == IF take[t].cameras THEN Recorders(t) ELSE {}
             x == NoReq
             w == take[t]
             y == [x EXCEPT !.kind = "delete", !.at = "rows", !.take = t, !.row = w, !.left = S]
  <2>1. req' = [req EXCEPT ![r] = y] /\ take' = take BY <1>8 DEF GatherFiles, rows
  <2>2. w \in Row /\ S \in SUBSET Machines BY <1>0 DEF Recorders
  <2>3. x \in Request BY NoRequest
  <2> HIDE DEF x, S, w
  <2>4. y \in Request /\ y.at = "rows"
    BY <2>2, <2>3, t \in Takes DEF Request, Steps
  <2> HIDE DEF y
  <2>5. y.at \notin Open BY <2>4 DEF Open
  <2> QED BY <1>0, <2>1, <2>4, <2>5, OneTold DEF Rewritten
<1>9. CASE DeleteRows(r)
  <2> DEFINE t == req[r].take
             y == [req[r] EXCEPT !.at = "files"]
  <2>1. /\ req' = [req EXCEPT ![r] = y] /\ take' = [take EXCEPT ![t] = NoRow]
        /\ t \notin Lost' => take[t].there /\ take[t].path = req[r].row.path
    BY <1>9 DEF DeleteRows, Lost
  <2>2. y \in Request /\ y.at = "files" /\ y.take = t /\ y.row = req[r].row
    BY <1>1 DEF Request, Steps
  <2>3. ~take'[t].there /\ \A u \in Takes \ {t} : take'[u] = take[u]
    BY <1>0, <1>1, <2>1 DEF NoRow
  <2> HIDE DEF y
  <2>4. req'[r] = y BY <1>0, <2>1
  <2>5. t \notin Lost' => Asks(r) BY <2>1, <2>2, <2>3, <2>4 DEF Asks
  <2>6. \A u \in Takes \ Lost' : Rewritten(u) BY <2>1, <2>3 DEF Rewritten
  <2> QED BY <1>0, <2>1, <2>2, <2>5, <2>6, OneTold
<1>10. CASE SubmitDelete(r)
  <2>1. take' = take /\ req[r].at = "files" BY <1>10 DEF SubmitDelete
  <2>2. CASE Reply(r) BY <1>2, <2>1, <2>2
  <2>3. CASE ~Reply(r)
    <3>1. PICK m \in req[r].left : req' = [req EXCEPT ![r].left = @ \ {m}]
      BY <1>10, <2>3 DEF SubmitDelete
    <3> DEFINE S == req[r].left \ {m}
               y == [req[r] EXCEPT !.left = S]
    <3>2. req' = [req EXCEPT ![r] = y] BY <3>1
    <3>3. S \in SUBSET Machines BY <1>1 DEF Request
    <3> HIDE DEF S
    <3>4. y \in Request /\ y.at = req[r].at /\ y.take = req[r].take /\ y.row = req[r].row
      BY <1>1, <3>3 DEF Request
    <3> HIDE DEF y
    <3> QED BY <1>3, <2>1, <3>2, <3>4 DEF Open
  <2> QED BY <2>2, <2>3
<1>11. ASSUME NEW j \in DOMAIN jobs, ReadUpload(r, j) PROVE Told
  <2> DEFINE t == jobs[j].take
             x == NoReq
             w == take[t]
             y == [x EXCEPT !.kind = "upload", !.at = "upload", !.take = t, !.row = w, !.thumb = j]
  <2>1. /\ take' = take /\ jobs[j].class = "thumb"
        /\ req' = req \/ (req' = [req EXCEPT ![r] = y] /\ w.there)
    BY <1>11 DEF ReadUpload
  <2>2. t \in Takes /\ w \in Row /\ j \in Nat
    <3>1. jobs[j] \in Job /\ j \in Nat BY <1>0, JobFacts DEF IInv
    <3>2. t \in Takes BY <3>1 DEF Job
    <3> QED BY <1>0, <3>1, <3>2
  <2>3. x \in Request BY NoRequest
  <2> HIDE DEF x, w, t
  <2>4. y \in Request /\ y.at = "upload" /\ y.take = t /\ y.row = w
    BY <2>2, <2>3 DEF Request, Steps
  <2> HIDE DEF y
  <2>5. CASE req' = req BY <2>1, <2>5, NothingTold
  <2>6. CASE req' = [req EXCEPT ![r] = y] /\ w.there
    <3>1. req'[r] = y BY <1>0, <2>6
    <3>2. Asks(r) BY <2>1, <2>4, <2>6, <3>1 DEF Asks, t, w
    <3> QED BY <1>0, <2>1, <2>4, <2>6, <3>2, OneTold DEF Rewritten
  <2> QED BY <2>1, <2>5, <2>6
<1>12. CASE SaveUpload(r)
  <2> DEFINE t == req[r].take
             b == take[t].cameras
             y == [req[r].row EXCEPT !.cameras = b]
  <2>1. take' = [take EXCEPT ![t] = y] /\ Reply(r) /\ req[r].at = "upload"
    BY <1>12 DEF SaveUpload
  <2>2. y.path = req[r].row.path BY <1>1 DEF Row
  <2> HIDE DEF y
  <2>3. take'[t] = y /\ \A u \in Takes \ {t} : take'[u] = take[u] BY <1>0, <1>1, <2>1
  <2>4. \A u \in Takes \ Lost' : Rewritten(u) BY <2>1, <2>2, <2>3 DEF Rewritten
  <2> QED BY <1>0, <2>1, <2>4, RepliedTold
<1>13. CASE Crash(r) BY <1>2, <1>13 DEF Crash
<1> QED
  BY <1>4, <1>5, <1>6, <1>7, <1>8, <1>9, <1>10, <1>11, <1>12, <1>13 DEF Serve

(* Every step keeps the takes that have not strayed at one place.          *)
LEMMA PlacedStays ==
  ASSUME IInv, Owned, Placed, Next
  PROVE  Placed'
<1>1. Told
  <2>1. ASSUME NEW m \in Machines, Work(m) PROVE Told
    BY <2>1, WorkAside, NothingTold DEF Aside
  <2>2. ASSUME NEW j \in DOMAIN jobs, Order(j) PROVE Told
    <3>1. take' = take /\ req' = req
      BY <2>2 DEF Order, StartThumbnail, RestartJob, CloneJob, RestartFailedChildren
    <3> QED BY <3>1, NothingTold
  <2> QED BY <2>1, <2>2, ServeTold DEF Next, Order
<1>2. Ordered /\ strayed \subseteq strayed' BY NextRows, StrayedStays
<1>3. ASSUME NEW t \in Takes \ Lost' PROVE \E q \in Paths \cup {NoPath} : At(t, q)'
  <2>0. Lost \subseteq Lost' BY <1>1, <1>2, StrayedStays
  <2>1. PICK p \in Paths \cup {NoPath} : At(t, p)
    <3>1. t \in Takes \ Lost BY <2>0
    <3> QED BY <3>1 DEF Placed
  <2>2. Rewritten(t) /\ \A q \in Handlers : (req'[q].take = t /\ req'[q].at \in Open) => Asks(q)
    BY <1>1 DEF Told
  <2> QED BY <1>2, <2>1, <2>2, PlaceKept
<1> QED BY <1>3 DEF Placed

(* A deletion runs on the machine whose files it deletes.                  *)
LEMMA OwnTurn ==
  ASSUME IInv, Owned, NEW m \in Machines, Running(m, "delete"), JobOf(m).take \notin strayed
  PROVE  /\ run[m].at \in Nat /\ run[m].job \in DOMAIN jobs /\ JobOf(m) = jobs[run[m].job]
         /\ JobOf(m).take \in Takes /\ JobOf(m).class = "delete"
         /\ JobOf(m).files = m /\ Length(m) \in Nat /\ Length(m) = NumFiles[JobOf(m).take][m]
         /\ \A k \in 1 .. Length(m) : <<JobOf(m).take, m, k>> \in Files
<1>1. run[m] # NoRun /\ JobOf(m).class = "delete" /\ JobOf(m) = jobs[run[m].job]
  BY DEF Running, JobOf
<1>2. run[m].job \in DOMAIN jobs /\ JobOf(m).node = m BY <1>1, RunFacts DEF IInv
<1>3. JobOf(m).files = m BY <1>1, <1>2 DEF Owned
<1>4. run[m].at \in Nat /\ JobOf(m).take \in Takes
      /\ Length(m) \in Nat /\ Length(m) = NumFiles[JobOf(m).take][m]
  BY <1>1, <1>3, TurnFacts
<1>5. \A t \in Takes : \A k \in 1 .. NumFiles[t][m] : <<t, m, k>> \in Files
  <2> SUFFICES ASSUME NEW t \in Takes, NEW k \in 1 .. NumFiles[t][m]
               PROVE  <<t, m, k>> \in Files
    OBVIOUS
  <2> DEFINE S == {t} \X {m} \X (1 .. NumFiles[t][m])
  <2>1. <<t, m, k>> \in S OBVIOUS
  <2>2. S \in {{u} \X {n} \X (1 .. NumFiles[u][n]) : u \in Takes, n \in Machines} OBVIOUS
  <2> HIDE DEF S
  <2> QED BY <2>1, <2>2 DEF Files
<1> QED BY <1>1, <1>2, <1>3, <1>4, <1>5

(* A deletion goes on with a file, or not at all, or its take strays.      *)
LEMMA DeletionTurn ==
  ASSUME IInv, Next, NEW n \in Machines, Running(n, "delete"), run'[n].job = run[n].job,
         run'[n] # NoRun
  PROVE  \/ run'[n].at = run[n].at
         \/ DeleteFile(n) /\ run'[n].at = run[n].at + 1
         \/ JobOf(n).take \in strayed'
<1>0. TypeOK /\ run \in [Machines -> Run] /\ run[n] # NoRun /\ JobOf(n).class = "delete"
  BY DEF IInv, TypeOK, Running, JobOf
<1>1. ASSUME NEW m \in Machines, Work(m), m # n PROVE run'[n] = run[n]
  BY <1>1, OtherRuns
<1>2. ASSUME Work(n)
      PROVE  \/ run'[n] = run[n]
             \/ DeleteFile(n) /\ run'[n].at = run[n].at + 1
             \/ JobOf(n).take \in strayed'
  <2>1. ~Running(n, "copy") /\ ~Running(n, "export") BY <1>0 DEF Running, JobOf
  <2>2. (\E s : End(n, s)) => run'[n] = NoRun BY <1>0 DEF End
  <2>3. \/ DeleteFile(n) \/ FailRemove(n) \/ (\E s : End(n, s))
    BY <1>0, <1>2, <2>1 DEF Work, Start, Kill, LaunchCopy, YieldToChildren, SkipFile, MissFile,
       BeginFile, EndFile, LoseFile, EraseSource, Succeed, Copying, Erasing
  <2>4. DeleteFile(n) => run'[n].at = run[n].at + 1
    BY <1>0, Advanced DEF DeleteFile
  <2>5. FailRemove(n) => JobOf(n).take \in strayed' BY DEF FailRemove
  <2> QED BY <2>2, <2>3, <2>4, <2>5
<1>3. ASSUME NEW r \in Handlers, Serve(r) PROVE run' = run
  BY <1>3, ServeElsewhere DEF Elsewhere
<1>4. ASSUME NEW j \in DOMAIN jobs, Order(j) PROVE run' = run
  BY <1>4, OrderElsewhere DEF Elsewhere
<1> QED BY <1>1, <1>2, <1>3, <1>4 DEF Next, Order

(* What a deletion has passed stays gone, and it passes no file that stays.*)
LEMMA ProgressStays ==
  ASSUME IInv, Owned, Next, NEW n \in Machines, Progress(n)
  PROVE  Progress(n)'
<1> DEFINE t == JobOf(n).take
           L == Length(n)
           a == run[n].at
           q == JobOf(n).path
<1>0. /\ IInv' BY NextInvariant
<1>1. PICK E \in SUBSET DOMAIN jobs : Move(E) BY NextMoves
<1>2. dest \in [Files \X Paths -> Contents] BY DEF IInv, TypeOK
<1>3. CASE run'[n] = NoRun BY <1>3 DEF Progress, Running
<1>4. CASE run'[n].at = 1 /\ run'[n] # NoRun
  <2> SUFFICES ASSUME Running(n, "delete")', JobOf(n)'.take \notin strayed',
                      NEW k \in 1 .. Length(n)'
               PROVE  ~(k < 1) /\ ~(k + Length(n)' < 1)
    BY <1>4 DEF Progress
  <2>1. Owned' BY OwnedStays
  <2>2. /\ JobOf(n)'.node = n /\ JobOf(n)'.class = "delete" /\ JobOf(n)' = jobs'[run'[n].job]
        /\ run'[n].job \in DOMAIN jobs'
    BY <1>0, <1>4 DEF IInv, TypeOK, RunInv, Running, JobOf
  <2>3. JobOf(n)'.files = n BY <2>1, <2>2 DEF Owned
  <2>4. JobOf(n)'.take \in Takes
    <3>1. jobs' \in Seq(Job) BY <1>0 DEF IInv, TypeOK
    <3>2. JobOf(n)' \in Job BY <2>2, <3>1
    <3> QED BY <3>2 DEF Job
  <2>5. Length(n)' = NumFiles[JobOf(n)'.take][n] BY <2>3 DEF Length
  <2>6. Length(n)' \in Nat BY <2>4, <2>5, ArchiveAssumption
  <2> QED BY <2>6
<1>5. CASE run[n] # NoRun /\ run'[n].job = run[n].job /\ run'[n] # NoRun
  <2>1. /\ JobOf(n)'.class = JobOf(n).class /\ JobOf(n)'.take = t
        /\ JobOf(n)'.path = JobOf(n).path /\ JobOf(n)'.files = JobOf(n).files /\ Length(n)' = L
    BY <1>1, <1>5, SameTurn
  <2> SUFFICES ASSUME Running(n, "delete")', t \notin strayed', NEW k \in 1 .. L
               PROVE  LET f == <<t, n, k>>
                      IN  /\ k < run'[n].at => f \notin src'
                          /\ (k + L < run'[n].at /\ q # NoPath) => dest'[<<f, q>>] = "none"
    BY <2>1 DEF Progress
  <2> DEFINE f == <<t, n, k>>
  <2>2. Running(n, "delete") BY <1>5, <2>1 DEF Running, JobOf
  <2>3. t \notin strayed BY StrayedStays
  <2>4. /\ a \in Nat /\ run[n].job \in DOMAIN jobs /\ JobOf(n) = jobs[run[n].job]
        /\ t \in Takes /\ JobOf(n).files = n /\ L \in Nat /\ f \in Files
    BY <2>2, <2>3, OwnTurn
  <2>5. /\ k < a => f \notin src
        /\ (k + L < a /\ q # NoPath) => dest[<<f, q>>] = "none"
    BY <2>2, <2>3 DEF Progress
  <2>10. q \in Paths \cup {NoPath}
    <3>1. jobs[run[n].job] \in Job BY <2>4, JobFacts DEF IInv
    <3> QED BY <2>4, <3>1 DEF Job
  <2>6. /\ k < a => f \notin src'
        /\ (k + L < a /\ q # NoPath) => dest'[<<f, q>>] = "none"
    <3>1. k + L < a => k < a BY <2>4
    <3> HIDE DEF a, L, f, q
    <3> QED BY <2>4, <2>5, <2>10, <3>1, NothingReturns
  <2>7. CASE run'[n].at = a BY <2>6, <2>7
  <2>8. CASE DeleteFile(n) /\ run'[n].at = a + 1
    <3>1. CASE a <= L
      <4>1. k < a + 1 => k < a \/ k = a BY <2>4
      <4>2. ~(k + L < a + 1) BY <2>4, <3>1
      <4>3. k = a => File(n) = f BY <2>4, <3>1 DEF File
      <4>4. k = a => f \notin src'
        BY <2>4, <2>8, <3>1, <4>3 DEF DeleteFile, Visible
      <4> QED BY <2>6, <2>8, <4>1, <4>2, <4>4
    <3>2. CASE ~(a <= L)
      <4>1. k < a BY <2>4, <3>2
      <4>2. k + L < a + 1 => k + L < a \/ k = a - L BY <2>4
      <4>3. k = a - L => File(n) = f BY <2>4, <3>2 DEF File
      <4>4. dest' = [dest EXCEPT ![<<File(n), q>>] = "none"]
        BY <2>8, <3>2 DEF DeleteFile, Export
      <4>5. (k = a - L /\ q # NoPath) => dest'[<<f, q>>] = "none"
        <5> HIDE DEF f, q, a, L
        <5> QED BY <1>2, <2>4, <2>10, <4>3, <4>4
      <4> QED BY <2>6, <2>8, <4>1, <4>2, <4>5
    <3> QED BY <3>1, <3>2
  <2> QED BY <1>5, <2>2, <2>7, <2>8, DeletionTurn
<1>6. Turn(n, E) BY <1>1 DEF Move
<1> QED BY <1>3, <1>4, <1>5, <1>6 DEF Turn

(* A deletion that succeeds has passed all of its list, and what it passed *)
(* stays gone.                                                             *)
LEMMA ListedStays ==
  ASSUME IInv, DInv, Next
  PROVE  Listed'
<1>0. Ordered /\ strayed \subseteq strayed' BY NextRows, StrayedStays DEF DInv
<1>1. DOMAIN jobs \subseteq DOMAIN jobs' /\ \A i \in DOMAIN jobs : Same(jobs[i], jobs'[i])
  BY NextMoves DEF Move, Kept
<1> SUFFICES ASSUME NEW j \in DOMAIN jobs', Done(j)', jobs'[j].take \notin strayed',
                    NEW f \in Files, f[1] = jobs'[j].take, f[2] = jobs'[j].files
             PROVE  /\ f \notin src'
                    /\ jobs'[j].path # NoPath => dest'[<<f, jobs'[j].path>>] = "none"
  <2>1. Files' = Files BY DEF Files
  <2> QED BY <2>1 DEF Listed, FilesOf
<1>2. jobs'[j].class = "delete" /\ jobs'[j].status = "success" BY DEF Done
<1>3. j \in DOMAIN jobs BY <1>0, <1>2 DEF Ordered, Sourced
<1>4. /\ jobs[j].class = "delete" /\ jobs'[j].take = jobs[j].take
      /\ jobs'[j].files = jobs[j].files /\ jobs'[j].path = jobs[j].path
  BY <1>1, <1>2, <1>3 DEF Same
<1> DEFINE t == jobs[j].take
           m == jobs[j].files
           q == jobs[j].path
<1>5. t \notin strayed /\ m \in Machines /\ t \in Takes /\ q \in Paths \cup {NoPath}
  <2>1. jobs[j] \in Job BY <1>3, JobFacts DEF IInv
  <2>2. t \notin strayed BY <1>0, <1>4
  <2>3. m \in Machines BY <1>3, <1>4, <2>2 DEF DInv, Owned
  <2>4. t \in Takes /\ q \in Paths \cup {NoPath} BY <2>1 DEF Job
  <2> QED BY <2>2, <2>3, <2>4
<1>6. f \notin src /\ (q # NoPath => dest[<<f, q>>] = "none")
  <2>1. CASE jobs[j].status = "success"
    BY <1>3, <1>4, <1>5, <2>1 DEF DInv, Listed, Done, FilesOf
  <2>2. ASSUME NEW n \in Machines, Succeed(n), run[n].job = j
        PROVE  f \notin src /\ (q # NoPath => dest[<<f, q>>] = "none")
    <3>1. JobOf(n) = jobs[j] BY <2>2 DEF JobOf
    <3>2. Running(n, "delete") /\ ~Deleting(n)
      BY <1>4, <2>2 DEF Succeed, Running
    <3>3. /\ run[n].at \in Nat /\ n = m /\ Length(n) \in Nat /\ Length(n) = NumFiles[t][m]
      BY <1>4, <1>5, <3>1, <3>2, OwnTurn DEF DInv
    <3>4. PICK k \in 1 .. Length(n) : f = <<t, m, k>> BY <1>4, <3>3 DEF Files
    <3>5. Progress(n) BY DEF DInv
    <3>6. ~(run[n].at <= Length(n) * (IF q = NoPath THEN 1 ELSE 2))
      BY <3>1, <3>2 DEF Deleting
    <3>7. k < run[n].at /\ (q # NoPath => k + Length(n) < run[n].at)
      <4> HIDE DEF q
      <4> QED BY <3>3, <3>4, <3>6
    <3> QED BY <1>4, <1>5, <3>1, <3>2, <3>3, <3>4, <3>5, <3>7 DEF Progress
  <2> QED BY <1>0, <1>2, <1>3, <1>4, <2>1, <2>2 DEF Ordered
<1> HIDE DEF t, m, q
<1>7. f \notin src' /\ (q # NoPath => dest'[<<f, q>>] = "none")
  BY <1>5, <1>6, NothingReturns
<1> QED BY <1>4, <1>7 DEF q

(* Only takes whose rows were deleted are overtaken.                       *)
LEMMA OvertakenDeleted ==
  ASSUME Next, overtaken \subseteq released
  PROVE  overtaken' \subseteq released'
<1>1. ASSUME NEW m \in Machines, Work(m) PROVE overtaken' \subseteq released'
  BY <1>1, WorkAside DEF Aside
<1>2. ASSUME NEW r \in Handlers, Serve(r) PROVE overtaken' \subseteq released'
  BY <1>2 DEF Serve, SaveExport, SubmitExport, SubmitThumbnail, ReleaseThumbnail, GatherFiles,
              DeleteRows, SubmitDelete, ReadUpload, SaveUpload, Crash
<1>3. ASSUME NEW j \in DOMAIN jobs, Order(j) PROVE overtaken' \subseteq released'
  BY <1>3 DEF Order, StartThumbnail, RestartJob, CloneJob, RestartFailedChildren
<1> QED BY <1>1, <1>2, <1>3 DEF Next, Order

(* At first nothing was exported or deleted.                               *)
LEMMA InitGone == Init => DInv
<1> SUFFICES ASSUME Init PROVE DInv
  OBVIOUS
<1>1. /\ jobs = <<>> /\ DOMAIN jobs = {}
      /\ \A r \in Handlers : req[r] = NoReq
      /\ \A m \in Machines : run[m] = NoRun
      /\ \A t \in Takes : take[t] = [there |-> TRUE, cameras |-> TRUE, path |-> NoPath]
      /\ \A f \in Files, p \in Paths : dest[<<f, p>>] = "none"
  BY DEF Init
<1>2. NoReq.at = "" BY NoRequest
<1>3. ASSUME NEW t \in Takes PROVE At(t, NoPath)
  <2>1. take[t].there => take[t].path = NoPath BY <1>1
  <2>2. \A r \in Handlers : req[r].at = "" BY <1>1, <1>2
  <2> QED BY <1>1, <2>1, <2>2 DEF At, Open
<1>4. Owned /\ Listed /\ overtaken = {} BY <1>1 DEF Init, Owned, Listed
<1>5. \A m \in Machines : Progress(m) BY <1>1 DEF Progress, Running
<1> QED BY <1>3, <1>4, <1>5 DEF DInv, Placed

(* Every step keeps what was deleted gone.                                 *)
LEMMA NextGone == IInv /\ DInv /\ [Next]_vars => DInv'
<1> SUFFICES ASSUME IInv, DInv, [Next]_vars PROVE DInv'
  OBVIOUS
<1>1. CASE Next
  BY <1>1, OwnedStays, PlacedStays, ProgressStays, ListedStays, OvertakenDeleted DEF DInv
<1>2. CASE UNCHANGED vars
  <2>1. /\ take' = take /\ src' = src /\ dest' = dest /\ jobs' = jobs /\ run' = run /\ req' = req
        /\ strayed' = strayed /\ overtaken' = overtaken /\ released' = released
    BY <1>2 DEF vars
  <2>2. Placed' BY <2>1 DEF DInv, Placed, Lost, At, Files
  <2>3. Owned' BY <2>1 DEF DInv, Owned
  <2>4. \A m \in Machines : Progress(m)'
    BY <2>1 DEF DInv, Progress, Running, JobOf, Length
  <2>5. Listed' /\ overtaken' \subseteq released'
    <3>1. \A j : Done(j)' = Done(j) /\ FilesOf(j)' = FilesOf(j) BY <2>1 DEF Done, FilesOf, Files
    <3> QED BY <2>1, <3>1 DEF DInv, Listed
  <2> QED BY <2>2, <2>3, <2>4, <2>5 DEF DInv
<1> QED BY <1>1, <1>2

(* When the DeleteFiles job of a machine has succeeded, nothing that its   *)
(* list names is left or comes back (views.py:182-236, archive.py:20-36),  *)
(* and nothing of the take from that machine anywhere unless the deletion  *)
(* was overtaken: by an export that saved its path between the list and    *)
(* the rows, whose copies survive, or by another deletion.  For takes that *)
(* have not strayed, whatever is killed, restarted, uploaded or lost.      *)
THEOREM DeletedFilesStayGone == Spec => []DeletedStaysGone
<1>1. Init => DInv BY InitGone
<1>2. IInv /\ DInv /\ [Next]_vars => DInv' BY NextGone
<1>3. IInv /\ DInv => DeletedStaysGone
  <2> SUFFICES ASSUME IInv, DInv, NEW j \in DOMAIN jobs, Done(j), jobs[j].take \notin strayed,
                      NEW f \in FilesOf(j)
               PROVE  /\ f \notin src
                      /\ \A p \in Paths : (p = jobs[j].path \/ jobs[j].take \notin overtaken) =>
                           dest[<<f, p>>] = "none"
    BY DEF DeletedStaysGone
  <2>1. f \in Files /\ f[1] = jobs[j].take BY DEF FilesOf
  <2>2. f \notin src /\ (jobs[j].path # NoPath => dest[<<f, jobs[j].path>>] = "none")
    BY DEF DInv, Listed
  <2>3. \A p \in Paths : p = jobs[j].path => dest[<<f, p>>] = "none"
    BY <2>2, ArchiveAssumption
  <2>4. ASSUME jobs[j].take \notin overtaken, NEW p \in Paths, dest[<<f, p>>] # "none"
        PROVE  FALSE
    <3>1. jobs[j].take \in Takes
      <4>1. jobs[j] \in Job BY JobFacts DEF IInv
      <4> QED BY <4>1 DEF Job
    <3>2. PICK q \in Paths \cup {NoPath} : At(jobs[j].take, q)
      BY <2>4, <3>1 DEF DInv, Placed, Lost
    <3>3. p = q BY <2>1, <2>4, <3>2 DEF At
    <3>4. jobs[j].path = q BY <3>2 DEF At
    <3> QED BY <2>3, <2>4, <3>3, <3>4
  <2> QED BY <2>2, <2>3, <2>4
<1> QED BY <1>1, <1>2, <1>3, InvariantHolds, PTL DEF Spec
-----------------------------------------------------------------------------
(* What was copied is whole.                                               *)

\* A recorded file is on its machine, or whole at an export path, or of a take that was
\* deleted.
Held == \A f \in Files :
  f \in src \/ f[1] \in released \/ \E p \in Paths : dest[<<f, p>>] = "whole"

\* No file of take t is left on machine m.
Without(t, m) == \A f \in Files : (f[1] = t /\ f[2] = m) => f \notin src

\* What the copy on machine m has passed in its second round is gone from its disk.
Emptied(m) == (Running(m, "copy") /\ JobOf(m).take \notin strayed) =>
  \A k \in 1 .. Length(m) : k + Length(m) < run[m].at => <<JobOf(m).take, m, k>> \notin src

\* The machine of a copy that succeeded has no file of the take any more.
Moved == \A j \in DOMAIN jobs :
  (jobs[j].class = "copy" /\ jobs[j].status = "success" /\ jobs[j].take \notin strayed) =>
    Without(jobs[j].take, jobs[j].files)

\* An export that waits has a copy for each machine of its take, and one that succeeded
\* has emptied them all.
Complete == \A j \in DOMAIN jobs :
  (jobs[j].class = "export" /\ jobs[j].take \notin strayed) =>
    /\ jobs[j].status = "waiting" => Unlaunched(j) = {}
    /\ jobs[j].status = "success" => \A m \in Machines : Without(jobs[j].take, m)

\* A thumbnail that has started, or that is the clone of one that has.
Begun(j) ==
  \/ jobs[j].needs = 0
  \/ jobs[j].status \notin {"created", "ready"}
  \/ \E r \in Handlers : req[r].at = "upload" /\ req[r].thumb = j

\* When it started, the machines of its take were empty.
Viewed == \A j \in DOMAIN jobs :
  (jobs[j].class = "thumb" /\ jobs[j].take \notin strayed /\ Begun(j)) =>
    \A m \in Machines : Without(jobs[j].take, m)

EInv == Held /\ (\A m \in Machines : Emptied(m)) /\ Moved /\ Complete /\ Viewed

(* Files stay somewhere, since they are in custody.                        *)
LEMMA HeldStays ==
  ASSUME IInv, Held, Next
  PROVE  Held'
<1>1. Held <=> \A f \in Files : WholeAt(f) # {} \/ f \in Given
  BY LocalAssumption DEF Held, WholeAt, Given
<1>2. Held' <=> \A f \in Files : WholeAt(f)' # {} \/ f \in Given'
  BY LocalAssumption DEF Held, WholeAt, Given, Files
<1>3. \A f \in Files : Located[f] # {} \/ f \in Given BY <1>1 DEF Located
<1>4. ASSUME Located' = Located, Given' = Given PROVE Held'
  <2>1. \A f \in Files : WholeAt(f)' = WholeAt(f)
    BY <1>4 DEF Located, Files
  <2> QED BY <1>1, <1>2, <1>4, <2>1
<1>5. CASE UNCHANGED Custody!custody
  <2>1. Located' = Located /\ Given' = Given
    BY <1>5 DEF Custody!custody, Located, WholeAt, Given
  <2> QED BY <1>4, <2>1
<1>6. CASE Custody!Next
  <2>1. CASE \E S \in SUBSET Files : Custody!Release(S)
    <3>1. Located' = Located /\ Given \subseteq Given'
      BY <2>1 DEF Custody!Release, Located, WholeAt, Given
    <3>2. \A f \in Files : WholeAt(f)' = WholeAt(f) BY <3>1 DEF Located, Files
    <3> QED BY <1>1, <1>2, <3>1, <3>2
  <2>2. ASSUME NEW f \in Files, NEW p \in Paths \cup {Local}, Custody!Copy(f, p) \/ Custody!Drop(f, p)
        PROVE  Held'
    <3>1. /\ Given' = Given
          /\ \/ Located[f] # {} /\ Located' = [Located EXCEPT ![f] = @ \cup {p}]
             \/ (Located[f] \ {p} # {} \/ f \in Given) /\ Located' = [Located EXCEPT ![f] = @ \ {p}]
      BY <2>2 DEF Custody!Copy, Custody!Drop, Located, WholeAt, Given
    <3>2. \A g \in Files : Located'[g] # {} \/ g \in Given'
      <4>1. DOMAIN Located = Files BY DEF Located
      <4>2. Located = [g \in Files |-> Located[g]] BY DEF Located
      <4> HIDE DEF Located
      <4> QED BY <1>3, <3>1, <4>1, <4>2
    <3>3. \A g \in Files : Located'[g] = WholeAt(g)' BY DEF Located, Files
    <3> QED BY <1>2, <3>2, <3>3
  <2> QED BY <1>6, <2>1, <2>2 DEF Custody!Next
<1> QED BY <1>5, <1>6, CustodyStep

(* A copy runs on the machine whose files it copies.                       *)
LEMMA CopyTurn ==
  ASSUME IInv, Owned, NEW m \in Machines, Running(m, "copy"), JobOf(m).take \notin strayed
  PROVE  /\ run[m].at \in Nat /\ run[m].job \in DOMAIN jobs /\ JobOf(m) = jobs[run[m].job]
         /\ JobOf(m).take \in Takes /\ JobOf(m).class = "copy"
         /\ JobOf(m).files = m /\ Length(m) \in Nat /\ Length(m) = NumFiles[JobOf(m).take][m]
<1>1. run[m] # NoRun /\ JobOf(m).class = "copy" /\ JobOf(m) = jobs[run[m].job]
  BY DEF Running, JobOf
<1>2. run[m].job \in DOMAIN jobs /\ JobOf(m).node = m BY <1>1, RunFacts DEF IInv
<1>3. JobOf(m).files = m BY <1>1, <1>2 DEF Owned
<1> QED BY <1>1, <1>2, <1>3, TurnFacts

(* In its second round a copy goes on with a file, or not at all, or its   *)
(* take strays.                                                            *)
LEMMA ErasingTurn ==
  ASSUME IInv, Next, NEW n \in Machines, Running(n, "copy"), run'[n].job = run[n].job,
         run'[n] # NoRun
  PROVE  \/ run'[n].at = run[n].at
         \/ run[n].at <= Length(n) /\ run'[n].at = run[n].at + 1
         \/ EraseSource(n) /\ run'[n].at = run[n].at + 1
         \/ JobOf(n).take \in strayed'
<1>0. TypeOK /\ run \in [Machines -> Run] /\ run[n] # NoRun /\ JobOf(n).class = "copy"
  BY DEF IInv, TypeOK, Running, JobOf
<1>1. ASSUME NEW m \in Machines, Work(m), m # n PROVE run'[n] = run[n]
  BY <1>1, OtherRuns
<1>2. ASSUME Work(n)
      PROVE  \/ run'[n].at = run[n].at
             \/ run[n].at <= Length(n) /\ run'[n].at = run[n].at + 1
             \/ EraseSource(n) /\ run'[n].at = run[n].at + 1
             \/ JobOf(n).take \in strayed'
  <2>1. ~Running(n, "delete") /\ ~Running(n, "export") BY <1>0 DEF Running, JobOf
  <2>2. (\E s : End(n, s)) => run'[n] = NoRun BY <1>0 DEF End
  <2>3. \/ SkipFile(n) \/ EndFile(n) \/ BeginFile(n) \/ EraseSource(n) \/ FailRemove(n)
        \/ (\E s : End(n, s))
    BY <1>0, <1>2, <2>1 DEF Work, Start, Kill, LaunchCopy, YieldToChildren, MissFile,
       LoseFile, DeleteFile, Succeed, Deleting
  <2>4. SkipFile(n) \/ EndFile(n) => run[n].at <= Length(n) /\ run'[n].at = run[n].at + 1
    BY <1>0, Advanced DEF SkipFile, EndFile, Copying
  <2>5. BeginFile(n) => run'[n].at = run[n].at BY <1>0, Advanced DEF BeginFile
  <2>6. EraseSource(n) => run'[n].at = run[n].at + 1 BY <1>0, Advanced DEF EraseSource
  <2>7. FailRemove(n) => JobOf(n).take \in strayed' BY DEF FailRemove
  <2> QED BY <2>2, <2>3, <2>4, <2>5, <2>6, <2>7
<1>3. ASSUME NEW r \in Handlers, Serve(r) PROVE run' = run
  BY <1>3, ServeElsewhere DEF Elsewhere
<1>4. ASSUME NEW j \in DOMAIN jobs, Order(j) PROVE run' = run
  BY <1>4, OrderElsewhere DEF Elsewhere
<1> QED BY <1>1, <1>2, <1>3, <1>4 DEF Next, Order

(* What a copy has passed in its second round stays gone.                  *)
LEMMA EmptiedStays ==
  ASSUME IInv, Owned, Next, NEW n \in Machines, Emptied(n)
  PROVE  Emptied(n)'
<1> DEFINE t == JobOf(n).take
           L == Length(n)
           a == run[n].at
<1>0. IInv' /\ Owned' BY NextInvariant, OwnedStays
<1>1. PICK E \in SUBSET DOMAIN jobs : Move(E) BY NextMoves
<1>3. CASE run'[n] = NoRun BY <1>3 DEF Emptied, Running
<1>4. CASE run'[n].at = 1 /\ run'[n] # NoRun
  <2> SUFFICES ASSUME Running(n, "copy")', JobOf(n)'.take \notin strayed',
                      NEW k \in 1 .. Length(n)'
               PROVE  ~(k + Length(n)' < 1)
    BY <1>4 DEF Emptied
  <2>1. /\ JobOf(n)'.node = n /\ JobOf(n)'.class = "copy" /\ JobOf(n)' = jobs'[run'[n].job]
        /\ run'[n].job \in DOMAIN jobs'
    BY <1>0, <1>4 DEF IInv, TypeOK, RunInv, Running, JobOf
  <2>2. JobOf(n)'.files = n BY <1>0, <2>1 DEF Owned
  <2>3. JobOf(n)'.take \in Takes
    <3>1. jobs' \in Seq(Job) BY <1>0 DEF IInv, TypeOK
    <3>2. JobOf(n)' \in Job BY <2>1, <3>1
    <3> QED BY <3>2 DEF Job
  <2>4. Length(n)' = NumFiles[JobOf(n)'.take][n] BY <2>2 DEF Length
  <2>5. Length(n)' \in Nat BY <2>3, <2>4, ArchiveAssumption
  <2> QED BY <2>5
<1>5. CASE run[n] # NoRun /\ run'[n].job = run[n].job /\ run'[n] # NoRun
  <2>1. /\ JobOf(n)'.class = JobOf(n).class /\ JobOf(n)'.take = t
        /\ JobOf(n)'.path = JobOf(n).path /\ JobOf(n)'.files = JobOf(n).files /\ Length(n)' = L
    BY <1>1, <1>5, SameTurn
  <2> SUFFICES ASSUME Running(n, "copy")', t \notin strayed', NEW k \in 1 .. L,
                      k + L < run'[n].at
               PROVE  <<t, n, k>> \notin src'
    BY <2>1 DEF Emptied
  <2> DEFINE f == <<t, n, k>>
  <2>2. Running(n, "copy") BY <1>5, <2>1 DEF Running, JobOf
  <2>3. t \notin strayed BY StrayedStays
  <2>4. a \in Nat /\ JobOf(n).files = n /\ L \in Nat BY <2>2, <2>3, CopyTurn
  <2>5. k + L < a => f \notin src BY <2>2, <2>3 DEF Emptied
  <2>6. src' \subseteq src BY NothingReturns
  <2>7. CASE run'[n].at = a BY <2>5, <2>6, <2>7
  <2>8. CASE a <= L /\ run'[n].at = a + 1 BY <2>4, <2>8
  <2>9. CASE EraseSource(n) /\ run'[n].at = a + 1
    <3>1. a > L BY <2>4, <2>9 DEF EraseSource, Erasing
    <3>2. k + L < a \/ k = a - L BY <2>4, <2>9
    <3>3. k = a - L => File(n) = f BY <2>4, <3>1 DEF File
    <3>4. k = a - L => f \notin src'
      BY <2>4, <2>9, <3>3 DEF EraseSource, Visible
    <3> QED BY <2>5, <2>6, <3>2, <3>4
  <2> QED BY <1>5, <2>2, <2>7, <2>8, <2>9, ErasingTurn
<1>6. Turn(n, E) BY <1>1 DEF Move
<1> QED BY <1>3, <1>4, <1>5, <1>6 DEF Turn

\* What a step does to the exports of takes that do not stray: one that waits then has
\* waited or launched all its copies, and keeps them; one that succeeds waited, and the
\* copies it had succeeded.
Judged == \A i \in DOMAIN jobs : (jobs[i].class = "export" /\ jobs[i].take \notin strayed') =>
  /\ jobs'[i].status = "waiting" =>
       /\ jobs[i].status = "waiting" \/ Unlaunched(i) = {}
       /\ \A c \in Children(jobs, i) : jobs'[c].status # "deleted"
  /\ jobs'[i].status = "success" =>
       \/ jobs[i].status = "success"
       \/ jobs[i].status = "waiting" /\ \A c \in Children(jobs, i) : jobs'[c].status = "success"

(* A parent that waited takes the verdict of its children; no other row is *)
(* decided.                                                                *)
LEMMA SettledVerdict ==
  ASSUME NEW js \in Seq(Job), NEW j \in DOMAIN js, js[j].parent < j,
         NEW s \in Statuses \ {"ready", "deleted"}
  PROVE  LET ks == Settle(js, j, s)
         IN  \A i \in DOMAIN js :
               /\ ks[i].status = "deleted" => js[i].status = "deleted"
               /\ (i # j /\ ks[i].status = "waiting") => js[i].status = "waiting"
               /\ (i # j /\ ks[i].status = "success") =>
                    \/ js[i].status = "success"
                    \/ /\ js[i].status = "waiting"
                       /\ \A c \in Children(js, i) : ks[c].status = "success"
<1> DEFINE p  == js[j].parent
           js2 == [js EXCEPT ![j].status = s]
           ended == {js2[c].status : c \in Children(js2, p)}
           verdict == IF "failed" \in ended THEN "failed" ELSE "success"
           ks == Settle(js, j, s)
<1>0. js[j] \in Job OBVIOUS
<1>1. js[j] \in Job /\ s \in Statuses /\ p \in Nat BY <1>0 DEF Job
<1>2. /\ js2 \in Seq(Job) /\ DOMAIN js2 = DOMAIN js
      /\ js2[j].status = s /\ js2[j].parent = js[j].parent
      /\ \A i \in DOMAIN js \ {j} : js2[i] = js[i]
  <2> DEFINE y == [js[j] EXCEPT !.status = s]
  <2>1. js2 = [js EXCEPT ![j] = y] OBVIOUS
  <2>2. y \in Job /\ Same(js[j], y) /\ y.status = s BY <1>1, Restated
  <2> HIDE DEF js2, y
  <2>3. /\ js2 \in Seq(Job) /\ DOMAIN js2 = DOMAIN js /\ js2[j] = y
        /\ \A i \in DOMAIN js \ {j} : js2[i] = js[i]
    BY <2>1, <2>2, Replaced
  <2> QED BY <2>2, <2>3 DEF Same
<1>3. s # "deleted" OBVIOUS
<1> HIDE DEF js2
<1>4. CASE p # 0 /\ js2[p].status = "waiting" /\ ended \subseteq {"success", "failed"}
  <2>1. ks = [js2 EXCEPT ![p].status = verdict] BY <1>4 DEF Settle, js2
  <2>2. verdict \in {"success", "failed"} OBVIOUS
  <2>3. verdict \in Statuses BY <2>2 DEF Statuses
  <2>4. verdict = "success" => \A c \in Children(js2, p) : js2[c].status = "success" BY <1>4
  <2> HIDE DEF verdict, ended
  <2>5. p \in DOMAIN js /\ p # j /\ js2[p] = js[p] /\ js2[p] \in Job
    <3>1. p \in 1 .. j - 1 /\ j \in 1 .. Len(js) BY <1>1, <1>4
    <3> QED BY <1>2, <3>1
  <2> DEFINE y == [js2[p] EXCEPT !.status = verdict]
  <2>6. y \in Job /\ y.status = verdict BY <2>3, <2>5, Restated
  <2>7. ks = [js2 EXCEPT ![p] = y] BY <2>1
  <2> HIDE DEF y, ks
  <2>8. /\ ks[p].status = verdict /\ js[p].status = "waiting"
        /\ \A i \in DOMAIN js \ {p} : ks[i] = js2[i]
    <3>1. ks[p] = y /\ \A i \in DOMAIN js2 \ {p} : ks[i] = js2[i]
      BY <1>2, <2>5, <2>6, <2>7, Replaced
    <3> QED BY <1>2, <1>4, <2>5, <2>6, <3>1
  <2>9. Children(js, p) \subseteq Children(js2, p)
    BY <1>2, <1>3 DEF Children
  <2>10. verdict = "success" => \A c \in Children(js, p) : ks[c].status = "success"
    <3>1. Children(js, p) \subseteq DOMAIN js BY DEF Children
    <3> QED BY <2>4, <2>8, <2>9, <3>1
  <2> HIDE DEF js2, p
  <2> QED BY <1>2, <1>3, <2>2, <2>8, <2>10 DEF ks
<1>5. CASE ~(p # 0 /\ js2[p].status = "waiting" /\ ended \subseteq {"success", "failed"})
  <2>1. ks = js2 BY <1>5 DEF Settle, js2
  <2> HIDE DEF ks
  <2>2. \A i \in DOMAIN js : i = j \/ ks[i] = js[i] BY <1>2, <2>1
  <2>3. ks[j].status # "deleted" BY <1>2, <1>3, <2>1
  <2> QED BY <2>2, <2>3 DEF ks
<1> QED BY <1>4, <1>5

(* Exports and copies that stay as they are.                               *)
LEMMA QuietExports ==
  ASSUME TypeOK, JobsInv,
         \A i \in DOMAIN jobs : jobs[i].class # "thumb" => jobs'[i] = jobs[i]
  PROVE  Judged
<1>1. \A i \in DOMAIN jobs : \A c \in Children(jobs, i) : c \in DOMAIN jobs /\ jobs[c].class # "thumb"
                                                          /\ jobs[c].status # "deleted"
  BY JobFacts DEF Children, Argued
<1> QED BY <1>1 DEF Judged

(* A machine's job ends.                                                   *)
LEMMA EndedExports ==
  ASSUME TypeOK, JobsInv, RunInv, NEW m \in Machines, run[m] # NoRun,
         NEW s \in {"failed", "success", "waiting"}, End(m, s),
         (s = "success" => JobOf(m).class # "export"),
         (s = "waiting" => Unlaunched(run[m].job) = {})
  PROVE  Judged
<1> DEFINE j == run[m].job
<1>1. /\ j \in DOMAIN jobs /\ jobs[j].parent < j /\ jobs \in Seq(Job)
      /\ JobOf(m) = jobs[j] /\ jobs[j].status = "running"
  BY RunFacts, JobFacts
<1>2. jobs' = Settle(jobs, j, s) BY DEF End
<1>3. s \in Statuses \ {"ready", "deleted"} BY DEF Statuses
<1>4. /\ jobs'[j].status = s
      /\ \A i \in DOMAIN jobs :
           /\ jobs'[i].status = "deleted" => jobs[i].status = "deleted"
           /\ (i # j /\ jobs'[i].status = "waiting") => jobs[i].status = "waiting"
           /\ (i # j /\ jobs'[i].status = "success") =>
                \/ jobs[i].status = "success"
                \/ /\ jobs[i].status = "waiting"
                   /\ \A c \in Children(jobs, i) : jobs'[c].status = "success"
  <2> HIDE DEF j
  <2>1. Closed(jobs, jobs', j, s) BY <1>1, <1>2, <1>3, Settled
  <2>2. jobs'[j].status = s BY <2>1 DEF Closed
  <2> QED BY <1>1, <1>2, <1>3, <2>2, SettledVerdict
<1>5. \A i \in DOMAIN jobs : \A c \in Children(jobs, i) : c \in DOMAIN jobs /\ jobs[c].status # "deleted"
  BY DEF Children
<1> HIDE DEF j
<1>6. /\ s = "waiting" => Unlaunched(j) = {}
      /\ s = "success" => jobs[j].class # "export"
  BY <1>1 DEF j
<1> QED BY <1>4, <1>5, <1>6 DEF Judged

(* A machine gets a job: an export loses its children and runs.            *)
LEMMA StartExports ==
  ASSUME TypeOK, JobsInv, NEW m \in Machines, Start(m)
  PROVE  Judged
<1>1. PICK j \in DOMAIN jobs :
        jobs' = [DeleteChildren(jobs, j) EXCEPT ![j].status = "running", ![j].node = m]
  BY DEF Start
<1>2. jobs \in Seq(Job) BY JobFacts
<1> DEFINE ks == DeleteChildren(jobs, j)
<1>3. /\ ks \in Seq(Job) /\ DOMAIN ks = DOMAIN jobs
      /\ \A i \in DOMAIN jobs : /\ ks[i] = jobs[i] \/ ks[i].status = "deleted"
                                /\ jobs[i].parent # j => ks[i] = jobs[i]
  BY <1>2, ChildrenDeleted
<1>4. jobs' = [ks EXCEPT ![j].status = "running", ![j].node = m] BY <1>1
<1> HIDE DEF ks
<1> DEFINE y == [ks[j] EXCEPT !.status = "running", !.node = m]
<1>5. ks[j] \in Job /\ "running" \in Statuses BY <1>3 DEF Statuses
<1>6. y \in Job /\ y.status = "running" BY <1>5 DEF Job
<1>7. jobs' = [ks EXCEPT ![j] = y] BY <1>3, <1>4
<1> HIDE DEF y
<1>8. /\ jobs'[j].status = "running"
      /\ \A i \in DOMAIN jobs \ {j} : jobs'[i] = ks[i]
  BY <1>3, <1>6, <1>7, Replaced
<1>9. ASSUME NEW i \in DOMAIN jobs, i # j, NEW c \in Children(jobs, i)
      PROVE  jobs'[c].status # "deleted"
  <2>1. c \in DOMAIN jobs /\ jobs[c].parent # j /\ jobs[c].status # "deleted"
    BY <1>9 DEF Children
  <2> QED BY <1>3, <1>8, <2>1
<1>10. \A i \in DOMAIN jobs \ {j} : jobs'[i].status \in {"waiting", "success"} =>
         jobs[i].status = jobs'[i].status
  BY <1>3, <1>8
<1> QED BY <1>8, <1>9, <1>10 DEF Judged

(* A user starts a job again: an export loses its children and is ready.   *)
LEMMA RestartExports ==
  ASSUME TypeOK, JobsInv, NEW j \in DOMAIN jobs, NEW same \in BOOLEAN, RestartJob(j, same)
  PROVE  Judged
<1> DEFINE ks == DeleteChildren(jobs, j)
<1>1. jobs' = Again(ks, {j}, same) BY DEF RestartJob
<1>2. jobs \in Seq(Job) BY JobFacts
<1>3. /\ ks \in Seq(Job) /\ DOMAIN ks = DOMAIN jobs
      /\ \A i \in DOMAIN jobs : /\ ks[i] = jobs[i] \/ ks[i].status = "deleted"
                                /\ jobs[i].parent # j => ks[i] = jobs[i]
  BY <1>2, ChildrenDeleted
<1> HIDE DEF ks
<1>4. /\ jobs'[j].status = "ready"
      /\ \A i \in DOMAIN jobs \ {j} : jobs'[i] = ks[i]
  <2>1. \A i \in DOMAIN ks : (i \in {j} => jobs'[i].status = "ready") /\ (i \notin {j} => jobs'[i] = ks[i])
    BY <1>1, <1>3, StartedAgain
  <2> QED BY <1>3, <2>1
<1>5. ASSUME NEW i \in DOMAIN jobs, i # j, NEW c \in Children(jobs, i)
      PROVE  jobs'[c].status # "deleted"
  <2>1. c \in DOMAIN jobs /\ jobs[c].parent # j /\ jobs[c].status # "deleted"
    BY <1>5 DEF Children
  <2> QED BY <1>3, <1>4, <2>1
<1>6. \A i \in DOMAIN jobs \ {j} : jobs'[i].status \in {"waiting", "success"} =>
         jobs[i].status = jobs'[i].status
  BY <1>3, <1>4
<1> QED BY <1>4, <1>5, <1>6 DEF Judged

(* A user starts the failed children of an export again: it waits, for all *)
(* the copies of its take, or the take strays.                             *)
LEMMA RestartFailedExports ==
  ASSUME TypeOK, JobsInv, NEW j \in DOMAIN jobs, NEW same \in BOOLEAN,
         RestartFailedChildren(j, same)
  PROVE  Judged
<1> DEFINE failed == {c \in Children(jobs, j) : jobs[c].status = "failed"}
           ks == Again(jobs, failed, same)
<1>1. /\ jobs' = [ks EXCEPT ![j].status = "waiting"]
      /\ Unlaunched(j) = {} \/ jobs[j].take \in strayed'
  BY DEF RestartFailedChildren
<1>2. jobs \in Seq(Job) BY JobFacts
<1>3. \A i \in failed : i \in DOMAIN jobs /\ jobs[i].status = "failed" BY DEF Children
<1> HIDE DEF failed
<1>4. /\ ks \in Seq(Job) /\ DOMAIN ks = DOMAIN jobs
      /\ \A i \in DOMAIN jobs : /\ i \in failed => ks[i].status = "ready"
                                /\ i \notin failed => ks[i] = jobs[i]
  BY <1>2, StartedAgain
<1> HIDE DEF ks
<1> DEFINE y == [ks[j] EXCEPT !.status = "waiting"]
<1>5. y \in Job /\ y.status = "waiting"
  <2>1. ks[j] \in Job /\ "waiting" \in Statuses BY <1>4 DEF Statuses
  <2> QED BY <2>1, Restated
<1>6. jobs' = [ks EXCEPT ![j] = y] BY <1>1
<1> HIDE DEF y
<1>7. jobs'[j].status = "waiting" /\ \A i \in DOMAIN jobs \ {j} : jobs'[i] = ks[i]
  BY <1>4, <1>5, <1>6, Replaced
<1>8. ASSUME NEW i \in DOMAIN jobs, NEW c \in Children(jobs, i)
      PROVE  jobs'[c].status # "deleted"
  <2>1. c \in DOMAIN jobs /\ jobs[c].status # "deleted" BY DEF Children
  <2> QED BY <1>4, <1>7, <2>1
<1>9. \A i \in DOMAIN jobs \ {j} : jobs'[i].status \in {"waiting", "success"} =>
         jobs[i].status = jobs'[i].status
  BY <1>4, <1>7
<1> QED BY <1>1, <1>7, <1>8, <1>9 DEF Judged

(* A row that is new, or a thumbnail, decides no export.                   *)
LEMMA OtherExports ==
  ASSUME TypeOK, JobsInv,
         \/ jobs' = jobs
         \/ \E x : jobs' = Append(jobs, x)
         \/ \E j \in DOMAIN jobs, s \in Statuses :
              jobs[j].class = "thumb" /\ jobs' = [jobs EXCEPT ![j].status = s]
  PROVE  Judged
<1>1. jobs \in Seq(Job) BY DEF TypeOK
<1>2. CASE jobs' = jobs BY <1>2, QuietExports
<1>3. ASSUME NEW x, jobs' = Append(jobs, x) PROVE Judged
  <2>1. \A i \in DOMAIN jobs : jobs'[i] = jobs[i] BY <1>1, <1>3
  <2> QED BY <2>1, QuietExports
<1>4. ASSUME NEW j \in DOMAIN jobs, NEW s \in Statuses, jobs[j].class = "thumb",
             jobs' = [jobs EXCEPT ![j].status = s]
      PROVE  Judged
  <2>1. \A i \in DOMAIN jobs \ {j} : jobs'[i] = jobs[i] BY <1>1, <1>4
  <2> QED BY <1>4, <2>1, QuietExports
<1> QED BY <1>2, <1>3, <1>4

(* A machine's step.                                                       *)
LEMMA WorkExports ==
  ASSUME TypeOK, JobsInv, RunInv, NEW m \in Machines, Work(m)
  PROVE  Judged
<1>0. jobs' = jobs => Judged BY OtherExports
<1>1. CASE Start(m) BY <1>1, StartExports
<1>2. CASE Kill(m) BY <1>2, EndedExports DEF Kill
<1>3. CASE LaunchCopy(m) BY <1>3, OtherExports DEF LaunchCopy
<1>4. CASE YieldToChildren(m)
  <2>1. run[m] # NoRun BY <1>4 DEF YieldToChildren, Running
  <2>2. PICK s \in {"failed", "waiting"} : End(m, s) /\ (s = "waiting" => JobOf(m).cameras)
    BY <1>4 DEF YieldToChildren
  <2>3. JobOf(m).cameras => Unlaunched(run[m].job) = {} BY <1>4 DEF YieldToChildren
  <2> QED BY <2>1, <2>2, <2>3, EndedExports
<1>5. CASE SkipFile(m) BY <1>0, <1>5 DEF SkipFile, rows
<1>6. CASE MissFile(m) BY <1>6, EndedExports DEF MissFile, Copying, Running
<1>7. CASE BeginFile(m) BY <1>0, <1>7 DEF BeginFile, rows
<1>8. CASE EndFile(m) BY <1>0, <1>8 DEF EndFile, rows
<1>9. CASE LoseFile(m) BY <1>9, EndedExports DEF LoseFile, Copying, Running
<1>10. CASE EraseSource(m) BY <1>0, <1>10 DEF EraseSource, rows
<1>11. CASE DeleteFile(m) BY <1>0, <1>11 DEF DeleteFile, rows
<1>12. CASE FailRemove(m) BY <1>0, <1>12 DEF FailRemove, rows
<1>13. CASE Succeed(m)
  <2>1. run[m] # NoRun /\ End(m, "success") /\ JobOf(m).class # "export"
    BY <1>13 DEF Succeed, Running, JobOf
  <2> QED BY <2>1, EndedExports
<1> QED
  BY <1>1, <1>2, <1>3, <1>4, <1>5, <1>6, <1>7, <1>8, <1>9, <1>10, <1>11, <1>12, <1>13 DEF Work

(* Every step judges the exports in this way.                              *)
LEMMA NextExports ==
  ASSUME IInv, Next
  PROVE  Judged
<1>0. TypeOK /\ JobsInv /\ RunInv /\ ReqInv BY DEF IInv
<1>1. {"ready", "running", "success", "failed"} \subseteq Statuses BY DEF Statuses
<1>2. ASSUME NEW j \in DOMAIN jobs, jobs[j].class = "thumb",
             NEW s \in {"ready", "running", "success", "failed"},
             jobs' = [jobs EXCEPT ![j].status = s]
      PROVE  Judged
  BY <1>0, <1>1, <1>2, OtherExports
<1>3. ASSUME NEW r \in Handlers, Serve(r) PROVE Judged
  <2>1. CASE \/ jobs' = jobs
             \/ \E x : jobs' = Append(jobs, x)
    BY <1>0, <2>1, OtherExports
  <2>2. CASE SubmitExport(r) BY <2>1, <2>2 DEF SubmitExport
  <2>3. CASE SubmitThumbnail(r) BY <2>1, <2>3 DEF SubmitThumbnail
  <2>4. CASE SubmitDelete(r) BY <2>1, <2>4 DEF SubmitDelete
  <2>5. ASSUME NEW j \in DOMAIN jobs, ReadUpload(r, j) PROVE Judged
    <3>1. jobs[j].class = "thumb" /\ (jobs' = jobs \/ jobs' = [jobs EXCEPT ![j].status = "failed"])
      BY <2>5 DEF ReadUpload
    <3> QED BY <1>2, <2>1, <3>1
  <2>6. ASSUME ReleaseThumbnail(r) \/ SaveUpload(r) \/ Crash(r) PROVE Judged
    <3> DEFINE j == req[r].thumb
    <3>1. \/ jobs' = jobs
          \/ /\ req[r].at \in {"ready", "upload"}
             /\ \E s \in {"ready", "success", "failed"} : jobs' = [jobs EXCEPT ![j].status = s]
      BY <1>0, <2>6 DEF ReleaseThumbnail, SaveUpload, Crash, ReqInv
    <3>2. ASSUME req[r].at \in {"ready", "upload"}, NEW s \in {"ready", "success", "failed"},
                 jobs' = [jobs EXCEPT ![j].status = s]
          PROVE  Judged
      <4>1. j \in DOMAIN jobs /\ jobs[j].class = "thumb" BY <1>0, <3>2 DEF ReqInv
      <4> HIDE DEF j
      <4> QED BY <1>2, <3>2, <4>1
    <3> QED BY <2>1, <3>1, <3>2
  <2>7. CASE \/ \E t \in Takes, p \in Paths : SaveExport(r, t, p)
             \/ \E t \in Takes : GatherFiles(r, t)
             \/ DeleteRows(r)
    BY <2>1, <2>7 DEF SaveExport, GatherFiles, DeleteRows, rows
  <2> QED BY <1>3, <2>2, <2>3, <2>4, <2>5, <2>6, <2>7 DEF Serve
<1>4. ASSUME NEW j \in DOMAIN jobs, Order(j) PROVE Judged
  <2>1. CASE StartThumbnail(j) BY <1>2, <2>1 DEF StartThumbnail
  <2>2. ASSUME NEW same \in BOOLEAN, RestartJob(j, same) \/ RestartFailedChildren(j, same)
        PROVE  Judged
    BY <1>0, <2>2, RestartExports, RestartFailedExports
  <2>3. ASSUME NEW same \in BOOLEAN, CloneJob(j, same) PROVE Judged
    BY <1>0, <2>3, OtherExports DEF CloneJob
  <2> QED BY <1>4, <2>1, <2>2, <2>3 DEF Order
<1>5. ASSUME NEW m \in Machines, Work(m) PROVE Judged BY <1>0, <1>5, WorkExports
<1> QED BY <1>3, <1>4, <1>5 DEF Next, Order

(* A copy succeeds when it has passed all its files twice: its machine has *)
(* none of them any more.                                                  *)
LEMMA SucceededCopy ==
  ASSUME IInv, Owned, NEW n \in Machines, Emptied(n), Succeed(n),
         JobOf(n).class = "copy", JobOf(n).take \notin strayed
  PROVE  JobOf(n).files = n /\ Without(JobOf(n).take, n)
<1>1. Running(n, "copy") /\ run[n].at > 2 * Length(n) BY DEF Succeed, Running, JobOf
<1>2. /\ run[n].at \in Nat /\ JobOf(n).take \in Takes /\ JobOf(n).files = n
      /\ Length(n) \in Nat /\ Length(n) = NumFiles[JobOf(n).take][n]
  BY <1>1, CopyTurn
<1>3. ASSUME NEW f \in Files, f[1] = JobOf(n).take, f[2] = n
      PROVE  f \notin src
  <2>1. PICK k \in 1 .. Length(n) : f = <<JobOf(n).take, n, k>> BY <1>2, <1>3 DEF Files
  <2>2. k + Length(n) < run[n].at BY <1>1, <1>2
  <2> QED BY <1>1, <2>1, <2>2 DEF Emptied
<1> QED BY <1>2, <1>3 DEF Without

(* The machine of a copy that succeeded stays without files of the take.   *)
LEMMA MovedStays ==
  ASSUME IInv, Owned, Moved, \A m \in Machines : Emptied(m), Next
  PROVE  Moved'
<1>0. Ordered /\ strayed \subseteq strayed' BY NextRows, StrayedStays
<1>1. DOMAIN jobs \subseteq DOMAIN jobs' /\ \A i \in DOMAIN jobs : Same(jobs[i], jobs'[i])
  BY NextMoves DEF Move, Kept
<1> SUFFICES ASSUME NEW j \in DOMAIN jobs', jobs'[j].class = "copy",
                    jobs'[j].status = "success", jobs'[j].take \notin strayed'
             PROVE  \A f \in Files : (f[1] = jobs'[j].take /\ f[2] = jobs'[j].files) => f \notin src'
  BY DEF Moved, Without, Files
<1>2. j \in DOMAIN jobs BY <1>0 DEF Ordered, Sourced
<1>3. /\ jobs[j].class = "copy" /\ jobs'[j].take = jobs[j].take /\ jobs'[j].files = jobs[j].files
      /\ jobs[j].take \notin strayed
  BY <1>0, <1>1, <1>2 DEF Same
<1>4. Without(jobs[j].take, jobs[j].files)
  <2>1. CASE jobs[j].status = "success" BY <1>2, <1>3, <2>1 DEF Moved
  <2>2. ASSUME NEW n \in Machines, Succeed(n), run[n].job = j
        PROVE  Without(jobs[j].take, jobs[j].files)
    <3>1. JobOf(n) = jobs[j] BY <2>2 DEF JobOf
    <3> QED BY <1>3, <2>2, <3>1, SucceededCopy
  <2> QED BY <1>0, <1>2, <1>3, <2>1, <2>2 DEF Ordered
<1> QED BY <1>3, <1>4, NothingReturns DEF Without

(* An export that succeeded has emptied the machines of its take, since    *)
(* each of them had a copy, and all its copies succeeded.                  *)
LEMMA CompleteStays ==
  ASSUME IInv, Owned, Moved, Complete, \A m \in Machines : Emptied(m), Next
  PROVE  Complete'
<1>0. Ordered /\ Judged /\ Moved' /\ strayed \subseteq strayed' /\ IInv'
  BY NextRows, NextExports, MovedStays, StrayedStays, NextInvariant
<1>1. DOMAIN jobs \subseteq DOMAIN jobs' /\ \A i \in DOMAIN jobs : Same(jobs[i], jobs'[i])
  BY NextMoves DEF Move, Kept
<1>2. Files' = Files /\ \A t : Recorders(t)' = Recorders(t) BY DEF Files, Recorders
<1> SUFFICES ASSUME NEW j \in DOMAIN jobs', jobs'[j].class = "export", jobs'[j].take \notin strayed'
             PROVE  /\ jobs'[j].status = "waiting" => Unlaunched(j)' = {}
                    /\ jobs'[j].status = "success" =>
                         \A f \in Files : (f[1] = jobs'[j].take /\ f[2] \in Machines) => f \notin src'
  BY <1>2 DEF Complete, Without
<1>3. CASE j \notin DOMAIN jobs BY <1>0, <1>3 DEF Ordered, Sourced
<1>4. CASE j \in DOMAIN jobs
  <2> DEFINE t == jobs[j].take
  <2>1. jobs[j].class = "export" /\ jobs'[j].take = t /\ t \notin strayed' /\ t \notin strayed
    BY <1>0, <1>1, <1>4 DEF Same
  <2>2. /\ jobs[j].status = "waiting" => Unlaunched(j) = {}
        /\ jobs[j].status = "success" => \A m \in Machines : Without(t, m)
    BY <1>4, <2>1 DEF Complete
  <2>3. ASSUME jobs'[j].status = "waiting" PROVE Unlaunched(j)' = {}
    <3>1. Unlaunched(j) = {} /\ \A c \in Children(jobs, j) : jobs'[c].status # "deleted"
      BY <1>0, <1>4, <2>1, <2>2, <2>3 DEF Judged
    <3>2. \A c \in Children(jobs, j) : c \in Children(jobs', j) /\ jobs'[c].files = jobs[c].files
      BY <1>1, <3>1 DEF Children, Same
    <3> QED BY <1>2, <2>1, <3>1, <3>2 DEF Unlaunched, Recorders
  <2>4. ASSUME jobs'[j].status = "success", jobs[j].status # "success",
               NEW f \in Files, f[1] = t, f[2] \in Machines
        PROVE  f \notin src'
    <3> DEFINE m == f[2]
    <3>1. Unlaunched(j) = {} /\ \A c \in Children(jobs, j) : jobs'[c].status = "success"
      BY <1>0, <1>4, <2>1, <2>2, <2>4 DEF Judged
    <3>2. t \in Takes /\ m \in Recorders(t)
      <4>1. jobs[j] \in Job BY <1>4, JobFacts DEF IInv
      <4>2. t \in Takes BY <4>1 DEF Job
      <4>3. NumFiles[t][m] \in Nat BY <2>4, <4>2, ArchiveAssumption
      <4>4. \E k \in 1 .. NumFiles[t][m] : TRUE BY <2>4, <4>2 DEF Files
      <4>5. NumFiles[t][m] > 0 BY <4>3, <4>4
      <4> QED BY <2>4, <4>2, <4>5 DEF Recorders
    <3>3. PICK c \in Children(jobs, j) : jobs[c].files = m BY <3>1, <3>2 DEF Unlaunched
    <3>4. c \in DOMAIN jobs /\ jobs[c].parent = j BY DEF Children
    <3>5. jobs[c].class = "copy" /\ jobs[c].take = t
      <4>1. j # 0 BY <1>4, JobFacts DEF IInv
      <4> QED BY <3>4, <4>1 DEF IInv, JobsInv, Argued
    <3>6. /\ jobs'[c].class = "copy" /\ jobs'[c].take = t /\ jobs'[c].files = m
          /\ c \in DOMAIN jobs' /\ jobs'[c].status = "success"
      BY <1>1, <3>1, <3>3, <3>4, <3>5 DEF Same
    <3> QED BY <1>0, <1>2, <2>1, <2>4, <3>6 DEF Moved, Without
  <2>5. CASE jobs'[j].status = "success" /\ jobs[j].status = "success"
    BY <2>1, <2>2, <2>5, NothingReturns DEF Without
  <2> QED BY <2>1, <2>3, <2>4, <2>5
<1> QED BY <1>3, <1>4

\* No thumbnail begins but by StartThumbnail, or as the clone of one that has begun.
Watched == \A j \in DOMAIN jobs' : (jobs'[j].class = "thumb" /\ Begun(j)') =>
  \E i \in DOMAIN jobs : /\ jobs[i].class = "thumb" /\ jobs[i].take = jobs'[j].take
                          /\ (Begun(i) \/ StartThumbnail(i))

(* Steps that begin none of the thumbnails that are there.                 *)
LEMMA QuietThumbs ==
  ASSUME DOMAIN jobs \subseteq DOMAIN jobs', \A i \in DOMAIN jobs : Same(jobs[i], jobs'[i]),
         \A i \in DOMAIN jobs' \ DOMAIN jobs : (jobs'[i].class = "thumb" /\ Begun(i)') =>
           \E k \in DOMAIN jobs : /\ jobs[k].class = "thumb" /\ jobs[k].take = jobs'[i].take
                                   /\ Begun(k),
         \A i \in DOMAIN jobs : jobs[i].class = "thumb" =>
           \/ jobs'[i].status \in {jobs[i].status, "ready"}
           \/ Begun(i) \/ StartThumbnail(i),
         \A q \in Handlers : req'[q].at = "upload" =>
           \/ req[q].at = "upload" /\ req[q].thumb = req'[q].thumb
           \/ jobs[req'[q].thumb].status \notin {"created", "ready"}
  PROVE  Watched
<1> SUFFICES ASSUME NEW j \in DOMAIN jobs, jobs'[j].class = "thumb", Begun(j)'
             PROVE  jobs[j].class = "thumb" /\ jobs[j].take = jobs'[j].take
                    /\ (Begun(j) \/ StartThumbnail(j))
  BY DEF Watched
<1>1. jobs[j].class = "thumb" /\ jobs[j].take = jobs'[j].take /\ jobs[j].needs = jobs'[j].needs
  BY DEF Same
<1>2. CASE jobs'[j].needs = 0 BY <1>1, <1>2 DEF Begun
<1>3. CASE jobs'[j].status \notin {"created", "ready"}
  <2>1. jobs'[j].status = jobs[j].status \/ Begun(j) \/ StartThumbnail(j) BY <1>1, <1>3
  <2> QED BY <1>1, <1>3, <2>1 DEF Begun
<1>4. ASSUME NEW r \in Handlers, req'[r].at = "upload", req'[r].thumb = j
      PROVE  Begun(j)
  BY <1>4 DEF Begun
<1> QED BY <1>1, <1>2, <1>3, <1>4 DEF Begun

(* The job of a machine that ends is no thumbnail, nor is its parent.      *)
LEMMA EndedThumbs ==
  ASSUME TypeOK, JobsInv, RunInv, NEW m \in Machines, run[m] # NoRun,
         NEW s \in {"failed", "success", "waiting"}, End(m, s)
  PROVE  \A i \in DOMAIN jobs : jobs[i].class = "thumb" => jobs'[i] = jobs[i]
<1> DEFINE j == run[m].job
<1>1. /\ j \in DOMAIN jobs /\ jobs[j].parent < j /\ jobs \in Seq(Job) /\ Argued(j)
      /\ jobs[j].class # "thumb" /\ jobs[j].status = "running"
  BY RunFacts, JobFacts
<1>2. jobs' = Settle(jobs, j, s) BY DEF End
<1>3. s \in Statuses \ {"ready", "deleted"} BY DEF Statuses
<1>4. \A i \in DOMAIN jobs : i = j \/ jobs'[i] = jobs[i] \/ (i = jobs[j].parent /\ i # 0)
  <2> HIDE DEF j
  <2>1. Closed(jobs, jobs', j, s) BY <1>1, <1>2, <1>3, Settled
  <2> QED BY <2>1 DEF Closed
<1>5. jobs[j].parent # 0 => jobs[jobs[j].parent].class = "export" BY <1>1 DEF Argued
<1> HIDE DEF j
<1> QED BY <1>1, <1>4, <1>5

(* Deleted children are no thumbnails.                                     *)
LEMMA ChildrenNoThumbs ==
  ASSUME TypeOK, JobsInv, NEW j \in DOMAIN jobs
  PROVE  \A i \in DOMAIN jobs : jobs[i].class = "thumb" => DeleteChildren(jobs, j)[i] = jobs[i]
<1>1. jobs \in Seq(Job) /\ j # 0 BY JobFacts
<1>2. \A i \in DOMAIN jobs : jobs[i].class = "thumb" => jobs[i].parent # j
  BY <1>1 DEF JobsInv, Argued
<1> QED BY <1>1, <1>2, ChildrenDeleted

(* A machine's step concerns no thumbnail.                                 *)
LEMMA WorkThumbs ==
  ASSUME TypeOK, JobsInv, RunInv, NEW m \in Machines, Work(m)
  PROVE  /\ \A i \in DOMAIN jobs : jobs[i].class = "thumb" => jobs'[i] = jobs[i]
         /\ \A i \in DOMAIN jobs' \ DOMAIN jobs : jobs'[i].class # "thumb"
<1>1. \A i \in DOMAIN jobs : jobs[i].class = "thumb" => jobs'[i] = jobs[i]
  <2>1. CASE Start(m)
    <3>1. PICK j \in DOMAIN jobs :
            /\ jobs[j].class # "thumb"
            /\ jobs' = [DeleteChildren(jobs, j) EXCEPT ![j].status = "running", ![j].node = m]
      BY <2>1 DEF Start
    <3> DEFINE ks == DeleteChildren(jobs, j)
    <3>2. DOMAIN ks = DOMAIN jobs /\ \A i \in DOMAIN jobs : jobs[i].class = "thumb" => ks[i] = jobs[i]
      BY ChildrenNoThumbs, ChildrenDeleted DEF TypeOK
    <3>3. jobs' = [ks EXCEPT ![j].status = "running", ![j].node = m] BY <3>1
    <3> HIDE DEF ks
    <3> QED BY <3>1, <3>2, <3>3
  <2>2. ASSUME NEW s \in {"failed", "success", "waiting"}, End(m, s), run[m] # NoRun
        PROVE  \A i \in DOMAIN jobs : jobs[i].class = "thumb" => jobs'[i] = jobs[i]
    BY <2>2, EndedThumbs
  <2>3. ASSUME NEW x, jobs' = Append(jobs, x)
        PROVE  \A i \in DOMAIN jobs : jobs'[i] = jobs[i]
    BY <2>3 DEF TypeOK
  <2>4. CASE LaunchCopy(m) BY <2>3, <2>4 DEF LaunchCopy
  <2>5. CASE Kill(m) BY <2>2, <2>5 DEF Kill
  <2>6. CASE YieldToChildren(m)
    <3>1. run[m] # NoRun /\ \E s \in {"failed", "waiting"} : End(m, s)
      BY <2>6 DEF YieldToChildren, Running
    <3> QED BY <2>2, <3>1
  <2>7. CASE MissFile(m) BY <2>2, <2>7 DEF MissFile, Copying, Running
  <2>8. CASE LoseFile(m) BY <2>2, <2>8 DEF LoseFile, Copying, Running
  <2>9. CASE Succeed(m) BY <2>2, <2>9 DEF Succeed, Running
  <2>10. CASE \/ SkipFile(m) \/ BeginFile(m) \/ EndFile(m) \/ EraseSource(m)
              \/ DeleteFile(m) \/ FailRemove(m)
    BY <2>10 DEF SkipFile, BeginFile, EndFile, EraseSource, DeleteFile, FailRemove, rows
  <2> QED BY <2>1, <2>4, <2>5, <2>6, <2>7, <2>8, <2>9, <2>10 DEF Work
<1>2. \A i \in DOMAIN jobs' \ DOMAIN jobs : jobs'[i].class # "thumb"
  <2>1. DOMAIN jobs' = DOMAIN jobs \/ LaunchCopy(m)
    <3>1. ASSUME NEW s \in {"failed", "success", "waiting"}, End(m, s), run[m] # NoRun
          PROVE  DOMAIN jobs' = DOMAIN jobs
      <4> DEFINE j == run[m].job
      <4>1. j \in DOMAIN jobs /\ jobs[j].parent < j /\ jobs \in Seq(Job) /\ jobs[j].status = "running"
        BY <3>1, RunFacts, JobFacts
      <4>2. jobs' = Settle(jobs, j, s) BY <3>1 DEF End
      <4>3. s \in Statuses \ {"ready", "deleted"} BY DEF Statuses
      <4> HIDE DEF j
      <4> QED BY <4>1, <4>2, <4>3, Settled
    <3>2. Start(m) => DOMAIN jobs' = DOMAIN jobs BY DEF Start, DeleteChildren
    <3>3. Kill(m) => DOMAIN jobs' = DOMAIN jobs BY <3>1 DEF Kill
    <3>4. YieldToChildren(m) => DOMAIN jobs' = DOMAIN jobs
      <4> SUFFICES ASSUME YieldToChildren(m) PROVE DOMAIN jobs' = DOMAIN jobs
        OBVIOUS
      <4>1. run[m] # NoRun /\ \E s \in {"failed", "waiting"} : End(m, s)
        BY DEF YieldToChildren, Running
      <4> QED BY <3>1, <4>1
    <3>5. MissFile(m) \/ LoseFile(m) \/ Succeed(m) => DOMAIN jobs' = DOMAIN jobs
      BY <3>1 DEF MissFile, LoseFile, Succeed, Copying, Running
    <3>6. (\/ SkipFile(m) \/ BeginFile(m) \/ EndFile(m) \/ EraseSource(m)
           \/ DeleteFile(m) \/ FailRemove(m)) => DOMAIN jobs' = DOMAIN jobs
      BY DEF SkipFile, BeginFile, EndFile, EraseSource, DeleteFile, FailRemove, rows
    <3> QED BY <3>2, <3>3, <3>4, <3>5, <3>6 DEF Work
  <2>2. CASE LaunchCopy(m)
    <3> DEFINE z == NewJob("copy", "ready", JobOf(m).take, JobOf(m).path)
    <3>1. PICK s \in Machines :
            jobs' = Append(jobs, [z EXCEPT !.files = s, !.node = s, !.parent = run[m].job])
      BY <2>2 DEF LaunchCopy, Unlaunched, Recorders
    <3> DEFINE x == [z EXCEPT !.files = s, !.node = s, !.parent = run[m].job]
    <3>2. x.class = "copy" BY DEF NewJob
    <3>3. jobs' = Append(jobs, x) BY <3>1
    <3> HIDE DEF x
    <3> QED BY <3>2, <3>3 DEF TypeOK
  <2> QED BY <2>1, <2>2
<1> QED BY <1>1, <1>2

(* A request begins no thumbnail: its upload is of one that runs.          *)
LEMMA ServeUploads ==
  ASSUME IInv, NEW r \in Handlers, Serve(r)
  PROVE  \A q \in Handlers : req'[q].at = "upload" =>
           \/ req[q].at = "upload" /\ req[q].thumb = req'[q].thumb
           \/ jobs[req'[q].thumb].status \notin {"created", "ready"}
<1>0. TypeOK /\ req \in [Handlers -> Request] /\ req[r] \in Request
  BY ReqFacts DEF IInv, TypeOK
<1>1. ASSUME NEW y, req' = [req EXCEPT ![r] = y], y.at # "upload"
      PROVE  \A q \in Handlers : req'[q].at = "upload" => req'[q] = req[q]
  BY <1>0, <1>1
<1>2. Reply(r) => \A q \in Handlers : req'[q].at = "upload" => req'[q] = req[q]
  <2> DEFINE x == NoReq
  <2>1. x.at # "upload" BY NoRequest
  <2>2. Reply(r) => req' = [req EXCEPT ![r] = x] BY DEF Reply
  <2> HIDE DEF x
  <2> QED BY <1>1, <2>1, <2>2
<1>3. ASSUME NEW j \in DOMAIN jobs, ReadUpload(r, j)
      PROVE  \A q \in Handlers : req'[q].at = "upload" =>
               req'[q] = req[q] \/ jobs[req'[q].thumb].status = "running"
  <2> DEFINE x == NoReq
             w == take[jobs[j].take]
             t == jobs[j].take
             y == [x EXCEPT !.kind = "upload", !.at = "upload", !.take = t, !.row = w, !.thumb = j]
  <2>1. jobs[j].status = "running" /\ (req' = req \/ req' = [req EXCEPT ![r] = y])
    BY <1>3 DEF ReadUpload
  <2>2. y.thumb = j
    <3>1. x \in Request BY NoRequest
    <3> HIDE DEF x, w, t
    <3> QED BY <3>1 DEF Request
  <2> HIDE DEF y
  <2> QED BY <1>0, <2>1, <2>2
<1>4. ASSUME NEW t \in Takes, NEW p \in Paths, SaveExport(r, t, p)
      PROVE  \A q \in Handlers : req'[q].at = "upload" => req'[q] = req[q]
  <2> DEFINE x == NoReq
             w == take'[t]
             y == [x EXCEPT !.kind = "export", !.at = "job", !.take = t, !.row = w]
  <2>1. req' = [req EXCEPT ![r] = y] BY <1>4 DEF SaveExport
  <2>2. y.at = "job"
    <3>1. x \in Request BY NoRequest
    <3> HIDE DEF x, w
    <3> QED BY <3>1 DEF Request
  <2> HIDE DEF y
  <2> QED BY <1>1, <2>1, <2>2
<1>5. ASSUME NEW t \in Takes, GatherFiles(r, t)
      PROVE  \A q \in Handlers : req'[q].at = "upload" => req'[q] = req[q]
  <2> DEFINE x == NoReq
             w == take[t]
             S == IF take[t].cameras THEN Recorders(t) ELSE {}
             y == [x EXCEPT !.kind = "delete", !.at = "rows", !.take = t, !.row = w, !.left = S]
  <2>1. req' = [req EXCEPT ![r] = y] BY <1>5 DEF GatherFiles
  <2>2. y.at = "rows"
    <3>1. x \in Request BY NoRequest
    <3> HIDE DEF x, w, S
    <3> QED BY <3>1 DEF Request
  <2> HIDE DEF y
  <2> QED BY <1>1, <2>1, <2>2
<1>6. ASSUME NEW n, NEW a \in {"thumb"}, req' = [req EXCEPT ![r].at = a, ![r].job = n]
      PROVE  \A q \in Handlers : req'[q].at = "upload" => req'[q] = req[q]
  <2> DEFINE y == [req[r] EXCEPT !.at = a, !.job = n]
  <2>1. y.at = a BY <1>0 DEF Request
  <2>2. req' = [req EXCEPT ![r] = y] BY <1>6
  <2> HIDE DEF y
  <2> QED BY <1>1, <2>1, <2>2
<1>7. ASSUME NEW n, req' = [req EXCEPT ![r].at = "ready", ![r].thumb = n]
      PROVE  \A q \in Handlers : req'[q].at = "upload" => req'[q] = req[q]
  <2> DEFINE y == [req[r] EXCEPT !.at = "ready", !.thumb = n]
  <2>1. y.at = "ready" BY <1>0 DEF Request
  <2>2. req' = [req EXCEPT ![r] = y] BY <1>7
  <2> HIDE DEF y
  <2> QED BY <1>1, <2>1, <2>2
<1>8. CASE DeleteRows(r)
  <2> DEFINE y == [req[r] EXCEPT !.at = "files"]
  <2>1. y.at = "files" BY <1>0 DEF Request
  <2>2. req' = [req EXCEPT ![r] = y] BY <1>8 DEF DeleteRows
  <2> HIDE DEF y
  <2> QED BY <1>1, <2>1, <2>2
<1>9. CASE SubmitDelete(r)
  <2>1. ASSUME NEW m, req' = [req EXCEPT ![r].left = @ \ {m}], req[r].at = "files"
        PROVE  \A q \in Handlers : req'[q].at = "upload" => req'[q] = req[q]
    <3> DEFINE S == req[r].left \ {m}
               y == [req[r] EXCEPT !.left = S]
    <3>1. y.at = "files" BY <1>0, <2>1 DEF Request
    <3>2. req' = [req EXCEPT ![r] = y] BY <2>1
    <3> HIDE DEF y
    <3> QED BY <1>1, <3>1, <3>2
  <2>2. req[r].at = "files" /\ (Reply(r) \/ \E m \in req[r].left : req' = [req EXCEPT ![r].left = @ \ {m}])
    BY <1>9 DEF SubmitDelete
  <2> QED BY <1>2, <2>1, <2>2
<1>10. CASE SubmitExport(r) BY <1>2, <1>6, <1>10 DEF SubmitExport
<1>11. CASE SubmitThumbnail(r) BY <1>2, <1>7, <1>11 DEF SubmitThumbnail
<1>12. CASE ReleaseThumbnail(r) \/ SaveUpload(r) \/ Crash(r)
  BY <1>2, <1>12 DEF ReleaseThumbnail, SaveUpload, Crash
<1> QED BY <1>3, <1>4, <1>5, <1>8, <1>9, <1>10, <1>11, <1>12 DEF Serve

(* A request makes no thumbnail that has begun.                            *)
LEMMA ServeThumbs ==
  ASSUME IInv, NEW r \in Handlers, Serve(r)
  PROVE  /\ \A i \in DOMAIN jobs : jobs[i].class = "thumb" =>
              jobs'[i].status \in {jobs[i].status, "ready"} \/ Begun(i)
         /\ \A i \in DOMAIN jobs' \ DOMAIN jobs : jobs'[i].class = "thumb" => ~Begun(i)'
<1>0. TypeOK /\ JobsInv /\ ReqInv /\ jobs \in Seq(Job) BY DEF IInv, TypeOK
<1>1. ASSUME jobs' = jobs
      PROVE  /\ \A i \in DOMAIN jobs : jobs'[i].status = jobs[i].status
             /\ DOMAIN jobs' \ DOMAIN jobs = {}
  BY <1>1
<1>2. ASSUME NEW x \in Job, jobs' = Append(jobs, x)
      PROVE  /\ \A i \in DOMAIN jobs : jobs'[i].status = jobs[i].status
             /\ DOMAIN jobs' \ DOMAIN jobs = {Len(jobs) + 1} /\ jobs'[Len(jobs) + 1] = x
  BY <1>0, <1>2, Appended
<1>3. ASSUME NEW j \in DOMAIN jobs, NEW s \in Statuses, jobs' = [jobs EXCEPT ![j].status = s]
      PROVE  /\ \A i \in DOMAIN jobs \ {j} : jobs'[i].status = jobs[i].status
             /\ jobs'[j].status = s
             /\ DOMAIN jobs' \ DOMAIN jobs = {}
  <2>1. jobs[j] \in Job BY <1>0
  <2> DEFINE y == [jobs[j] EXCEPT !.status = s]
  <2>2. y \in Job /\ y.status = s BY <2>1, Restated
  <2>3. jobs' = [jobs EXCEPT ![j] = y] BY <1>3
  <2> HIDE DEF y
  <2> QED BY <1>0, <2>2, <2>3, Replaced
<1>4. {"ready", "success", "failed"} \subseteq Statuses BY DEF Statuses
<1>5. CASE SubmitExport(r)
  <2> DEFINE t == req[r].take
             z == NewJob("export", "ready", t, req[r].row.path)
             b == take[t].cameras
             x == [z EXCEPT !.cameras = b]
  <2>1. jobs' = jobs \/ jobs' = Append(jobs, x) BY <1>5 DEF SubmitExport
  <2>2. t \in Takes /\ req[r].row.path \in Paths \cup {NoPath} /\ b \in BOOLEAN
    BY <1>0, ReqFacts DEF TypeOK, Row
  <2>3. z \in Job /\ z.class = "export"
    <3>1. "ready" \in Statuses BY DEF Statuses
    <3> HIDE DEF t, z
    <3> QED BY <2>2, <3>1, NewRow DEF z
  <2> HIDE DEF z, b
  <2>4. x \in Job /\ x.class = "export" BY <2>2, <2>3 DEF Job
  <2> HIDE DEF x
  <2> QED BY <1>1, <1>2, <2>1, <2>4
<1>6. CASE SubmitThumbnail(r)
  <2> DEFINE t == req[r].take
             z == NewJob("thumb", "created", t, req[r].row.path)
             i == req[r].job
             x == [z EXCEPT !.needs = i]
  <2>0. PICK n \in Nat : n = Len(jobs) + 1 BY <1>0
  <2>1. jobs' = jobs \/ jobs' = Append(jobs, x) BY <1>6 DEF SubmitThumbnail
  <2>2. t \in Takes /\ req[r].row.path \in Paths \cup {NoPath} /\ i \in Nat BY <1>0, ReqFacts
  <2>3. z \in Job /\ z.class = "thumb" /\ z.status = "created"
    <3>1. "created" \in Statuses /\ z.status = "created" BY DEF Statuses, NewJob
    <3> HIDE DEF t, z
    <3> QED BY <2>2, <3>1, NewRow DEF z
  <2>4. i # 0
    <3>1. i \in DOMAIN jobs BY <1>0, <1>6 DEF SubmitThumbnail, ReqInv
    <3> QED BY <1>0, <3>1
  <2> HIDE DEF z, i
  <2>5. x \in Job /\ x.status = "created" /\ x.needs = i BY <2>2, <2>3 DEF Job
  <2> HIDE DEF x
  <2>6. ASSUME jobs' = Append(jobs, x) PROVE ~Begun(n)'
    <3>1. jobs'[n] = x BY <1>0, <2>0, <2>5, <2>6
    <3>2. n \notin DOMAIN jobs BY <1>0, <2>0
    <3>3. \A q \in Handlers : req'[q].at = "upload" => req'[q].thumb # n
      <4>1. \A q \in Handlers : req[q].at = "upload" => req[q].thumb \in DOMAIN jobs
        BY <1>0 DEF ReqInv
      <4>2. \A q \in Handlers : req'[q].at = "upload" => req'[q] = req[q]
        <5> DEFINE y == [req[r] EXCEPT !.at = "ready", !.thumb = Len(jobs')]
                   v == NoReq
        <5>1. req' = [req EXCEPT ![r] = v] \/ req' = [req EXCEPT ![r] = y]
          BY <1>6 DEF SubmitThumbnail, Reply
        <5>2. req[r] \in Request /\ req \in [Handlers -> Request] BY <1>0, ReqFacts
        <5>3. y.at = "ready" BY <5>2 DEF Request
        <5>4. v.at = "" BY NoRequest
        <5> HIDE DEF y, v
        <5> QED BY <5>1, <5>2, <5>3, <5>4
      <4> QED BY <3>2, <4>1, <4>2
    <3> QED BY <2>4, <2>5, <3>1, <3>3 DEF Begun
  <2>7. CASE jobs' = jobs BY <1>1, <2>7
  <2>8. CASE jobs' = Append(jobs, x)
    <3>1. /\ \A k \in DOMAIN jobs : jobs'[k].status = jobs[k].status
          /\ DOMAIN jobs' \ DOMAIN jobs = {n}
      BY <1>0, <2>0, <2>5, <2>8
    <3>2. ~Begun(n)' BY <2>6, <2>8
    <3> QED BY <3>1, <3>2
  <2> QED BY <2>1, <2>7, <2>8
<1>7. CASE SubmitDelete(r)
  <2> DEFINE t == req[r].take
             z == NewJob("delete", "ready", t, req[r].row.path)
  <2>1. CASE jobs' = jobs BY <1>1, <2>1
  <2>2. CASE jobs' # jobs
    <3>1. PICK m \in req[r].left : jobs' = Append(jobs, [z EXCEPT !.files = m, !.node = m])
      BY <1>7, <2>2 DEF SubmitDelete
    <3>2. m \in Machines
      <4>1. req[r] \in Request BY <1>0, ReqFacts
      <4> QED BY <4>1 DEF Request
    <3> DEFINE x == [z EXCEPT !.files = m, !.node = m]
    <3>3. t \in Takes /\ req[r].row.path \in Paths \cup {NoPath} BY <1>0, ReqFacts
    <3>4. z \in Job /\ z.class = "delete"
      <4>1. "ready" \in Statuses BY DEF Statuses
      <4> HIDE DEF t, z
      <4> QED BY <3>3, <4>1, NewRow DEF z
    <3>5. jobs' = Append(jobs, x) BY <3>1
    <3> HIDE DEF z
    <3>6. x \in Job /\ x.class = "delete" BY <3>2, <3>4 DEF Job
    <3> HIDE DEF x
    <3> QED BY <1>2, <3>5, <3>6
  <2> QED BY <2>1, <2>2
<1>8. ASSUME NEW j \in DOMAIN jobs, ReadUpload(r, j)
      PROVE  /\ \A i \in DOMAIN jobs : jobs'[i].status = jobs[i].status \/ Begun(i)
             /\ DOMAIN jobs' \ DOMAIN jobs = {}
  <2>1. jobs[j].status = "running" /\ (jobs' = jobs \/ jobs' = [jobs EXCEPT ![j].status = "failed"])
    BY <1>8 DEF ReadUpload
  <2>2. Begun(j) BY <2>1 DEF Begun
  <2> QED BY <1>1, <1>3, <1>4, <2>1, <2>2
<1>9. CASE ReleaseThumbnail(r)
  <2> DEFINE j == req[r].thumb
  <2>1. j \in DOMAIN jobs /\ (jobs' = jobs \/ jobs' = [jobs EXCEPT ![j].status = "ready"])
    BY <1>0, <1>9 DEF ReleaseThumbnail, ReqInv
  <2> HIDE DEF j
  <2> QED BY <1>1, <1>3, <1>4, <2>1
<1>10. CASE SaveUpload(r) \/ Crash(r)
  <2> DEFINE j == req[r].thumb
  <2>1. \/ jobs' = jobs
        \/ req[r].at = "upload" /\ \E s \in {"success", "failed"} : jobs' = [jobs EXCEPT ![j].status = s]
    BY <1>0, <1>10 DEF SaveUpload, Crash, ReqInv
  <2>2. req[r].at = "upload" => j \in DOMAIN jobs /\ Begun(j) BY <1>0 DEF ReqInv, Begun
  <2> HIDE DEF j
  <2> QED BY <1>1, <1>3, <1>4, <2>1, <2>2
<1>11. CASE \/ \E t \in Takes, p \in Paths : SaveExport(r, t, p)
            \/ \E t \in Takes : GatherFiles(r, t)
            \/ DeleteRows(r)
  BY <1>1, <1>11 DEF SaveExport, GatherFiles, DeleteRows, rows
<1> QED BY <1>5, <1>6, <1>7, <1>8, <1>9, <1>10, <1>11 DEF Serve

(* A user starts a thumbnail again, or clones one that has ended.          *)
LEMMA OrderThumbs ==
  ASSUME IInv, NEW j \in DOMAIN jobs, Order(j)
  PROVE  /\ \A i \in DOMAIN jobs : jobs[i].class = "thumb" =>
              jobs'[i].status \in {jobs[i].status, "ready"} \/ StartThumbnail(i)
         /\ \A i \in DOMAIN jobs' \ DOMAIN jobs : jobs'[i].class = "thumb" =>
              jobs[j].class = "thumb" /\ jobs[j].take = jobs'[i].take /\ Begun(j)
<1>0. TypeOK /\ JobsInv /\ jobs \in Seq(Job) /\ jobs[j] \in Job BY JobFacts DEF IInv
<1>1. CASE StartThumbnail(j)
  <2>1. jobs' = [jobs EXCEPT ![j].status = "running"] BY <1>1 DEF StartThumbnail
  <2>2. DOMAIN jobs' = DOMAIN jobs /\ \A i \in DOMAIN jobs \ {j} : jobs'[i] = jobs[i] BY <2>1
  <2> QED BY <1>1, <2>2
<1>2. ASSUME NEW same \in BOOLEAN, RestartJob(j, same)
      PROVE  /\ DOMAIN jobs' = DOMAIN jobs
             /\ \A i \in DOMAIN jobs : jobs[i].class = "thumb" =>
                  jobs'[i].status \in {jobs[i].status, "ready"}
  <2> DEFINE ks == DeleteChildren(jobs, j)
  <2>1. jobs' = Again(ks, {j}, same) BY <1>2 DEF RestartJob
  <2>2. /\ ks \in Seq(Job) /\ DOMAIN ks = DOMAIN jobs
        /\ \A i \in DOMAIN jobs : jobs[i].class = "thumb" => ks[i] = jobs[i]
    BY <1>0, ChildrenDeleted, ChildrenNoThumbs
  <2> HIDE DEF ks
  <2>3. /\ DOMAIN jobs' = DOMAIN ks
        /\ \A i \in DOMAIN ks : jobs'[i].status = "ready" \/ jobs'[i] = ks[i]
    BY <2>1, <2>2, StartedAgain
  <2> QED BY <2>2, <2>3
<1>3. ASSUME NEW same \in BOOLEAN, RestartFailedChildren(j, same)
      PROVE  /\ DOMAIN jobs' = DOMAIN jobs
             /\ \A i \in DOMAIN jobs : jobs[i].class = "thumb" =>
                  jobs'[i].status \in {jobs[i].status, "ready"}
  <2> DEFINE failed == {c \in Children(jobs, j) : jobs[c].status = "failed"}
             ks == Again(jobs, failed, same)
  <2>1. jobs' = [ks EXCEPT ![j].status = "waiting"] /\ failed # {}
    BY <1>3 DEF RestartFailedChildren
  <2>2. jobs[j].class = "export"
    <3>1. PICK c \in failed : TRUE BY <2>1
    <3>2. c \in DOMAIN jobs /\ jobs[c].parent = j /\ j # 0 BY <1>0, <3>1, JobFacts DEF Children
    <3> QED BY <1>0, <3>2 DEF JobsInv, Argued
  <2> HIDE DEF failed
  <2>3. /\ DOMAIN ks = DOMAIN jobs /\ ks \in Seq(Job)
        /\ \A i \in DOMAIN jobs : ks[i].status = "ready" \/ ks[i] = jobs[i]
    BY <1>0, StartedAgain
  <2> HIDE DEF ks
  <2>4. DOMAIN jobs' = DOMAIN ks /\ \A i \in DOMAIN ks \ {j} : jobs'[i] = ks[i]
    BY <2>1, <2>3
  <2> QED BY <2>2, <2>3, <2>4
<1>4. ASSUME NEW same \in BOOLEAN, CloneJob(j, same)
      PROVE  /\ \A i \in DOMAIN jobs : jobs'[i] = jobs[i]
             /\ \A i \in DOMAIN jobs' \ DOMAIN jobs :
                  jobs'[i].class = jobs[j].class /\ jobs'[i].take = jobs[j].take
             /\ Begun(j)
  <2> DEFINE n == IF same THEN jobs[j].node ELSE NoMachine
             x == [jobs[j] EXCEPT !.status = "ready", !.parent = 0, !.needs = 0, !.node = n]
  <2>1. jobs' = Append(jobs, x) /\ jobs[j].status \in {"failed", "success", "waiting"}
    BY <1>4 DEF CloneJob
  <2>2. n \in Machines \cup {NoMachine} BY <1>0 DEF Job
  <2> HIDE DEF n
  <2>3. x \in Job /\ x.class = jobs[j].class /\ x.take = jobs[j].take
    BY <1>0, <2>2 DEF Job, Statuses
  <2> HIDE DEF x
  <2>4. /\ \A i \in DOMAIN jobs : jobs'[i] = jobs[i]
        /\ DOMAIN jobs' \ DOMAIN jobs = {Len(jobs) + 1} /\ jobs'[Len(jobs) + 1] = x
    BY <1>0, <2>1, <2>3, Appended
  <2> QED BY <2>1, <2>3, <2>4 DEF Begun
<1> QED BY <1>1, <1>2, <1>3, <1>4 DEF Order

(* Every step watches the thumbnails in this way.                          *)
LEMMA NextThumbs ==
  ASSUME IInv, Next
  PROVE  Watched
<1>0. TypeOK /\ JobsInv /\ RunInv BY DEF IInv
<1>1. DOMAIN jobs \subseteq DOMAIN jobs' /\ \A i \in DOMAIN jobs : Same(jobs[i], jobs'[i])
  BY NextMoves DEF Move, Kept
<1>2. ASSUME NEW m \in Machines, Work(m) PROVE Watched
  <2>1. req' = req BY <1>2, WorkAside DEF Aside
  <2> QED BY <1>0, <1>1, <1>2, <2>1, WorkThumbs, QuietThumbs
<1>3. ASSUME NEW r \in Handlers, Serve(r) PROVE Watched
  <2>1. /\ \A i \in DOMAIN jobs : jobs[i].class = "thumb" =>
             jobs'[i].status \in {jobs[i].status, "ready"} \/ Begun(i)
        /\ \A i \in DOMAIN jobs' \ DOMAIN jobs : jobs'[i].class = "thumb" => ~Begun(i)'
    BY <1>3, ServeThumbs
  <2>2. \A q \in Handlers : req'[q].at = "upload" =>
          \/ req[q].at = "upload" /\ req[q].thumb = req'[q].thumb
          \/ jobs[req'[q].thumb].status \notin {"created", "ready"}
    BY <1>3, ServeUploads
  <2> QED BY <1>1, <2>1, <2>2, QuietThumbs
<1>4. ASSUME NEW j \in DOMAIN jobs, Order(j) PROVE Watched
  <2>1. req' = req BY <1>4, OrderElsewhere
  <2> QED BY <1>1, <1>4, <2>1, OrderThumbs, QuietThumbs
<1> QED BY <1>2, <1>3, <1>4 DEF Next, Order

(* The machines of a take whose thumbnail has begun stay empty.            *)
LEMMA ViewedStays ==
  ASSUME IInv, Complete, Viewed, Next
  PROVE  Viewed'
<1>0. Watched /\ strayed \subseteq strayed' BY NextThumbs, StrayedStays
<1> SUFFICES ASSUME NEW j \in DOMAIN jobs', jobs'[j].class = "thumb",
                    jobs'[j].take \notin strayed', Begun(j)',
                    NEW f \in Files, f[1] = jobs'[j].take, f[2] \in Machines
             PROVE  f \notin src'
  BY DEF Viewed, Without, Files
<1>1. PICK i \in DOMAIN jobs : /\ jobs[i].class = "thumb" /\ jobs[i].take = jobs'[j].take
                               /\ (Begun(i) \/ StartThumbnail(i))
  BY <1>0 DEF Watched
<1>2. jobs[i].take \notin strayed BY <1>0, <1>1
<1>3. f \notin src
  <2>1. CASE Begun(i) BY <1>1, <1>2, <2>1 DEF Viewed, Without
  <2>2. CASE StartThumbnail(i) /\ ~Begun(i)
    <3>1. jobs[i].needs # 0 /\ jobs[jobs[i].needs].status = "success"
      BY <2>2 DEF StartThumbnail, Startable, Begun
    <3>2. /\ jobs[i].needs \in DOMAIN jobs /\ jobs[jobs[i].needs].class = "export"
          /\ jobs[jobs[i].needs].take = jobs[i].take
      BY <1>1, <3>1 DEF IInv, JobsInv, Argued
    <3> QED BY <1>1, <1>2, <3>1, <3>2 DEF Complete, Without
  <2> QED BY <1>1, <2>1, <2>2
<1> QED BY <1>3, NothingReturns

(* At first every file is on its machine, and nothing was exported.        *)
LEMMA InitDelivered == Init => EInv
<1> SUFFICES ASSUME Init PROVE EInv
  OBVIOUS
<1>1. src = Files /\ DOMAIN jobs = {} /\ \A m \in Machines : run[m] = NoRun BY DEF Init
<1> QED BY <1>1 DEF EInv, Held, Emptied, Running, Moved, Complete, Viewed

(* Every step keeps track of what was copied.                              *)
LEMMA NextDelivered == IInv /\ DInv /\ EInv /\ [Next]_vars => EInv'
<1> SUFFICES ASSUME IInv, DInv, EInv, [Next]_vars PROVE EInv'
  OBVIOUS
<1>1. CASE Next
  BY <1>1, HeldStays, EmptiedStays, MovedStays, CompleteStays, ViewedStays DEF DInv, EInv
<1>2. CASE UNCHANGED vars
  <2>1. /\ src' = src /\ dest' = dest /\ jobs' = jobs /\ run' = run /\ strayed' = strayed
        /\ released' = released /\ req' = req
    BY <1>2 DEF vars
  <2>2. Held' BY <2>1 DEF EInv, Held, Files
  <2>3. \A m \in Machines : Emptied(m)' BY <2>1 DEF EInv, Emptied, Running, JobOf, Length
  <2>4. \A t, m : Without(t, m)' = Without(t, m) BY <2>1 DEF Without, Files
  <2>5. Moved' BY <2>1, <2>4 DEF EInv, Moved
  <2>6. \A j : Unlaunched(j)' = Unlaunched(j) BY <2>1 DEF Unlaunched, Children, Recorders
  <2>7. Complete' BY <2>1, <2>4, <2>6 DEF EInv, Complete
  <2>8. Viewed' BY <2>1, <2>4 DEF EInv, Viewed, Begun
  <2> QED BY <2>2, <2>3, <2>5, <2>7, <2>8 DEF EInv
<1> QED BY <1>1, <1>2

(* What left its machine is whole at the path of every job of its take.    *)
LEMMA Delivered ==
  ASSUME DInv, Held, NEW j \in DOMAIN jobs, jobs[j].take \in Takes,
         jobs[j].take \notin strayed \cup released, NEW m, Without(jobs[j].take, m),
         NEW f \in Files, f[1] = jobs[j].take, f[2] = m
  PROVE  dest[<<f, jobs[j].path>>] = "whole"
<1>1. PICK q \in Paths \cup {NoPath} : At(jobs[j].take, q) BY DEF DInv, Placed, Lost
<1>2. PICK p \in Paths : dest[<<f, p>>] = "whole" BY DEF Held, Without
<1>3. p = q BY <1>1, <1>2 DEF At
<1>4. jobs[j].path = q BY <1>1 DEF At
<1> QED BY <1>2, <1>3, <1>4

(* When a CopyFiles job of a take succeeds, each file of the take from its *)
(* machine is whole at its destination (archive.py:151-208), for takes that*)
(* were not deleted and have not strayed, also after the job was killed in *)
(* the middle of a file and restarted.                                     *)
THEOREM CopiesAreWhole == Spec => CopiedMeansWhole
<1>1. Init => DInv BY InitGone
<1>2. IInv /\ DInv /\ [Next]_vars => DInv' BY NextGone
<1>3. Init => EInv BY InitDelivered
<1>4. IInv /\ DInv /\ EInv /\ [Next]_vars => EInv' BY NextDelivered
<1>5. IInv /\ DInv /\ EInv /\ [Next]_vars
        => [\A j \in DOMAIN jobs :
              (CopySucceeds(j) /\ jobs[j].take \notin strayed \cup released) =>
                AllWhole(jobs[j].take, {jobs[j].files}, jobs[j].path)]_vars
  <2> SUFFICES ASSUME IInv, DInv, EInv, Next, NEW j \in DOMAIN jobs, CopySucceeds(j),
                      jobs[j].take \notin strayed \cup released
               PROVE  AllWhole(jobs[j].take, {jobs[j].files}, jobs[j].path)
    OBVIOUS
  <2>1. jobs[j].class = "copy" /\ jobs[j].status # "success" /\ jobs'[j].status = "success"
    BY DEF CopySucceeds
  <2>2. PICK n \in Machines : Succeed(n) /\ run[n].job = j
    BY <2>1, NextRows DEF DInv, Ordered
  <2>3. JobOf(n) = jobs[j] BY <2>2 DEF JobOf
  <2>4. jobs[j].files = n /\ Without(jobs[j].take, n)
    BY <2>1, <2>2, <2>3, SucceededCopy DEF DInv, EInv
  <2>5. jobs[j].take \in Takes
    <3>1. jobs[j] \in Job BY JobFacts DEF IInv
    <3> QED BY <3>1 DEF Job
  <2> QED BY <2>4, <2>5, Delivered DEF AllWhole, EInv
<1> QED BY <1>1, <1>2, <1>3, <1>4, <1>5, InvariantHolds, PTL DEF Spec, CopiedMeansWhole

(* When the thumbnail job of a take starts, every file of the take, from   *)
(* all its machines, is whole at its export path: the export it needs has  *)
(* succeeded, so each machine had a copy, and all of them succeeded        *)
(* (views.py:575-616); a clone needs no export, but the job it was cloned  *)
(* from had started (Viewed).  For takes that were not deleted and have    *)
(* not strayed, whatever was killed, restarted and cloned before.          *)
THEOREM ThumbnailsFindFiles == Spec => ThumbnailFindsFiles
<1>1. Init => DInv BY InitGone
<1>2. IInv /\ DInv /\ [Next]_vars => DInv' BY NextGone
<1>3. Init => EInv BY InitDelivered
<1>4. IInv /\ DInv /\ EInv /\ [Next]_vars => EInv' BY NextDelivered
<1>5. IInv /\ DInv /\ EInv /\ [Next]_vars
        => [\A j \in DOMAIN jobs :
              (StartThumbnail(j) /\ jobs[j].take \notin strayed \cup released) =>
                AllWhole(jobs[j].take, Machines, jobs[j].path)]_vars
  <2> SUFFICES ASSUME IInv, DInv, EInv, NEW j \in DOMAIN jobs, StartThumbnail(j),
                      jobs[j].take \notin strayed \cup released
               PROVE  AllWhole(jobs[j].take, Machines, jobs[j].path)
    OBVIOUS
  <2>1. /\ jobs[j].class = "thumb"
        /\ jobs[j].needs # 0 => jobs[jobs[j].needs].status = "success"
    BY DEF StartThumbnail, Startable
  <2>2. ASSUME jobs[j].needs # 0 PROVE \A m \in Machines : Without(jobs[j].take, m)
    <3>1. /\ jobs[j].needs \in DOMAIN jobs /\ jobs[jobs[j].needs].class = "export"
          /\ jobs[jobs[j].needs].take = jobs[j].take
      BY <2>1, <2>2 DEF IInv, JobsInv, Argued
    <3> QED BY <2>1, <2>2, <3>1 DEF EInv, Complete
  <2>3. ASSUME jobs[j].needs = 0 PROVE \A m \in Machines : Without(jobs[j].take, m)
    BY <2>1, <2>3 DEF EInv, Viewed, Begun
  <2>4. \A m \in Machines : Without(jobs[j].take, m) BY <2>2, <2>3
  <2>5. jobs[j].take \in Takes
    <3>1. jobs[j] \in Job BY JobFacts DEF IInv
    <3> QED BY <3>1 DEF Job
  <2> QED BY <2>4, <2>5, Delivered DEF AllWhole, EInv
<1> QED BY <1>1, <1>2, <1>3, <1>4, <1>5, InvariantHolds, PTL DEF Spec, ThumbnailFindsFiles
=============================================================================
