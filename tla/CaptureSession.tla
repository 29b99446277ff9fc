--------------------------- MODULE CaptureSession ---------------------------
(***************************************************************************)
(* Recording on all capture nodes of a location: the handlers of the       *)
(* website backend that run a recording (ava/capture/views.py), the rows   *)
(* they keep in the database (location, shots, takes, cameras), and the    *)
(* part of a capture node those requests drive (capturenode.cpp).          *)
(*                                                                         *)
(* A handler sends one request to all nodes at once and waits for all of   *)
(* them (g_pool.map) before it goes on to the next phase.  Every request   *)
(* has a timeout, and what a node answers, or that it does not answer, is  *)
(* ignored.  No handler is a transaction: rows read at one step are saved  *)
(* whole at a later one, and several handlers can be open at once.         *)
(*                                                                         *)
(* Each node has one camera, triggered by the sync box of its node.  The   *)
(* k-th clip a node records is <<n, k>>.  The default name "Shot_%03d" of  *)
(* a shot is its number.  A node executes one request at a time.           *)
(***************************************************************************)
EXTENDS Naturals, Sequences, FiniteSets

CONSTANTS
  Handlers,     \* requests the backend can have open at the same time
  Nodes,        \* capture nodes of the location
  Kinds,        \* the requests clients send, a subset of DOMAIN Steps
  MaxRequests,  \* bound: requests of a behaviour
  Faults,       \* the faults that happen, a subset of FaultKinds
  MaxFaults     \* bound: faults of a behaviour

FaultKinds == {"loss", "crash", "close", "unplug", "lapse", "toggle", "stale"}

(* The phases of each request, in the order of its handler.                *)
StartSteps  == <<"slate", "prepare", "release", "trigger">>
StopSteps   == <<"halt", "stop", "resume", "file", "count">>
SingleSteps == <<"prepare_single", "release", "trigger", "finalize",
                 "read", "slate", "file", "count">>
Steps ==
  [start |-> StartSteps, stop |-> StopSteps, single |-> SingleSteps,
   session |-> <<"create", "save">>, shot |-> <<"create", "save">>,
   config |-> <<"options", "save">>, page |-> <<"save">>]

NodeSteps == {"prepare", "prepare_single", "release", "trigger", "halt", "stop",
              "resume", "finalize", "options"}

ASSUME CaptureAssumption ==
  /\ Kinds \subseteq DOMAIN Steps
  /\ MaxRequests \in Nat
  /\ Faults \subseteq FaultKinds /\ MaxFaults \in Nat

VARIABLES
  loc,       \* the location row: project set, current session, current shot
  sessions,  \* number of session rows; sessions are 1 .. sessions
  shots,     \* shot rows, in the order they were made
  takes,     \* take rows, with the clips of their camera rows
  online,    \* [Nodes -> BOOLEAN], the online flag of the node row
  row,       \* [Nodes -> BOOLEAN], the camera of the node has a row
  cam,       \* [Nodes -> Camera], the node and its camera
  late,      \* requests a node may still execute although nobody waits for it
  h,         \* [Handlers -> Handler], the open requests
  requests,  \* requests sent so far
  faults,    \* faults that have happened
  calm,      \* history: no two recording requests have overlapped
  fresh,     \* history: every page sent the session and shot that were current
  hurt,      \* history: nodes that a fault has touched
  torn       \* history: takes whose registration raised an exception

database == <<loc, sessions, shots, takes>>
nodeRows == <<online, row>>
history  == <<calm, fresh, hurt, torn>>
vars     == <<loc, sessions, shots, takes, online, row, cam, late, h, requests,
              faults, calm, fresh, hurt, torn>>

Clips    == Nodes \X Nat
Location == [project : BOOLEAN, session : Nat, shot : Nat]   \* 0: null
Shot     == [session : Nat, name : Nat, next : Nat]
Take     == [shot : Nat, seq : Nat, clips : SUBSET Clips]
Camera   == [plugged : BOOLEAN, on : BOOLEAN, made : Nat, rec : BOOLEAN, single : BOOLEAN,
             hold : BOOLEAN, listed : BOOLEAN, summ : Nat, sync : BOOLEAN]
Page     == [session : Nat, name : Nat]
Late     == [node : Nodes, op : NodeSteps]
Handler  == [kind : DOMAIN Steps \cup {"none"}, at : Nat, loc : Location, next : Nat,
             page : Page, nodes : SUBSET Nodes, pend : SUBSET Nodes, got : SUBSET Clips]

NoPage  == [session |-> 0, name |-> 0]
NoRow   == [project |-> FALSE, session |-> 0, shot |-> 0]
Idle    == [kind |-> "none", at |-> 0, loc |-> NoRow, next |-> 0, page |-> NoPage,
            nodes |-> {}, pend |-> {}, got |-> {}]
Preview(plugged, made) ==
  [plugged |-> plugged, on |-> TRUE, made |-> made, rec |-> FALSE, single |-> FALSE,
   hold |-> FALSE, listed |-> FALSE, summ |-> 0, sync |-> TRUE]

(* A location on its first day, or one that has a session and a shot.      *)
Init ==
  /\ \/ /\ loc = NoRow /\ sessions = 0 /\ shots = <<>>
     \/ /\ loc = [project |-> TRUE, session |-> 1, shot |-> 1]
        /\ sessions = 1
        /\ shots = <<[session |-> 1, name |-> 0, next |-> 1]>>
  /\ takes = <<>>
  /\ online = [n \in Nodes |-> TRUE]
  /\ row = [n \in Nodes |-> TRUE]
  /\ cam = [n \in Nodes |-> Preview(TRUE, 0)]
  /\ late = {}
  /\ h = [r \in Handlers |-> Idle]
  /\ requests = 0
  /\ faults = 0
  /\ calm = TRUE /\ fresh = TRUE /\ hurt = {} /\ torn = {}

Spend(f) == f \in Faults /\ faults < MaxFaults /\ faults' = faults + 1

Step(r)  == IF h[r].kind = "none" THEN "none" ELSE Steps[h[r].kind][h[r].at]
Quiet    == \A r \in Handlers : h[r].kind = "none"

\* Mutant of Advance: the end of the handler is missed.
AdvancePast(hr) == IF hr.at > Len(Steps[hr.kind]) THEN Idle
                   ELSE [hr EXCEPT !.at = @ + 1, !.pend = hr.nodes]

(* A handler's record when it goes on to its next phase, or has replied.   *)
Advance(hr) == IF hr.at = Len(Steps[hr.kind]) THEN Idle
               ELSE [hr EXCEPT !.at = @ + 1, !.pend = hr.nodes]
GoOn(r, hr) == h' = [h EXCEPT ![r] = Advance(hr)]
Fail(r)     == h' = [h EXCEPT ![r] = Idle]

-----------------------------------------------------------------------------
(* What a node does with a request.                                        *)

(* prepare_multi_stage1, prepare_single: the list of cameras to record is  *)
(* made anew; a camera that still records keeps its clip, and start of a   *)
(* recording forgets the last summary.  A camera that was unplugged is     *)
(* destroyed with the list; one that does not capture is left out.         *)
Prepare(c, single) ==
  IF ~c.plugged THEN [c EXCEPT !.listed = FALSE, !.rec = FALSE, !.summ = 0]
  ELSE IF ~c.on THEN [c EXCEPT !.listed = FALSE]
  ELSE IF c.rec THEN [c EXCEPT !.listed = TRUE]
  ELSE [c EXCEPT !.listed = TRUE, !.rec = TRUE, !.made = @ + 1, !.single = single,
                 !.hold = TRUE, !.summ = 0]

(* stop_recording closes the clip; its summary is reported and the list    *)
(* of cameras is cleared.                                                  *)
Stop(c) ==
  IF c.listed THEN [c EXCEPT !.rec = FALSE, !.hold = FALSE, !.summ = 0, !.listed = FALSE] ELSE c

\* Mutant of Finalize: the cameras stay in the list.
FinalizeOnly(c) == [c EXCEPT !.sync = TRUE]

Finalize(c) == [c EXCEPT !.summ = IF c.listed THEN 0 ELSE @, !.listed = FALSE, !.sync = TRUE]

(* finalize_single spins until no camera of its list records.              *)
Blocked(c, op) == op = "finalize" /\ c.listed /\ c.rec

Execute(c, op) ==
  CASE op = "prepare"        -> Prepare(c, FALSE)
    [] op = "prepare_single" -> Prepare(c, TRUE)
    [] op = "release"        -> [c EXCEPT !.hold = IF c.listed THEN FALSE ELSE @, !.sync = FALSE]
    [] op = "trigger"        -> [c EXCEPT !.sync = TRUE]
    [] op = "halt"           -> [c EXCEPT !.sync = FALSE]
    [] op = "resume"         -> [c EXCEPT !.sync = TRUE]
    [] op = "stop"           -> Stop(c)
    [] op = "finalize"       -> Finalize(c)
    [] OTHER                 -> c

(* The clips in the summary a node sends back.                             *)
Reply(n, op) ==
  CASE op = "stop" /\ cam[n].listed /\ cam[n].rec            -> {<<n, cam[n].made>>}
    [] op = "finalize" /\ cam[n].listed /\ cam[n].summ # 0 -> {<<n, cam[n].summ>>}
    [] OTHER                                               -> {}

-----------------------------------------------------------------------------
(* Requests of the clients.                                                *)

(* The session and shot a page sends: those it got from its last poll, and *)
(* if it is out of date those of an earlier one.                           *)
PageOf(l) == [session |-> l.session, name |-> IF l.shot = 0 THEN 0 ELSE shots[l.shot].name]
OldPages  == {[session |-> shots[s].session, name |-> shots[s].name] : s \in DOMAIN shots}
Sends(kind, p) ==
  IF kind \notin {"start", "single"} THEN p = NoPage /\ UNCHANGED <<fresh, faults>>
  ELSE \/ p = PageOf(loc) /\ UNCHANGED <<fresh, faults>>
       \/ p \in OldPages \ {PageOf(loc)} /\ Spend("stale") /\ fresh' = FALSE

Pressed(kind) == IF kind \in {"start", "single"} THEN loc.session # 0   \* else disabled
                 ELSE kind = "page" => ~loc.project

Online == {n \in Nodes : online[n]}

(* The location row and the list of online nodes are read when the handler *)
(* begins; post_record_single_image reads its row later.                   *)
Open(r, kind) ==
  /\ h[r].kind = "none"
  /\ requests < MaxRequests
  /\ Pressed(kind)
  /\ requests' = requests + 1
  /\ \E p \in {NoPage, PageOf(loc)} \cup OldPages :
       /\ Sends(kind, p)
       /\ h' = [h EXCEPT ![r] = [Idle EXCEPT !.kind = kind, !.at = 1, !.page = p,
                                 !.loc = IF kind = "single" THEN NoRow ELSE loc,
                                 !.nodes = Online, !.pend = Online]]
  /\ calm' = (calm /\ Quiet /\ (kind = "single" => \A n \in Nodes : ~cam[n].rec))
  /\ UNCHANGED <<database, nodeRows, cam, late, hurt, torn>>

-----------------------------------------------------------------------------
(* Phases that talk to the nodes.                                          *)

(* Node n executes the request of this phase and answers in time.          *)
Answer(r, n) ==
  /\ Step(r) \in NodeSteps /\ n \in h[r].pend
  /\ ~Blocked(cam[n], Step(r))
  /\ cam' = [cam EXCEPT ![n] = Execute(cam[n], Step(r))]
  /\ h' = [h EXCEPT ![r].pend = @ \ {n}, ![r].got = @ \cup Reply(n, Step(r))]
  /\ UNCHANGED <<database, nodeRows, late, requests, faults, history>>

Unanswered(r, n) ==
  /\ Step(r) \in NodeSteps /\ n \in h[r].pend
  /\ h' = [h EXCEPT ![r].pend = @ \ {n}]
  /\ late' = late \cup {[node |-> n, op |-> Step(r)]}
  /\ hurt' = hurt \cup {n}
  /\ UNCHANGED <<database, nodeRows, cam, requests, calm, fresh, torn>>

\* Mutant of GiveUp: all_finalize_single is sent without a timeout.
WaitForEver(r, n) == FALSE /\ Blocked(cam[n], Step(r)) /\ Unanswered(r, n) /\ UNCHANGED faults

(* The camera never stops, and the request runs into its timeout.          *)
GiveUp(r, n) == Blocked(cam[n], Step(r)) /\ Unanswered(r, n) /\ UNCHANGED faults

(* The network fails, or the node is slow: the exception is swallowed.     *)
Lose(r, n) ==
  /\ Unanswered(r, n)
  /\ Spend("loss")

(* All nodes have answered or timed out.                                   *)
Barrier(r) ==
  /\ Step(r) \in NodeSteps /\ h[r].pend = {}
  /\ GoOn(r, h[r])
  /\ UNCHANGED <<database, nodeRows, cam, late, requests, faults, history>>

-----------------------------------------------------------------------------
(* Phases that work on the database.                                       *)

(* post_record_single_image reads the location when the recording is over. *)
ReadLocation(r) ==
  /\ Step(r) = "read"
  /\ GoOn(r, [h[r] EXCEPT !.loc = loc])
  /\ UNCHANGED <<database, nodeRows, cam, late, requests, faults, history>>

(* create_session_shot.  The row is always saved: it compares a session    *)
(* with the id of one, so cur_session always changes.                      *)
KeepsShot(l, p) == l.shot # 0 /\ shots[l.shot].name = p.name

Slate(r) ==
  /\ Step(r) = "slate"
  /\ LET l == h[r].loc
         p == h[r].page
         new == [session |-> p.session, name |-> p.name, next |-> 1]
         saved == [l EXCEPT !.session = p.session,
                            !.shot = IF KeepsShot(l, p) THEN @ ELSE Len(shots) + 1]
     IN /\ shots' = IF KeepsShot(l, p) THEN shots ELSE Append(shots, new)
        /\ loc' = saved
        /\ GoOn(r, [h[r] EXCEPT !.loc = saved, !.next = shots'[saved.shot].next])
  /\ UNCHANGED <<sessions, takes, nodeRows, cam, late, requests, faults, history>>

\* Mutant of Unfiled: a take is cancelled when a node did not answer.
UnfiledIfPartial(r) ==
  /\ Step(r) = "file"
  /\ \/ ~h[r].loc.project \/ h[r].loc.session = 0 \/ h[r].loc.shot = 0
     \/ {c[1] : c \in h[r].got} # h[r].nodes
  /\ Fail(r)
  /\ UNCHANGED <<database, nodeRows, cam, late, requests, faults, history>>

(* register_new_take without a project, session or shot: nothing is kept.  *)
Unfiled(r) ==
  /\ Step(r) = "file"
  /\ ~h[r].loc.project \/ h[r].loc.session = 0 \/ h[r].loc.shot = 0
  /\ Fail(r)
  /\ UNCHANGED <<database, nodeRows, cam, late, requests, faults, history>>

(* The number comes from the shot row, as it was when it was first read.   *)
NextTake(hr) == IF hr.next = 0 THEN shots[hr.loc.shot].next ELSE hr.next
NewTake(hr, clips) == Append(takes, [shot |-> hr.loc.shot, seq |-> NextTake(hr), clips |-> clips])
Filing(r) == Step(r) = "file" /\ h[r].loc.project /\ h[r].loc.session # 0 /\ h[r].loc.shot # 0

(* register_new_take: the take and one camera row per clip.                *)
FileTake(r) ==
  /\ Filing(r)
  /\ \A c \in h[r].got : row[c[1]]
  /\ takes' = NewTake(h[r], h[r].got)
  /\ GoOn(r, [h[r] EXCEPT !.next = NextTake(h[r]), !.got = {}])
  /\ UNCHANGED <<loc, sessions, shots, nodeRows, cam, late, requests, faults, history>>

(* A camera that has no row any more raises IndexError: the take keeps the *)
(* clips that came before, the counter of the shot is not advanced.        *)
FileTorn(r) ==
  /\ Filing(r)
  /\ \E c \in h[r].got : ~row[c[1]]
  /\ \E clips \in SUBSET {c \in h[r].got : row[c[1]]} : takes' = NewTake(h[r], clips)
  /\ torn' = torn \cup {Len(takes) + 1}
  /\ Fail(r)
  /\ UNCHANGED <<loc, sessions, shots, nodeRows, cam, late, requests, faults, calm, fresh, hurt>>

\* Mutant of CountTake: increment_take does not save the shot.
CountUnsaved(r) ==
  /\ Step(r) = "count"
  /\ loc' = h[r].loc
  /\ GoOn(r, h[r])
  /\ UNCHANGED <<sessions, shots, takes, nodeRows, cam, late, requests, faults, history>>

(* increment_take of the shot as it was read, and the location row.        *)
CountTake(r) ==
  /\ Step(r) = "count"
  /\ shots' = [shots EXCEPT ![h[r].loc.shot].next = h[r].next + 1]
  /\ loc' = h[r].loc
  /\ GoOn(r, h[r])
  /\ UNCHANGED <<sessions, takes, nodeRows, cam, late, requests, faults, history>>

\* Mutant of CreateSession: cur_shot is left as it was.
CreateKeepsShot(r) ==
  /\ h[r].kind = "session" /\ Step(r) = "create"
  /\ sessions' = sessions + 1
  /\ shots' = Append(shots, [session |-> sessions + 1, name |-> 0, next |-> 1])
  /\ GoOn(r, [h[r] EXCEPT !.loc.project = TRUE, !.loc.session = sessions + 1])
  /\ UNCHANGED <<loc, takes, nodeRows, cam, late, requests, faults, history>>

(* post_new_session: a session with its first shot.                        *)
CreateSession(r) ==
  /\ h[r].kind = "session" /\ Step(r) = "create"
  /\ sessions' = sessions + 1
  /\ shots' = Append(shots, [session |-> sessions + 1, name |-> 0, next |-> 1])
  /\ GoOn(r, [h[r] EXCEPT !.loc = [project |-> TRUE, session |-> sessions + 1,
                                   shot |-> Len(shots) + 1]])
  /\ UNCHANGED <<loc, takes, nodeRows, cam, late, requests, faults, history>>

(* unique_shot_name: the first free number from that of the current shot.  *)
NamesOf(s) == {shots[i].name : i \in {j \in DOMAIN shots : shots[j].session = s}}
UniqueName(k, s) ==
  CHOOSE j \in k .. k + Len(shots) : j \notin NamesOf(s) /\ \A i \in k .. j - 1 : i \in NamesOf(s)

(* post_new_shot, for the Next Shot button; without a session the row      *)
(* cannot be saved and the request fails.                                  *)
CreateShot(r) ==
  /\ h[r].kind = "shot" /\ Step(r) = "create"
  /\ LET l == h[r].loc
         new(k) == [session |-> l.session, name |-> UniqueName(k, l.session), next |-> 1]
     IN \/ /\ l.session = 0 /\ Fail(r) /\ UNCHANGED shots
        \/ /\ l.session # 0
           /\ shots' = Append(shots, new(IF l.shot = 0 THEN 0 ELSE shots[l.shot].name))
           /\ GoOn(r, [h[r] EXCEPT !.loc.shot = Len(shots) + 1])
  /\ UNCHANGED <<loc, sessions, takes, nodeRows, cam, late, requests, faults, history>>

(* In each of these the whole row is saved, as it was read: with the new   *)
(* session or shot; with the options of location_config, once all nodes    *)
(* have been told; with the project that cameras_detailed makes when there *)
(* is none.                                                                *)
SaveRow(r, l) ==
  /\ Step(r) = "save"
  /\ loc' = l
  /\ GoOn(r, h[r])
  /\ UNCHANGED <<sessions, shots, takes, nodeRows, cam, late, requests, faults, history>>

SaveNew(r)        == h[r].kind \in {"session", "shot"} /\ SaveRow(r, h[r].loc)
SaveOptions(r)    == h[r].kind = "config" /\ SaveRow(r, h[r].loc)
DefaultProject(r) == h[r].kind = "page" /\ SaveRow(r, [h[r].loc EXCEPT !.project = TRUE])

-----------------------------------------------------------------------------
(* The nodes on their own, and what can go wrong with them.                *)

(* A request that nobody waits for any more is executed after all.         *)
LateRuns(m) ==
  /\ ~Blocked(cam[m.node], m.op)
  /\ cam' = [cam EXCEPT ![m.node] = Execute(cam[m.node], m.op)]
  /\ late' = late \ {m}
  /\ UNCHANGED <<database, nodeRows, h, requests, faults, history>>

(* Enough frames have arrived: the camera closes its clip by itself.       *)
BurstEnds(n) ==
  /\ cam[n].on /\ cam[n].rec /\ cam[n].single /\ ~cam[n].hold /\ cam[n].sync
  /\ cam' = [cam EXCEPT ![n].rec = FALSE, ![n].summ = cam[n].made]
  /\ UNCHANGED <<database, nodeRows, late, h, requests, faults, history>>

(* node_discover: the node is online, and its cameras get or lose a row.   *)
Keepalive(n) ==
  /\ online' = [online EXCEPT ![n] = TRUE]
  /\ row' = [row EXCEPT ![n] = cam[n].plugged]
  /\ nodeRows' # nodeRows
  /\ UNCHANGED <<database, cam, late, h, requests, faults, history>>

Fault(f, n) ==
  /\ Spend(f)
  /\ hurt' = hurt \cup {n}
  /\ UNCHANGED <<database, h, requests, calm, fresh, torn>>

(* No keepalive for 90 seconds when somebody looks at the locations.       *)
Lapse(n) ==
  /\ online[n] /\ Fault("lapse", n)
  /\ online' = [online EXCEPT ![n] = FALSE]
  /\ UNCHANGED <<row, cam, late>>

(* A camera is disconnected (remove_invalid_devices), also while it        *)
(* records: the list of recording cameras still holds it.  It comes back   *)
(* when that recording is over.                                            *)
Unplug(n) ==
  /\ cam[n].plugged /\ Fault("unplug", n)
  /\ cam' = [cam EXCEPT ![n].plugged = FALSE]
  /\ UNCHANGED <<nodeRows, late>>

Replug(n) ==
  /\ ~cam[n].plugged /\ ~cam[n].rec /\ ~cam[n].listed
  /\ cam' = [cam EXCEPT ![n].plugged = TRUE, ![n].on = TRUE]
  /\ UNCHANGED <<database, nodeRows, late, h, requests, faults, history>>

(* The node dies, or a user closes it (post_close_node) and it tells the   *)
(* backend (node_shutdown).  It is started again.                          *)
Restarted(n) ==
  /\ cam' = [cam EXCEPT ![n] = Preview(cam[n].plugged, cam[n].made)]
  /\ late' = {m \in late : m.node # n}
  /\ UNCHANGED row

Crash(n) == Fault("crash", n) /\ Restarted(n) /\ UNCHANGED online

CloseNode(n) ==
  /\ online[n] /\ Fault("close", n)
  /\ Restarted(n)
  /\ online' = [online EXCEPT ![n] = FALSE]

(* post_toggle_capturing, also while the camera records: it gets no frames *)
(* then, and keeps its clip open.  A node that is offline can be asked.    *)
Toggle(n) ==
  /\ cam[n].plugged
  /\ IF cam[n].on THEN Spend("toggle") ELSE UNCHANGED faults
  /\ cam' = [cam EXCEPT ![n].on = ~@]
  /\ UNCHANGED <<database, nodeRows, late, h, requests, history>>

-----------------------------------------------------------------------------
Work(r) ==
  \/ \E n \in Nodes : Answer(r, n) \/ GiveUp(r, n)
  \/ Barrier(r)
  \/ ReadLocation(r) \/ Slate(r)
  \/ Unfiled(r) \/ FileTake(r) \/ FileTorn(r) \/ CountTake(r)
  \/ CreateSession(r) \/ CreateShot(r)
  \/ SaveNew(r) \/ SaveOptions(r) \/ DefaultProject(r)

Disturb(n) == Lapse(n) \/ Unplug(n) \/ Replug(n) \/ Crash(n) \/ CloseNode(n) \/ Toggle(n)

Next ==
  \/ \E r \in Handlers :
       \/ \E kind \in Kinds : Open(r, kind)
       \/ Work(r)
       \/ \E n \in Nodes : Lose(r, n)
  \/ \E m \in late : LateRuns(m)
  \/ \E n \in Nodes : BurstEnds(n) \/ Keepalive(n) \/ Disturb(n)

Spec == Init /\ [][Next]_vars

-----------------------------------------------------------------------------
(* Every variable keeps to the states the code can put it in.              *)
TypeOK ==
  /\ loc \in Location
  /\ sessions \in Nat
  /\ shots \in Seq(Shot)
  /\ takes \in Seq(Take)
  /\ online \in [Nodes -> BOOLEAN] /\ row \in [Nodes -> BOOLEAN]
  /\ cam \in [Nodes -> Camera]
  /\ late \subseteq Late
  /\ h \in [Handlers -> Handler]
  /\ \A r \in Handlers : h[r].kind # "none" => h[r].at \in DOMAIN Steps[h[r].kind]
  /\ requests \in Nat
  /\ faults \in Nat
  /\ calm \in BOOLEAN /\ hurt \subseteq Nodes /\ torn \subseteq DOMAIN takes

(* What a camera recorded is filed in at most one take, whatever requests  *)
(* overlap, get lost or are executed late: a node reports a clip once      *)
(* (stop_recording_all and finalize_single forget it with their reply).    *)
ClipInOneTake ==
  \A t, u \in DOMAIN takes : t # u => takes[t].clips \cap takes[u].clips = {}

(* A fault stays on its node.  When requests do not overlap, no request is *)
(* open and no registration was cut short, every clip of a node that no    *)
(* fault has touched is in a take, unless it is still being recorded.      *)
FaultStaysOnItsNode ==
  (calm /\ torn = {} /\ Quiet) =>
    \A n \in Nodes \ hurt : \A k \in 1 .. cam[n].made :
      \/ k = cam[n].made /\ cam[n].rec
      \/ \E t \in DOMAIN takes : <<n, k>> \in takes[t].clips

(* Takes are numbered 1, 2, 3, ... within their shot, without a gap and    *)
(* without a number given twice, when requests do not overlap and but for  *)
(* takes whose registration was cut short (register_new_take and           *)
(* increment_take read and write the counter in separate steps).           *)
TakesNumbered ==
  (calm /\ Quiet) =>
    \A s \in DOMAIN shots :
      LET done == {t \in DOMAIN takes : takes[t].shot = s /\ t \notin torn}
      IN /\ {takes[t].seq : t \in done} = 1 .. shots[s].next - 1
         /\ Cardinality(done) = shots[s].next - 1

(* The current shot of the location belongs to its current session, as     *)
(* long as requests do not overlap and the pages are up to date            *)
(* (create_session_shot, post_new_session and post_new_shot set the pair). *)
ShotOfSession ==
  (calm /\ fresh /\ loc.shot # 0) => shots[loc.shot].session = loc.session

(* No request hangs: whatever the nodes do, its handler can take a step,   *)
(* also when a camera never delivers a frame (the timeouts of the phases,  *)
(* views.py:305-508, and of all_finalize_single in particular).            *)
NoRequestHangs == \A r \in Handlers : h[r].kind # "none" => ENABLED Work(r)
=============================================================================
