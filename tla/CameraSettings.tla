--------------------------- MODULE CameraSettings ---------------------------
(***************************************************************************)
(* The settings of cameras and of a location: the rows of the backend      *)
(* (ava/capture/views.py), what the capture nodes hold of them             *)
(* (CaptureNode::setGlobalParams, capturenode.cpp), and the two ways a     *)
(* setting takes from the rows to a node.  A handler that changes a        *)
(* setting also posts it to the node; and a node that has started or found *)
(* a new camera asks for all settings (sendKeepalive with                  *)
(* request_camera_params) and applies the answer.                          *)
(*                                                                         *)
(* Each node has one camera.  "value" stands for any of exposure, gain,    *)
(* aperture and rotation, "freq" for any option of the location that nodes *)
(* apply as it comes, "depth" for the bit depth of recordings.  A camera   *)
(* starts with 0; the models' defaults are 1, but for the bit depth.       *)
(***************************************************************************)
EXTENDS Naturals, FiniteSets

CONSTANTS
  Nodes,
  Handlers,     \* requests the backend can have open at the same time
  Values,       \* values of a setting
  MaxRequests,  \* bound: requests of a behaviour
  MaxEvents     \* bound: restarts, replugs, recordings and faults of a behaviour

ASSUME SettingsAssumption ==
  {0, 1} \subseteq Values /\ MaxRequests \in Nat /\ MaxEvents \in Nat

VARIABLES
  row,       \* [Nodes -> Row], the camera row of the node
  loc,       \* the options in the row of the location
  online,    \* nodes whose row says online
  node,      \* [Nodes -> Node], what a node holds
  cam,       \* [Nodes -> Camera]
  mail,      \* [Nodes -> Mail], the request for all settings of a node
  req,       \* [Handlers -> Request], the open requests
  requests, events,
  due,       \* history: [Nodes -> Options], the options of the row when the node last
             \* asked for them, or location_config last saved them
  behind,    \* history: nodes whose due options are not those of the row any more,
             \* because a handler saved a row that it had read before
  missed,    \* history: nodes that missed a setting, or got settings of requests
             \* that overlapped, and have not asked for all of them since
  fresh      \* history: cameras that were plugged in and have not recorded since

vars == <<row, loc, online, node, cam, mail, req, requests, events, missed, fresh, due, behind>>

Row     == [there : BOOLEAN, value : Values, sync : BOOLEAN]
Options == [freq : Values, depth : Values]
Node    == [up : BOOLEAN, mute : BOOLEAN, asks : BOOLEAN, depth : Values]
Camera  == [plugged : BOOLEAN, rec : BOOLEAN, value : Values, sync : BOOLEAN,
            freq : Values, depth : Values]
Mail    == [sent : BOOLEAN, alone : BOOLEAN, row : Row, loc : Options]
Request == [kind : {"none", "set", "toggle", "config", "row"},
            at : {"", "save", "post", "push", "hold"},
            nodes : SUBSET Nodes, left : SUBSET Nodes, row : Row, loc : Options]

DefaultRow     == [there |-> TRUE, value |-> 1, sync |-> TRUE]
DefaultOptions == [freq |-> 1, depth |-> 0]
NoRow  == [there |-> FALSE, value |-> 1, sync |-> TRUE]
NoMail == [sent |-> FALSE, alone |-> TRUE, row |-> NoRow, loc |-> DefaultOptions]
NoReq  == [kind |-> "none", at |-> "", nodes |-> {}, left |-> {}, row |-> NoRow,
           loc |-> DefaultOptions]

NewNode == [up |-> TRUE, mute |-> FALSE, asks |-> TRUE, depth |-> 0]
NewCamera(plugged) ==
  [plugged |-> plugged, rec |-> FALSE, value |-> 0, sync |-> FALSE, freq |-> 0, depth |-> 0]

Init ==
  /\ row = [n \in Nodes |-> NoRow]
  /\ loc = DefaultOptions
  /\ online = {}
  /\ node = [n \in Nodes |-> NewNode]
  /\ cam = [n \in Nodes |-> NewCamera(TRUE)]
  /\ mail = [n \in Nodes |-> NoMail]
  /\ req = [r \in Handlers |-> NoReq]
  /\ requests = 0 /\ events = 0
  /\ due = [n \in Nodes |-> DefaultOptions] /\ behind = {}
  /\ missed = {} /\ fresh = {}

Event == events < MaxEvents /\ events' = events + 1

-----------------------------------------------------------------------------
(* What a node does with settings (setGlobalParams).                       *)

\* Only a bit depth that differs from the node's is given to its cameras, and
\* only to those that do not record.
DepthOf(n, o) ==
  IF o.depth # node[n].depth /\ ~cam[n].rec THEN o.depth ELSE cam[n].depth

TakeOptions(n, o) ==
  /\ node' = [node EXCEPT ![n].depth = o.depth]
  /\ cam' = [cam EXCEPT ![n].freq = o.freq, ![n].depth = DepthOf(n, o)]

\* An answer also has the parameters of the camera rows.
TakeAnswer(n, rw, o) ==
  /\ node' = [node EXCEPT ![n].depth = o.depth]
  /\ cam' = [cam EXCEPT ![n].freq = o.freq, ![n].depth = DepthOf(n, o),
                        ![n].value = IF rw.there THEN rw.value ELSE @,
                        ![n].sync = IF rw.there THEN rw.sync ELSE @]

\* The node list of the backend: the row of n is made or deleted with its camera.
Discover(n) ==
  row' = [row EXCEPT ![n] = IF ~cam[n].plugged THEN NoRow
                            ELSE IF @.there THEN @ ELSE DefaultRow]

Touched(n) == \E r \in Handlers : n \in req[r].nodes

\* node_discover, every 40 seconds.
Keepalive(n) ==
  /\ node[n].up /\ ~node[n].mute
  /\ online' = online \cup {n}
  /\ Discover(n)
  /\ UNCHANGED <<loc, due, behind, node, cam, mail, req, requests, events, missed, fresh>>

\* node_discover of a node that asks for all settings,
Ask(n) ==
  /\ node[n].up /\ ~node[n].mute /\ node[n].asks /\ ~mail[n].sent
  /\ online' = online \cup {n}
  /\ Discover(n)
  /\ mail' = [mail EXCEPT ![n] = [sent |-> TRUE, alone |-> ~Touched(n), row |-> row'[n],
                                  loc |-> loc]]
  /\ due' = [due EXCEPT ![n] = loc] /\ behind' = behind \ {n}
  /\ node' = [node EXCEPT ![n].asks = FALSE]
  /\ UNCHANGED <<loc, cam, req, requests, events, missed, fresh>>

\* and the answer, which the node applies when it comes.
Apply(n) ==
  /\ mail[n].sent
  /\ TakeAnswer(n, mail[n].row, mail[n].loc)
  /\ missed' = IF mail[n].alone THEN missed \ {n} ELSE missed \cup {n}
  /\ mail' = [mail EXCEPT ![n] = NoMail]
  /\ UNCHANGED <<row, loc, due, behind, online, req, requests, events, fresh>>

\* The request fails or is refused: the node never calls the backend again.
LoseAnswer(n) ==
  /\ mail[n].sent /\ Event
  /\ mail' = [mail EXCEPT ![n] = NoMail]
  /\ node' = [node EXCEPT ![n].mute = TRUE]
  /\ missed' = missed \cup {n}
  /\ UNCHANGED <<row, loc, due, behind, online, cam, req, requests, fresh>>

-----------------------------------------------------------------------------
(* The handlers that change a setting: they read a row, save it, and post  *)
(* the setting to the node, or, for a location, post it to the nodes that  *)
(* are online and then save the row.                                       *)

\* A request that opens beside another one for the same node, or between the
\* answer to the node and its application.
Open(r, rq) ==
  /\ req[r] = NoReq /\ requests < MaxRequests
  /\ requests' = requests + 1
  /\ req' = [req EXCEPT ![r] = rq]
  /\ mail' = [n \in Nodes |-> [mail[n] EXCEPT !.alone = @ /\ ~(mail[n].sent /\ n \in rq.nodes)]]
  /\ UNCHANGED <<row, loc, due, behind, node, cam, online, events, fresh>>

\* camera_parameter, post_set_camera_rotation
OpenSet(r, n, v) ==
  /\ row[n].there
  /\ Open(r, [NoReq EXCEPT !.kind = "set", !.at = "save", !.nodes = {n},
                           !.row = [row[n] EXCEPT !.value = v]])
  /\ missed' = IF Touched(n) THEN missed \cup {n} ELSE missed

\* post_toggle_using_sync
OpenToggle(r, n) ==
  /\ row[n].there
  /\ Open(r, [NoReq EXCEPT !.kind = "toggle", !.at = "save", !.nodes = {n},
                           !.row = [row[n] EXCEPT !.sync = ~@]])
  /\ missed' = IF Touched(n) THEN missed \cup {n} ELSE missed

\* location_config
OpenConfig(r, o) ==
  /\ Open(r, [NoReq EXCEPT !.kind = "config", !.at = "push", !.nodes = Nodes, !.left = online,
                           !.loc = o])
  /\ missed' = missed \cup (Nodes \ online) \cup {n \in Nodes : Touched(n)}

SaveCamera(r) ==
  /\ req[r].at = "save"
  /\ row' = [n \in Nodes |-> IF n \in req[r].nodes THEN req[r].row ELSE row[n]]
  /\ req' = [req EXCEPT ![r].at = "post"]
  /\ UNCHANGED <<loc, due, behind, online, node, cam, mail, requests, events, missed, fresh>>

\* The camera with the one setting that is posted.
Posted(r, c) ==
  IF req[r].kind = "set" THEN [c EXCEPT !.value = req[r].row.value]
  ELSE [c EXCEPT !.sync = req[r].row.sync]

PostCamera(r) ==
  /\ req[r].at = "post"
  /\ cam' = [n \in Nodes |-> IF n \in req[r].nodes /\ node[n].up /\ cam[n].plugged
                             THEN Posted(r, cam[n]) ELSE cam[n]]
  /\ req' = [req EXCEPT ![r] = NoReq]
  /\ UNCHANGED <<row, loc, due, behind, online, node, mail, requests, events, missed, fresh>>

\* The post fails, or has no answer in time; the handler only logs it.
LosePost(r) ==
  /\ req[r].at = "post" /\ Event
  /\ req' = [req EXCEPT ![r] = NoReq]
  /\ missed' = missed \cup req[r].nodes
  /\ UNCHANGED <<row, loc, due, behind, online, node, cam, mail, requests, fresh>>

PushOptions(r, n) ==
  /\ req[r].at = "push" /\ n \in req[r].left
  /\ IF node[n].up THEN TakeOptions(n, req[r].loc) ELSE UNCHANGED <<node, cam>>
  /\ req' = [req EXCEPT ![r].left = @ \ {n}]
  /\ UNCHANGED <<row, loc, due, behind, online, mail, requests, events, missed, fresh>>

LosePush(r, n) ==
  /\ req[r].at = "push" /\ n \in req[r].left /\ Event
  /\ req' = [req EXCEPT ![r].left = @ \ {n}]
  /\ missed' = missed \cup {n}
  /\ UNCHANGED <<row, loc, due, behind, online, node, cam, mail, requests, fresh>>

SaveConfig(r) ==
  /\ req[r].at = "push" /\ req[r].left = {}
  /\ loc' = req[r].loc
  /\ due' = [n \in Nodes |-> req[r].loc] /\ behind' = {}
  /\ req' = [req EXCEPT ![r] = NoReq]
  /\ UNCHANGED <<row, online, node, cam, mail, requests, events, missed, fresh>>

(* Handlers with another business read the row of the location and save    *)
(* all of it later: post_start_recording, post_record_single_image and     *)
(* post_stop_recording, which first waits for its nodes, with a new shot   *)
(* or take; post_new_session, post_new_shot and cameras_detailed.          *)
OpenRow(r) ==
  /\ Open(r, [NoReq EXCEPT !.kind = "row", !.at = "hold", !.loc = loc])
  /\ UNCHANGED missed

\* The options that were read are in the row again; or there was nothing to save.
SaveRow(r) ==
  /\ req[r].at = "hold"
  /\ loc' \in {loc, req[r].loc}
  /\ behind' = IF loc' = loc THEN behind ELSE Nodes
  /\ req' = [req EXCEPT ![r] = NoReq]
  /\ UNCHANGED <<row, online, node, cam, mail, requests, events, missed, fresh, due>>

-----------------------------------------------------------------------------
(* Nodes and cameras come and go, and record.                              *)

\* Mutant of Shutdown: the cameras go on without their node.
ShutdownNode(n) ==
  /\ node[n].up /\ Event
  /\ node' = [node EXCEPT ![n] = [NewNode EXCEPT !.up = FALSE]]
  /\ mail' = [mail EXCEPT ![n] = NoMail]
  /\ online' = online \ {n}
  /\ UNCHANGED <<row, loc, due, behind, cam, req, requests, missed, fresh>>

\* A node that stops (node_shutdown), and one that starts.
Shutdown(n) ==
  /\ node[n].up /\ Event
  /\ node' = [node EXCEPT ![n] = [NewNode EXCEPT !.up = FALSE]]
  /\ cam' = [cam EXCEPT ![n] = NewCamera(cam[n].plugged)]
  /\ mail' = [mail EXCEPT ![n] = NoMail]
  /\ online' = online \ {n}
  /\ fresh' = fresh \ {n}
  /\ UNCHANGED <<row, loc, due, behind, req, requests, missed>>

Startup(n) ==
  /\ ~node[n].up
  /\ node' = [node EXCEPT ![n] = NewNode]
  /\ UNCHANGED <<row, loc, due, behind, online, cam, mail, req, requests, events, missed, fresh>>

\* get_locations: a node that was not heard of for 90 seconds.
Lapse(n) ==
  /\ n \in online /\ Event
  /\ online' = online \ {n}
  /\ UNCHANGED <<row, loc, due, behind, node, cam, mail, req, requests, missed, fresh>>

\* scan_for_new_devices and remove_invalid_devices; a new camera makes the node ask.
Unplug(n) ==
  /\ cam[n].plugged /\ ~cam[n].rec /\ node[n].up /\ Event
  /\ cam' = [cam EXCEPT ![n] = NewCamera(FALSE)]
  /\ fresh' = fresh \ {n}
  /\ UNCHANGED <<row, loc, due, behind, online, node, mail, req, requests, missed>>

\* Mutant of Replug: the node does not ask for the settings of a new camera.
ReplugSilently(n) ==
  /\ ~cam[n].plugged /\ node[n].up
  /\ cam' = [cam EXCEPT ![n] = NewCamera(TRUE)]
  /\ fresh' = fresh \cup {n}
  /\ UNCHANGED <<row, loc, due, behind, online, node, mail, req, requests, events, missed>>

Replug(n) ==
  /\ ~cam[n].plugged /\ node[n].up
  /\ cam' = [cam EXCEPT ![n] = NewCamera(TRUE)]
  /\ node' = [node EXCEPT ![n].asks = TRUE]
  /\ fresh' = fresh \cup {n}
  /\ UNCHANGED <<row, loc, due, behind, online, mail, req, requests, events, missed>>

Record(n) ==
  /\ node[n].up /\ cam[n].plugged /\ ~cam[n].rec /\ Event
  /\ cam' = [cam EXCEPT ![n].rec = TRUE]
  /\ UNCHANGED <<row, loc, due, behind, online, node, mail, req, requests, missed, fresh>>

\* Mutant of StopRecording: the bit depth of the camera is left as it was.
StopOnly(n) ==
  /\ cam[n].rec
  /\ cam' = [cam EXCEPT ![n].rec = FALSE]
  /\ fresh' = fresh \ {n}
  /\ UNCHANGED <<row, loc, due, behind, online, node, mail, req, requests, events, missed>>

\* stop_recording_all gives its cameras the bit depth of the node.
StopRecording(n) ==
  /\ cam[n].rec
  /\ cam' = [cam EXCEPT ![n].rec = FALSE, ![n].depth = node[n].depth]
  /\ fresh' = fresh \ {n}
  /\ UNCHANGED <<row, loc, due, behind, online, node, mail, req, requests, events, missed>>

-----------------------------------------------------------------------------

Serve(r) ==
  \/ \E n \in Nodes : OpenToggle(r, n) \/ \E v \in Values : OpenSet(r, n, v)
  \/ \E o \in Options : OpenConfig(r, o)
  \/ OpenRow(r) \/ SaveRow(r)
  \/ SaveCamera(r) \/ PostCamera(r) \/ LosePost(r) \/ SaveConfig(r)
  \/ \E n \in Nodes : PushOptions(r, n) \/ LosePush(r, n)

Live(n) ==
  \/ Keepalive(n) \/ Ask(n) \/ Apply(n) \/ LoseAnswer(n)
  \/ Shutdown(n) \/ Startup(n) \/ Lapse(n) \/ Unplug(n) \/ Replug(n)
  \/ Record(n) \/ StopRecording(n)

Next == (\E r \in Handlers : Serve(r)) \/ (\E n \in Nodes : Live(n))

Spec == Init /\ [][Next]_vars

-----------------------------------------------------------------------------
(* Properties.                                                             *)

(* Rows, nodes, cameras and requests have the values of their kinds; a     *)
(* camera records only on a node that runs and only while it is plugged    *)
(* in; a node that waits for an answer runs (setGlobalParams, main.cpp).   *)
TypeOK ==
  /\ row \in [Nodes -> Row] /\ loc \in Options /\ online \subseteq Nodes
  /\ node \in [Nodes -> Node] /\ cam \in [Nodes -> Camera]
  /\ mail \in [Nodes -> Mail] /\ req \in [Handlers -> Request]
  /\ requests \in Nat /\ events \in Nat
  /\ missed \subseteq Nodes /\ fresh \subseteq Nodes
  /\ due \in [Nodes -> Options] /\ behind \subseteq Nodes
  /\ \A n \in Nodes : /\ cam[n].rec => node[n].up /\ cam[n].plugged
                      /\ mail[n].sent => node[n].up /\ ~node[n].mute

\* A node that has its camera, has applied its last answer, and is not being
\* given a setting.
Settled(n) ==
  /\ node[n].up /\ ~node[n].asks /\ ~mail[n].sent
  /\ cam[n].plugged /\ row[n].there
  /\ ~Touched(n) /\ n \notin missed

(* A node that has settled has the settings of the rows: through restarts, *)
(* cameras plugged out and in again, rows deleted and made anew, and after *)
(* settings that got lost once the node has asked again (sendKeepalive     *)
(* with request_camera_params, main.cpp:164-228).  The options of the      *)
(* location it has are those last configured or asked for; they are those  *)
(* of the row unless another handler has put older ones back since (such   *)
(* as loc.save() at the end of post_stop_recording, capture/views.py:198), *)
(* of which the nodes are not told.                                        *)
SettingsAgree ==
  \A n \in Nodes : Settled(n) =>
    /\ cam[n].value = row[n].value /\ cam[n].sync = row[n].sync
    /\ cam[n].freq = due[n].freq /\ node[n].depth = due[n].depth
    /\ n \notin behind => cam[n].freq = loc.freq /\ node[n].depth = loc.depth

(* A camera that is about to record does so with the bit depth last        *)
(* configured or asked for, which is its location's unless the row was put *)
(* back; also when it was changed during the last recording ("Bitdepth is  *)
(* the same as the continuous preview", capturenode.cpp:559,               *)
(* stop_recording_all); not so a camera that was plugged in since.         *)
RecordsAtDepth ==
  \A n \in Nodes \ fresh :
    (Settled(n) /\ ~cam[n].rec) =>
      /\ cam[n].depth = due[n].depth
      /\ n \notin behind => cam[n].depth = loc.depth
=============================================================================
