------------------------ MODULE CameraSettingsProofs ------------------------
(***************************************************************************)
(* The settings of cameras and of a location, for any nodes, requests,     *)
(* values and bounds: a node that has settled has the settings of the      *)
(* rows, but for options that were put back in the row behind its back,    *)
(* and its camera is about to record with the bit depth that it was given. *)
(*                                                                         *)
(* The argument is about the time before a node has settled.  While a      *)
(* request for its settings is open, the rows and the node differ in just  *)
(* what that request has done to the one and not yet to the other (Under); *)
(* that there is one such request at a time, and none beside an answer     *)
(* under way, is what a node out of missed has over the others             *)
(* (OneRequest, MailCurrent).  The lemmas ...Effect say what an action     *)
(* leaves in each variable and that it keeps the types; the lemmas ...Step *)
(* say that it keeps the invariant, QuietNode that it does so for the      *)
(* nodes it does not concern.                                              *)
(***************************************************************************)
EXTENDS CameraSettings, TLAPS

-----------------------------------------------------------------------------
(* Types.                                                                  *)

(* What the types say of node n.                                           *)
LEMMA NodeFacts ==
  ASSUME TypeOK, NEW n \in Nodes
  PROVE  /\ row \in [Nodes -> Row] /\ row[n] \in Row
         /\ node \in [Nodes -> Node] /\ node[n] \in Node
         /\ cam \in [Nodes -> Camera] /\ cam[n] \in Camera
         /\ mail \in [Nodes -> Mail] /\ mail[n] \in Mail
         /\ mail[n].row \in Row /\ mail[n].loc \in Options
BY DEF TypeOK, Mail

(* What the types say of request r.                                        *)
LEMMA RequestFacts ==
  ASSUME TypeOK, NEW r \in Handlers
  PROVE  /\ req \in [Handlers -> Request] /\ req[r] \in Request
         /\ req[r].row \in Row /\ req[r].loc \in Options
         /\ req[r].nodes \in SUBSET Nodes /\ req[r].left \in SUBSET Nodes
BY DEF TypeOK, Request

(* Rows, nodes, answers and requests as they are made.                     *)
LEMMA NewRecords ==
  /\ NoRow \in Row /\ DefaultRow \in Row /\ DefaultOptions \in Options
  /\ NoMail \in Mail /\ NoReq \in Request
  /\ NewNode \in Node /\ [NewNode EXCEPT !.up = FALSE] \in Node
  /\ \A b \in BOOLEAN : NewCamera(b) \in Camera
<1>1. NoRow \in Row /\ DefaultRow \in Row /\ DefaultOptions \in Options
  BY SettingsAssumption DEF NoRow, DefaultRow, DefaultOptions, Row, Options
<1>2. NoMail \in Mail /\ NoReq \in Request
  BY <1>1 DEF NoMail, NoReq, Mail, Request
<1>3. NewNode \in Node /\ [NewNode EXCEPT !.up = FALSE] \in Node
  BY SettingsAssumption DEF NewNode, Node
<1>4. \A b \in BOOLEAN : NewCamera(b) \in Camera
  BY SettingsAssumption DEF NewCamera, Camera
<1> QED
  BY <1>1, <1>2, <1>3, <1>4

\* The row of n after the node list was read.
Found(n) == IF ~cam[n].plugged THEN NoRow ELSE IF row[n].there THEN row[n] ELSE DefaultRow

(* node_discover makes the row of n, or deletes it.                        *)
LEMMA Discovered ==
  ASSUME TypeOK, NEW n \in Nodes, Discover(n)
  PROVE  /\ row' \in [Nodes -> Row] /\ row'[n] = Found(n)
         /\ \A m \in Nodes : m # n => row'[m] = row[m]
<1>1. row' = [row EXCEPT ![n] = Found(n)]
  BY NodeFacts DEF Discover, Found
<1>2. Found(n) \in Row
  BY NodeFacts, NewRecords DEF Found
<1> QED
  BY <1>1, <1>2, NodeFacts

\* A step of node n: it changes what belongs to n, and nothing else.
NodeMove(n) ==
  /\ UNCHANGED <<loc, req>>
  /\ \A m \in Nodes : m # n =>
       /\ due'[m] = due[m] /\ (m \in behind' <=> m \in behind)
       /\ row'[m] = row[m] /\ node'[m] = node[m] /\ cam'[m] = cam[m] /\ mail'[m] = mail[m]
       /\ m \in missed' <=> m \in missed
       /\ m \in fresh' <=> m \in fresh

\* It also keeps the types.
Moves(n) == TypeOK' /\ NodeMove(n)

\* A camera keeps or takes its settings.
SameCamera(c, d) ==
  c.value = d.value /\ c.sync = d.sync /\ c.freq = d.freq /\ c.depth = d.depth

(* A node tells the backend that it is there.                              *)
LEMMA KeepaliveEffect ==
  ASSUME TypeOK, NEW n \in Nodes, Keepalive(n)
  PROVE  /\ Moves(n) /\ row'[n] = Found(n)
         /\ UNCHANGED <<due, behind, node, cam, mail, missed, fresh>>
<1>1. /\ online' = online \cup {n} /\ Discover(n)
      /\ UNCHANGED <<loc, due, behind, node, cam, mail, req, requests, events, missed, fresh>>
  BY DEF Keepalive
<1>2. TypeOK'
  BY <1>1, Discovered DEF TypeOK
<1> QED
  BY <1>1, <1>2, Discovered DEF Moves, NodeMove

(* A node asks for all settings.                                           *)
LEMMA AskEffect ==
  ASSUME TypeOK, NEW n \in Nodes, Ask(n)
  PROVE  /\ Moves(n) /\ row'[n] = Found(n)
         /\ mail'[n].sent /\ (mail'[n].alone <=> ~Touched(n))
         /\ mail'[n].row = Found(n) /\ mail'[n].loc = loc
         /\ due'[n] = loc /\ n \notin behind'
         /\ node'[n].up = node[n].up /\ ~node'[n].asks /\ node'[n].depth = node[n].depth
         /\ UNCHANGED <<cam, missed, fresh>>
<1> DEFINE a == Touched(n)
           ml == [sent |-> TRUE, alone |-> ~a, row |-> Found(n), loc |-> loc]
<1>1. /\ node[n].up /\ ~node[n].mute /\ online' = online \cup {n} /\ Discover(n)
      /\ node' = [node EXCEPT ![n].asks = FALSE]
      /\ due' = [due EXCEPT ![n] = loc] /\ behind' = behind \ {n}
      /\ UNCHANGED <<loc, cam, req, requests, events, missed, fresh>>
  BY DEF Ask
<1>2. row' \in [Nodes -> Row] /\ row'[n] = Found(n) /\ \A m \in Nodes : m # n => row'[m] = row[m]
  BY <1>1, Discovered
<1>3. mail' = [mail EXCEPT ![n] = ml]
  BY <1>2 DEF Ask
<1>4. a \in BOOLEAN
  BY DEF Touched
<1> HIDE DEF a
<1>5. ml \in Mail
  BY <1>2, <1>4, NodeFacts DEF TypeOK, Mail
<1>6. ml.sent /\ (ml.alone <=> ~a) /\ ml.row = Found(n) /\ ml.loc = loc
  BY <1>4
<1> HIDE DEF ml
<1>7. mail' \in [Nodes -> Mail] /\ mail'[n] = ml /\ \A m \in Nodes : m # n => mail'[m] = mail[m]
  BY <1>3, <1>5, NodeFacts
<1>8. /\ node' \in [Nodes -> Node] /\ \A m \in Nodes : m # n => node'[m] = node[m]
      /\ node'[n].up = node[n].up /\ ~node'[n].asks /\ node'[n].depth = node[n].depth
      /\ node'[n].mute = node[n].mute
  BY <1>1, NodeFacts DEF Node
<1>9. due' \in [Nodes -> Options] /\ due'[n] = loc /\ \A m \in Nodes : m # n => due'[m] = due[m]
  BY <1>1 DEF TypeOK
<1>10. TypeOK'
  BY <1>1, <1>2, <1>7, <1>8, <1>9 DEF TypeOK
<1> QED
  BY <1>1, <1>2, <1>6, <1>7, <1>8, <1>9, <1>10 DEF Moves, NodeMove, a

\* The settings of a location as a node takes them.
TakesOptions(n, o) ==
  /\ cam'[n].freq = o.freq /\ cam'[n].depth = DepthOf(n, o)
  /\ cam'[n].plugged = cam[n].plugged /\ cam'[n].rec = cam[n].rec
  /\ node'[n].up = node[n].up /\ node'[n].asks = node[n].asks /\ node'[n].depth = o.depth

(* A node applies the answer.                                              *)
LEMMA ApplyEffect ==
  ASSUME TypeOK, NEW n \in Nodes, Apply(n)
  PROVE  /\ Moves(n) /\ mail[n].sent /\ ~mail'[n].sent
         /\ (n \in missed' <=> ~mail[n].alone)
         /\ TakesOptions(n, mail[n].loc)
         /\ cam'[n].value = (IF mail[n].row.there THEN mail[n].row.value ELSE cam[n].value)
         /\ cam'[n].sync = (IF mail[n].row.there THEN mail[n].row.sync ELSE cam[n].sync)
         /\ UNCHANGED <<due, behind, row, fresh>>
<1> DEFINE rw == mail[n].row
           o == mail[n].loc
           nd == [node[n] EXCEPT !.depth = o.depth]
           c == [cam[n] EXCEPT !.freq = o.freq, !.depth = DepthOf(n, o),
                               !.value = IF rw.there THEN rw.value ELSE @,
                               !.sync = IF rw.there THEN rw.sync ELSE @]
<1>1. /\ mail[n].sent /\ node' = [node EXCEPT ![n] = nd] /\ cam' = [cam EXCEPT ![n] = c]
      /\ missed' = (IF mail[n].alone THEN missed \ {n} ELSE missed \cup {n})
      /\ mail' = [mail EXCEPT ![n] = NoMail]
      /\ UNCHANGED <<row, loc, due, behind, online, req, requests, events, fresh>>
  BY NodeFacts DEF Apply, TakeAnswer
<1>2. rw \in Row /\ o \in Options /\ node[n] \in Node /\ cam[n] \in Camera
  BY NodeFacts
<1>3. nd \in Node /\ nd.up = node[n].up /\ nd.asks = node[n].asks /\ nd.depth = o.depth
      /\ nd.mute = node[n].mute
  BY <1>2 DEF Node, Options
<1>4. /\ c \in Camera /\ c.freq = o.freq /\ c.depth = DepthOf(n, o)
      /\ c.plugged = cam[n].plugged /\ c.rec = cam[n].rec
      /\ c.value = (IF rw.there THEN rw.value ELSE cam[n].value)
      /\ c.sync = (IF rw.there THEN rw.sync ELSE cam[n].sync)
  <2>1. DepthOf(n, o) \in Values
    BY <1>2 DEF DepthOf, Options, Camera
  <2>2. rw.value \in Values /\ rw.sync \in BOOLEAN /\ rw.there \in BOOLEAN /\ o.freq \in Values
    BY <1>2 DEF Row, Options
  <2> HIDE DEF rw, o
  <2> QED
    BY <1>2, <2>1, <2>2 DEF Camera
<1> HIDE DEF nd, c, rw, o
<1>5. /\ node' \in [Nodes -> Node] /\ node'[n] = nd
      /\ cam' \in [Nodes -> Camera] /\ cam'[n] = c
      /\ mail' \in [Nodes -> Mail] /\ mail'[n] = NoMail
      /\ \A m \in Nodes : m # n => cam'[m] = cam[m] /\ node'[m] = node[m] /\ mail'[m] = mail[m]
  BY <1>1, <1>3, <1>4, NodeFacts, NewRecords
<1>6. ~NoMail.sent
  BY DEF NoMail
<1>7. TypeOK'
  BY <1>1, <1>3, <1>4, <1>5, <1>6 DEF TypeOK
<1>8. TakesOptions(n, o)
  BY <1>3, <1>4, <1>5 DEF TakesOptions
<1> QED
  BY <1>1, <1>4, <1>5, <1>6, <1>7, <1>8 DEF Moves, NodeMove, rw, o

(* The answer to a node is lost.                                           *)
LEMMA LoseAnswerEffect ==
  ASSUME TypeOK, NEW n \in Nodes, LoseAnswer(n)
  PROVE  /\ Moves(n) /\ n \in missed' /\ ~mail'[n].sent
         /\ node'[n].up = node[n].up /\ node'[n].depth = node[n].depth
         /\ UNCHANGED <<due, behind, row, cam, fresh>>
<1>1. /\ mail' = [mail EXCEPT ![n] = NoMail] /\ node' = [node EXCEPT ![n].mute = TRUE]
      /\ missed' = missed \cup {n} /\ events' = events + 1
      /\ UNCHANGED <<row, loc, due, behind, online, cam, req, requests, fresh>>
  BY DEF LoseAnswer, Event
<1>2. /\ node' \in [Nodes -> Node] /\ \A m \in Nodes : m # n => node'[m] = node[m]
      /\ node'[n].up = node[n].up /\ node'[n].depth = node[n].depth
  BY <1>1, NodeFacts DEF Node
<1>3. /\ mail' \in [Nodes -> Mail] /\ ~mail'[n].sent /\ \A m \in Nodes : m # n => mail'[m] = mail[m]
  BY <1>1, NodeFacts, NewRecords DEF NoMail
<1>4. TypeOK'
  BY <1>1, <1>2, <1>3 DEF TypeOK
<1> QED
  BY <1>1, <1>2, <1>3, <1>4 DEF Moves, NodeMove

(* A node stops, with its cameras.                                         *)
LEMMA ShutdownEffect ==
  ASSUME TypeOK, NEW n \in Nodes, Shutdown(n)
  PROVE  /\ Moves(n) /\ ~mail'[n].sent /\ ~node'[n].up /\ node'[n].depth = 0
         /\ cam'[n].depth = 0 /\ UNCHANGED <<due, behind, row, missed>> /\ n \notin fresh'
<1> DEFINE nd == [NewNode EXCEPT !.up = FALSE]
           c == NewCamera(cam[n].plugged)
<1>1. /\ node' = [node EXCEPT ![n] = nd] /\ cam' = [cam EXCEPT ![n] = c]
      /\ mail' = [mail EXCEPT ![n] = NoMail] /\ online' = online \ {n} /\ fresh' = fresh \ {n}
      /\ events' = events + 1 /\ UNCHANGED <<row, loc, due, behind, req, requests, missed>>
  BY DEF Shutdown, Event
<1>2. nd \in Node /\ ~nd.up /\ nd.depth = 0
  BY NewRecords DEF NewNode
<1>3. c \in Camera /\ ~c.rec /\ c.depth = 0
  BY NewRecords, NodeFacts DEF NewCamera, Camera
<1> HIDE DEF nd, c
<1>4. /\ node' \in [Nodes -> Node] /\ node'[n] = nd
      /\ cam' \in [Nodes -> Camera] /\ cam'[n] = c
      /\ mail' \in [Nodes -> Mail] /\ mail'[n] = NoMail
      /\ \A m \in Nodes : m # n => cam'[m] = cam[m] /\ node'[m] = node[m] /\ mail'[m] = mail[m]
  BY <1>1, <1>2, <1>3, NodeFacts, NewRecords
<1>5. ~NoMail.sent
  BY DEF NoMail
<1>6. TypeOK'
  BY <1>1, <1>2, <1>3, <1>4, <1>5 DEF TypeOK
<1> QED
  BY <1>1, <1>2, <1>3, <1>4, <1>5, <1>6 DEF Moves, NodeMove

(* A node starts.                                                          *)
LEMMA StartupEffect ==
  ASSUME TypeOK, NEW n \in Nodes, Startup(n)
  PROVE  /\ Moves(n) /\ ~node[n].up /\ node'[n].asks /\ node'[n].depth = 0
         /\ UNCHANGED <<due, behind, row, cam, mail, missed, fresh>>
<1>1. /\ ~node[n].up /\ node' = [node EXCEPT ![n] = NewNode]
      /\ UNCHANGED <<row, loc, due, behind, online, cam, mail, req, requests, events, missed, fresh>>
  BY DEF Startup
<1>2. /\ node' \in [Nodes -> Node] /\ node'[n] = NewNode
      /\ \A m \in Nodes : m # n => node'[m] = node[m]
  BY <1>1, NodeFacts, NewRecords
<1>3. NewNode.up /\ ~NewNode.mute /\ NewNode.asks /\ NewNode.depth = 0
  BY DEF NewNode
<1>4. TypeOK'
  BY <1>1, <1>2, <1>3 DEF TypeOK
<1> QED
  BY <1>1, <1>2, <1>3, <1>4 DEF Moves, NodeMove

(* A node is not heard of.                                                 *)
LEMMA LapseEffect ==
  ASSUME TypeOK, NEW n \in Nodes, Lapse(n)
  PROVE  Moves(n) /\ UNCHANGED <<due, behind, row, node, cam, mail, missed, fresh>>
BY DEF Lapse, Event, Moves, NodeMove, TypeOK

(* A camera is unplugged.                                                  *)
LEMMA UnplugEffect ==
  ASSUME TypeOK, NEW n \in Nodes, Unplug(n)
  PROVE  /\ Moves(n) /\ ~cam'[n].plugged
         /\ UNCHANGED <<due, behind, row, node, mail, missed>>
<1> DEFINE c == NewCamera(FALSE)
<1>1. /\ cam' = [cam EXCEPT ![n] = c] /\ fresh' = fresh \ {n} /\ events' = events + 1
      /\ UNCHANGED <<row, loc, due, behind, online, node, mail, req, requests, missed>>
  BY DEF Unplug, Event
<1>2. c \in Camera /\ ~c.rec /\ ~c.plugged
  BY NewRecords DEF NewCamera
<1> HIDE DEF c
<1>3. /\ cam' \in [Nodes -> Camera] /\ cam'[n] = c
      /\ \A m \in Nodes : m # n => cam'[m] = cam[m]
  BY <1>1, <1>2, NodeFacts
<1>4. TypeOK'
  BY <1>1, <1>2, <1>3 DEF TypeOK
<1> QED
  BY <1>1, <1>2, <1>3, <1>4 DEF Moves, NodeMove

(* A camera is plugged in, and its node will ask.                          *)
LEMMA ReplugEffect ==
  ASSUME TypeOK, NEW n \in Nodes, Replug(n)
  PROVE  /\ Moves(n) /\ n \in fresh' /\ node'[n].asks /\ node[n].up /\ node'[n].up
         /\ UNCHANGED <<due, behind, row, mail, missed>>
<1> DEFINE c == NewCamera(TRUE)
<1>1. /\ node[n].up /\ cam' = [cam EXCEPT ![n] = c] /\ node' = [node EXCEPT ![n].asks = TRUE]
      /\ fresh' = fresh \cup {n}
      /\ UNCHANGED <<row, loc, due, behind, online, mail, req, requests, events, missed>>
  BY DEF Replug
<1>2. c \in Camera /\ ~c.rec
  BY NewRecords DEF NewCamera
<1> HIDE DEF c
<1>3. /\ cam' \in [Nodes -> Camera] /\ cam'[n] = c
      /\ \A m \in Nodes : m # n => cam'[m] = cam[m]
  BY <1>1, <1>2, NodeFacts
<1>4. /\ node' \in [Nodes -> Node] /\ \A m \in Nodes : m # n => node'[m] = node[m]
      /\ node'[n].up /\ node'[n].asks /\ node'[n].mute = node[n].mute
  BY <1>1, NodeFacts DEF Node
<1>5. TypeOK'
  BY <1>1, <1>2, <1>3, <1>4 DEF TypeOK
<1> QED
  BY <1>1, <1>2, <1>3, <1>4, <1>5 DEF Moves, NodeMove

(* A recording begins or ends; at its end the camera gets the bit depth.   *)
LEMMA RecordEffect ==
  ASSUME TypeOK, NEW n \in Nodes, Record(n) \/ StopRecording(n)
  PROVE  /\ Moves(n) /\ cam'[n].plugged = cam[n].plugged
         /\ cam'[n].value = cam[n].value /\ cam'[n].sync = cam[n].sync
         /\ cam'[n].freq = cam[n].freq
         /\ cam'[n].rec \/ cam'[n].depth = node[n].depth
         /\ UNCHANGED <<due, behind, row, node, mail, missed>>
<1> DEFINE c == [cam[n] EXCEPT !.rec = TRUE]
           d == [cam[n] EXCEPT !.rec = FALSE, !.depth = node[n].depth]
<1>0. /\ cam[n] \in Camera /\ node[n].depth \in Values
      /\ node[n].up /\ cam[n].plugged
  BY NodeFacts DEF Node, Record, StopRecording, TypeOK
<1>1. c \in Camera /\ c.plugged = cam[n].plugged /\ c.value = cam[n].value /\ c.sync = cam[n].sync
      /\ c.freq = cam[n].freq /\ c.rec
  BY <1>0 DEF Camera
<1>2. d \in Camera /\ d.plugged = cam[n].plugged /\ d.value = cam[n].value /\ d.sync = cam[n].sync
      /\ d.freq = cam[n].freq /\ ~d.rec /\ d.depth = node[n].depth
  BY <1>0 DEF Camera
<1>3. /\ cam' = [cam EXCEPT ![n] = c] \/ cam' = [cam EXCEPT ![n] = d]
      /\ events' \in Nat /\ (fresh' = fresh \/ fresh' = fresh \ {n})
      /\ UNCHANGED <<row, loc, due, behind, online, node, mail, req, requests, missed>>
  <2>1. CASE Record(n)
    <3>1. cam' = [cam EXCEPT ![n] = c]
      BY <2>1, NodeFacts DEF Record
    <3>2. events' = events + 1 /\ fresh' = fresh
          /\ UNCHANGED <<row, loc, due, behind, online, node, mail, req, requests, missed>>
      BY <2>1 DEF Record, Event
    <3>3. events' \in Nat
      BY <3>2 DEF TypeOK
    <3> QED
      BY <3>1, <3>2, <3>3
  <2>2. CASE StopRecording(n)
    <3>1. cam' = [cam EXCEPT ![n] = d]
      BY <2>2, NodeFacts DEF StopRecording
    <3>2. fresh' = fresh \ {n}
          /\ UNCHANGED <<row, loc, due, behind, online, node, mail, req, requests, events, missed>>
      BY <2>2 DEF StopRecording
    <3>3. events' \in Nat
      BY <3>2 DEF TypeOK
    <3> QED
      BY <3>1, <3>2, <3>3
  <2> QED
    BY <2>1, <2>2
<1> HIDE DEF c, d
<1>4. /\ cam' \in [Nodes -> Camera] /\ (cam'[n] = c \/ cam'[n] = d)
      /\ \A m \in Nodes : m # n => cam'[m] = cam[m]
  BY <1>1, <1>2, <1>3, NodeFacts
<1>5. TypeOK'
  BY <1>0, <1>1, <1>2, <1>3, <1>4 DEF TypeOK
<1> QED
  BY <1>1, <1>2, <1>3, <1>4, <1>5 DEF Moves, NodeMove

-----------------------------------------------------------------------------
(* The steps of requests.                                                  *)

\* A step of request r: the other requests stay as they are.
RequestMove(r) == TypeOK' /\ \A q \in Handlers : q # r => req'[q] = req[q]

\* A change of one request.
LEMMA RequestChange ==
  ASSUME TypeOK, NEW r \in Handlers, NEW rq \in Request, req' = [req EXCEPT ![r] = rq]
  PROVE  /\ req' \in [Handlers -> Request] /\ req'[r] = rq
         /\ \A q \in Handlers : q # r => req'[q] = req[q]
BY RequestFacts

(* A request opens; an answer under way to its nodes is not alone any more. *)
LEMMA OpenEffect ==
  ASSUME TypeOK, NEW r \in Handlers, NEW rq \in Request, Open(r, rq), missed' \subseteq Nodes
  PROVE  /\ RequestMove(r) /\ req[r] = NoReq /\ req'[r] = rq
         /\ UNCHANGED <<row, loc, due, behind, node, cam, fresh>>
         /\ \A n \in Nodes :
              /\ mail'[n].sent = mail[n].sent
              /\ mail'[n].row = mail[n].row /\ mail'[n].loc = mail[n].loc
              /\ mail'[n].alone <=> mail[n].alone /\ ~(mail[n].sent /\ n \in rq.nodes)
<1> DEFINE a(n) == mail[n].alone /\ ~(mail[n].sent /\ n \in rq.nodes)
           m(n) == [mail[n] EXCEPT !.alone = a(n)]
<1>1. /\ req[r] = NoReq /\ requests' = requests + 1 /\ req' = [req EXCEPT ![r] = rq]
      /\ mail' = [n \in Nodes |-> m(n)]
      /\ UNCHANGED <<row, loc, due, behind, node, cam, online, events, fresh>>
  <2>1. \A n \in Nodes : [mail[n] EXCEPT !.alone = @ /\ ~(mail[n].sent /\ n \in rq.nodes)] = m(n)
    BY NodeFacts DEF Mail
  <2> QED
    BY <2>1 DEF Open
<1>2. ASSUME NEW n \in Nodes
      PROVE  /\ m(n) \in Mail /\ m(n).sent = mail[n].sent
             /\ m(n).row = mail[n].row /\ m(n).loc = mail[n].loc
             /\ m(n).alone = a(n)
  <2>1. mail[n] \in Mail /\ a(n) \in BOOLEAN
    BY NodeFacts DEF Mail
  <2> HIDE DEF a
  <2> QED
    BY <2>1 DEF Mail
<1> HIDE DEF m
<1>3. mail' \in [Nodes -> Mail] /\ \A n \in Nodes : mail'[n] = m(n)
  BY <1>1, <1>2
<1>4. req' \in [Handlers -> Request] /\ req'[r] = rq /\ \A q \in Handlers : q # r => req'[q] = req[q]
  BY <1>1, RequestChange
<1>5. requests' \in Nat
  BY <1>1 DEF TypeOK
<1>6. \A n \in Nodes : mail'[n].sent => node'[n].up /\ ~node'[n].mute
  BY <1>1, <1>2, <1>3 DEF TypeOK
<1>7. TypeOK'
  BY <1>1, <1>3, <1>4, <1>5, <1>6 DEF TypeOK
<1> QED
  BY <1>1, <1>2, <1>3, <1>4, <1>7 DEF RequestMove, a

\* The requests as they open.
SetRequest(n, v) == [NoReq EXCEPT !.kind = "set", !.at = "save", !.nodes = {n},
                                  !.row = [row[n] EXCEPT !.value = v]]
ToggleRequest(n) == [NoReq EXCEPT !.kind = "toggle", !.at = "save", !.nodes = {n},
                                  !.row = [row[n] EXCEPT !.sync = ~@]]
ConfigRequest(o) == [NoReq EXCEPT !.kind = "config", !.at = "push", !.nodes = Nodes,
                                  !.left = online, !.loc = o]

\* They are requests, with the fields they are given.
LEMMA NewRequests ==
  ASSUME TypeOK
  PROVE  /\ \A n \in Nodes, v \in Values :
              /\ SetRequest(n, v) \in Request
              /\ SetRequest(n, v).kind = "set" /\ SetRequest(n, v).at = "save"
              /\ SetRequest(n, v).nodes = {n}
              /\ SetRequest(n, v).row.there = row[n].there
              /\ SetRequest(n, v).row.sync = row[n].sync
         /\ \A n \in Nodes :
              /\ ToggleRequest(n) \in Request
              /\ ToggleRequest(n).kind = "toggle" /\ ToggleRequest(n).at = "save"
              /\ ToggleRequest(n).nodes = {n}
              /\ ToggleRequest(n).row.there = row[n].there
              /\ ToggleRequest(n).row.value = row[n].value
         /\ \A o \in Options :
              /\ ConfigRequest(o) \in Request
              /\ ConfigRequest(o).kind = "config" /\ ConfigRequest(o).at = "push"
              /\ ConfigRequest(o).nodes = Nodes /\ ConfigRequest(o).left = online
<1>1. NoReq \in Request /\ online \in SUBSET Nodes
  BY NewRecords DEF TypeOK
<1>2. ASSUME NEW n \in Nodes, NEW v \in Values
      PROVE  /\ SetRequest(n, v) \in Request
             /\ SetRequest(n, v).kind = "set" /\ SetRequest(n, v).at = "save"
             /\ SetRequest(n, v).nodes = {n}
             /\ SetRequest(n, v).row.there = row[n].there
             /\ SetRequest(n, v).row.sync = row[n].sync
  <2> DEFINE w == [row[n] EXCEPT !.value = v]
  <2>1. w \in Row /\ w.there = row[n].there /\ w.sync = row[n].sync
    BY NodeFacts DEF Row
  <2> DEFINE s == {n}
  <2>2. s \in SUBSET Nodes
    OBVIOUS
  <2>3. SetRequest(n, v) = [NoReq EXCEPT !.kind = "set", !.at = "save", !.nodes = s, !.row = w]
    BY DEF SetRequest
  <2>4. s = {n}
    OBVIOUS
  <2> HIDE DEF w, s
  <2>5. /\ SetRequest(n, v) \in Request
        /\ SetRequest(n, v).kind = "set" /\ SetRequest(n, v).at = "save"
        /\ SetRequest(n, v).nodes = s /\ SetRequest(n, v).row = w
    BY <1>1, <2>1, <2>2, <2>3 DEF Request
  <2> QED
    BY <2>1, <2>4, <2>5
<1>3. ASSUME NEW n \in Nodes
      PROVE  /\ ToggleRequest(n) \in Request
             /\ ToggleRequest(n).kind = "toggle" /\ ToggleRequest(n).at = "save"
             /\ ToggleRequest(n).nodes = {n}
             /\ ToggleRequest(n).row.there = row[n].there
             /\ ToggleRequest(n).row.value = row[n].value
  <2> DEFINE w == [row[n] EXCEPT !.sync = ~@]
  <2>1. w \in Row /\ w.there = row[n].there /\ w.value = row[n].value
    BY NodeFacts DEF Row
  <2> DEFINE s == {n}
  <2>2. s \in SUBSET Nodes
    OBVIOUS
  <2>3. ToggleRequest(n) = [NoReq EXCEPT !.kind = "toggle", !.at = "save", !.nodes = s, !.row = w]
    BY DEF ToggleRequest
  <2>4. s = {n}
    OBVIOUS
  <2> HIDE DEF w, s
  <2>5. /\ ToggleRequest(n) \in Request
        /\ ToggleRequest(n).kind = "toggle" /\ ToggleRequest(n).at = "save"
        /\ ToggleRequest(n).nodes = s /\ ToggleRequest(n).row = w
    BY <1>1, <2>1, <2>2, <2>3 DEF Request
  <2> QED
    BY <2>1, <2>4, <2>5
<1>4. ASSUME NEW o \in Options
      PROVE  /\ ConfigRequest(o) \in Request
             /\ ConfigRequest(o).kind = "config" /\ ConfigRequest(o).at = "push"
             /\ ConfigRequest(o).nodes = Nodes /\ ConfigRequest(o).left = online
  BY <1>1 DEF ConfigRequest, Request
<1> QED
  BY <1>2, <1>3, <1>4

\* The requests that are open, as their handlers make them.
RequestOK(q) ==
  /\ q.kind = "none" <=> q.at = ""
  /\ q.at = "" => q = NoReq
  /\ q.at \in {"save", "post"} <=> q.kind \in {"set", "toggle"}
  /\ q.at = "push" <=> q.kind = "config"
  /\ q.at = "hold" <=> q.kind = "row"
  /\ q.at = "push" => q.nodes = Nodes /\ q.left \subseteq Nodes
  /\ q.at = "hold" => q.nodes = {}

RequestsOK == \A r \in Handlers : RequestOK(req[r])

(* The row of a camera is saved.                                           *)
LEMMA SaveCameraEffect ==
  ASSUME TypeOK, NEW r \in Handlers, SaveCamera(r)
  PROVE  /\ RequestMove(r) /\ req[r].at = "save"
         /\ req'[r].at = "post" /\ req'[r].kind = req[r].kind
         /\ req'[r].nodes = req[r].nodes /\ req'[r].left = req[r].left
         /\ req'[r].row = req[r].row /\ req'[r].loc = req[r].loc
         /\ \A n \in Nodes : row'[n] = IF n \in req[r].nodes THEN req[r].row ELSE row[n]
         /\ UNCHANGED <<loc, due, behind, node, cam, mail, missed, fresh>>
<1> DEFINE q == [req[r] EXCEPT !.at = "post"]
<1>1. /\ req[r].at = "save"
      /\ row' = [n \in Nodes |-> IF n \in req[r].nodes THEN req[r].row ELSE row[n]]
      /\ req' = [req EXCEPT ![r] = q]
      /\ UNCHANGED <<loc, due, behind, online, node, cam, mail, requests, events, missed, fresh>>
  BY RequestFacts DEF SaveCamera
<1>2. /\ q \in Request /\ q.at = "post" /\ q.kind = req[r].kind /\ q.nodes = req[r].nodes
      /\ q.left = req[r].left /\ q.row = req[r].row /\ q.loc = req[r].loc
  BY RequestFacts DEF Request
<1> HIDE DEF q
<1>3. req' \in [Handlers -> Request] /\ req'[r] = q /\ \A p \in Handlers : p # r => req'[p] = req[p]
  BY <1>1, <1>2, RequestChange
<1>4. row' \in [Nodes -> Row]
  BY <1>1, RequestFacts, NodeFacts
<1>5. TypeOK'
  BY <1>1, <1>3, <1>4 DEF TypeOK
<1> QED
  BY <1>1, <1>2, <1>3, <1>5 DEF RequestMove

(* The setting is posted to the node, whose camera takes it.               *)
LEMMA PostCameraEffect ==
  ASSUME TypeOK, RequestsOK, NEW r \in Handlers, PostCamera(r)
  PROVE  /\ RequestMove(r) /\ req[r].at = "post" /\ req'[r] = NoReq
         /\ \A n \in Nodes :
              /\ (n \notin req[r].nodes => cam'[n] = cam[n])
              /\ cam'[n].plugged = cam[n].plugged /\ cam'[n].rec = cam[n].rec
              /\ cam'[n].freq = cam[n].freq /\ cam'[n].depth = cam[n].depth
              /\ (n \in req[r].nodes /\ node[n].up /\ cam[n].plugged =>
                   /\ req[r].kind = "set" => /\ cam'[n].value = req[r].row.value
                                             /\ cam'[n].sync = cam[n].sync
                   /\ req[r].kind = "toggle" => /\ cam'[n].sync = req[r].row.sync
                                                /\ cam'[n].value = cam[n].value)
         /\ UNCHANGED <<row, loc, due, behind, node, mail, missed, fresh>>
<1> DEFINE c(n) == IF n \in req[r].nodes /\ node[n].up /\ cam[n].plugged
                   THEN Posted(r, cam[n]) ELSE cam[n]
<1>1. /\ req[r].at = "post" /\ cam' = [n \in Nodes |-> c(n)]
      /\ req' = [req EXCEPT ![r] = NoReq]
      /\ UNCHANGED <<row, loc, due, behind, online, node, mail, requests, events, missed, fresh>>
  BY DEF PostCamera
<1>2. ASSUME NEW n \in Nodes
      PROVE  /\ c(n) \in Camera
             /\ (n \notin req[r].nodes => c(n) = cam[n])
             /\ c(n).plugged = cam[n].plugged /\ c(n).rec = cam[n].rec
             /\ c(n).freq = cam[n].freq /\ c(n).depth = cam[n].depth
             /\ (n \in req[r].nodes /\ node[n].up /\ cam[n].plugged =>
                  /\ req[r].kind = "set" => /\ c(n).value = req[r].row.value
                                            /\ c(n).sync = cam[n].sync
                  /\ req[r].kind = "toggle" => /\ c(n).sync = req[r].row.sync
                                               /\ c(n).value = cam[n].value)
  <2>1. cam[n] \in Camera /\ req[r].row.value \in Values /\ req[r].row.sync \in BOOLEAN
    BY NodeFacts, RequestFacts DEF Row
  <2>2. /\ Posted(r, cam[n]) \in Camera
        /\ Posted(r, cam[n]).plugged = cam[n].plugged /\ Posted(r, cam[n]).rec = cam[n].rec
        /\ Posted(r, cam[n]).freq = cam[n].freq /\ Posted(r, cam[n]).depth = cam[n].depth
        /\ req[r].kind = "set" => /\ Posted(r, cam[n]).value = req[r].row.value
                                  /\ Posted(r, cam[n]).sync = cam[n].sync
        /\ req[r].kind = "toggle" => /\ Posted(r, cam[n]).sync = req[r].row.sync
                                     /\ Posted(r, cam[n]).value = cam[n].value
    BY <2>1 DEF Posted, Camera
  <2> QED
    BY <2>1, <2>2
<1> HIDE DEF c
<1>3. cam' \in [Nodes -> Camera] /\ \A n \in Nodes : cam'[n] = c(n)
  BY <1>1, <1>2
<1>4. req' \in [Handlers -> Request] /\ req'[r] = NoReq /\ \A p \in Handlers : p # r => req'[p] = req[p]
  BY <1>1, RequestChange, NewRecords
<1>5. TypeOK'
  BY <1>1, <1>2, <1>3, <1>4 DEF TypeOK
<1> QED
  BY <1>1, <1>2, <1>3, <1>4, <1>5 DEF RequestMove

(* The post is lost.                                                       *)
LEMMA LosePostEffect ==
  ASSUME TypeOK, NEW r \in Handlers, LosePost(r)
  PROVE  /\ RequestMove(r) /\ req[r].at = "post" /\ req'[r] = NoReq
         /\ missed' = missed \cup req[r].nodes
         /\ UNCHANGED <<row, loc, due, behind, node, cam, mail, fresh>>
<1>1. /\ req[r].at = "post" /\ req' = [req EXCEPT ![r] = NoReq] /\ events' = events + 1
      /\ missed' = missed \cup req[r].nodes
      /\ UNCHANGED <<row, loc, due, behind, online, node, cam, mail, requests, fresh>>
  BY DEF LosePost, Event
<1>2. req' \in [Handlers -> Request] /\ req'[r] = NoReq /\ \A p \in Handlers : p # r => req'[p] = req[p]
  BY <1>1, RequestChange, NewRecords
<1>3. TypeOK'
  BY <1>1, <1>2, RequestFacts DEF TypeOK
<1> QED
  BY <1>1, <1>2, <1>3 DEF RequestMove

\* Request r with n gone from the nodes it still has to tell.
OneLess(r, n) ==
  /\ req[r].at = "push" /\ n \in req[r].left
  /\ req'[r].kind = req[r].kind /\ req'[r].at = req[r].at
  /\ req'[r].nodes = req[r].nodes /\ req'[r].left = req[r].left \ {n}
  /\ req'[r].row = req[r].row /\ req'[r].loc = req[r].loc

(* A request leaves one node behind.                                       *)
LEMMA LeaveOne ==
  ASSUME TypeOK, NEW r \in Handlers, NEW n \in Nodes,
         req[r].at = "push", n \in req[r].left, req' = [req EXCEPT ![r].left = @ \ {n}]
  PROVE  /\ OneLess(r, n) /\ req' \in [Handlers -> Request]
         /\ \A q \in Handlers : q # r => req'[q] = req[q]
<1> DEFINE q == [req[r] EXCEPT !.left = @ \ {n}]
<1>1. req' = [req EXCEPT ![r] = q]
  BY RequestFacts
<1>2. /\ q \in Request /\ q.at = req[r].at /\ q.kind = req[r].kind /\ q.nodes = req[r].nodes
      /\ q.left = req[r].left \ {n} /\ q.row = req[r].row /\ q.loc = req[r].loc
  <2> DEFINE l == req[r].left \ {n}
  <2>1. req[r] \in Request /\ l \in SUBSET Nodes
    BY RequestFacts
  <2>2. q = [req[r] EXCEPT !.left = l]
    BY <2>1 DEF Request
  <2> HIDE DEF q, l
  <2>3. /\ q \in Request /\ q.at = req[r].at /\ q.kind = req[r].kind /\ q.nodes = req[r].nodes
        /\ q.left = l /\ q.row = req[r].row /\ q.loc = req[r].loc
    BY <2>1, <2>2 DEF Request
  <2> QED
    BY <2>3 DEF l
<1> HIDE DEF q
<1> QED
  BY <1>1, <1>2, RequestChange DEF OneLess

(* The options of a location are pushed to a node.                         *)
LEMMA PushEffect ==
  ASSUME TypeOK, NEW r \in Handlers, NEW n \in Nodes, PushOptions(r, n)
  PROVE  /\ RequestMove(r) /\ OneLess(r, n)
         /\ \A m \in Nodes : m # n => node'[m] = node[m] /\ cam'[m] = cam[m]
         /\ \/ node[n].up /\ TakesOptions(n, req[r].loc)
            \/ ~node[n].up /\ UNCHANGED <<node, cam>>
         /\ cam'[n].value = cam[n].value /\ cam'[n].sync = cam[n].sync
         /\ UNCHANGED <<row, loc, due, behind, mail, missed, fresh>>
<1> DEFINE o == req[r].loc
           nd == [node[n] EXCEPT !.depth = o.depth]
           c == [cam[n] EXCEPT !.freq = o.freq, !.depth = DepthOf(n, o)]
<1>1. /\ req[r].at = "push" /\ n \in req[r].left /\ req' = [req EXCEPT ![r].left = @ \ {n}]
      /\ UNCHANGED <<row, loc, due, behind, online, mail, requests, events, missed, fresh>>
  BY DEF PushOptions
<1>2. IF node[n].up THEN node' = [node EXCEPT ![n] = nd] /\ cam' = [cam EXCEPT ![n] = c]
      ELSE UNCHANGED <<node, cam>>
  BY NodeFacts DEF PushOptions, TakeOptions
<1>3. o \in Options /\ node[n] \in Node /\ cam[n] \in Camera
  BY NodeFacts, RequestFacts
<1>4. nd \in Node /\ nd.up = node[n].up /\ nd.asks = node[n].asks /\ nd.depth = o.depth
      /\ nd.mute = node[n].mute
  BY <1>3 DEF Node, Options
<1>5. /\ c \in Camera /\ c.freq = o.freq /\ c.depth = DepthOf(n, o)
      /\ c.plugged = cam[n].plugged /\ c.rec = cam[n].rec
      /\ c.value = cam[n].value /\ c.sync = cam[n].sync
  <2>1. DepthOf(n, o) \in Values /\ o.freq \in Values
    BY <1>3 DEF DepthOf, Options, Camera
  <2> HIDE DEF o
  <2> QED
    BY <1>3, <2>1 DEF Camera
<1>6. OneLess(r, n) /\ req' \in [Handlers -> Request] /\ \A q \in Handlers : q # r => req'[q] = req[q]
  BY <1>1, LeaveOne
<1> HIDE DEF nd, c, o
<1>7. CASE node[n].up
  <2>1. /\ node' \in [Nodes -> Node] /\ node'[n] = nd /\ cam' \in [Nodes -> Camera] /\ cam'[n] = c
        /\ \A m \in Nodes : m # n => cam'[m] = cam[m] /\ node'[m] = node[m]
    BY <1>2, <1>4, <1>5, <1>7, NodeFacts
  <2>2. TypeOK'
    BY <1>1, <1>4, <1>5, <1>6, <2>1 DEF TypeOK
  <2>3. TakesOptions(n, o)
    BY <1>4, <1>5, <2>1 DEF TakesOptions
  <2> QED
    BY <1>1, <1>5, <1>6, <1>7, <2>1, <2>2, <2>3 DEF RequestMove, o
<1>8. CASE ~node[n].up
  <2>1. TypeOK'
    BY <1>1, <1>2, <1>6, <1>8 DEF TypeOK
  <2> QED
    BY <1>1, <1>2, <1>6, <1>8, <2>1 DEF RequestMove
<1> QED
  BY <1>7, <1>8

(* A push is lost.                                                         *)
LEMMA LosePushEffect ==
  ASSUME TypeOK, NEW r \in Handlers, NEW n \in Nodes, LosePush(r, n)
  PROVE  /\ RequestMove(r) /\ OneLess(r, n) /\ missed' = missed \cup {n}
         /\ UNCHANGED <<row, loc, due, behind, node, cam, mail, fresh>>
<1>1. /\ req[r].at = "push" /\ n \in req[r].left /\ req' = [req EXCEPT ![r].left = @ \ {n}]
      /\ events' = events + 1 /\ missed' = missed \cup {n}
      /\ UNCHANGED <<row, loc, due, behind, online, node, cam, mail, requests, fresh>>
  BY DEF LosePush, Event
<1>2. OneLess(r, n) /\ req' \in [Handlers -> Request] /\ \A q \in Handlers : q # r => req'[q] = req[q]
  BY <1>1, LeaveOne
<1>3. TypeOK'
  BY <1>1, <1>2 DEF TypeOK
<1> QED
  BY <1>1, <1>2, <1>3 DEF RequestMove

(* The row of the location is saved by location_config, and every node is  *)
(* due the options it was given.                                           *)
LEMMA SaveConfigEffect ==
  ASSUME TypeOK, NEW r \in Handlers, SaveConfig(r)
  PROVE  /\ RequestMove(r) /\ req[r].at = "push" /\ req[r].left = {}
         /\ loc' = req[r].loc /\ req'[r] = NoReq
         /\ \A n \in Nodes : due'[n] = req[r].loc
         /\ UNCHANGED <<row, node, cam, mail, missed, fresh>>
<1>1. /\ req[r].at = "push" /\ req[r].left = {} /\ loc' = req[r].loc
      /\ due' = [n \in Nodes |-> req[r].loc] /\ behind' = {}
      /\ req' = [req EXCEPT ![r] = NoReq]
      /\ UNCHANGED <<row, online, node, cam, mail, requests, events, missed, fresh>>
  BY DEF SaveConfig
<1>2. req' \in [Handlers -> Request] /\ req'[r] = NoReq /\ \A p \in Handlers : p # r => req'[p] = req[p]
  BY <1>1, RequestChange, NewRecords
<1>3. due' \in [Nodes -> Options] /\ \A n \in Nodes : due'[n] = req[r].loc
  BY <1>1, RequestFacts
<1>4. TypeOK'
  BY <1>1, <1>2, <1>3, RequestFacts DEF TypeOK
<1> QED
  BY <1>1, <1>2, <1>3, <1>4 DEF RequestMove

\* The row of the location as a handler with another business reads it.
RowRequest == [NoReq EXCEPT !.kind = "row", !.at = "hold", !.loc = loc]

(* It is a request that concerns no node.                                  *)
LEMMA NewRowRequest ==
  ASSUME TypeOK
  PROVE  /\ RowRequest \in Request /\ RowRequest.kind = "row" /\ RowRequest.at = "hold"
         /\ RowRequest.nodes = {}
<1>1. NoReq \in Request /\ NoReq.nodes = {} /\ loc \in Options
  BY NewRecords DEF TypeOK, NoReq
<1> QED
  BY <1>1 DEF RowRequest, Request

(* Such a handler saves the row: nodes are left behind if that changes it. *)
LEMMA SaveRowEffect ==
  ASSUME TypeOK, NEW r \in Handlers, SaveRow(r)
  PROVE  /\ RequestMove(r) /\ req[r].at = "hold" /\ req'[r] = NoReq
         /\ \A n \in Nodes : n \notin behind' => n \notin behind /\ loc' = loc
         /\ UNCHANGED <<row, node, cam, mail, missed, fresh, due>>
<1>1. /\ req[r].at = "hold" /\ loc' \in {loc, req[r].loc}
      /\ behind' = IF loc' = loc THEN behind ELSE Nodes
      /\ req' = [req EXCEPT ![r] = NoReq]
      /\ UNCHANGED <<row, online, node, cam, mail, requests, events, missed, fresh, due>>
  BY DEF SaveRow
<1>2. req' \in [Handlers -> Request] /\ req'[r] = NoReq /\ \A p \in Handlers : p # r => req'[p] = req[p]
  BY <1>1, RequestChange, NewRecords
<1>3. loc' \in Options /\ behind' \subseteq Nodes
  BY <1>1, RequestFacts DEF TypeOK
<1>4. TypeOK'
  BY <1>1, <1>2, <1>3 DEF TypeOK
<1> QED
  BY <1>1, <1>2, <1>4 DEF RequestMove

-----------------------------------------------------------------------------
(* The inductive invariant.                                                *)

\* Requests for a node overlap only if the node counts as one that missed a setting.
OneRequest(n) == n \notin missed =>
  \A p, q \in Handlers : n \in req[p].nodes /\ n \in req[q].nodes => p = q

\* An answer under way, with no request beside it, has the rows as they are.
MailCurrent(n) == (mail[n].sent /\ mail[n].alone) =>
  /\ ~Touched(n) /\ mail[n].loc = due[n]
  /\ (~node[n].asks /\ cam[n].plugged) => mail[n].row = row[n] /\ row[n].there

\* A node that has applied its last answer, and missed nothing since.
Told(n) == node[n].up /\ ~node[n].asks /\ ~mail[n].sent /\ cam[n].plugged /\ n \notin missed

AgreeValue(n)   == cam[n].value = row[n].value
AgreeSync(n)    == cam[n].sync = row[n].sync
AgreeOptions(n) == cam[n].freq = due[n].freq /\ node[n].depth = due[n].depth

\* What a node is due is in the row, unless it was put back behind its back.
RowIsDue(n) == n \notin behind => due[n] = loc

\* What a request has done already, to the rows and to the node: a camera's setting
\* is saved and then posted, those of a location are pushed and then saved.
UnderSet(n, q) ==
  /\ AgreeOptions(n) /\ AgreeSync(n)
  /\ q.row.there = row[n].there /\ q.row.sync = row[n].sync
  /\ q.at = "save" => AgreeValue(n)
  /\ q.at = "post" => q.row.value = row[n].value
UnderToggle(n, q) ==
  /\ AgreeOptions(n) /\ AgreeValue(n)
  /\ q.row.there = row[n].there /\ q.row.value = row[n].value
  /\ q.at = "save" => AgreeSync(n)
  /\ q.at = "post" => q.row.sync = row[n].sync
UnderConfig(n, q) ==
  /\ AgreeValue(n) /\ AgreeSync(n)
  /\ n \notin q.left => cam[n].freq = q.loc.freq /\ node[n].depth = q.loc.depth
Under(n, q) ==
  /\ q.kind = "set" => UnderSet(n, q)
  /\ q.kind = "toggle" => UnderToggle(n, q)
  /\ q.kind = "config" => UnderConfig(n, q)

\* A node that was told everything has the settings, but for those of a request.
Agrees(n) == Told(n) =>
  /\ row[n].there
  /\ ~Touched(n) => AgreeValue(n) /\ AgreeSync(n) /\ AgreeOptions(n)
  /\ \A r \in Handlers : n \in req[r].nodes => Under(n, req[r])

\* A camera that does not record has the bit depth of its node.
AtDepth(n) ==
  /\ (n \notin fresh /\ cam[n].plugged /\ ~cam[n].rec) => cam[n].depth = node[n].depth
  /\ ~node[n].up => node[n].depth = 0

NodeInv(n) == OneRequest(n) /\ MailCurrent(n) /\ Agrees(n) /\ AtDepth(n) /\ RowIsDue(n)

IInv == TypeOK /\ RequestsOK /\ \A n \in Nodes : NodeInv(n)

\* For node n, request q is the same after the step.
SameFor(n, q) ==
  /\ n \in req'[q].nodes <=> n \in req[q].nodes
  /\ n \in req[q].nodes =>
       /\ req'[q].kind = req[q].kind /\ req'[q].at = req[q].at
       /\ req'[q].row = req[q].row /\ req'[q].loc = req[q].loc
       /\ n \in req'[q].left <=> n \in req[q].left

\* A step that does not concern node n.
Quiet(n) ==
  /\ due'[n] = due[n] /\ (n \notin behind' => n \notin behind /\ loc' = loc)
  /\ row'[n] = row[n] /\ node'[n] = node[n] /\ cam'[n] = cam[n]
  /\ mail'[n].sent = mail[n].sent /\ (mail'[n].alone => mail[n].alone)
  /\ mail'[n].row = mail[n].row /\ mail'[n].loc = mail[n].loc
  /\ n \in missed => n \in missed'
  /\ n \in fresh' <=> n \in fresh
  /\ \A q \in Handlers : SameFor(n, q)

\* What a request has done to a node stays, in a step that does not concern the node.
LEMMA QuietUnder ==
  ASSUME NEW n \in Nodes, NEW q \in Handlers, Quiet(n), n \in req[q].nodes, Under(n, req[q])
  PROVE  Under(n, req[q])'
<1>1. SameFor(n, q) /\ due'[n] = due[n] /\ row'[n] = row[n] /\ node'[n] = node[n] /\ cam'[n] = cam[n]
  BY DEF Quiet
<1> QED
  BY <1>1 DEF SameFor, Under, UnderSet, UnderToggle, UnderConfig, AgreeValue, AgreeSync, AgreeOptions

(* A step that does not concern a node keeps what the invariant says of it. *)
LEMMA QuietNode ==
  ASSUME NEW n \in Nodes, NodeInv(n), Quiet(n)
  PROVE  NodeInv(n)'
<1>1. /\ due'[n] = due[n] /\ (n \notin behind' => n \notin behind /\ loc' = loc)
      /\ row'[n] = row[n] /\ node'[n] = node[n] /\ cam'[n] = cam[n]
      /\ mail'[n].sent = mail[n].sent /\ (mail'[n].alone => mail[n].alone)
      /\ mail'[n].row = mail[n].row /\ mail'[n].loc = mail[n].loc
      /\ n \in missed => n \in missed'
      /\ n \in fresh' <=> n \in fresh
      /\ \A q \in Handlers : n \in req'[q].nodes <=> n \in req[q].nodes
  BY DEF Quiet, SameFor
<1>2. Touched(n)' <=> Touched(n)
  BY <1>1 DEF Touched
<1>3. OneRequest(n)'
  BY <1>1 DEF NodeInv, OneRequest
<1>4. MailCurrent(n)'
  BY <1>1, <1>2 DEF NodeInv, MailCurrent
<1>5. ASSUME NEW q \in Handlers, Told(n), n \in req'[q].nodes
      PROVE  Under(n, req[q])'
  BY <1>1, <1>5, QuietUnder DEF NodeInv, Agrees
<1>6. Agrees(n)'
  <2>1. Told(n)' => Told(n)
    BY <1>1 DEF Told
  <2> QED
    BY <1>1, <1>2, <1>5, <2>1 DEF NodeInv, Agrees, AgreeValue, AgreeSync, AgreeOptions
<1>7. AtDepth(n)'
  BY <1>1 DEF NodeInv, AtDepth
<1>8. RowIsDue(n)'
  BY <1>1 DEF NodeInv, RowIsDue
<1> QED
  BY <1>3, <1>4, <1>6, <1>7, <1>8 DEF NodeInv

(* Steps of a node: the requests stay, and so does what Touched says.      *)
LEMMA MoveTouched ==
  ASSUME NEW n \in Nodes, req' = req
  PROVE  Touched(n)' <=> Touched(n)
BY DEF Touched

\* A step of a node keeps its agreement with the rows if it keeps the settings, or if
\* the node is not told all of them after it.
LEMMA NodeStepTold ==
  ASSUME NEW n \in Nodes, due' = due, UNCHANGED <<req, row>>, OneRequest(n), Agrees(n),
         ~Told(n)' \/ (/\ Told(n) /\ cam'[n].value = cam[n].value /\ cam'[n].sync = cam[n].sync
                       /\ cam'[n].freq = cam[n].freq /\ node'[n].depth = node[n].depth)
  PROVE  Agrees(n)'
<1>1. Touched(n)' <=> Touched(n)
  BY MoveTouched
<1>2. CASE ~Told(n)'
  BY <1>2 DEF Agrees
<1>3. CASE /\ Told(n) /\ cam'[n].value = cam[n].value /\ cam'[n].sync = cam[n].sync
           /\ cam'[n].freq = cam[n].freq /\ node'[n].depth = node[n].depth
  <2>1. \A r \in Handlers : n \in req'[r].nodes => Under(n, req[r])'
    BY <1>3 DEF Agrees, Under, UnderSet, UnderToggle, UnderConfig, AgreeValue, AgreeSync,
                AgreeOptions
  <2> QED
    BY <1>1, <1>3, <2>1 DEF Agrees, AgreeValue, AgreeSync, AgreeOptions
<1> QED
  BY <1>2, <1>3

(* The node list is read.                                                  *)
LEMMA KeepaliveStep ==
  ASSUME TypeOK, NEW n \in Nodes, Keepalive(n), NodeInv(n)
  PROVE  NodeInv(n)'
<1>1. /\ row'[n] = Found(n) /\ UNCHANGED <<loc, due, behind, req, node, cam, mail, missed, fresh>>
  BY KeepaliveEffect DEF Moves, NodeMove
<1>2. Touched(n)' <=> Touched(n)
  BY <1>1, MoveTouched
<1>3. MailCurrent(n)'
  BY <1>1, <1>2 DEF NodeInv, MailCurrent, Found
<1>4. Agrees(n)'
  <2>1. SUFFICES ASSUME Told(n)' PROVE Agrees(n)'
    BY DEF Agrees
  <2>2. Told(n) /\ cam[n].plugged
    BY <1>1, <2>1 DEF Told
  <2>3. row[n].there
    BY <2>2 DEF NodeInv, Agrees
  <2>4. row'[n] = row[n]
    BY <1>1, <2>2, <2>3 DEF Found
  <2>5. Quiet(n)
    BY <1>1, <2>4 DEF Quiet, SameFor
  <2> QED
    BY <2>5, QuietNode DEF NodeInv
<1> QED
  BY <1>1, <1>3, <1>4 DEF NodeInv, OneRequest, AtDepth, RowIsDue

(* A node asks.                                                            *)
LEMMA AskStep ==
  ASSUME TypeOK, NEW n \in Nodes, Ask(n), NodeInv(n)
  PROVE  NodeInv(n)'
<1>1. /\ row'[n] = Found(n) /\ mail'[n].sent /\ (mail'[n].alone <=> ~Touched(n))
      /\ mail'[n].row = Found(n) /\ mail'[n].loc = loc /\ due'[n] = loc
      /\ node'[n].up = node[n].up /\ node'[n].depth = node[n].depth
      /\ UNCHANGED <<loc, req, cam, missed, fresh>>
  BY AskEffect DEF Moves, NodeMove
<1>2. Touched(n)' <=> Touched(n)
  BY <1>1, MoveTouched
<1>3. MailCurrent(n)'
  <2>1. cam[n].plugged => Found(n).there
    BY DEF Found, DefaultRow
  <2> QED
    BY <1>1, <1>2, <2>1 DEF MailCurrent
<1> QED
  BY <1>1, <1>3 DEF NodeInv, OneRequest, AtDepth, Agrees, Told, RowIsDue

(* A node applies its answer.                                              *)
LEMMA ApplyStep ==
  ASSUME TypeOK, NEW n \in Nodes, Apply(n), NodeInv(n)
  PROVE  NodeInv(n)'
<1>1. /\ mail[n].sent /\ ~mail'[n].sent /\ (n \in missed' <=> ~mail[n].alone)
      /\ TakesOptions(n, mail[n].loc)
      /\ cam'[n].value = (IF mail[n].row.there THEN mail[n].row.value ELSE cam[n].value)
      /\ cam'[n].sync = (IF mail[n].row.there THEN mail[n].row.sync ELSE cam[n].sync)
      /\ UNCHANGED <<loc, due, behind, req, row, fresh>>
  BY ApplyEffect DEF Moves, NodeMove
<1>2. Touched(n)' <=> Touched(n)
  BY <1>1, MoveTouched
<1>3. mail[n].alone => ~Touched(n) /\ mail[n].loc = due[n]
                       /\ (~node[n].asks /\ cam[n].plugged => mail[n].row = row[n] /\ row[n].there)
  BY <1>1 DEF NodeInv, MailCurrent
<1>4. OneRequest(n)'
  BY <1>1, <1>2, <1>3 DEF OneRequest, Touched
<1>5. MailCurrent(n)'
  BY <1>1 DEF MailCurrent
<1>6. Agrees(n)'
  <2>1. SUFFICES ASSUME Told(n)' PROVE Agrees(n)'
    BY DEF Agrees
  <2>2. /\ mail[n].alone /\ ~Touched(n) /\ mail[n].loc = due[n]
        /\ mail[n].row = row[n] /\ row[n].there
    BY <1>1, <1>3, <2>1 DEF Told, TakesOptions
  <2> QED
    BY <1>1, <1>2, <2>2 DEF Agrees, AgreeValue, AgreeSync, AgreeOptions, TakesOptions, Touched
<1>7. AtDepth(n)'
  <2>1. node[n].up
    BY <1>1 DEF TypeOK
  <2> QED
    BY <1>1, <2>1 DEF NodeInv, AtDepth, TakesOptions, DepthOf
<1> QED
  BY <1>1, <1>4, <1>5, <1>6, <1>7 DEF NodeInv, RowIsDue

(* The other steps of a node.                                              *)
LEMMA OtherNodeSteps ==
  ASSUME TypeOK, NEW n \in Nodes, NodeInv(n),
         \/ LoseAnswer(n) \/ Shutdown(n) \/ Startup(n) \/ Lapse(n)
         \/ Unplug(n) \/ Replug(n) \/ Record(n) \/ StopRecording(n)
  PROVE  NodeInv(n)'
<1>1. CASE LoseAnswer(n)
  <2>1. /\ n \in missed' /\ ~mail'[n].sent
        /\ node'[n].up = node[n].up /\ node'[n].depth = node[n].depth
        /\ UNCHANGED <<loc, due, behind, req, cam, fresh>>
    BY <1>1, LoseAnswerEffect DEF Moves, NodeMove
  <2> QED
    BY <2>1 DEF NodeInv, OneRequest, MailCurrent, Agrees, Told, AtDepth,
                     RowIsDue
<1>2. CASE Shutdown(n)
  <2>1. /\ ~mail'[n].sent /\ ~node'[n].up /\ node'[n].depth = 0 /\ cam'[n].depth = 0
        /\ UNCHANGED <<loc, due, behind, req, missed>>
    BY <1>2, ShutdownEffect DEF Moves, NodeMove
  <2> QED
    BY <2>1 DEF NodeInv, OneRequest, MailCurrent, Agrees, Told, AtDepth,
                     RowIsDue
<1>3. CASE Startup(n)
  <2>1. /\ ~node[n].up /\ node'[n].asks /\ node'[n].depth = 0
        /\ UNCHANGED <<loc, due, behind, req, cam, mail, missed, fresh>>
    BY <1>3, StartupEffect DEF Moves, NodeMove
  <2>2. ~mail[n].sent
    BY <2>1 DEF TypeOK
  <2> QED
    BY <2>1, <2>2 DEF NodeInv, OneRequest, MailCurrent, Agrees, Told, AtDepth,
                     RowIsDue
<1>4. CASE Lapse(n)
  <2>1. Quiet(n)
    BY <1>4, LapseEffect DEF Moves, NodeMove, Quiet, SameFor
  <2> QED
    BY <2>1, QuietNode
<1>5. CASE Unplug(n)
  <2>1. /\ ~cam'[n].plugged /\ UNCHANGED <<loc, due, behind, req, row, node, mail, missed>>
    BY <1>5, UnplugEffect DEF Moves, NodeMove
  <2>2. Touched(n)' <=> Touched(n)
    BY <2>1, MoveTouched
  <2> QED
    BY <2>1, <2>2 DEF NodeInv, OneRequest, MailCurrent, Agrees, Told, AtDepth,
                     RowIsDue
<1>6. CASE Replug(n)
  <2>1. /\ n \in fresh' /\ node'[n].asks /\ node'[n].up
        /\ UNCHANGED <<loc, due, behind, req, row, mail, missed>>
    BY <1>6, ReplugEffect DEF Moves, NodeMove
  <2>2. Touched(n)' <=> Touched(n)
    BY <2>1, MoveTouched
  <2> QED
    BY <2>1, <2>2 DEF NodeInv, OneRequest, MailCurrent, Agrees, Told, AtDepth,
                     RowIsDue
<1>7. CASE Record(n) \/ StopRecording(n)
  <2>1. /\ cam'[n].plugged = cam[n].plugged
        /\ cam'[n].value = cam[n].value /\ cam'[n].sync = cam[n].sync
        /\ cam'[n].freq = cam[n].freq
        /\ cam'[n].rec \/ cam'[n].depth = node[n].depth
        /\ UNCHANGED <<loc, due, behind, req, row, node, mail, missed>>
    BY <1>7, RecordEffect DEF Moves, NodeMove
  <2>2. Touched(n)' <=> Touched(n)
    BY <2>1, MoveTouched
  <2>3. Told(n)' => Told(n)
    BY <2>1 DEF Told
  <2>4. Agrees(n)'
    BY <2>1, <2>3, NodeStepTold DEF NodeInv
  <2> QED
    BY <2>1, <2>2, <2>4 DEF NodeInv, OneRequest, MailCurrent, AtDepth, RowIsDue
<1> QED
  BY <1>1, <1>2, <1>3, <1>4, <1>5, <1>6, <1>7

(* Every step of a node keeps the types, and concerns no other node.       *)
LEMMA LiveMoves ==
  ASSUME TypeOK, NEW n \in Nodes, Live(n)
  PROVE  Moves(n)
BY KeepaliveEffect, AskEffect, ApplyEffect, LoseAnswerEffect, ShutdownEffect, StartupEffect,
   LapseEffect, UnplugEffect, ReplugEffect, RecordEffect DEF Live

(* A step of a node keeps the invariant.                                   *)
LEMMA LiveStep ==
  ASSUME IInv, NEW n \in Nodes, Live(n)
  PROVE  IInv'
<1>1. TypeOK /\ NodeInv(n) /\ Moves(n)
  BY LiveMoves DEF IInv
<1>2. NodeInv(n)'
  BY <1>1, KeepaliveStep, AskStep, ApplyStep, OtherNodeSteps DEF Live
<1>3. ASSUME NEW m \in Nodes, m # n
      PROVE  NodeInv(m)'
  <2>1. Quiet(m)
    BY <1>1, <1>3 DEF Moves, NodeMove, Quiet, SameFor
  <2> QED
    BY <2>1, QuietNode DEF IInv
<1>4. RequestsOK'
  BY <1>1 DEF IInv, RequestsOK, Moves, NodeMove
<1> QED
  BY <1>1, <1>2, <1>3, <1>4 DEF IInv, Moves

(* A request leaves the nodes alone that it does not name.                 *)
LEMMA QuietRequest ==
  ASSUME NEW r \in Handlers, NEW m \in Nodes, RequestMove(r), NodeInv(m),
         m \notin req[r].nodes, m \notin req'[r].nodes,
         row'[m] = row[m], node'[m] = node[m], cam'[m] = cam[m],
         mail'[m].sent = mail[m].sent, mail'[m].alone => mail[m].alone,
         mail'[m].row = mail[m].row, mail'[m].loc = mail[m].loc,
         due'[m] = due[m], m \notin behind' => m \notin behind /\ loc' = loc,
         m \in missed => m \in missed', m \in fresh' <=> m \in fresh
  PROVE  NodeInv(m)'
<1>1. \A q \in Handlers : SameFor(m, q)
  BY DEF SameFor, RequestMove
<1>2. Quiet(m)
  BY <1>1 DEF Quiet
<1> QED
  BY <1>2, QuietNode

(* A node that misses a setting is left with little to keep.               *)
LEMMA MissedNode ==
  ASSUME NEW n \in Nodes, n \in missed', MailCurrent(n), Touched(n), mail' = mail,
         cam' = cam, node' = node, fresh' = fresh, AtDepth(n), RowIsDue(n),
         UNCHANGED <<loc, due, behind>>
  PROVE  NodeInv(n)'
<1>1. ~(mail'[n].sent /\ mail'[n].alone)
  BY DEF MailCurrent
<1>2. MailCurrent(n)'
  BY <1>1 DEF MailCurrent
<1> QED
  BY <1>2 DEF NodeInv, OneRequest, Agrees, Told, AtDepth, RowIsDue

(* When a request opens for a node that missed nothing, it is the only one *)
(* for it, and the node has the settings of the rows as they are.          *)
LEMMA OpenStep ==
  ASSUME IInv, NEW r \in Handlers, NEW rq \in Request, Open(r, rq), missed' \subseteq Nodes,
         RequestOK(rq), missed \subseteq missed',
         \A n \in rq.nodes : Touched(n) => n \in missed',
         \A n \in rq.nodes : /\ rq.kind \in {"set", "toggle"} =>
                                  /\ rq.at = "save"
                                  /\ rq.row.there = row[n].there
                                  /\ rq.kind = "set" => rq.row.sync = row[n].sync
                                  /\ rq.kind = "toggle" => rq.row.value = row[n].value
                             /\ rq.kind = "config" => n \in rq.left \/ n \in missed'
  PROVE  IInv'
<1>1. /\ RequestMove(r) /\ req[r] = NoReq /\ req'[r] = rq
      /\ UNCHANGED <<row, loc, due, behind, node, cam, fresh>>
      /\ \A n \in Nodes :
           /\ mail'[n].sent = mail[n].sent
           /\ mail'[n].row = mail[n].row /\ mail'[n].loc = mail[n].loc
           /\ mail'[n].alone <=> mail[n].alone /\ ~(mail[n].sent /\ n \in rq.nodes)
  BY OpenEffect DEF IInv
<1>2. NoReq.nodes = {} /\ rq.nodes \subseteq Nodes
  BY DEF NoReq, Request
<1>3. RequestsOK'
  BY <1>1 DEF IInv, RequestsOK, RequestMove
<1>4. ASSUME NEW n \in rq.nodes
      PROVE  NodeInv(n)'
  <2>0. n \in Nodes /\ NodeInv(n) /\ \A q \in Handlers : q # r => req'[q] = req[q]
    BY <1>1, <1>2, <1>4 DEF IInv, RequestMove
  <2>1. OneRequest(n)'
    <3>1. SUFFICES ASSUME n \notin missed' PROVE OneRequest(n)'
      BY DEF OneRequest
    <3>2. ~Touched(n)
      BY <1>4, <3>1
    <3>3. \A q \in Handlers : q # r => n \notin req'[q].nodes
      BY <2>0, <3>2 DEF Touched
    <3> QED
      BY <3>3 DEF OneRequest
  <2>2. MailCurrent(n)'
    BY <1>1, <1>4, <2>0 DEF MailCurrent
  <2>3. Agrees(n)'
    <3>1. SUFFICES ASSUME Told(n)' PROVE Agrees(n)'
      BY DEF Agrees
    <3>2. n \notin missed' /\ Told(n) /\ ~Touched(n)
      BY <1>1, <1>4, <2>0, <3>1 DEF Told
    <3>3. row[n].there /\ AgreeValue(n) /\ AgreeSync(n) /\ AgreeOptions(n)
      BY <2>0, <3>2 DEF NodeInv, Agrees
    <3>4. AgreeValue(n)' /\ AgreeSync(n)' /\ AgreeOptions(n)' /\ row'[n].there
      BY <1>1, <3>3 DEF AgreeValue, AgreeSync, AgreeOptions
    <3>5. /\ rq.kind \in {"set", "toggle"} =>
               /\ rq.at = "save"
               /\ rq.row.there = row[n].there
               /\ rq.kind = "set" => rq.row.sync = row[n].sync
               /\ rq.kind = "toggle" => rq.row.value = row[n].value
          /\ rq.kind = "config" => n \in rq.left
      BY <1>4, <3>2
    <3>6. Under(n, req[r])'
      BY <1>1, <3>4, <3>5 DEF Under, UnderSet, UnderToggle, UnderConfig
    <3>7. \A q \in Handlers : n \in req'[q].nodes => q = r
      BY <2>0, <3>2 DEF Touched
    <3> QED
      BY <1>1, <1>4, <3>4, <3>6, <3>7 DEF Agrees, Touched
  <2>4. AtDepth(n)' /\ RowIsDue(n)'
    BY <1>1, <2>0 DEF NodeInv, AtDepth, RowIsDue
  <2> QED
    BY <2>1, <2>2, <2>3, <2>4 DEF NodeInv
<1>5. ASSUME NEW n \in Nodes, n \notin rq.nodes
      PROVE  NodeInv(n)'
  <2>1. NodeInv(n) /\ n \notin req[r].nodes /\ n \notin req'[r].nodes
    BY <1>1, <1>2, <1>5 DEF IInv
  <2> QED
    BY <1>1, <1>5, <2>1, QuietRequest
<1> QED
  BY <1>1, <1>3, <1>4, <1>5 DEF IInv, RequestMove

(* Each of the four requests opens so.                                     *)
LEMMA OpenSteps ==
  ASSUME IInv, NEW r \in Handlers,
         \/ \E n \in Nodes : OpenToggle(r, n) \/ \E v \in Values : OpenSet(r, n, v)
         \/ \E o \in Options : OpenConfig(r, o)
         \/ OpenRow(r)
  PROVE  IInv'
<1>0. TypeOK
  BY DEF IInv
<1>1. CASE \E n \in Nodes, v \in Values : OpenSet(r, n, v)
  <2>1. PICK n \in Nodes, v \in Values : OpenSet(r, n, v)
    BY <1>1
  <2> DEFINE rq == SetRequest(n, v)
  <2>2. Open(r, rq) /\ missed' = IF Touched(n) THEN missed \cup {n} ELSE missed
    BY <2>1 DEF OpenSet, SetRequest
  <2>3. /\ rq \in Request /\ rq.kind = "set" /\ rq.at = "save" /\ rq.nodes = {n}
        /\ rq.row.there = row[n].there /\ rq.row.sync = row[n].sync
    BY <1>0, NewRequests
  <2> HIDE DEF rq
  <2>4. RequestOK(rq)
    BY <2>3 DEF RequestOK
  <2>5. missed' \subseteq Nodes /\ missed \subseteq missed'
    BY <1>0, <2>2 DEF TypeOK
  <2> QED
    BY <2>2, <2>3, <2>4, <2>5, OpenStep
<1>2. CASE \E n \in Nodes : OpenToggle(r, n)
  <2>1. PICK n \in Nodes : OpenToggle(r, n)
    BY <1>2
  <2> DEFINE rq == ToggleRequest(n)
  <2>2. Open(r, rq) /\ missed' = IF Touched(n) THEN missed \cup {n} ELSE missed
    BY <2>1 DEF OpenToggle, ToggleRequest
  <2>3. /\ rq \in Request /\ rq.kind = "toggle" /\ rq.at = "save" /\ rq.nodes = {n}
        /\ rq.row.there = row[n].there /\ rq.row.value = row[n].value
    BY <1>0, NewRequests
  <2> HIDE DEF rq
  <2>4. RequestOK(rq)
    BY <2>3 DEF RequestOK
  <2>5. missed' \subseteq Nodes /\ missed \subseteq missed'
    BY <1>0, <2>2 DEF TypeOK
  <2> QED
    BY <2>2, <2>3, <2>4, <2>5, OpenStep
<1>3. CASE \E o \in Options : OpenConfig(r, o)
  <2>1. PICK o \in Options : OpenConfig(r, o)
    BY <1>3
  <2> DEFINE rq == ConfigRequest(o)
  <2>2. /\ Open(r, rq)
        /\ missed' = missed \cup (Nodes \ online) \cup {n \in Nodes : Touched(n)}
    BY <2>1 DEF OpenConfig, ConfigRequest
  <2>3. /\ rq \in Request /\ rq.kind = "config" /\ rq.at = "push" /\ rq.nodes = Nodes
        /\ rq.left = online /\ online \subseteq Nodes
    BY <1>0, NewRequests DEF TypeOK
  <2> HIDE DEF rq
  <2>4. RequestOK(rq)
    BY <2>3 DEF RequestOK
  <2>5. missed' \subseteq Nodes /\ missed \subseteq missed'
    BY <1>0, <2>2 DEF TypeOK
  <2>6. \A n \in rq.nodes : (Touched(n) => n \in missed') /\ (n \in rq.left \/ n \in missed')
    BY <2>2, <2>3
  <2> QED
    BY <2>2, <2>3, <2>4, <2>5, <2>6, OpenStep
<1>4. CASE OpenRow(r)
  <2>1. Open(r, RowRequest) /\ missed' = missed
    BY <1>4 DEF OpenRow, RowRequest
  <2>2. /\ RowRequest \in Request /\ RowRequest.kind = "row" /\ RowRequest.at = "hold"
        /\ RowRequest.nodes = {}
    BY <1>0, NewRowRequest
  <2>3. RequestOK(RowRequest) /\ missed \subseteq Nodes
    BY <1>0, <2>2 DEF RequestOK, TypeOK
  <2> QED
    BY <2>1, <2>2, <2>3, OpenStep
<1> QED
  BY <1>1, <1>2, <1>3, <1>4

(* What the invariant says of a node of an open request.                   *)
LEMMA OwnRequest ==
  ASSUME IInv, NEW r \in Handlers, NEW n \in req[r].nodes
  PROVE  /\ n \in Nodes /\ NodeInv(n) /\ Touched(n) /\ RequestOK(req[r])
         /\ ~(mail[n].sent /\ mail[n].alone)
         /\ Told(n) => row[n].there /\ Under(n, req[r])
         /\ n \notin missed => \A q \in Handlers : q # r => n \notin req[q].nodes
<1>1. n \in Nodes /\ NodeInv(n) /\ RequestOK(req[r])
  BY RequestFacts DEF IInv, RequestsOK
<1>2. Touched(n)
  BY DEF Touched
<1> QED
  BY <1>1, <1>2 DEF NodeInv, MailCurrent, Agrees, OneRequest

\* A handler without a request.
LEMMA NoReqOK == RequestOK(NoReq) /\ NoReq.nodes = {}
BY DEF RequestOK, NoReq

\* The last request for a node ends.
LEMMA EndRequest ==
  ASSUME IInv, NEW r \in Handlers, NEW n \in req[r].nodes, RequestMove(r), req'[r] = NoReq,
         mail' = mail, missed' = missed, AtDepth(n)', RowIsDue(n)', node' = node,
         cam'[n].plugged = cam[n].plugged,
         Told(n) => /\ row'[n].there
                    /\ AgreeValue(n)' /\ AgreeSync(n)' /\ AgreeOptions(n)'
  PROVE  NodeInv(n)'
<1>1. /\ n \in Nodes /\ NodeInv(n) /\ ~(mail[n].sent /\ mail[n].alone)
      /\ n \notin missed => \A q \in Handlers : q # r => n \notin req[q].nodes
  BY OwnRequest
<1>2. n \notin missed => \A q \in Handlers : n \notin req'[q].nodes
  <2>1. n \notin req'[r].nodes
    BY NoReqOK
  <2>2. \A q \in Handlers : q # r => req'[q] = req[q]
    BY DEF RequestMove
  <2> QED
    BY <1>1, <2>1, <2>2
<1>3. OneRequest(n)'
  BY <1>2 DEF OneRequest
<1>4. MailCurrent(n)'
  BY <1>1 DEF MailCurrent
<1>5. Told(n)' => Told(n) /\ n \notin missed
  BY DEF Told
<1>6. Agrees(n)'
  BY <1>2, <1>5 DEF Agrees
<1> QED
  BY <1>3, <1>4, <1>6 DEF NodeInv

\* The other requests stay as their handlers made them.
LEMMA EndedOK ==
  ASSUME RequestsOK, NEW r \in Handlers, RequestMove(r), RequestOK(req'[r])
  PROVE  RequestsOK'
BY DEF RequestsOK, RequestMove

(* The row of a camera is saved.                                           *)
LEMMA SaveCameraStep ==
  ASSUME IInv, NEW r \in Handlers, SaveCamera(r)
  PROVE  IInv'
<1>1. /\ RequestMove(r) /\ req[r].at = "save"
      /\ req'[r].at = "post" /\ req'[r].kind = req[r].kind
      /\ req'[r].nodes = req[r].nodes /\ req'[r].row = req[r].row
      /\ \A n \in Nodes : row'[n] = IF n \in req[r].nodes THEN req[r].row ELSE row[n]
      /\ UNCHANGED <<loc, due, behind, node, cam, mail, missed, fresh>>
  BY SaveCameraEffect DEF IInv
<1>2. RequestOK(req[r]) /\ RequestsOK
  BY DEF IInv, RequestsOK
<1>3. req[r].kind \in {"set", "toggle"}
  BY <1>1, <1>2 DEF RequestOK
<1>4. RequestsOK'
  <2>1. RequestOK(req'[r])
    BY <1>1, <1>3 DEF RequestOK
  <2> QED
    BY <1>1, <1>2, <2>1, EndedOK
<1>5. ASSUME NEW n \in req[r].nodes
      PROVE  NodeInv(n)'
  <2>1. /\ n \in Nodes /\ NodeInv(n) /\ ~(mail[n].sent /\ mail[n].alone)
        /\ Told(n) => row[n].there /\ Under(n, req[r])
        /\ n \notin missed => \A q \in Handlers : q # r => n \notin req[q].nodes
    BY OwnRequest
  <2>2. row'[n] = req[r].row
    BY <1>1, <1>5, <2>1
  <2>3. OneRequest(n)'
    BY <1>1, <2>1 DEF NodeInv, OneRequest, RequestMove
  <2>4. MailCurrent(n)'
    BY <1>1, <2>1 DEF MailCurrent
  <2>5. Agrees(n)'
    <3>1. SUFFICES ASSUME Told(n)' PROVE Agrees(n)'
      BY DEF Agrees
    <3>2. n \notin missed /\ Told(n)
      BY <1>1, <3>1 DEF Told
    <3>3. row[n].there /\ Under(n, req[r])
      BY <2>1, <3>2
    <3>4. row'[n].there /\ Under(n, req[r])'
      BY <1>1, <1>3, <2>2, <3>3 DEF Under, UnderSet, UnderToggle, AgreeValue, AgreeSync,
                                    AgreeOptions
    <3>5. \A q \in Handlers : n \in req'[q].nodes => q = r
      BY <1>1, <2>1, <3>2 DEF RequestMove
    <3>6. Touched(n)'
      BY <1>1, <1>5 DEF Touched
    <3> QED
      BY <3>4, <3>5, <3>6 DEF Agrees
  <2>6. AtDepth(n)' /\ RowIsDue(n)'
    BY <1>1, <2>1 DEF NodeInv, AtDepth, RowIsDue
  <2> QED
    BY <2>3, <2>4, <2>5, <2>6 DEF NodeInv
<1>6. ASSUME NEW n \in Nodes, n \notin req[r].nodes
      PROVE  NodeInv(n)'
  <2>1. NodeInv(n) /\ n \notin req'[r].nodes /\ row'[n] = row[n]
    BY <1>1, <1>6 DEF IInv
  <2> QED
    BY <1>1, <1>6, <2>1, QuietRequest
<1> QED
  BY <1>1, <1>4, <1>5, <1>6 DEF IInv, RequestMove

(* The setting is posted.                                                  *)
LEMMA PostCameraStep ==
  ASSUME IInv, NEW r \in Handlers, PostCamera(r)
  PROVE  IInv'
<1>1. /\ RequestMove(r) /\ req[r].at = "post" /\ req'[r] = NoReq
      /\ \A n \in Nodes :
           /\ (n \notin req[r].nodes => cam'[n] = cam[n])
           /\ cam'[n].plugged = cam[n].plugged /\ cam'[n].rec = cam[n].rec
           /\ cam'[n].freq = cam[n].freq /\ cam'[n].depth = cam[n].depth
           /\ (n \in req[r].nodes /\ node[n].up /\ cam[n].plugged =>
                /\ req[r].kind = "set" => /\ cam'[n].value = req[r].row.value
                                          /\ cam'[n].sync = cam[n].sync
                /\ req[r].kind = "toggle" => /\ cam'[n].sync = req[r].row.sync
                                             /\ cam'[n].value = cam[n].value)
      /\ UNCHANGED <<row, loc, due, behind, node, mail, missed, fresh>>
  BY PostCameraEffect DEF IInv
<1>2. RequestsOK /\ req[r].kind \in {"set", "toggle"}
  BY <1>1 DEF IInv, RequestsOK, RequestOK
<1>3. RequestsOK'
  BY <1>1, <1>2, EndedOK, NoReqOK
<1>4. ASSUME NEW n \in req[r].nodes
      PROVE  NodeInv(n)'
  <2>1. n \in Nodes /\ NodeInv(n) /\ (Told(n) => row[n].there /\ Under(n, req[r]))
    BY OwnRequest
  <2>2. AtDepth(n)' /\ RowIsDue(n)'
    BY <1>1, <2>1 DEF NodeInv, AtDepth, RowIsDue
  <2>3. Told(n) => row'[n].there /\ AgreeValue(n)' /\ AgreeSync(n)' /\ AgreeOptions(n)'
    <3>1. SUFFICES ASSUME Told(n)
                   PROVE  row'[n].there /\ AgreeValue(n)' /\ AgreeSync(n)' /\ AgreeOptions(n)'
      OBVIOUS
    <3>2. row[n].there /\ Under(n, req[r]) /\ node[n].up /\ cam[n].plugged
      BY <2>1, <3>1 DEF Told
    <3>3. CASE req[r].kind = "set"
      <4>1. /\ cam'[n].value = req[r].row.value /\ cam'[n].sync = cam[n].sync
            /\ cam'[n].freq = cam[n].freq
        BY <1>1, <1>4, <2>1, <3>2, <3>3
      <4> QED
        BY <1>1, <3>2, <3>3, <4>1 DEF Under, UnderSet, AgreeValue, AgreeSync, AgreeOptions
    <3>4. CASE req[r].kind = "toggle"
      <4>1. /\ cam'[n].sync = req[r].row.sync /\ cam'[n].value = cam[n].value
            /\ cam'[n].freq = cam[n].freq
        BY <1>1, <1>4, <2>1, <3>2, <3>4
      <4> QED
        BY <1>1, <3>2, <3>4, <4>1 DEF Under, UnderToggle, AgreeValue, AgreeSync, AgreeOptions
    <3> QED
      BY <1>2, <3>3, <3>4
  <2> QED
    BY <1>1, <2>1, <2>2, <2>3, EndRequest
<1>5. ASSUME NEW n \in Nodes, n \notin req[r].nodes
      PROVE  NodeInv(n)'
  <2>1. NodeInv(n) /\ n \notin req'[r].nodes /\ cam'[n] = cam[n]
    BY <1>1, <1>5, NoReqOK DEF IInv
  <2> QED
    BY <1>1, <1>5, <2>1, QuietRequest
<1> QED
  BY <1>1, <1>3, <1>4, <1>5 DEF IInv, RequestMove

(* The post is lost.                                                       *)
LEMMA LosePostStep ==
  ASSUME IInv, NEW r \in Handlers, LosePost(r)
  PROVE  IInv'
<1>1. /\ RequestMove(r) /\ req'[r] = NoReq /\ missed' = missed \cup req[r].nodes
      /\ UNCHANGED <<row, loc, due, behind, node, cam, mail, fresh>>
  BY LosePostEffect DEF IInv
<1>2. RequestsOK'
  BY <1>1, EndedOK, NoReqOK DEF IInv
<1>3. ASSUME NEW n \in req[r].nodes
      PROVE  NodeInv(n)'
  <2>1. n \in Nodes /\ NodeInv(n) /\ Touched(n)
    BY OwnRequest
  <2> QED
    BY <1>1, <1>3, <2>1, MissedNode DEF NodeInv
<1>4. ASSUME NEW n \in Nodes, n \notin req[r].nodes
      PROVE  NodeInv(n)'
  <2>1. NodeInv(n) /\ n \notin req'[r].nodes
    BY <1>1, NoReqOK DEF IInv
  <2> QED
    BY <1>1, <1>4, <2>1, QuietRequest
<1> QED
  BY <1>1, <1>2, <1>3, <1>4 DEF IInv, RequestMove

\* The step of one node of a location's request, for the others.
LEMMA OthersOfPush ==
  ASSUME IInv, NEW r \in Handlers, NEW n \in Nodes, RequestMove(r), OneLess(r, n),
         NEW m \in Nodes, m # n, UNCHANGED <<loc, due, behind>>, row' = row, mail' = mail, fresh' = fresh,
         node'[m] = node[m], cam'[m] = cam[m], m \in missed => m \in missed'
  PROVE  NodeInv(m)'
<1>1. SameFor(m, r)
  BY DEF SameFor, OneLess
<1>2. \A q \in Handlers : SameFor(m, q)
  BY <1>1 DEF SameFor, RequestMove
<1>3. Quiet(m)
  BY <1>2 DEF Quiet
<1> QED
  BY <1>3, QuietNode DEF IInv

\* Only the request of a location has nodes left to tell.
LEMMA PushOK ==
  ASSUME IInv, NEW r \in Handlers, NEW n \in Nodes, RequestMove(r), OneLess(r, n)
  PROVE  /\ RequestsOK' /\ req[r].kind = "config" /\ req[r].nodes = Nodes
         /\ n \in req[r].nodes
<1>1. RequestsOK /\ RequestOK(req[r]) /\ req[r] \in Request
  BY RequestFacts DEF IInv, RequestsOK
<1>2. req[r].at = "push" /\ req[r].kind = "config" /\ req[r].nodes = Nodes
  BY <1>1 DEF RequestOK, OneLess, Request
<1>3. RequestOK(req'[r])
  BY <1>1, <1>2 DEF RequestOK, OneLess
<1> QED
  BY <1>1, <1>2, <1>3, EndedOK

(* The options are pushed to a node.                                       *)
LEMMA PushStep ==
  ASSUME IInv, NEW r \in Handlers, NEW n \in Nodes, PushOptions(r, n)
  PROVE  IInv'
<1>1. /\ RequestMove(r) /\ OneLess(r, n)
      /\ \A m \in Nodes : m # n => node'[m] = node[m] /\ cam'[m] = cam[m]
      /\ \/ node[n].up /\ TakesOptions(n, req[r].loc)
         \/ ~node[n].up /\ UNCHANGED <<node, cam>>
      /\ cam'[n].value = cam[n].value /\ cam'[n].sync = cam[n].sync
      /\ UNCHANGED <<row, loc, due, behind, mail, missed, fresh>>
  BY PushEffect DEF IInv
<1>2. RequestsOK' /\ req[r].kind = "config" /\ n \in req[r].nodes
  BY <1>1, PushOK
<1>3. /\ NodeInv(n) /\ ~(mail[n].sent /\ mail[n].alone)
      /\ Told(n) => row[n].there /\ Under(n, req[r])
      /\ n \notin missed => \A q \in Handlers : q # r => n \notin req[q].nodes
  BY <1>2, OwnRequest
<1>4. OneRequest(n)'
  BY <1>1, <1>3 DEF OneRequest, RequestMove
<1>5. MailCurrent(n)'
  BY <1>1, <1>3 DEF MailCurrent
<1>6. Agrees(n)'
  <2>1. SUFFICES ASSUME Told(n)' PROVE Agrees(n)'
    BY DEF Agrees
  <2>2. Told(n) /\ n \notin missed /\ node[n].up
    BY <1>1, <2>1 DEF Told, TakesOptions
  <2>3. /\ AgreeValue(n) /\ AgreeSync(n) /\ row[n].there
    BY <1>2, <1>3, <2>2 DEF Under, UnderConfig
  <2>4. cam'[n].freq = req[r].loc.freq /\ node'[n].depth = req[r].loc.depth
    BY <1>1, <2>2 DEF TakesOptions
  <2>5. req'[r].kind = "config" /\ req'[r].loc = req[r].loc /\ n \in req'[r].nodes
    BY <1>1, <1>2 DEF OneLess
  <2>6. Under(n, req[r])'
    BY <1>1, <2>3, <2>4, <2>5 DEF Under, UnderConfig, AgreeValue, AgreeSync
  <2>7. \A q \in Handlers : n \in req'[q].nodes => q = r
    BY <1>1, <1>3, <2>2 DEF RequestMove
  <2>8. Touched(n)'
    BY <2>5 DEF Touched
  <2> QED
    BY <1>1, <2>3, <2>6, <2>7, <2>8 DEF Agrees
<1>7. AtDepth(n)' /\ RowIsDue(n)'
  BY <1>1, <1>3 DEF NodeInv, AtDepth, RowIsDue, TakesOptions, DepthOf
<1>8. ASSUME NEW m \in Nodes, m # n
      PROVE  NodeInv(m)'
  BY <1>1, <1>8, OthersOfPush
<1> QED
  BY <1>1, <1>2, <1>4, <1>5, <1>6, <1>7, <1>8 DEF IInv, RequestMove, NodeInv

(* A push is lost.                                                         *)
LEMMA LosePushStep ==
  ASSUME IInv, NEW r \in Handlers, NEW n \in Nodes, LosePush(r, n)
  PROVE  IInv'
<1>1. /\ RequestMove(r) /\ OneLess(r, n) /\ missed' = missed \cup {n}
      /\ UNCHANGED <<row, loc, due, behind, node, cam, mail, fresh>>
  BY LosePushEffect DEF IInv
<1>2. RequestsOK' /\ n \in req[r].nodes
  BY <1>1, PushOK
<1>3. NodeInv(n) /\ Touched(n)
  BY <1>2, OwnRequest
<1>4. NodeInv(n)'
  BY <1>1, <1>3, MissedNode DEF NodeInv
<1>5. ASSUME NEW m \in Nodes, m # n
      PROVE  NodeInv(m)'
  BY <1>1, <1>5, OthersOfPush
<1> QED
  BY <1>1, <1>2, <1>4, <1>5 DEF IInv, RequestMove

(* The row of the location is saved: every node has been told, or missed it. *)
LEMMA SaveConfigStep ==
  ASSUME IInv, NEW r \in Handlers, SaveConfig(r)
  PROVE  IInv'
<1>1. /\ RequestMove(r) /\ req[r].at = "push" /\ req[r].left = {}
      /\ loc' = req[r].loc /\ req'[r] = NoReq
      /\ \A n \in Nodes : due'[n] = req[r].loc
      /\ UNCHANGED <<row, node, cam, mail, missed, fresh>>
  BY SaveConfigEffect DEF IInv
<1>2. RequestsOK' /\ RequestOK(req[r]) /\ req[r] \in Request
  BY <1>1, EndedOK, NoReqOK, RequestFacts DEF IInv, RequestsOK
<1>3. req[r].kind = "config" /\ req[r].nodes = Nodes
  BY <1>1, <1>2 DEF RequestOK, Request
<1>4. ASSUME NEW n \in Nodes
      PROVE  NodeInv(n)'
  <2>1. NodeInv(n) /\ (Told(n) => row[n].there /\ Under(n, req[r]))
    BY <1>3, OwnRequest
  <2>2. AtDepth(n)' /\ RowIsDue(n)'
    BY <1>1, <2>1 DEF NodeInv, AtDepth, RowIsDue
  <2>3. Told(n) => row'[n].there /\ AgreeValue(n)' /\ AgreeSync(n)' /\ AgreeOptions(n)'
    BY <1>1, <1>3, <2>1 DEF Under, UnderConfig, AgreeValue, AgreeSync, AgreeOptions
  <2> QED
    BY <1>1, <1>3, <2>2, <2>3, EndRequest
<1> QED
  BY <1>1, <1>2, <1>4 DEF IInv, RequestMove

(* ... by another handler: the nodes are not told, and keep what they are  *)
(* due.                                                                    *)
LEMMA SaveRowStep ==
  ASSUME IInv, NEW r \in Handlers, SaveRow(r)
  PROVE  IInv'
<1>1. /\ RequestMove(r) /\ req[r].at = "hold" /\ req'[r] = NoReq
      /\ \A n \in Nodes : n \notin behind' => n \notin behind /\ loc' = loc
      /\ UNCHANGED <<row, node, cam, mail, missed, fresh, due>>
  BY SaveRowEffect DEF IInv
<1>2. RequestsOK' /\ RequestOK(req[r])
  BY <1>1, EndedOK, NoReqOK DEF IInv, RequestsOK
<1>3. req[r].nodes = {} /\ req'[r].nodes = {}
  BY <1>1, <1>2, NoReqOK DEF RequestOK
<1>4. ASSUME NEW n \in Nodes PROVE NodeInv(n)'
  <2>1. NodeInv(n)
    BY DEF IInv
  <2> QED
    BY <1>1, <1>3, <2>1, QuietRequest
<1> QED
  BY <1>1, <1>2, <1>4 DEF IInv, RequestMove

-----------------------------------------------------------------------------
(* The theorems.                                                           *)

(* The invariant holds at the start,                                       *)
LEMMA InvInit == Init => IInv
<1> SUFFICES ASSUME Init PROVE IInv
  OBVIOUS
<1>1. /\ row = [n \in Nodes |-> NoRow] /\ loc = DefaultOptions /\ online = {}
      /\ node = [n \in Nodes |-> NewNode] /\ cam = [n \in Nodes |-> NewCamera(TRUE)]
      /\ mail = [n \in Nodes |-> NoMail] /\ req = [r \in Handlers |-> NoReq]
      /\ requests = 0 /\ events = 0 /\ missed = {} /\ fresh = {}
      /\ due = [n \in Nodes |-> DefaultOptions] /\ behind = {}
  BY DEF Init
<1>2. NewNode.up /\ NewNode.asks /\ ~NewNode.mute /\ NewNode.depth = 0 /\ ~NoMail.sent
  BY DEF NewNode, NoMail
<1>3. ~NewCamera(TRUE).rec /\ NewCamera(TRUE).depth = 0
  BY DEF NewCamera
<1>4. TypeOK
  BY <1>1, <1>2, <1>3, NewRecords DEF TypeOK
<1>5. RequestsOK
  BY <1>1, NoReqOK DEF RequestsOK
<1>6. ASSUME NEW n \in Nodes PROVE NodeInv(n)
  BY <1>1, <1>2, <1>3, NoReqOK DEF NodeInv, OneRequest, MailCurrent, Agrees, Told, AtDepth,
                     RowIsDue
<1> QED
  BY <1>4, <1>5, <1>6 DEF IInv

(* after every step,                                                       *)
LEMMA InvStep == IInv /\ [Next]_vars => IInv'
<1> SUFFICES ASSUME IInv, [Next]_vars PROVE IInv'
  OBVIOUS
<1>1. ASSUME NEW r \in Handlers, Serve(r) PROVE IInv'
  BY <1>1, OpenSteps, SaveCameraStep, PostCameraStep, LosePostStep, SaveConfigStep, PushStep,
     LosePushStep, SaveRowStep DEF Serve
<1>2. ASSUME NEW n \in Nodes, Live(n) PROVE IInv'
  BY <1>2, LiveStep
<1>3. CASE UNCHANGED vars
  <2>1. TypeOK'
    BY <1>3 DEF IInv, vars, TypeOK
  <2>2. RequestsOK'
    BY <1>3 DEF IInv, vars, RequestsOK
  <2>3. ASSUME NEW n \in Nodes PROVE NodeInv(n)'
    <3>1. Quiet(n)
      BY <1>3 DEF vars, Quiet, SameFor
    <3> QED
      BY <3>1, QuietNode DEF IInv
  <2> QED
    BY <2>1, <2>2, <2>3 DEF IInv
<1> QED
  BY <1>1, <1>2, <1>3 DEF Next

(* and so always.                                                          *)
LEMMA InvAlways == Spec => []IInv
BY InvInit, InvStep, PTL DEF Spec

(* Rows, nodes, cameras, answers and requests have the values of their     *)
(* kinds; a camera records only on a node that runs and has it plugged in,  *)
(* and a node that waits for an answer runs (setGlobalParams, main.cpp).    *)
THEOREM TypeCorrect == Spec => []TypeOK
<1>1. IInv => TypeOK
  BY DEF IInv
<1> QED
  BY <1>1, InvAlways, PTL

(* A node that has settled has the settings of the rows, whatever was      *)
(* lost, restarted, unplugged or set at the same time before (sendKeepalive *)
(* with request_camera_params, main.cpp; camera_parameter, location_config, *)
(* views.py); its options are those last configured or asked for, also     *)
(* when a recording or a new shot has put older ones back in the row of    *)
(* the location since (loc.save() in register_new_take).                   *)
THEOREM SettledNodesAgree == Spec => []SettingsAgree
<1>1. ASSUME IInv, NEW n \in Nodes, Settled(n)
      PROVE  /\ AgreeValue(n) /\ AgreeSync(n) /\ AgreeOptions(n)
             /\ n \notin behind => due[n] = loc
  BY <1>1 DEF IInv, NodeInv, Agrees, Told, Settled, RowIsDue
<1>2. IInv => SettingsAgree
  BY <1>1 DEF SettingsAgree, AgreeValue, AgreeSync, AgreeOptions
<1> QED
  BY <1>2, InvAlways, PTL

(* A camera of such a node is about to record with the bit depth last      *)
(* configured or asked for, whenever that was changed (setGlobalParams,    *)
(* stop_recording_all, capturenode.cpp), which is the bit depth of the     *)
(* location unless its row was put back.                                   *)
THEOREM RecordingsAtDepth == Spec => []RecordsAtDepth
<1>1. ASSUME IInv, NEW n \in Nodes \ fresh, Settled(n), ~cam[n].rec
      PROVE  cam[n].depth = due[n].depth /\ (n \notin behind => cam[n].depth = loc.depth)
  <2>1. NodeInv(n)
    BY <1>1 DEF IInv
  <2>2. cam[n].depth = node[n].depth
    BY <1>1, <2>1 DEF NodeInv, AtDepth, Settled
  <2>3. node[n].depth = due[n].depth
    BY <1>1, <2>1 DEF NodeInv, Agrees, Told, Settled, AgreeOptions
  <2>4. n \notin behind => due[n] = loc
    BY <2>1 DEF NodeInv, RowIsDue
  <2> QED
    BY <2>2, <2>3, <2>4
<1>2. IInv => RecordsAtDepth
  BY <1>1 DEF RecordsAtDepth
<1> QED
  BY <1>2, InvAlways, PTL
=============================================================================
