------------------------ MODULE CaptureSessionProofs ------------------------
(***************************************************************************)
(* Recording, for any handlers, nodes, requests and faults: the types of   *)
(* rows and requests, and where the clips are.  The inductive invariant    *)
(* TInv has the types and that every shot a row refers to exists; ClipInv  *)
(* adds that a clip that was reported is never reported again, and that it *)
(* is with one request or in one take.  At the end, the lemmas ...Effect   *)
(* say once what each action of a handler does, phase by phase.            *)
(***************************************************************************)
EXTENDS CaptureSession, TLAPS, FiniteSetTheorems

-----------------------------------------------------------------------------
(* The phases of the requests.                                             *)

Requests == {"start", "stop", "single", "session", "shot", "config", "page"}

LastOf(k) == CASE k = "start" -> 4 [] k = "stop" -> 5 [] k = "single" -> 8
               [] k \in {"session", "shot", "config"} -> 2 [] OTHER -> 1

(* The kinds of requests and the number of phases of each.                 *)
LEMMA StepsLen ==
  /\ DOMAIN Steps = Requests
  /\ \A k \in Requests : Len(Steps[k]) = LastOf(k) /\ DOMAIN Steps[k] = 1 .. LastOf(k)
<1>1. DOMAIN Steps = Requests
  BY DEF Steps, Requests
<1>2. Len(StartSteps) = 4 /\ DOMAIN StartSteps = 1 .. 4
  BY DEF StartSteps
<1>3. Len(StopSteps) = 5 /\ DOMAIN StopSteps = 1 .. 5
  BY DEF StopSteps
<1>4. Len(SingleSteps) = 8 /\ DOMAIN SingleSteps = 1 .. 8
  BY DEF SingleSteps
<1>5. Len(<<"create", "save">>) = 2 /\ DOMAIN <<"create", "save">> = 1 .. 2
  OBVIOUS
<1>6. Len(<<"options", "save">>) = 2 /\ DOMAIN <<"options", "save">> = 1 .. 2
  OBVIOUS
<1>7. Len(<<"save">>) = 1 /\ DOMAIN <<"save">> = 1 .. 1
  OBVIOUS
<1> QED
  BY <1>1, <1>2, <1>3, <1>4, <1>5, <1>6, <1>7 DEF Steps, Requests, LastOf

(* Which phase of which request a step is.                                 *)
LEMMA StepTable ==
  /\ \A i \in 1 .. 4 : Steps["start"][i] =
       CASE i = 1 -> "slate" [] i = 2 -> "prepare" [] i = 3 -> "release" [] i = 4 -> "trigger"
  /\ \A i \in 1 .. 5 : Steps["stop"][i] =
       CASE i = 1 -> "halt" [] i = 2 -> "stop" [] i = 3 -> "resume" [] i = 4 -> "file"
         [] i = 5 -> "count"
  /\ \A i \in 1 .. 8 : Steps["single"][i] =
       CASE i = 1 -> "prepare_single" [] i = 2 -> "release" [] i = 3 -> "trigger"
         [] i = 4 -> "finalize" [] i = 5 -> "read" [] i = 6 -> "slate" [] i = 7 -> "file"
         [] i = 8 -> "count"
  /\ \A k \in {"session", "shot"} : Steps[k][1] = "create" /\ Steps[k][2] = "save"
  /\ Steps["config"][1] = "options" /\ Steps["config"][2] = "save"
  /\ Steps["page"][1] = "save"
<1>1. \A i \in 1 .. 4 : StartSteps[i] =
       CASE i = 1 -> "slate" [] i = 2 -> "prepare" [] i = 3 -> "release" [] i = 4 -> "trigger"
  BY DEF StartSteps
<1>2. \A i \in 1 .. 5 : StopSteps[i] =
       CASE i = 1 -> "halt" [] i = 2 -> "stop" [] i = 3 -> "resume" [] i = 4 -> "file"
         [] i = 5 -> "count"
  BY DEF StopSteps
<1>3. \A i \in 1 .. 8 : SingleSteps[i] =
       CASE i = 1 -> "prepare_single" [] i = 2 -> "release" [] i = 3 -> "trigger"
         [] i = 4 -> "finalize" [] i = 5 -> "read" [] i = 6 -> "slate" [] i = 7 -> "file"
         [] i = 8 -> "count"
  BY DEF SingleSteps
<1> QED
  BY <1>1, <1>2, <1>3 DEF Steps

-----------------------------------------------------------------------------
(* The first free name.                                                    *)

(* A set of numbers has a least one.                                       *)
LEMMA Least ==
  ASSUME NEW T \in SUBSET Nat, T # {}
  PROVE  \E x \in T : \A y \in T : x <= y
<1> DEFINE R == {ss \in Nat \X Nat : ss[1] < ss[2]}
<1>1. IsWellFoundedOn(R, Nat)
  BY NatLessThanWellFounded DEF OpToRel
<1>2. \A y, x \in Nat : <<y, x>> \in R <=> y < x
  OBVIOUS
<1> HIDE DEF R
<1>3. PICK x \in T : \A y \in T : ~ (<<y, x>> \in R)
  BY <1>1, WFMin
<1> QED
  <2>1. \A y \in T : ~ (y < x)
    BY <1>2, <1>3
  <2>2. x \in Nat /\ \A y \in T : y \in Nat
    OBVIOUS
  <2>3. \A y \in T : x <= y
    BY <2>1, <2>2
  <2> QED
    BY <2>3

(* unique_shot_name finds a name, and it is free.                          *)
LEMMA NameFound ==
  ASSUME shots \in Seq(Shot), NEW k \in Nat, NEW s
  PROVE  UniqueName(k, s) \in Nat /\ UniqueName(k, s) \notin NamesOf(s)
<1> DEFINE Span == k .. k + Len(shots)
           free == {j \in Span : j \notin NamesOf(s)}
<1>0. Len(shots) \in Nat /\ DOMAIN shots = 1 .. Len(shots)
  OBVIOUS
<1>1. free # {}
  <2>1. SUFFICES ASSUME \A j \in Span : j \in NamesOf(s) PROVE FALSE
    OBVIOUS
  <2>2. \A j \in Span : \E i \in DOMAIN shots : shots[i].name = j
    BY <2>1 DEF NamesOf
  <2> DEFINE f == [j \in Span |-> CHOOSE i \in DOMAIN shots : shots[i].name = j]
  <2>3. \A j \in Span : f[j] \in DOMAIN shots /\ shots[f[j]].name = j
    BY <2>2
  <2>4. f \in [Span -> 1 .. Len(shots)]
    BY <2>3, <1>0
  <2>5. IsFiniteSet(Span) /\ Cardinality(Span) = Len(shots) + 1
    BY <1>0, FS_Interval
  <2>6. IsFiniteSet(1 .. Len(shots)) /\ Cardinality(1 .. Len(shots)) = Len(shots)
    BY <1>0, FS_Interval
  <2>7. Cardinality(1 .. Len(shots)) < Cardinality(Span)
    BY <2>5, <2>6, <1>0
  <2> HIDE DEF f, Span
  <2>8. \E x, y \in Span : x # y /\ f[x] = f[y]
    BY <2>4, <2>5, <2>6, <2>7, FS_PigeonHole
  <2> QED
    BY <2>8, <2>3
<1>2. free \in SUBSET Nat
  BY <1>0
<1>3. PICK x \in free : \A y \in free : x <= y
  BY <1>1, <1>2, Least
<1>4. x \in Span /\ x \notin NamesOf(s) /\ \A i \in k .. x - 1 : i \in NamesOf(s)
  BY <1>3, <1>0
<1> DEFINE P(j) == j \notin NamesOf(s) /\ \A i \in k .. j - 1 : i \in NamesOf(s)
<1>5. UniqueName(k, s) = CHOOSE j \in Span : P(j)
  BY DEF UniqueName
<1>6. \E j \in Span : P(j)
  BY <1>4
<1> HIDE DEF P
<1>7. UniqueName(k, s) \in Span /\ P(UniqueName(k, s))
  BY <1>5, <1>6
<1> QED
  BY <1>7, <1>0 DEF P

-----------------------------------------------------------------------------
(* Type correctness.                                                       *)

\* The record of a handler, when there are n shots.
RecordOK(hr, n) ==
  /\ hr \in Handler
  /\ hr.kind # "none" => hr.at \in 1 .. LastOf(hr.kind)
  /\ hr.loc.shot <= n

DataOK ==
  /\ loc \in Location /\ loc.shot <= Len(shots)
  /\ sessions \in Nat /\ shots \in Seq(Shot) /\ takes \in Seq(Take)
NodesOK ==
  /\ online \in [Nodes -> BOOLEAN] /\ row \in [Nodes -> BOOLEAN]
  /\ cam \in [Nodes -> Camera] /\ late \subseteq Late
RecordsOK == h \in [Handlers -> Handler] /\ \A r \in Handlers : RecordOK(h[r], Len(shots))
CountsOK ==
  /\ requests \in Nat /\ faults \in Nat
  /\ calm \in BOOLEAN /\ hurt \subseteq Nodes /\ torn \subseteq DOMAIN takes

TInv == DataOK /\ NodesOK /\ RecordsOK /\ CountsOK

(* These are the types, and that every shot a row refers to exists.        *)
LEMMA TypesFollow == TInv => TypeOK
BY StepsLen DEF TInv, TypeOK, DataOK, NodesOK, RecordsOK, CountsOK, RecordOK, Requests, Handler

(* A record that never was opened.                                         *)
LEMMA IdleOK ==
  ASSUME NEW n \in Nat
  PROVE  RecordOK(Idle, n) /\ Idle \in Handler
BY DEF RecordOK, Idle, Handler, Location, Page, NoRow, NoPage, Clips

(* What changes when a handler goes on, and what does not.                 *)
LEMMA Advanced ==
  ASSUME NEW hr, NEW n \in Nat, RecordOK(hr, n), hr.kind # "none"
  PROVE  /\ Len(Steps[hr.kind]) = LastOf(hr.kind) /\ hr.at \in Nat
         /\ hr.at = LastOf(hr.kind) => Advance(hr) = Idle
         /\ hr.at # LastOf(hr.kind) =>
              /\ Advance(hr) \in Handler
              /\ Advance(hr).kind = hr.kind /\ Advance(hr).at = hr.at + 1
              /\ Advance(hr).loc = hr.loc /\ Advance(hr).next = hr.next
              /\ Advance(hr).page = hr.page /\ Advance(hr).nodes = hr.nodes
              /\ Advance(hr).pend = hr.nodes /\ Advance(hr).got = hr.got
<1>1. hr.kind \in Requests /\ hr.at \in 1 .. LastOf(hr.kind) /\ hr \in Handler
  BY StepsLen DEF RecordOK, Handler
<1>2. Len(Steps[hr.kind]) = LastOf(hr.kind) /\ hr.at \in Nat
  BY <1>1, StepsLen DEF RecordOK, Handler, Requests, LastOf
<1>3. hr.at = LastOf(hr.kind) => Advance(hr) = Idle
  BY <1>2 DEF Advance
<1>4. ASSUME hr.at # LastOf(hr.kind)
      PROVE  Advance(hr) = [hr EXCEPT !.at = hr.at + 1, !.pend = hr.nodes]
  BY <1>2, <1>4 DEF Advance
<1>5. hr.at + 1 \in Nat /\ hr.nodes \in SUBSET Nodes
  BY <1>1, <1>2 DEF Handler
<1>6. [hr EXCEPT !.at = hr.at + 1, !.pend = hr.nodes] \in Handler
  BY <1>1, <1>5 DEF Handler
<1> QED
  BY <1>1, <1>2, <1>3, <1>4, <1>6 DEF Handler

(* A handler that goes on keeps its record in order.                       *)
LEMMA AdvancedOK ==
  ASSUME NEW hr, NEW n \in Nat, RecordOK(hr, n), hr.kind # "none"
  PROVE  RecordOK(Advance(hr), n) /\ Advance(hr) \in Handler
<1>1. CASE hr.at = LastOf(hr.kind)
  BY <1>1, Advanced, IdleOK
<1>2. CASE hr.at # LastOf(hr.kind)
  <2>1. LastOf(hr.kind) \in Nat /\ hr.at \in 1 .. LastOf(hr.kind) /\ hr.loc.shot <= n
    BY DEF RecordOK, LastOf
  <2> QED
    BY <1>2, <2>1, Advanced DEF RecordOK
<1> QED
  BY <1>1, <1>2

(* A request leaves a camera behind that is one.                           *)
LEMMA Executed ==
  ASSUME NEW c \in Camera, NEW op
  PROVE  Execute(c, op) \in Camera
<1>1. ASSUME NEW b \in BOOLEAN
      PROVE  Prepare(c, b) \in Camera
  <2>1. c.made + 1 \in Nat /\ 0 \in Nat
    BY DEF Camera
  <2>2. [c EXCEPT !.listed = FALSE, !.rec = FALSE, !.summ = 0] \in Camera
    BY <2>1, Zenon DEF Camera
  <2>3. [c EXCEPT !.listed = FALSE] \in Camera /\ [c EXCEPT !.listed = TRUE] \in Camera
    BY Zenon DEF Camera
  <2>4. [c EXCEPT !.listed = TRUE, !.rec = TRUE, !.made = c.made + 1, !.single = b,
                  !.hold = TRUE, !.summ = 0] \in Camera
    BY <2>1, Zenon DEF Camera
  <2> QED
    BY <2>2, <2>3, <2>4 DEF Prepare
<1>2. Stop(c) \in Camera
  BY DEF Camera, Stop
<1>3. Finalize(c) \in Camera
  BY DEF Camera, Finalize
<1>4. [c EXCEPT !.hold = IF c.listed THEN FALSE ELSE @, !.sync = FALSE] \in Camera
  BY DEF Camera
<1>5. \A b \in BOOLEAN : [c EXCEPT !.sync = b] \in Camera
  BY DEF Camera
<1> QED
  BY <1>1, <1>2, <1>3, <1>4, <1>5 DEF Execute

(* A summary consists of clips.                                            *)
LEMMA Replied ==
  ASSUME cam \in [Nodes -> Camera], NEW n \in Nodes, NEW op
  PROVE  Reply(n, op) \in SUBSET Clips
BY DEF Reply, Clips, Camera

(* A step of one handler, that makes at most more shots.                   *)
LEMMA OneRecord ==
  ASSUME TInv, NEW r \in Handlers, NEW x, h' = [h EXCEPT ![r] = x],
         shots' \in Seq(Shot), Len(shots) <= Len(shots'), RecordOK(x, Len(shots'))
  PROVE  RecordsOK' /\ h'[r] = x /\ \A q \in Handlers : q # r => h'[q] = h[q]
<1>1. h \in [Handlers -> Handler] /\ x \in Handler /\ shots \in Seq(Shot)
  BY DEF TInv, RecordsOK, RecordOK, DataOK
<1>2. h' \in [Handlers -> Handler] /\ h'[r] = x /\ \A q \in Handlers : q # r => h'[q] = h[q]
  BY <1>1
<1>3. ASSUME NEW q \in Handlers PROVE RecordOK(h'[q], Len(shots'))
  <2>1. CASE q = r
    BY <2>1, <1>2
  <2>2. CASE q # r
    <3>1. RecordOK(h[q], Len(shots)) /\ h[q].loc.shot \in Nat
      BY <1>1 DEF TInv, RecordsOK, Handler, Location
    <3>2. Len(shots) \in Nat /\ Len(shots') \in Nat
      BY <1>1
    <3> QED
      BY <2>2, <1>2, <3>1, <3>2 DEF RecordOK
  <2> QED
    BY <2>1, <2>2
<1> QED
  BY <1>2, <1>3 DEF RecordsOK

(* A step of one handler that makes no shot.                               *)
LEMMA SameShots ==
  ASSUME TInv, NEW r \in Handlers, NEW x, h' = [h EXCEPT ![r] = x],
         UNCHANGED database, RecordOK(x, Len(shots))
  PROVE  RecordsOK' /\ h'[r] = x /\ \A q \in Handlers : q # r => h'[q] = h[q]
<1>1. shots' = shots
  BY DEF database
<1>2. shots \in Seq(Shot)
  BY DEF TInv, DataOK
<1>3. shots' \in Seq(Shot) /\ Len(shots) <= Len(shots') /\ RecordOK(x, Len(shots'))
  BY <1>1, <1>2
<1> QED
  BY <1>3, OneRecord

(* A step that leaves the handlers and the shots alone.                    *)
LEMMA NoRecord ==
  ASSUME TInv, UNCHANGED <<h, shots>>
  PROVE  RecordsOK'
BY DEF TInv, RecordsOK

(* What the type invariant says of one handler that is open.               *)
LEMMA OpenRecord ==
  ASSUME TInv, NEW r \in Handlers
  PROVE  /\ h[r] \in Handler /\ RecordOK(h[r], Len(shots)) /\ Len(shots) \in Nat
         /\ h[r].loc \in Location /\ h[r].page \in Page /\ h[r].loc.shot \in 0 .. Len(shots)
         /\ h[r].next \in Nat /\ h[r].got \in SUBSET Clips
         /\ h[r].nodes \in SUBSET Nodes /\ h[r].pend \in SUBSET Nodes
         /\ Step(r) # "none" => h[r].kind # "none"
<1>1. h[r] \in Handler /\ RecordOK(h[r], Len(shots)) /\ Len(shots) \in Nat
  BY DEF TInv, RecordsOK, DataOK
<1> QED
  BY <1>1 DEF Handler, Location, RecordOK, Step

(* A location before its first recording.                                  *)
LEMMA TypeInit == Init => TInv
<1> SUFFICES ASSUME Init PROVE TInv
  OBVIOUS
<1>1. NodesOK
  BY DEF Init, NodesOK, Preview, Camera
<1>2. DataOK
  <2> DEFINE first == [session |-> 1, name |-> 0, next |-> 1]
             l == [project |-> TRUE, session |-> 1, shot |-> 1]
  <2>1. first \in Shot /\ l \in Location /\ NoRow \in Location /\ l.shot = 1 /\ NoRow.shot = 0
    BY DEF Shot, Location, NoRow
  <2>2. takes \in Seq(Take) /\ <<>> \in Seq(Shot) /\ Len(<<>>) = 0
    BY DEF Init
  <2>3. \/ loc = NoRow /\ sessions = 0 /\ shots = <<>>
        \/ loc = l /\ sessions = 1 /\ shots = <<first>>
    BY DEF Init
  <2> HIDE DEF first, l
  <2>4. <<first>> \in Seq(Shot) /\ Len(<<first>>) = 1
    BY <2>1
  <2>5. CASE loc = NoRow /\ sessions = 0 /\ shots = <<>>
    BY <2>1, <2>2, <2>5 DEF DataOK
  <2>6. CASE loc = l /\ sessions = 1 /\ shots = <<first>>
    BY <2>1, <2>2, <2>4, <2>6 DEF DataOK
  <2> QED
    BY <2>3, <2>5, <2>6
<1>3. RecordsOK
  <2>1. Len(shots) \in Nat
    BY <1>2 DEF DataOK
  <2> QED
    BY <2>1, IdleOK DEF Init, RecordsOK
<1>4. CountsOK
  BY DEF Init, CountsOK
<1> QED
  BY <1>1, <1>2, <1>3, <1>4 DEF TInv

(* The rows of shots.                                                      *)
LEMMA ShotRows ==
  ASSUME shots \in Seq(Shot)
  PROVE  /\ DOMAIN shots = 1 .. Len(shots) /\ Len(shots) \in Nat
         /\ \A s \in DOMAIN shots : /\ shots[s] \in Shot /\ shots[s].session \in Nat
                                   /\ shots[s].name \in Nat /\ shots[s].next \in Nat
<1>1. \A s \in DOMAIN shots : shots[s] \in Shot
  OBVIOUS
<1> QED
  BY <1>1 DEF Shot

(* The page of a location.                                                 *)
LEMMA PageOK ==
  ASSUME DataOK
  PROVE  PageOf(loc) \in Page /\ OldPages \subseteq Page /\ NoPage \in Page
<1>1. \A s \in DOMAIN shots : shots[s].session \in Nat /\ shots[s].name \in Nat
  BY ShotRows DEF DataOK
<1>2. loc.session \in Nat /\ (loc.shot # 0 => loc.shot \in DOMAIN shots)
  BY DEF DataOK, Location
<1>3. PageOf(loc) \in Page
  BY <1>1, <1>2 DEF PageOf, Page
<1>4. OldPages \subseteq Page
  BY <1>1 DEF OldPages, Page
<1> QED
  BY <1>3, <1>4 DEF NoPage, Page

(* A request is opened.                                                    *)
LEMMA TypeOpen ==
  ASSUME TInv, NEW r \in Handlers, NEW kind \in Kinds, Open(r, kind)
  PROVE  TInv'
<1> DEFINE l == IF kind = "single" THEN NoRow ELSE loc
<1>1. PICK p \in {NoPage, PageOf(loc)} \cup OldPages :
        /\ Sends(kind, p)
        /\ h' = [h EXCEPT ![r] = [Idle EXCEPT !.kind = kind, !.at = 1, !.page = p, !.loc = l,
                                  !.nodes = Online, !.pend = Online]]
  BY DEF Open
<1> DEFINE x == [Idle EXCEPT !.kind = kind, !.at = 1, !.page = p, !.loc = l,
                             !.nodes = Online, !.pend = Online]
<1>2. kind \in Requests
  BY CaptureAssumption, StepsLen
<1>3. p \in Page
  BY PageOK DEF TInv
<1>4. l \in Location /\ l.shot <= Len(shots) /\ Len(shots) \in Nat
  BY DEF TInv, DataOK, NoRow, Location
<1>5. x \in Handler /\ x.kind = kind /\ x.at = 1 /\ x.loc = l
  <2>1. Online \in SUBSET Nodes /\ kind \in DOMAIN Steps \cup {"none"} /\ 1 \in Nat
    BY <1>2, StepsLen DEF Online
  <2> HIDE DEF l
  <2> QED
    BY <1>3, <1>4, <2>1 DEF Handler, Idle
<1>6. RecordOK(x, Len(shots))
  BY <1>2, <1>4, <1>5 DEF RecordOK, LastOf, Requests
<1>7. UNCHANGED <<database, nodeRows, cam, late, hurt, torn>> /\ requests' = requests + 1
  BY DEF Open
<1>8. RecordsOK'
  <2>1. h' = [h EXCEPT ![r] = x]
    BY <1>1
  <2> HIDE DEF x
  <2> QED
    BY <2>1, <1>6, <1>7, SameShots
<1>9. faults' \in Nat
  BY <1>1 DEF Sends, Spend, TInv, CountsOK
<1>10. calm' \in BOOLEAN
  BY DEF Open, Quiet, TInv, CountsOK
<1> QED
  BY <1>7, <1>8, <1>9, <1>10 DEF TInv, DataOK, NodesOK, CountsOK, database, nodeRows

(* A node answers.                                                         *)
LEMMA TypeAnswer ==
  ASSUME TInv, NEW r \in Handlers, NEW n \in Nodes, Answer(r, n)
  PROVE  TInv'
<1> DEFINE x == [h[r] EXCEPT !.pend = @ \ {n}, !.got = @ \cup Reply(n, Step(r))]
<1>1. h' = [h EXCEPT ![r] = x]
  BY DEF Answer
<1>2. Reply(n, Step(r)) \in SUBSET Clips
  BY Replied DEF TInv, NodesOK
<1>3. x \in Handler /\ x.kind = h[r].kind /\ x.at = h[r].at /\ x.loc = h[r].loc
  BY <1>2, OpenRecord DEF Handler
<1>4. RecordOK(x, Len(shots))
  BY <1>3, OpenRecord DEF RecordOK
<1>5. UNCHANGED <<database, nodeRows, late, requests, faults, history>>
  BY DEF Answer
<1>6. RecordsOK'
  <2> HIDE DEF x
  <2> QED
    BY <1>1, <1>4, <1>5, SameShots
<1>7. cam' \in [Nodes -> Camera]
  <2>1. Execute(cam[n], Step(r)) \in Camera
    BY Executed DEF TInv, NodesOK
  <2> QED
    BY <2>1 DEF Answer, TInv, NodesOK
<1> QED
  BY <1>5, <1>6, <1>7 DEF TInv, DataOK, NodesOK, CountsOK, database, nodeRows, history

(* A node does not answer.                                                 *)
LEMMA TypeUnanswered ==
  ASSUME TInv, NEW r \in Handlers, NEW n \in Nodes, Unanswered(r, n), faults' \in Nat
  PROVE  TInv'
<1> DEFINE x == [h[r] EXCEPT !.pend = @ \ {n}]
<1>1. h' = [h EXCEPT ![r] = x]
  BY DEF Unanswered
<1>2. x \in Handler /\ x.kind = h[r].kind /\ x.at = h[r].at /\ x.loc = h[r].loc
  BY OpenRecord DEF Handler
<1>3. RecordOK(x, Len(shots))
  BY <1>2, OpenRecord DEF RecordOK
<1>4. UNCHANGED <<database, nodeRows, cam, requests, calm, fresh, torn>>
  BY DEF Unanswered
<1>5. RecordsOK'
  <2> HIDE DEF x
  <2> QED
    BY <1>1, <1>3, <1>4, SameShots
<1>6. hurt' \subseteq Nodes
  BY DEF Unanswered, TInv, CountsOK
<1>7. late' \subseteq Late
  BY DEF Unanswered, TInv, NodesOK, Late
<1> QED
  BY <1>4, <1>5, <1>6, <1>7 DEF TInv, DataOK, NodesOK, CountsOK, database, nodeRows

(* A handler goes on with its record as x, and nothing but the rows of the *)
(* database may have changed besides.                                      *)
LEMMA TypeGoOn ==
  ASSUME TInv, NEW r \in Handlers, NEW x, GoOn(r, x), x.kind # "none",
         DataOK', Len(shots) <= Len(shots'), RecordOK(x, Len(shots')),
         UNCHANGED <<nodeRows, cam, late, requests, faults, history>>,
         DOMAIN takes \subseteq DOMAIN takes'
  PROVE  TInv'
<1>1. Len(shots') \in Nat /\ shots' \in Seq(Shot)
  BY DEF DataOK
<1>2. RecordOK(Advance(x), Len(shots'))
  BY <1>1, AdvancedOK
<1>3. RecordsOK'
  BY <1>1, <1>2, OneRecord DEF GoOn
<1> QED
  BY <1>3 DEF TInv, NodesOK, CountsOK, nodeRows, history

(* A handler goes on without touching the database, or reads the location. *)
LEMMA TypeBarrier ==
  ASSUME TInv, NEW r \in Handlers, Barrier(r) \/ ReadLocation(r)
  PROVE  TInv'
<1>1. UNCHANGED <<database, nodeRows, cam, late, requests, faults, history>>
  BY DEF Barrier, ReadLocation
<1>2. PICK x : GoOn(r, x) /\ (x = h[r] \/ x = [h[r] EXCEPT !.loc = loc])
  BY DEF Barrier, ReadLocation
<1>3. h[r].kind # "none"
  BY DEF Barrier, ReadLocation, NodeSteps, Step
<1>4. RecordOK(x, Len(shots)) /\ x.kind # "none"
  <2>1. CASE x = h[r]
    BY <2>1, <1>3, OpenRecord
  <2>2. CASE x = [h[r] EXCEPT !.loc = loc]
    <3>1. x \in Handler /\ x.kind = h[r].kind /\ x.at = h[r].at /\ x.loc = loc
      BY <2>2, OpenRecord DEF Handler, TInv, DataOK
    <3> QED
      BY <3>1, <1>3, OpenRecord DEF RecordOK, TInv, DataOK
  <2> QED
    BY <1>2, <2>1, <2>2
<1>5. DataOK' /\ Len(shots) <= Len(shots') /\ RecordOK(x, Len(shots'))
      /\ DOMAIN takes \subseteq DOMAIN takes'
  <2>1. UNCHANGED <<loc, sessions, shots, takes>>
    BY <1>1 DEF database
  <2> QED
    BY <2>1, <1>4 DEF TInv, DataOK
<1> QED
  BY <1>1, <1>2, <1>4, <1>5, TypeGoOn

(* The slate is set: the shot of the page is found or made.                *)
LEMMA TypeSlate ==
  ASSUME TInv, NEW r \in Handlers, Slate(r)
  PROVE  TInv'
<1> DEFINE l == h[r].loc
           p == h[r].page
           new == [session |-> p.session, name |-> p.name, next |-> 1]
           saved == [l EXCEPT !.session = p.session,
                              !.shot = IF KeepsShot(l, p) THEN @ ELSE Len(shots) + 1]
           x == [h[r] EXCEPT !.loc = saved, !.next = shots'[saved.shot].next]
<1>1. /\ shots' = IF KeepsShot(l, p) THEN shots ELSE Append(shots, new)
      /\ loc' = saved /\ GoOn(r, x) /\ Step(r) = "slate"
      /\ UNCHANGED <<sessions, takes, nodeRows, cam, late, requests, faults, history>>
  BY DEF Slate
<1>2. shots \in Seq(Shot) /\ Len(shots) \in Nat /\ new \in Shot
  BY OpenRecord DEF TInv, DataOK, Shot, Page
<1>3. shots' \in Seq(Shot) /\ Len(shots) <= Len(shots')
  <2> HIDE DEF new
  <2> QED
    BY <1>1, <1>2
<1>4. saved \in Location /\ saved.shot \in 1 .. Len(shots')
  <2>1. CASE KeepsShot(l, p)
    <3>1. saved = [l EXCEPT !.session = p.session]
      BY <2>1, OpenRecord DEF Location
    <3>2. saved \in Location /\ saved.shot = l.shot
      BY <3>1, OpenRecord DEF Location, Page
    <3> QED
      BY <2>1, <3>2, <1>1, <1>2, OpenRecord DEF KeepsShot
  <2>2. CASE ~KeepsShot(l, p)
    <3>1. saved = [l EXCEPT !.session = p.session, !.shot = Len(shots) + 1]
      BY <2>2
    <3>2. saved \in Location /\ saved.shot = Len(shots) + 1
      <4>1. p.session \in Nat /\ Len(shots) + 1 \in Nat /\ l \in Location
        BY <1>2, OpenRecord DEF Page
      <4> HIDE DEF l, p, saved
      <4> QED
        BY <3>1, <4>1, Zenon DEF Location
    <3>3. Len(shots') = Len(shots) + 1
      <4> HIDE DEF new
      <4> QED
        BY <2>2, <1>1, <1>2
    <3> QED
      BY <3>2, <3>3, <1>2
  <2> QED
    BY <2>1, <2>2
<1>5. shots'[saved.shot].next \in Nat
  <2>1. shots'[saved.shot] \in Shot
    <3> HIDE DEF saved
    <3> QED
      BY <1>3, <1>4
  <2> QED
    BY <2>1 DEF Shot
<1>6. x \in Handler /\ x.kind = h[r].kind /\ x.at = h[r].at /\ x.loc = saved
  <2> HIDE DEF saved
  <2> QED
    BY <1>4, <1>5, OpenRecord DEF Handler
<1>7. h[r].kind # "none"
  BY <1>1 DEF Step
<1>8. RecordOK(x, Len(shots')) /\ x.kind # "none"
  <2> HIDE DEF saved, x
  <2> QED
    BY <1>3, <1>4, <1>6, <1>7, OpenRecord DEF RecordOK
<1>9. DataOK'
  <2> HIDE DEF saved
  <2> QED
    BY <1>1, <1>3, <1>4 DEF DataOK, TInv
<1> HIDE DEF x
<1> QED
  BY <1>1, <1>3, <1>8, <1>9, TypeGoOn

(* A handler ends, and may have left a take.                               *)
LEMMA TypeFail ==
  ASSUME TInv, NEW r \in Handlers, Fail(r), UNCHANGED <<loc, sessions, shots>>,
         takes' \in Seq(Take), torn' \subseteq DOMAIN takes',
         UNCHANGED <<nodeRows, cam, late, requests, faults, calm, hurt>>
  PROVE  TInv'
<1>1. RecordOK(Idle, Len(shots)) /\ Len(shots) \in Nat
  BY IdleOK DEF TInv, DataOK
<1>2. shots' \in Seq(Shot) /\ Len(shots) <= Len(shots') /\ RecordOK(Idle, Len(shots'))
  BY <1>1 DEF TInv, DataOK
<1>3. RecordsOK'
  BY <1>2, OneRecord DEF Fail
<1> QED
  BY <1>3 DEF TInv, DataOK, NodesOK, CountsOK, nodeRows

(* The row of a new take.                                                  *)
LEMMA TakeMade ==
  ASSUME TInv, NEW r \in Handlers, Filing(r), NEW clips \in SUBSET Clips
  PROVE  /\ NextTake(h[r]) \in Nat
         /\ NewTake(h[r], clips) \in Seq(Take)
         /\ Len(NewTake(h[r], clips)) = Len(takes) + 1 /\ Len(takes) \in Nat
         /\ \A t \in DOMAIN takes : NewTake(h[r], clips)[t] = takes[t]
         /\ NewTake(h[r], clips)[Len(takes) + 1]
              = [shot |-> h[r].loc.shot, seq |-> NextTake(h[r]), clips |-> clips]
<1>1. NextTake(h[r]) \in Nat
  <2>1. h[r].loc.shot \in DOMAIN shots
    BY OpenRecord DEF Filing, TInv, DataOK
  <2>2. shots[h[r].loc.shot].next \in Nat
    BY <2>1, ShotRows DEF TInv, DataOK
  <2> QED
    BY <2>2, OpenRecord DEF NextTake
<1> DEFINE take == [shot |-> h[r].loc.shot, seq |-> NextTake(h[r]), clips |-> clips]
<1>2. take \in Take
  BY <1>1, OpenRecord DEF Take
<1>3. takes \in Seq(Take) /\ NewTake(h[r], clips) = Append(takes, take)
  BY DEF TInv, DataOK, NewTake
<1> HIDE DEF take
<1>4. /\ Append(takes, take) \in Seq(Take) /\ Len(Append(takes, take)) = Len(takes) + 1
      /\ Len(takes) \in Nat /\ \A t \in DOMAIN takes : Append(takes, take)[t] = takes[t]
      /\ Append(takes, take)[Len(takes) + 1] = take
  BY <1>2, <1>3
<1> QED
  BY <1>1, <1>3, <1>4 DEF take

(* A take is registered, wholly or in part.                                *)
LEMMA TypeFile ==
  ASSUME TInv, NEW r \in Handlers, Unfiled(r) \/ FileTake(r) \/ FileTorn(r)
  PROVE  TInv'
<1>1. CASE Unfiled(r)
  <2>1. /\ Fail(r) /\ takes' = takes /\ torn' = torn /\ UNCHANGED <<loc, sessions, shots>>
        /\ UNCHANGED <<nodeRows, cam, late, requests, faults, calm, hurt>>
    BY <1>1 DEF Unfiled, database, history
  <2>2. takes' \in Seq(Take) /\ torn' \subseteq DOMAIN takes'
    BY <2>1 DEF TInv, DataOK, CountsOK
  <2> QED
    BY <2>1, <2>2, TypeFail
<1>2. CASE FileTake(r)
  <2> DEFINE x == [h[r] EXCEPT !.next = NextTake(h[r]), !.got = {}]
  <2>1. /\ Filing(r) /\ takes' = NewTake(h[r], h[r].got) /\ GoOn(r, x)
        /\ UNCHANGED <<loc, sessions, shots, nodeRows, cam, late, requests, faults, history>>
    BY <1>2 DEF FileTake
  <2>2. /\ NextTake(h[r]) \in Nat /\ takes' \in Seq(Take)
        /\ Len(takes') = Len(takes) + 1 /\ Len(takes) \in Nat
    BY <2>1, TakeMade, OpenRecord
  <2>3. x \in Handler /\ x.kind = h[r].kind /\ x.at = h[r].at /\ x.loc = h[r].loc
    BY <2>2, OpenRecord DEF Handler
  <2>4. h[r].kind # "none" /\ Len(shots) \in Nat
    BY <2>1, OpenRecord DEF Filing
  <2>5. RecordOK(x, Len(shots)) /\ x.kind # "none"
    <3> HIDE DEF x
    <3> QED
      BY <2>3, <2>4, OpenRecord DEF RecordOK
  <2>6. DOMAIN takes \subseteq DOMAIN takes'
    BY <2>2 DEF TInv, DataOK
  <2>7. DataOK' /\ Len(shots) <= Len(shots') /\ RecordOK(x, Len(shots'))
    <3> HIDE DEF x
    <3> QED
      BY <2>1, <2>2, <2>4, <2>5 DEF TInv, DataOK
  <2> HIDE DEF x
  <2> QED
    BY <2>1, <2>5, <2>6, <2>7, TypeGoOn
<1>3. CASE FileTorn(r)
  <2>1. PICK clips \in SUBSET {c \in h[r].got : row[c[1]]} : takes' = NewTake(h[r], clips)
    BY <1>3 DEF FileTorn
  <2>2. clips \in SUBSET Clips
    BY OpenRecord
  <2>3. /\ Filing(r) /\ Fail(r) /\ torn' = torn \cup {Len(takes) + 1}
        /\ UNCHANGED <<loc, sessions, shots, nodeRows, cam, late, requests, faults, calm, hurt>>
    BY <1>3 DEF FileTorn
  <2>4. takes' \in Seq(Take) /\ Len(takes') = Len(takes) + 1 /\ Len(takes) \in Nat
    BY <2>1, <2>2, <2>3, TakeMade
  <2>5. torn' \subseteq DOMAIN takes'
    <3>1. DOMAIN takes' = 1 .. Len(takes') /\ torn \subseteq 1 .. Len(takes)
      BY <2>4 DEF TInv, CountsOK, DataOK
    <3>2. 1 .. Len(takes) \subseteq 1 .. Len(takes') /\ Len(takes) + 1 \in 1 .. Len(takes')
      BY <2>4
    <3> QED
      BY <3>1, <3>2, <2>3
  <2> QED
    BY <2>3, <2>4, <2>5, TypeFail
<1> QED
  BY <1>1, <1>2, <1>3

(* A row of a shot that gets another counter.                              *)
LEMMA Counted ==
  ASSUME shots \in Seq(Shot), NEW i, NEW k \in Nat
  PROVE  /\ [shots EXCEPT ![i].next = k] \in Seq(Shot)
         /\ Len([shots EXCEPT ![i].next = k]) = Len(shots)
         /\ DOMAIN [shots EXCEPT ![i].next = k] = DOMAIN shots
         /\ \A s \in DOMAIN shots :
              /\ [shots EXCEPT ![i].next = k][s].session = shots[s].session
              /\ [shots EXCEPT ![i].next = k][s].name = shots[s].name
              /\ [shots EXCEPT ![i].next = k][s].next = IF s = i THEN k ELSE shots[s].next
<1> DEFINE after == [shots EXCEPT ![i].next = k]
<1>1. \A s \in DOMAIN shots : after[s] = IF s = i THEN [shots[s] EXCEPT !.next = k] ELSE shots[s]
  OBVIOUS
<1>2. \A s \in DOMAIN shots : [shots[s] EXCEPT !.next = k] \in Shot
  BY ShotRows DEF Shot
<1>3. DOMAIN after = 1 .. Len(shots) /\ Len(shots) \in Nat
  OBVIOUS
<1>4. \A s \in DOMAIN shots : after[s] \in Shot
  BY <1>1, <1>2, ShotRows
<1>5. after = [s \in 1 .. Len(shots) |-> after[s]]
  BY <1>3
<1>6. \A s \in DOMAIN shots : shots[s] \in Shot
  BY ShotRows
<1>7. after \in Seq(Shot) /\ Len(after) = Len(shots)
  <2> HIDE DEF after
  <2> QED
    BY <1>3, <1>4, <1>5, ShotRows
<1> QED
  BY <1>1, <1>3, <1>6, <1>7 DEF Shot

(* The counter of a shot is advanced.                                      *)
LEMMA TypeCount ==
  ASSUME TInv, NEW r \in Handlers, CountTake(r)
  PROVE  TInv'
<1>1. /\ GoOn(r, h[r]) /\ h[r].kind # "none" /\ loc' = h[r].loc
      /\ shots' = [shots EXCEPT ![h[r].loc.shot].next = h[r].next + 1]
      /\ UNCHANGED <<sessions, takes, nodeRows, cam, late, requests, faults, history>>
  BY DEF CountTake, Step
<1>2. h[r].next + 1 \in Nat
  BY OpenRecord
<1>3. shots' \in Seq(Shot) /\ Len(shots') = Len(shots)
  BY <1>1, <1>2, Counted DEF TInv, DataOK
<1>4. DataOK' /\ Len(shots) <= Len(shots') /\ RecordOK(h[r], Len(shots'))
      /\ DOMAIN takes \subseteq DOMAIN takes'
  BY <1>1, <1>3, OpenRecord DEF TInv, DataOK
<1> QED
  BY <1>1, <1>4, TypeGoOn

(* A session or a shot is made.                                            *)
LEMMA TypeCreate ==
  ASSUME TInv, NEW r \in Handlers, CreateSession(r) \/ CreateShot(r)
  PROVE  TInv'
<1>0. shots \in Seq(Shot) /\ Len(shots) \in Nat /\ sessions \in Nat
  BY DEF TInv, DataOK
<1>1. CASE CreateSession(r)
  <2> DEFINE new == [session |-> sessions + 1, name |-> 0, next |-> 1]
             l == [project |-> TRUE, session |-> sessions + 1, shot |-> Len(shots) + 1]
             x == [h[r] EXCEPT !.loc = l]
  <2>1. /\ GoOn(r, x) /\ sessions' = sessions + 1 /\ shots' = Append(shots, new)
        /\ h[r].kind # "none"
        /\ UNCHANGED <<loc, takes, nodeRows, cam, late, requests, faults, history>>
    BY <1>1 DEF CreateSession
  <2>2. new \in Shot /\ l \in Location /\ l.shot = Len(shots) + 1
    BY <1>0 DEF Shot, Location
  <2>3. shots' \in Seq(Shot) /\ Len(shots') = Len(shots) + 1
    <3> HIDE DEF new
    <3> QED
      BY <1>0, <2>1, <2>2
  <2>4. x \in Handler /\ x.kind = h[r].kind /\ x.at = h[r].at /\ x.loc = l
    <3> HIDE DEF l
    <3> QED
      BY <2>2, OpenRecord DEF Handler
  <2> HIDE DEF x, l, new
  <2>5. RecordOK(x, Len(shots')) /\ x.kind # "none"
    BY <1>0, <2>1, <2>2, <2>3, <2>4, OpenRecord DEF RecordOK
  <2>6. DataOK' /\ Len(shots) <= Len(shots') /\ DOMAIN takes \subseteq DOMAIN takes'
    BY <1>0, <2>1, <2>3 DEF TInv, DataOK, Location
  <2> QED
    BY <2>1, <2>5, <2>6, TypeGoOn
<1>2. CASE CreateShot(r) /\ h[r].loc.session = 0
  <2>1. /\ Fail(r) /\ takes' = takes /\ torn' = torn /\ UNCHANGED <<loc, sessions, shots>>
        /\ UNCHANGED <<nodeRows, cam, late, requests, faults, calm, hurt>>
    BY <1>2 DEF CreateShot, history
  <2>2. takes' \in Seq(Take) /\ torn' \subseteq DOMAIN takes'
    BY <2>1 DEF TInv, DataOK, CountsOK
  <2> QED
    BY <2>1, <2>2, TypeFail
<1>3. CASE CreateShot(r) /\ h[r].loc.session # 0
  <2> DEFINE l == h[r].loc
             name == IF l.shot = 0 THEN 0 ELSE shots[l.shot].name
             new == [session |-> l.session, name |-> UniqueName(name, l.session), next |-> 1]
             x == [h[r] EXCEPT !.loc.shot = Len(shots) + 1]
  <2>1. /\ GoOn(r, x) /\ shots' = Append(shots, new) /\ h[r].kind # "none"
        /\ UNCHANGED <<loc, sessions, takes, nodeRows, cam, late, requests, faults, history>>
    BY <1>3 DEF CreateShot
  <2>2. name \in Nat
    <3>1. l.shot # 0 => l.shot \in DOMAIN shots
      BY <1>0, OpenRecord
    <3> QED
      BY <3>1, ShotRows, <1>0
  <2>3. new \in Shot
    <3>1. UniqueName(name, l.session) \in Nat
      <4> HIDE DEF name, l
      <4> QED
        BY <1>0, <2>2, NameFound
    <3>2. l.session \in Nat
      BY OpenRecord DEF Location
    <3> HIDE DEF name
    <3> QED
      BY <3>1, <3>2 DEF Shot
  <2>4. shots' \in Seq(Shot) /\ Len(shots') = Len(shots) + 1
    <3> HIDE DEF new
    <3> QED
      BY <1>0, <2>1, <2>3
  <2>5. x \in Handler /\ x.kind = h[r].kind /\ x.at = h[r].at /\ x.loc.shot = Len(shots) + 1
    <3>1. [l EXCEPT !.shot = Len(shots) + 1] \in Location
          /\ [l EXCEPT !.shot = Len(shots) + 1].shot = Len(shots) + 1
      BY <1>0, OpenRecord DEF Location
    <3>2. x = [h[r] EXCEPT !.loc = [l EXCEPT !.shot = Len(shots) + 1]]
      BY OpenRecord DEF Handler, Location
    <3> HIDE DEF l, x
    <3> QED
      BY <3>1, <3>2, OpenRecord DEF Handler
  <2> HIDE DEF x, l, new
  <2>6. RecordOK(x, Len(shots')) /\ x.kind # "none"
    BY <1>0, <2>1, <2>4, <2>5, OpenRecord DEF RecordOK
  <2>7. DataOK' /\ Len(shots) <= Len(shots') /\ DOMAIN takes \subseteq DOMAIN takes'
    BY <1>0, <2>1, <2>4 DEF TInv, DataOK, Location
  <2> QED
    BY <2>1, <2>6, <2>7, TypeGoOn
<1> QED
  BY <1>1, <1>2, <1>3

(* The row of the location is saved.                                       *)
LEMMA TypeSave ==
  ASSUME TInv, NEW r \in Handlers, SaveNew(r) \/ SaveOptions(r) \/ DefaultProject(r)
  PROVE  TInv'
<1>1. PICK l : SaveRow(r, l) /\ (l = h[r].loc \/ l = [h[r].loc EXCEPT !.project = TRUE])
  BY DEF SaveNew, SaveOptions, DefaultProject
<1>2. l \in Location /\ l.shot <= Len(shots)
  <2>1. h[r].loc \in Location /\ h[r].loc.shot <= Len(shots)
    BY OpenRecord
  <2>2. [h[r].loc EXCEPT !.project = TRUE] \in Location
        /\ [h[r].loc EXCEPT !.project = TRUE].shot = h[r].loc.shot
    BY <2>1 DEF Location
  <2> QED
    BY <2>1, <2>2, <1>1
<1>3. /\ GoOn(r, h[r]) /\ h[r].kind # "none" /\ loc' = l
      /\ UNCHANGED <<sessions, shots, takes, nodeRows, cam, late, requests, faults, history>>
  BY <1>1 DEF SaveRow, Step
<1>4. DataOK' /\ Len(shots) <= Len(shots') /\ RecordOK(h[r], Len(shots'))
      /\ DOMAIN takes \subseteq DOMAIN takes'
  BY <1>2, <1>3, OpenRecord DEF TInv, DataOK
<1> QED
  BY <1>3, <1>4, TypeGoOn

(* A step of the nodes, or of what happens to them.                        *)
LEMMA TypeNodes ==
  ASSUME TInv, UNCHANGED <<database, h, requests, calm, torn>>,
         online' \in [Nodes -> BOOLEAN], row' \in [Nodes -> BOOLEAN],
         cam' \in [Nodes -> Camera], late' \subseteq late, faults' \in Nat, hurt' \subseteq Nodes
  PROVE  TInv'
<1>1. UNCHANGED <<loc, sessions, shots, takes>>
  BY DEF database
<1>2. RecordsOK'
  BY <1>1, NoRecord
<1>3. DataOK' /\ CountsOK'
  BY <1>1 DEF TInv, DataOK, CountsOK
<1>4. NodesOK'
  BY DEF TInv, NodesOK
<1> QED
  BY <1>2, <1>3, <1>4 DEF TInv

(* What a node does without a fault.                                       *)
LEMMA TypeNodeSteps ==
  ASSUME TInv, NEW n \in Nodes, BurstEnds(n) \/ Keepalive(n) \/ Replug(n) \/ Toggle(n)
  PROVE  TInv'
<1>1. UNCHANGED <<database, h, requests, calm, torn, hurt, late>>
  BY DEF BurstEnds, Keepalive, Replug, Toggle, history
<1>2. cam \in [Nodes -> Camera] /\ cam[n] \in Camera
  BY DEF TInv, NodesOK
<1>3. /\ [cam[n] EXCEPT !.rec = FALSE, !.summ = cam[n].made] \in Camera
      /\ [cam[n] EXCEPT !.plugged = TRUE, !.on = TRUE] \in Camera
      /\ [cam[n] EXCEPT !.on = ~@] \in Camera
  BY <1>2 DEF Camera
<1>4. cam' \in [Nodes -> Camera]
  <2>1. CASE BurstEnds(n)
    <3>1. cam' = [cam EXCEPT ![n] = [cam[n] EXCEPT !.rec = FALSE, !.summ = cam[n].made]]
      BY <2>1, <1>2 DEF BurstEnds
    <3> QED
      BY <3>1, <1>2, <1>3
  <2>2. CASE Keepalive(n)
    BY <2>2, <1>2 DEF Keepalive
  <2>3. CASE Replug(n)
    <3>1. cam' = [cam EXCEPT ![n] = [cam[n] EXCEPT !.plugged = TRUE, !.on = TRUE]]
      BY <2>3, <1>2 DEF Replug
    <3> QED
      BY <3>1, <1>2, <1>3
  <2>4. CASE Toggle(n)
    <3>1. cam' = [cam EXCEPT ![n] = [cam[n] EXCEPT !.on = ~@]]
      BY <2>4, <1>2 DEF Toggle
    <3> QED
      BY <3>1, <1>2, <1>3
  <2> QED
    BY <2>1, <2>2, <2>3, <2>4
<1>5. online' \in [Nodes -> BOOLEAN] /\ row' \in [Nodes -> BOOLEAN]
  <2>1. cam[n].plugged \in BOOLEAN
    BY <1>2 DEF Camera
  <2> QED
    BY <2>1 DEF BurstEnds, Keepalive, Replug, Toggle, nodeRows, TInv, NodesOK
<1>6. faults' \in Nat /\ hurt \subseteq Nodes
  BY DEF BurstEnds, Keepalive, Replug, Toggle, Spend, TInv, CountsOK
<1> QED
  BY <1>1, <1>4, <1>5, <1>6, TypeNodes

(* A fault happens to a node, or a camera is plugged in again.             *)
LEMMA TypeFaults ==
  ASSUME TInv, NEW n \in Nodes, Lapse(n) \/ Unplug(n) \/ Crash(n) \/ CloseNode(n)
  PROVE  TInv'
<1>1. PICK f : Fault(f, n)
  BY DEF Lapse, Unplug, Crash, CloseNode
<1>2. UNCHANGED <<database, h, requests, calm, torn>> /\ faults' \in Nat /\ hurt' \subseteq Nodes
  BY <1>1 DEF Fault, Spend, TInv, CountsOK
<1>3. cam \in [Nodes -> Camera] /\ cam[n] \in Camera /\ cam[n].plugged \in BOOLEAN
      /\ cam[n].made \in Nat
  BY DEF TInv, NodesOK, Camera
<1>4. cam' \in [Nodes -> Camera]
  <2>1. [cam[n] EXCEPT !.plugged = FALSE] \in Camera
        /\ Preview(cam[n].plugged, cam[n].made) \in Camera
    BY <1>3 DEF Camera, Preview
  <2>2. CASE Lapse(n)
    BY <2>2, <1>3 DEF Lapse
  <2>3. CASE Unplug(n)
    <3>1. cam' = [cam EXCEPT ![n] = [cam[n] EXCEPT !.plugged = FALSE]]
      BY <2>3, <1>3 DEF Unplug
    <3> QED
      BY <3>1, <2>1, <1>3
  <2>4. CASE Restarted(n)
    BY <2>4, <2>1, <1>3 DEF Restarted
  <2> QED
    BY <2>2, <2>3, <2>4 DEF Crash, CloseNode
<1>5. late' \subseteq late
  BY DEF Lapse, Unplug, Crash, CloseNode, Restarted
<1>6. online' \in [Nodes -> BOOLEAN] /\ row' \in [Nodes -> BOOLEAN]
  BY DEF Lapse, Unplug, Crash, CloseNode, Restarted, nodeRows, TInv, NodesOK
<1> QED
  BY <1>2, <1>4, <1>5, <1>6, TypeNodes

(* A node executes a request that nobody waits for.                        *)
LEMMA TypeLateRuns ==
  ASSUME TInv, NEW m \in late, LateRuns(m)
  PROVE  TInv'
<1>1. /\ UNCHANGED <<database, h, requests, calm, torn>> /\ UNCHANGED <<online, row, faults, hurt>>
      /\ late' \subseteq late
  BY DEF LateRuns, nodeRows, history
<1>2. m.node \in Nodes /\ m.op \in NodeSteps
  BY DEF TInv, NodesOK, Late
<1>3. cam' \in [Nodes -> Camera]
  BY <1>2, Executed DEF LateRuns, TInv, NodesOK
<1> QED
  BY <1>1, <1>3, TypeNodes DEF TInv, NodesOK, CountsOK

(* Every step keeps the types.                                             *)
LEMMA TypeStep == TInv /\ [Next]_vars => TInv'
<1> SUFFICES ASSUME TInv, [Next]_vars PROVE TInv'
  OBVIOUS
<1>1. CASE UNCHANGED vars
  <2>1. UNCHANGED <<database, h, requests, calm, torn, online, row, cam, late, faults, hurt>>
    BY <1>1 DEF vars, database
  <2> QED
    BY <2>1, TypeNodes DEF TInv, NodesOK, CountsOK
<1>2. ASSUME NEW r \in Handlers, NEW kind \in Kinds, Open(r, kind) PROVE TInv'
  BY <1>2, TypeOpen
<1>3. ASSUME NEW r \in Handlers, Work(r) PROVE TInv'
  <2>1. ASSUME NEW n \in Nodes, Answer(r, n) PROVE TInv'
    BY <2>1, TypeAnswer
  <2>2. ASSUME NEW n \in Nodes, GiveUp(r, n) PROVE TInv'
    BY <2>2, TypeUnanswered DEF GiveUp, TInv, CountsOK
  <2> QED
    BY <1>3, <2>1, <2>2, TypeBarrier, TypeSlate, TypeFile, TypeCount, TypeCreate, TypeSave DEF Work
<1>4. ASSUME NEW r \in Handlers, NEW n \in Nodes, Lose(r, n) PROVE TInv'
  BY <1>4, TypeUnanswered DEF Lose, Spend, TInv, CountsOK
<1>5. ASSUME NEW m \in late, LateRuns(m) PROVE TInv'
  BY <1>5, TypeLateRuns
<1>6. ASSUME NEW n \in Nodes, BurstEnds(n) \/ Keepalive(n) \/ Disturb(n) PROVE TInv'
  BY <1>6, TypeNodeSteps, TypeFaults DEF Disturb
<1> QED
  BY <1>1, <1>2, <1>3, <1>4, <1>5, <1>6 DEF Next

(* TypeOK: handlers that overlap, and answers that come late, keep every   *)
(* row and request to the states the code can put it in.                   *)
THEOREM TypeCorrect == Spec => []TypeOK
<1>1. Spec => []TInv
  BY TypeInit, TypeStep, PTL DEF Spec
<1> QED
  BY <1>1, TypesFollow, PTL

-----------------------------------------------------------------------------
(* A clip is filed in one take at most.                                    *)

\* What a node still has to report is its latest clip, and it is made.
CamOK(c) == /\ c.rec => c.summ = 0 /\ c.made # 0
            /\ c.summ \in {0, c.made}

\* The clip that a node reported is not reported again.
Spent(k, c) == k <= c.made /\ (k = c.made => ~c.rec /\ c.summ = 0)

CamInv    == \A n \in Nodes : CamOK(cam[n])
SpentInv  == /\ \A r \in Handlers : \A e \in h[r].got : Spent(e[2], cam[e[1]])
             /\ \A t \in DOMAIN takes : \A e \in takes[t].clips : Spent(e[2], cam[e[1]])
ApartInv  == /\ \A r, q \in Handlers : r # q => h[r].got \cap h[q].got = {}
             /\ \A r \in Handlers : \A t \in DOMAIN takes : h[r].got \cap takes[t].clips = {}

ClipInv == CamInv /\ SpentInv /\ ApartInv /\ ClipInOneTake

\* How a camera goes on: with a new clip, or with nothing new to report.
Ages(c, d) ==
  /\ CamOK(c) => CamOK(d)
  /\ \/ d.made > c.made
     \/ d.made = c.made /\ (d.rec => c.rec) /\ (d.summ # 0 => c.rec \/ c.summ # 0)

CamAges    == \A n \in Nodes : Ages(cam[n], cam'[n])
GotShrinks == \A r \in Handlers : h'[r].got \subseteq h[r].got

(* What was reported stays so.                                             *)
LEMMA StaysSpent ==
  ASSUME NEW c \in Camera, NEW d \in Camera, NEW k \in Nat, Ages(c, d), Spent(k, c)
  PROVE  Spent(k, d)
BY DEF Ages, Spent, Camera

(* A camera executes a request.                                            *)
LEMMA ExecutionAges ==
  ASSUME NEW c \in Camera, NEW op
  PROVE  Ages(c, Execute(c, op))
<1>1. ASSUME NEW b \in BOOLEAN PROVE Ages(c, Prepare(c, b))
  BY DEF Prepare, Ages, CamOK, Camera
<1>2. Ages(c, Stop(c))
  BY DEF Stop, Ages, CamOK, Camera
<1>3. Ages(c, Finalize(c))
  BY DEF Finalize, Ages, CamOK, Camera
<1>4. Ages(c, [c EXCEPT !.hold = IF c.listed THEN FALSE ELSE @, !.sync = FALSE])
  BY DEF Ages, CamOK, Camera
<1>5. \A b \in BOOLEAN : Ages(c, [c EXCEPT !.sync = b]) /\ Ages(c, c)
  BY DEF Ages, CamOK, Camera
<1> QED
  BY <1>1, <1>2, <1>3, <1>4, <1>5 DEF Execute

(* What a node reports is its latest clip, and it has not reported it.     *)
LEMMA Reports ==
  ASSUME TInv, CamInv, NEW n \in Nodes, NEW op, ~Blocked(cam[n], op)
  PROVE  \/ Reply(n, op) = {}
         \/ LET c == cam[n]
                d == Execute(c, op)
            IN  /\ Reply(n, op) = {<<n, c.made>>} /\ (c.rec \/ c.summ # 0)
                /\ d.made = c.made /\ ~d.rec /\ d.summ = 0
<1> DEFINE c == cam[n]
<1>0. c \in Camera /\ CamOK(c)
  BY DEF TInv, NodesOK, CamInv
<1>1. CASE op = "stop" /\ c.listed /\ c.rec
  <2>1. Reply(n, op) = {<<n, c.made>>} /\ Execute(c, op) = Stop(c)
    BY <1>1 DEF Reply, Execute
  <2> QED
    BY <1>0, <1>1, <2>1 DEF Stop, Camera
<1>2. CASE op = "finalize" /\ c.listed /\ c.summ # 0
  <2>1. Reply(n, op) = {<<n, c.summ>>} /\ Execute(c, op) = Finalize(c) /\ c.summ = c.made /\ ~c.rec
    BY <1>0, <1>2 DEF Reply, Execute, CamOK, Camera
  <2> QED
    BY <1>0, <1>2, <2>1 DEF Finalize, Camera
<1> QED
  BY <1>1, <1>2 DEF Reply

(* Nothing is reported or filed.                                           *)
LEMMA ClipsKept ==
  ASSUME TInv, TInv', ClipInv, CamAges, GotShrinks, takes' = takes
  PROVE  ClipInv'
<1>0. /\ \A n \in Nodes : cam[n] \in Camera /\ cam'[n] \in Camera
      /\ \A r \in Handlers : h[r].got \in SUBSET Clips
      /\ \A t \in DOMAIN takes : takes[t].clips \in SUBSET Clips
  <2>1. \A t \in DOMAIN takes : takes[t] \in Take
    BY DEF TInv, DataOK
  <2> QED
    BY <2>1, OpenRecord DEF TInv, NodesOK, Take
<1>1. CamInv'
  BY DEF ClipInv, CamInv, CamAges, Ages
<1>2. \A e \in Clips : Spent(e[2], cam[e[1]]) => Spent(e[2], cam'[e[1]])
  BY <1>0, StaysSpent DEF CamAges, Clips
<1>3. SpentInv'
  BY <1>0, <1>2 DEF ClipInv, SpentInv, GotShrinks
<1>4. ApartInv' /\ ClipInOneTake'
  BY DEF ClipInv, ApartInv, ClipInOneTake, GotShrinks
<1> QED
  BY <1>1, <1>3, <1>4 DEF ClipInv

(* Take rows keep their clips, that are clips.                             *)
LEMMA TakeRows ==
  ASSUME TInv
  PROVE  \A t \in DOMAIN takes : takes[t] \in Take /\ takes[t].clips \in SUBSET Clips
<1>1. \A t \in DOMAIN takes : takes[t] \in Take
  BY DEF TInv, DataOK
<1> QED
  BY <1>1 DEF Take

(* A node answers.                                                         *)
LEMMA ClipsAnswer ==
  ASSUME TInv, TInv', ClipInv, NEW r \in Handlers, NEW n \in Nodes, Answer(r, n)
  PROVE  ClipInv'
<1> DEFINE c == cam[n]
           d == Execute(cam[n], Step(r))
<1>1. /\ cam' = [cam EXCEPT ![n] = d] /\ takes' = takes /\ ~Blocked(c, Step(r))
      /\ h' = [h EXCEPT ![r].pend = @ \ {n}, ![r].got = @ \cup Reply(n, Step(r))]
  BY DEF Answer, database
<1>2. cam \in [Nodes -> Camera] /\ h \in [Handlers -> Handler] /\ c \in Camera
  BY DEF TInv, NodesOK, RecordsOK
<1>3. h'[r].got = h[r].got \cup Reply(n, Step(r)) /\ \A q \in Handlers : q # r => h'[q] = h[q]
  BY <1>1, <1>2 DEF Handler
<1>4. cam'[n] = d /\ \A m \in Nodes : m # n => cam'[m] = cam[m]
  BY <1>1, <1>2
<1>5. CamAges
  <2>1. Ages(c, d)
    BY <1>2, ExecutionAges
  <2>2. \A m \in Nodes : Ages(cam[m], cam[m])
    BY <1>2 DEF Ages, Camera
  <2> HIDE DEF c, d
  <2> QED
    BY <1>4, <2>1, <2>2 DEF CamAges, c
<1>6. CASE Reply(n, Step(r)) = {}
  <2>1. GotShrinks
    BY <1>3, <1>6 DEF GotShrinks
  <2> QED
    BY <1>1, <1>5, <2>1, ClipsKept
<1>7. CASE Reply(n, Step(r)) = {<<n, c.made>>}
  <2> DEFINE e == <<n, c.made>>
  <2>1. (c.rec \/ c.summ # 0) /\ d.made = c.made /\ ~d.rec /\ d.summ = 0
    <3>1. Reply(n, Step(r)) # {}
      BY <1>7
    <3> QED
      BY <3>1, <1>1, Reports DEF ClipInv
  <2>2. ~Spent(e[2], cam[e[1]])
    BY <2>1 DEF Spent
  <2>3. Spent(e[2], cam'[e[1]])
    <3>1. c.made \in Nat
      BY <1>2 DEF Camera
    <3> HIDE DEF d
    <3> QED
      BY <2>1, <3>1, <1>4 DEF Spent
  <2>4. /\ \A q \in Handlers : e \notin h[q].got
        /\ \A t \in DOMAIN takes : e \notin takes[t].clips
    BY <2>2 DEF ClipInv, SpentInv
  <2>5. CamInv'
    BY <1>5 DEF ClipInv, CamInv, CamAges, Ages
  <2>6. \A f \in Clips : Spent(f[2], cam[f[1]]) => Spent(f[2], cam'[f[1]])
    BY <1>2, <1>5, StaysSpent DEF CamAges, Clips, TInv, NodesOK
  <2>7. h'[r].got = h[r].got \cup {e}
    BY <1>3, <1>7
  <2> HIDE DEF e, c, d
  <2>8. SpentInv'
    <3>1. \A q \in Handlers : h[q].got \in SUBSET Clips
      BY OpenRecord
    <3>2. \A q \in Handlers : \A f \in h'[q].got : Spent(f[2], cam'[f[1]])
      <4>1. ASSUME NEW q \in Handlers, NEW f \in h'[q].got PROVE f = e \/ f \in h[q].got
        BY <4>1, <1>3, <2>7
      <4> QED
        BY <4>1, <3>1, <2>3, <2>6 DEF ClipInv, SpentInv
    <3>3. \A t \in DOMAIN takes : \A f \in takes[t].clips : Spent(f[2], cam'[f[1]])
      BY TakeRows, <2>6 DEF ClipInv, SpentInv
    <3> QED
      BY <1>1, <3>2, <3>3 DEF SpentInv
  <2>9. ApartInv' /\ ClipInOneTake'
    <3>1. \A p, q \in Handlers : p # q => h'[p].got \cap h'[q].got = {}
      BY <1>3, <2>4, <2>7 DEF ClipInv, ApartInv
    <3>2. \A q \in Handlers : \A t \in DOMAIN takes : h'[q].got \cap takes[t].clips = {}
      BY <1>3, <2>4, <2>7 DEF ClipInv, ApartInv
    <3> QED
      BY <1>1, <3>1, <3>2 DEF ApartInv, ClipInv, ClipInOneTake
  <2> QED
    BY <2>5, <2>8, <2>9 DEF ClipInv
<1> QED
  BY <1>1, <1>6, <1>7, Reports DEF ClipInv

\* A take is made of clips that r was told of, and r forgets them.
Files(r) ==
  /\ \E clips \in SUBSET h[r].got : Filing(r) /\ takes' = NewTake(h[r], clips)
  /\ h'[r].got = {} /\ \A q \in Handlers : q # r => h'[q] = h[q]
  /\ UNCHANGED cam

(* Clips move from a request to the take it makes.                         *)
LEMMA ClipsFiled ==
  ASSUME TInv, TInv', ClipInv, NEW r \in Handlers, Files(r)
  PROVE  ClipInv'
<1>1. PICK clips \in SUBSET h[r].got : Filing(r) /\ takes' = NewTake(h[r], clips)
  BY DEF Files
<1> DEFINE last == Len(takes) + 1
<1>2. /\ DOMAIN takes' = DOMAIN takes \cup {last} /\ last \notin DOMAIN takes
      /\ \A t \in DOMAIN takes : takes'[t] = takes[t]
      /\ takes'[last].clips = clips
  <2>1. clips \in SUBSET Clips
    BY OpenRecord
  <2> DEFINE after == NewTake(h[r], clips)
  <2>4. after \in Seq(Take) /\ Len(after) = last /\ Len(takes) \in Nat
        /\ (\A t \in DOMAIN takes : after[t] = takes[t]) /\ after[last].clips = clips
    <3>1. /\ after \in Seq(Take) /\ Len(after) = Len(takes) + 1 /\ Len(takes) \in Nat
          /\ \A t \in DOMAIN takes : after[t] = takes[t]
      BY <1>1, <2>1, TakeMade
    <3>2. after[Len(takes) + 1] = [shot |-> h[r].loc.shot, seq |-> NextTake(h[r]), clips |-> clips]
      BY <1>1, <2>1, TakeMade
    <3> HIDE DEF after
    <3> QED
      BY <3>1, <3>2
  <2> HIDE DEF after
  <2>2. takes' \in Seq(Take) /\ Len(takes') = last /\ Len(takes) \in Nat
        /\ (\A t \in DOMAIN takes : takes'[t] = takes[t]) /\ takes'[last].clips = clips
    BY <1>1, <2>4 DEF after
  <2>3. DOMAIN takes = 1 .. Len(takes) /\ DOMAIN takes' = 1 .. last
    BY <2>2 DEF TInv, DataOK
  <2> QED
    BY <2>2, <2>3
<1>3. cam' = cam /\ h'[r].got = {} /\ \A q \in Handlers : q # r => h'[q] = h[q]
  BY DEF Files
<1> HIDE DEF last
<1>4. CamInv'
  BY <1>3 DEF ClipInv, CamInv
<1>5. SpentInv'
  BY <1>2, <1>3 DEF ClipInv, SpentInv
<1>6. ApartInv'
  <2>1. \A p, q \in Handlers : p # q => h'[p].got \cap h'[q].got = {}
    BY <1>3 DEF ClipInv, ApartInv
  <2>2. \A q \in Handlers : \A t \in DOMAIN takes : h'[q].got \cap takes'[t].clips = {}
    BY <1>2, <1>3 DEF ClipInv, ApartInv
  <2>3. \A q \in Handlers : h'[q].got \cap takes'[last].clips = {}
    BY <1>2, <1>3 DEF ClipInv, ApartInv
  <2> QED
    BY <1>2, <2>1, <2>2, <2>3 DEF ApartInv
<1>7. ClipInOneTake'
  <2>1. \A t \in DOMAIN takes : takes'[t].clips \cap takes'[last].clips = {}
    BY <1>2 DEF ClipInv, ApartInv
  <2> QED
    BY <1>2, <2>1 DEF ClipInv, ClipInOneTake
<1> QED
  BY <1>4, <1>5, <1>6, <1>7 DEF ClipInv

(* A handler that goes on, or stops, has no clips it did not have.         *)
LEMMA GoesOnGot ==
  ASSUME TInv, NEW r \in Handlers, h[r].kind # "none",
         \/ Fail(r)
         \/ \E x \in Handler : GoOn(r, x) /\ x.got \subseteq h[r].got
  PROVE  GotShrinks
<1>1. h \in [Handlers -> Handler]
  BY DEF TInv, RecordsOK
<1>2. CASE Fail(r)
  BY <1>1, <1>2 DEF Fail, Idle, GotShrinks
<1>3. ASSUME NEW x \in Handler, GoOn(r, x), x.got \subseteq h[r].got PROVE GotShrinks
  <2>1. Advance(x).got \subseteq x.got
    BY DEF Advance, Idle, Handler
  <2> QED
    BY <1>1, <1>3, <2>1 DEF GoOn, GotShrinks
<1> QED
  BY <1>2, <1>3

(* No camera has changed.                                                  *)
LEMMA Unaged == ASSUME TInv, cam' = cam PROVE CamAges
BY DEF TInv, NodesOK, Camera, CamAges, Ages

(* What a step of a handler does to clips and cameras.                     *)
LEMMA WorkClips ==
  ASSUME TInv, NEW r \in Handlers, Work(r)
  PROVE  \/ CamAges /\ GotShrinks /\ takes' = takes
         \/ \E n \in Nodes : Answer(r, n)
         \/ Files(r)
<1>0. h[r] \in Handler /\ h[r].loc \in Location /\ h \in [Handlers -> Handler]
  BY OpenRecord DEF TInv, RecordsOK
<1>1. ASSUME NEW n \in Nodes, GiveUp(r, n) PROVE CamAges /\ GotShrinks /\ takes' = takes
  <2>1. h' = [h EXCEPT ![r].pend = @ \ {n}] /\ takes' = takes /\ cam' = cam
    BY <1>1 DEF GiveUp, Unanswered, database
  <2> QED
    BY <1>0, <2>1, Unaged DEF GotShrinks, Handler
<1>2. CASE Barrier(r) \/ ReadLocation(r)
  <2>1. h[r].kind # "none" /\ cam' = cam /\ takes' = takes
    BY <1>2 DEF Barrier, ReadLocation, Step, NodeSteps, database
  <2>2. PICK x : GoOn(r, x) /\ (x = h[r] \/ x = [h[r] EXCEPT !.loc = loc])
    BY <1>2 DEF Barrier, ReadLocation
  <2>3. x \in Handler /\ x.got = h[r].got
    BY <1>0, <2>2 DEF Handler, TInv, DataOK
  <2> QED
    BY <2>1, <2>2, <2>3, GoesOnGot, Unaged
<1>3. CASE Slate(r)
  <2>1. h[r].kind # "none" /\ cam' = cam /\ takes' = takes
    BY <1>3 DEF Slate, Step
  <2>2. PICK l, k : GoOn(r, [h[r] EXCEPT !.loc = l, !.next = k])
    BY <1>3 DEF Slate
  <2>3. Advance([h[r] EXCEPT !.loc = l, !.next = k]).got \subseteq h[r].got
    BY <1>0 DEF Advance, Idle, Handler
  <2>4. GotShrinks
    BY <1>0, <2>2, <2>3 DEF GoOn, GotShrinks
  <2> QED
    BY <2>1, <2>4, Unaged
<1>4. CASE Unfiled(r)
  <2>1. h[r].kind # "none" /\ cam' = cam /\ takes' = takes /\ Fail(r)
    BY <1>4 DEF Unfiled, Step, database
  <2> QED
    BY <2>1, GoesOnGot, Unaged
<1>5. CASE FileTake(r)
  <2> DEFINE x == [h[r] EXCEPT !.next = NextTake(h[r]), !.got = {}]
  <2>1. Filing(r) /\ takes' = NewTake(h[r], h[r].got) /\ GoOn(r, x) /\ cam' = cam
    BY <1>5 DEF FileTake
  <2>2. Advance(x).got = {}
    BY <1>0 DEF Advance, Idle, Handler
  <2> HIDE DEF x
  <2>3. h'[r].got = {} /\ \A q \in Handlers : q # r => h'[q] = h[q]
    BY <1>0, <2>1, <2>2 DEF GoOn
  <2> QED
    BY <2>1, <2>3 DEF Files
<1>6. CASE FileTorn(r)
  <2>1. Filing(r) /\ Fail(r) /\ cam' = cam
    BY <1>6 DEF FileTorn
  <2>2. PICK clips \in SUBSET {c \in h[r].got : row[c[1]]} : takes' = NewTake(h[r], clips)
    BY <1>6 DEF FileTorn
  <2>3. h'[r].got = {} /\ \A q \in Handlers : q # r => h'[q] = h[q]
    BY <1>0, <2>1 DEF Fail, Idle
  <2> QED
    BY <2>1, <2>2, <2>3 DEF Files
<1>7. CASE CountTake(r) \/ SaveNew(r) \/ SaveOptions(r) \/ DefaultProject(r)
  <2>1. h[r].kind # "none" /\ cam' = cam /\ takes' = takes /\ GoOn(r, h[r])
    BY <1>7 DEF CountTake, SaveNew, SaveOptions, DefaultProject, SaveRow, Step
  <2> QED
    BY <1>0, <2>1, GoesOnGot, Unaged
<1>8. CASE CreateSession(r) \/ CreateShot(r)
  <2>1. h[r].kind # "none" /\ cam' = cam /\ takes' = takes
    BY <1>8 DEF CreateSession, CreateShot
  <2>2. CASE Fail(r)
    BY <2>1, <2>2, GoesOnGot, Unaged
  <2>3. CASE \E l : GoOn(r, [h[r] EXCEPT !.loc = l])
    <3>1. PICK l : GoOn(r, [h[r] EXCEPT !.loc = l])
      BY <2>3
    <3>2. Advance([h[r] EXCEPT !.loc = l]).got \subseteq h[r].got
      BY <1>0 DEF Advance, Idle, Handler
    <3>3. GotShrinks
      BY <1>0, <3>1, <3>2 DEF GoOn, GotShrinks
    <3> QED
      BY <2>1, <3>3, Unaged
  <2>4. Fail(r) \/ \E l : GoOn(r, [h[r] EXCEPT !.loc = l])
    <3>1. [h[r] EXCEPT !.loc.shot = Len(shots) + 1]
            = [h[r] EXCEPT !.loc = [h[r].loc EXCEPT !.shot = Len(shots) + 1]]
      BY <1>0 DEF Handler
    <3> QED
      BY <1>8, <3>1 DEF CreateSession, CreateShot
  <2> QED
    BY <2>2, <2>3, <2>4
<1> QED
  BY <1>1, <1>2, <1>3, <1>4, <1>5, <1>6, <1>7, <1>8 DEF Work

(* A node on its own reports no clip.                                      *)
LEMMA NodeClips ==
  ASSUME TInv, NEW n \in Nodes, BurstEnds(n) \/ Keepalive(n) \/ Disturb(n)
  PROVE  CamAges /\ GotShrinks /\ takes' = takes
<1>1. h' = h /\ takes' = takes
  BY DEF BurstEnds, Keepalive, Disturb, Lapse, Unplug, Replug, Crash, CloseNode, Toggle,
         Fault, database
<1>2. cam \in [Nodes -> Camera] /\ cam[n] \in Camera
  BY DEF TInv, NodesOK
<1>3. PICK d : Ages(cam[n], d) /\ (cam' = cam \/ cam' = [cam EXCEPT ![n] = d])
  <2>1. CASE Lapse(n) \/ Keepalive(n)
    <3>1. Ages(cam[n], cam[n])
      BY <1>2 DEF Ages, Camera
    <3> QED
      BY <2>1, <3>1 DEF Lapse, Keepalive
  <2>2. CASE BurstEnds(n)
    <3> DEFINE d == [cam[n] EXCEPT !.rec = FALSE, !.summ = cam[n].made]
    <3>1. Ages(cam[n], d)
      BY <1>2, <2>2 DEF Ages, CamOK, Camera, BurstEnds
    <3>2. cam' = [cam EXCEPT ![n] = d]
      BY <1>2, <2>2 DEF BurstEnds
    <3> QED
      BY <3>1, <3>2
  <2>3. CASE Replug(n)
    <3> DEFINE d == [cam[n] EXCEPT !.plugged = TRUE, !.on = TRUE]
    <3>1. Ages(cam[n], d)
      BY <1>2 DEF Ages, CamOK, Camera
    <3>2. cam' = [cam EXCEPT ![n] = d]
      BY <1>2, <2>3 DEF Replug
    <3> QED
      BY <3>1, <3>2
  <2>4. CASE Unplug(n)
    <3> DEFINE d == [cam[n] EXCEPT !.plugged = FALSE]
    <3>1. Ages(cam[n], d)
      BY <1>2 DEF Ages, CamOK, Camera
    <3>2. cam' = [cam EXCEPT ![n] = d]
      BY <1>2, <2>4 DEF Unplug
    <3> QED
      BY <3>1, <3>2
  <2>5. CASE Toggle(n)
    <3> DEFINE d == [cam[n] EXCEPT !.on = ~@]
    <3>1. Ages(cam[n], d)
      BY <1>2 DEF Ages, CamOK, Camera
    <3>2. cam' = [cam EXCEPT ![n] = d]
      BY <1>2, <2>5 DEF Toggle
    <3> QED
      BY <3>1, <3>2
  <2>6. CASE Restarted(n)
    <3> DEFINE d == Preview(cam[n].plugged, cam[n].made)
    <3>1. Ages(cam[n], d)
      BY <1>2 DEF Ages, CamOK, Camera, Preview
    <3>2. cam' = [cam EXCEPT ![n] = d]
      BY <2>6 DEF Restarted
    <3> QED
      BY <3>1, <3>2
  <2> QED
    BY <2>1, <2>2, <2>3, <2>4, <2>5, <2>6 DEF Disturb, Crash, CloseNode
<1>4. CamAges
  <2>1. \A m \in Nodes : Ages(cam[m], cam[m])
    BY <1>2 DEF Ages, Camera
  <2> QED
    BY <1>2, <1>3, <2>1 DEF CamAges
<1> QED
  BY <1>1, <1>4 DEF GotShrinks

(* A late request reports no clip to anybody.                              *)
LEMMA LateClips ==
  ASSUME TInv, NEW m \in late, LateRuns(m)
  PROVE  CamAges /\ GotShrinks /\ takes' = takes
<1>1. m.node \in Nodes /\ cam \in [Nodes -> Camera] /\ cam[m.node] \in Camera
  BY DEF TInv, NodesOK, Late
<1>2. h' = h /\ takes' = takes /\ cam' = [cam EXCEPT ![m.node] = Execute(cam[m.node], m.op)]
  BY DEF LateRuns, database
<1>3. Ages(cam[m.node], Execute(cam[m.node], m.op))
  BY <1>1, ExecutionAges
<1>4. \A k \in Nodes : Ages(cam[k], cam[k])
  BY <1>1 DEF Ages, Camera
<1> QED
  BY <1>1, <1>2, <1>3, <1>4 DEF CamAges, GotShrinks

(* A new request has no clips.                                             *)
LEMMA OpenClips ==
  ASSUME TInv, NEW r \in Handlers, NEW kind \in Kinds, Open(r, kind)
  PROVE  CamAges /\ GotShrinks /\ takes' = takes
<1>1. PICK p, l : h' = [h EXCEPT ![r] = [Idle EXCEPT !.kind = kind, !.at = 1, !.page = p, !.loc = l,
                                         !.nodes = Online, !.pend = Online]]
  BY DEF Open
<1>2. h \in [Handlers -> Handler] /\ takes' = takes /\ cam' = cam
  BY DEF Open, database, TInv, RecordsOK
<1>3. h'[r].got = {}
  BY <1>1, <1>2 DEF Idle
<1>4. GotShrinks
  BY <1>1, <1>2, <1>3 DEF GotShrinks
<1> QED
  BY <1>2, <1>4, Unaged

(* Every step keeps a clip in one place.                                   *)
LEMMA ClipStep == TInv /\ ClipInv /\ [Next]_vars => ClipInv'
<1> SUFFICES ASSUME TInv, ClipInv, [Next]_vars PROVE ClipInv'
  OBVIOUS
<1>0. TInv'
  BY TypeStep
<1>1. CASE UNCHANGED vars
  <2>1. GotShrinks /\ takes' = takes /\ cam' = cam
    BY <1>1 DEF vars, GotShrinks
  <2> QED
    BY <1>0, <2>1, Unaged, ClipsKept
<1>2. ASSUME NEW r \in Handlers, NEW kind \in Kinds, Open(r, kind) PROVE ClipInv'
  BY <1>0, <1>2, OpenClips, ClipsKept
<1>3. ASSUME NEW r \in Handlers, Work(r) PROVE ClipInv'
  BY <1>0, <1>3, WorkClips, ClipsKept, ClipsAnswer, ClipsFiled
<1>4. ASSUME NEW r \in Handlers, NEW n \in Nodes, Lose(r, n) PROVE ClipInv'
  <2>1. h' = [h EXCEPT ![r].pend = @ \ {n}] /\ takes' = takes /\ cam' = cam
    BY <1>4 DEF Lose, Unanswered, database
  <2>2. GotShrinks
    BY <2>1 DEF GotShrinks, Handler, TInv, RecordsOK
  <2> QED
    BY <1>0, <2>1, <2>2, Unaged, ClipsKept
<1>5. ASSUME NEW m \in late, LateRuns(m) PROVE ClipInv'
  BY <1>0, <1>5, LateClips, ClipsKept
<1>6. ASSUME NEW n \in Nodes, BurstEnds(n) \/ Keepalive(n) \/ Disturb(n) PROVE ClipInv'
  BY <1>0, <1>6, NodeClips, ClipsKept
<1> QED
  BY <1>1, <1>2, <1>3, <1>4, <1>5, <1>6 DEF Next

(* ClipInOneTake: stop_recording_all and finalize_single forget a clip     *)
(* when they report it, so that no two takes share one.                    *)
THEOREM ClipsFiledOnce == Spec => []ClipInOneTake
<1>1. Init => ClipInv
  BY DEF Init, ClipInv, CamInv, CamOK, SpentInv, ApartInv, ClipInOneTake, Preview, Idle
<1>2. ClipInv => ClipInOneTake
  BY DEF ClipInv
<1> QED
  BY TypeInit, TypeStep, <1>1, <1>2, ClipStep, PTL DEF Spec

-----------------------------------------------------------------------------
(* What a step of a handler is, phase by phase.                            *)

Active(r) == h[r].kind # "none"
AtPhase(x, kind, phases) == x.kind = kind /\ x.at \in phases

\* Only the record of r changes: it waits for one node less, goes on, or ends.
OnlyR(r)    == \A q \in Handlers : q # r => h'[q] = h[q]
Stayed(r, n) ==
  /\ OnlyR(r) /\ h'[r].kind = h[r].kind /\ h'[r].at = h[r].at /\ h'[r].loc = h[r].loc
  /\ h'[r].next = h[r].next /\ h'[r].page = h[r].page /\ h'[r].nodes = h[r].nodes
  /\ h'[r].pend = h[r].pend \ {n}
WentOn(r) ==
  /\ OnlyR(r) /\ h'[r].kind = h[r].kind /\ h'[r].at = h[r].at + 1
  /\ h'[r].page = h[r].page /\ h'[r].nodes = h[r].nodes /\ h'[r].pend = h[r].nodes
Ended(r) == OnlyR(r) /\ h'[r] = Idle

(* Where the handler of a phase is.                                        *)
LEMMA Phases ==
  ASSUME TInv, NEW r \in Handlers
  PROVE  /\ Step(r) = "slate" <=> AtPhase(h[r], "start", {1}) \/ AtPhase(h[r], "single", {6})
         /\ Step(r) = "prepare" <=> AtPhase(h[r], "start", {2})
         /\ Step(r) = "prepare_single" <=> AtPhase(h[r], "single", {1})
         /\ Step(r) = "stop" <=> AtPhase(h[r], "stop", {2})
         /\ Step(r) = "finalize" <=> AtPhase(h[r], "single", {4})
         /\ Step(r) = "read" <=> AtPhase(h[r], "single", {5})
         /\ Step(r) = "file" <=> AtPhase(h[r], "stop", {4}) \/ AtPhase(h[r], "single", {7})
         /\ Step(r) = "count" <=> AtPhase(h[r], "stop", {5}) \/ AtPhase(h[r], "single", {8})
         /\ Step(r) = "create" <=> AtPhase(h[r], "session", {1}) \/ AtPhase(h[r], "shot", {1})
         /\ Step(r) = "save" <=> \/ AtPhase(h[r], "session", {2}) \/ AtPhase(h[r], "shot", {2})
                                 \/ AtPhase(h[r], "config", {2}) \/ AtPhase(h[r], "page", {1})
         /\ Step(r) \in NodeSteps <=>
              \/ AtPhase(h[r], "start", 2 .. 4) \/ AtPhase(h[r], "stop", 1 .. 3)
              \/ AtPhase(h[r], "single", 1 .. 4) \/ AtPhase(h[r], "config", {1})
<1>1. h[r].kind \in Requests \cup {"none"}
      /\ (h[r].kind # "none" => h[r].at \in 1 .. LastOf(h[r].kind))
  BY OpenRecord, StepsLen DEF Handler, RecordOK
<1>2. CASE h[r].kind = "none"
  BY <1>2 DEF Step, AtPhase, NodeSteps
<1>3. CASE h[r].kind = "start"
  <2>1. h[r].at \in 1 .. 4 /\ Step(r) = Steps["start"][h[r].at]
    BY <1>1, <1>3 DEF Step, LastOf
  <2> QED
    BY <1>3, <2>1, StepTable DEF AtPhase, NodeSteps
<1>4. CASE h[r].kind = "stop"
  <2>1. h[r].at \in 1 .. 5 /\ Step(r) = Steps["stop"][h[r].at]
    BY <1>1, <1>4 DEF Step, LastOf
  <2> QED
    BY <1>4, <2>1, StepTable DEF AtPhase, NodeSteps
<1>5. CASE h[r].kind = "single"
  <2>1. h[r].at \in 1 .. 8 /\ Step(r) = Steps["single"][h[r].at]
    BY <1>1, <1>5 DEF Step, LastOf
  <2> QED
    BY <1>5, <2>1, StepTable DEF AtPhase, NodeSteps
<1>6. CASE h[r].kind \in {"session", "shot", "config"}
  <2>1. h[r].at \in 1 .. 2 /\ Step(r) = Steps[h[r].kind][h[r].at]
    BY <1>1, <1>6 DEF Step, LastOf
  <2> QED
    BY <1>6, <2>1, StepTable DEF AtPhase, NodeSteps
<1>7. CASE h[r].kind = "page"
  <2>1. h[r].at = 1 /\ Step(r) = Steps["page"][1]
    BY <1>1, <1>7 DEF Step, LastOf
  <2> QED
    BY <1>7, <2>1, StepTable DEF AtPhase, NodeSteps
<1> QED
  BY <1>1, <1>2, <1>3, <1>4, <1>5, <1>6, <1>7 DEF Requests

(* A handler goes on with x as its record.                                 *)
LEMMA Goes ==
  ASSUME TInv, NEW r \in Handlers, NEW x, GoOn(r, x), x \in Handler, h[r].kind # "none",
         x.kind = h[r].kind, x.at = h[r].at, x.page = h[r].page, x.nodes = h[r].nodes
  PROVE  /\ h[r].at = LastOf(h[r].kind) => Ended(r)
         /\ h[r].at # LastOf(h[r].kind) =>
              WentOn(r) /\ h'[r].loc = x.loc /\ h'[r].next = x.next /\ h'[r].got = x.got
<1>1. h \in [Handlers -> Handler] /\ h' = [h EXCEPT ![r] = Advance(x)]
  BY DEF TInv, RecordsOK, GoOn
<1>2. OnlyR(r) /\ h'[r] = Advance(x)
  BY <1>1 DEF OnlyR
<1>3. x.loc.shot \in Nat /\ RecordOK(x, x.loc.shot)
  <2>1. x.loc.shot \in Nat
    BY DEF Handler, Location
  <2>2. x.at \in 1 .. LastOf(x.kind)
    BY OpenRecord DEF RecordOK
  <2> QED
    BY <2>1, <2>2 DEF RecordOK
<1> QED
  BY <1>2, <1>3, Advanced DEF Ended, WentOn

(* Node n answers: its camera has executed the request, and r has its      *)
(* clips.                                                                  *)
LEMMA AnswerEffect ==
  ASSUME TInv, NEW r \in Handlers, NEW n \in Nodes, Answer(r, n)
  PROVE  /\ Stayed(r, n) /\ n \in h[r].pend /\ Active(r) /\ ~Blocked(cam[n], Step(r))
         /\ h'[r].got = h[r].got \cup Reply(n, Step(r))
         /\ cam'[n] = Execute(cam[n], Step(r)) /\ \A m \in Nodes : m # n => cam'[m] = cam[m]
         /\ UNCHANGED <<loc, sessions, shots, takes, online, row, late, calm, fresh, hurt, torn>>
<1>1. h \in [Handlers -> Handler] /\ cam \in [Nodes -> Camera]
  BY DEF TInv, RecordsOK, NodesOK
<1>2. /\ h' = [h EXCEPT ![r].pend = @ \ {n}, ![r].got = @ \cup Reply(n, Step(r))]
      /\ cam' = [cam EXCEPT ![n] = Execute(cam[n], Step(r))]
      /\ n \in h[r].pend /\ ~Blocked(cam[n], Step(r)) /\ Step(r) \in NodeSteps
      /\ UNCHANGED <<loc, sessions, shots, takes, online, row, late, calm, fresh, hurt, torn>>
  BY DEF Answer, database, nodeRows, history
<1>3. Active(r)
  BY <1>2, OpenRecord DEF Active, NodeSteps
<1>4. Stayed(r, n) /\ h'[r].got = h[r].got \cup Reply(n, Step(r))
  BY <1>1, <1>2 DEF Stayed, OnlyR, Handler
<1> QED
  BY <1>1, <1>2, <1>3, <1>4

(* Node n does not answer: r goes without, and a fault has touched n.      *)
LEMMA UnansweredEffect ==
  ASSUME TInv, NEW r \in Handlers, NEW n \in Nodes, Unanswered(r, n)
  PROVE  /\ Stayed(r, n) /\ h'[r].got = h[r].got /\ Active(r)
         /\ hurt' = hurt \cup {n}
         /\ \A m \in late' : m \in late \/ m.node = n
         /\ UNCHANGED <<loc, sessions, shots, takes, online, row, cam, calm, fresh, torn>>
<1>1. h \in [Handlers -> Handler]
  BY DEF TInv, RecordsOK
<1>2. /\ h' = [h EXCEPT ![r].pend = @ \ {n}]
      /\ hurt' = hurt \cup {n} /\ late' = late \cup {[node |-> n, op |-> Step(r)]}
      /\ UNCHANGED <<loc, sessions, shots, takes, online, row, cam, calm, fresh, torn>>
  BY DEF Unanswered, database, nodeRows
<1>3. Active(r)
  BY OpenRecord DEF Active, NodeSteps, Unanswered
<1>4. Stayed(r, n) /\ h'[r].got = h[r].got
  BY <1>1, <1>2 DEF Stayed, OnlyR, Handler
<1> QED
  BY <1>2, <1>3, <1>4

(* A handler goes on when it waits for no node; start ends here.           *)
LEMMA BarrierEffect ==
  ASSUME TInv, NEW r \in Handlers, Barrier(r)
  PROVE  /\ h[r].pend = {}
         /\ \/ AtPhase(h[r], "start", {4}) /\ Ended(r)
            \/ /\ \/ AtPhase(h[r], "start", 2 .. 3) \/ AtPhase(h[r], "stop", 1 .. 3)
                  \/ AtPhase(h[r], "single", 1 .. 4) \/ AtPhase(h[r], "config", {1})
               /\ WentOn(r)
               /\ h'[r].loc = h[r].loc /\ h'[r].next = h[r].next /\ h'[r].got = h[r].got
         /\ UNCHANGED <<loc, sessions, shots, takes, online, row, cam, late, calm, fresh, hurt, torn>>
<1>1. /\ Step(r) \in NodeSteps /\ h[r].pend = {} /\ GoOn(r, h[r])
      /\ UNCHANGED <<loc, sessions, shots, takes, online, row, cam, late, calm, fresh, hurt, torn>>
  BY DEF Barrier, database, nodeRows, history
<1>2. h[r] \in Handler
  BY OpenRecord
<1>3. \/ AtPhase(h[r], "start", 2 .. 4) \/ AtPhase(h[r], "stop", 1 .. 3)
      \/ AtPhase(h[r], "single", 1 .. 4) \/ AtPhase(h[r], "config", {1})
  BY <1>1, Phases
<1>4. h[r].kind # "none"
  BY <1>3 DEF AtPhase
<1>5. /\ h[r].at = LastOf(h[r].kind) => Ended(r)
      /\ h[r].at # LastOf(h[r].kind) =>
           WentOn(r) /\ h'[r].loc = h[r].loc /\ h'[r].next = h[r].next /\ h'[r].got = h[r].got
  BY <1>1, <1>2, <1>4, Goes
<1> QED
  BY <1>1, <1>3, <1>5 DEF AtPhase, LastOf

(* A single recording reads the location.                                  *)
LEMMA ReadEffect ==
  ASSUME TInv, NEW r \in Handlers, ReadLocation(r)
  PROVE  /\ AtPhase(h[r], "single", {5}) /\ WentOn(r)
         /\ h'[r].loc = loc /\ h'[r].next = h[r].next /\ h'[r].got = h[r].got
         /\ UNCHANGED <<loc, sessions, shots, takes, online, row, cam, late, calm, fresh, hurt, torn>>
<1> DEFINE x == [h[r] EXCEPT !.loc = loc]
<1>1. /\ Step(r) = "read" /\ GoOn(r, x)
      /\ UNCHANGED <<loc, sessions, shots, takes, online, row, cam, late, calm, fresh, hurt, torn>>
  BY DEF ReadLocation, database, nodeRows, history
<1>2. /\ x \in Handler /\ x.kind = h[r].kind /\ x.at = h[r].at /\ x.page = h[r].page
      /\ x.nodes = h[r].nodes /\ x.loc = loc /\ x.next = h[r].next /\ x.got = h[r].got
  BY OpenRecord DEF Handler, TInv, DataOK
<1>3. AtPhase(h[r], "single", {5})
  BY <1>1, Phases
<1> HIDE DEF x
<1>4. h[r].kind # "none" /\ h[r].at # LastOf(h[r].kind)
  BY <1>3 DEF AtPhase, LastOf
<1> QED
  BY <1>1, <1>2, <1>3, <1>4, Goes

(* The location gets the session of the page, and its shot or a new one.   *)
LEMMA SlateEffect ==
  ASSUME TInv, NEW r \in Handlers, Slate(r)
  PROVE  /\ AtPhase(h[r], "start", {1}) \/ AtPhase(h[r], "single", {6})
         /\ WentOn(r) /\ h'[r].loc = loc' /\ h'[r].got = h[r].got
         /\ h'[r].next = shots'[loc'.shot].next
         /\ loc'.project = h[r].loc.project /\ loc'.session = h[r].page.session
         /\ \/ /\ shots' = shots /\ loc'.shot = h[r].loc.shot /\ loc'.shot # 0
               /\ shots[loc'.shot].name = h[r].page.name
            \/ /\ shots' = Append(shots, [session |-> h[r].page.session,
                                          name |-> h[r].page.name, next |-> 1])
               /\ loc'.shot = Len(shots) + 1
         /\ UNCHANGED <<takes, online, row, cam, late, calm, fresh, hurt, torn>>
<1> DEFINE l == h[r].loc
           p == h[r].page
           saved == [l EXCEPT !.session = p.session,
                              !.shot = IF KeepsShot(l, p) THEN @ ELSE Len(shots) + 1]
           x == [h[r] EXCEPT !.loc = saved, !.next = shots'[saved.shot].next]
<1>1. /\ shots' = IF KeepsShot(l, p) THEN shots
                  ELSE Append(shots, [session |-> p.session, name |-> p.name, next |-> 1])
      /\ loc' = saved /\ GoOn(r, x) /\ Step(r) = "slate"
      /\ UNCHANGED <<takes, online, row, cam, late, calm, fresh, hurt, torn>>
  BY DEF Slate, nodeRows, history
<1>2. /\ saved.session = p.session /\ saved.project = l.project
      /\ saved.shot = IF KeepsShot(l, p) THEN l.shot ELSE Len(shots) + 1
  BY OpenRecord DEF Location
<1>3. TInv'
  BY TypeSlate
<1>4. AtPhase(h[r], "start", {1}) \/ AtPhase(h[r], "single", {6})
  BY <1>1, Phases
<1>5. shots'[saved.shot].next \in Nat
  <2>1. shots' \in Seq(Shot) /\ loc'.shot <= Len(shots') /\ loc'.shot \in Nat /\ Len(shots') \in Nat
    BY <1>3 DEF TInv, DataOK, Location
  <2>2. loc'.shot # 0
    BY <1>1, <1>2, OpenRecord DEF KeepsShot
  <2>3. loc'.shot \in 1 .. Len(shots')
    BY <2>1, <2>2
  <2>4. shots'[loc'.shot] \in Shot
    BY <2>1, <2>3
  <2> HIDE DEF saved
  <2> QED
    BY <1>1, <2>4 DEF Shot
<1>6. /\ x \in Handler /\ x.kind = h[r].kind /\ x.at = h[r].at /\ x.page = h[r].page
      /\ x.nodes = h[r].nodes /\ x.loc = saved /\ x.got = h[r].got
      /\ x.next = shots'[saved.shot].next
  <2>1. saved \in Location
    BY <1>1, <1>3 DEF TInv, DataOK
  <2> HIDE DEF saved
  <2> QED
    BY <1>5, <2>1, OpenRecord DEF Handler
<1> HIDE DEF x
<1>7. h[r].kind # "none" /\ h[r].at # LastOf(h[r].kind)
  BY <1>4 DEF AtPhase, LastOf
<1>8. WentOn(r) /\ h'[r].loc = x.loc /\ h'[r].next = x.next /\ h'[r].got = x.got
  BY <1>1, <1>6, <1>7, Goes
<1>9. \/ shots' = shots /\ saved.shot = l.shot /\ saved.shot # 0 /\ shots[saved.shot].name = p.name
      \/ /\ shots' = Append(shots, [session |-> p.session, name |-> p.name, next |-> 1])
         /\ saved.shot = Len(shots) + 1
  BY <1>1, <1>2 DEF KeepsShot
<1> HIDE DEF saved
<1> QED
  BY <1>1, <1>2, <1>4, <1>6, <1>8, <1>9

\* The phase in which a take is filed, and the one in which it is counted.
AtFile(x)   == AtPhase(x, "stop", {4}) \/ AtPhase(x, "single", {7})
Counting(x) == AtPhase(x, "stop", {5}) \/ AtPhase(x, "single", {8})

(* A recording without a project, session or shot keeps nothing.           *)
LEMMA UnfiledEffect ==
  ASSUME TInv, NEW r \in Handlers, Unfiled(r)
  PROVE  /\ AtFile(h[r]) /\ Ended(r)
         /\ ~h[r].loc.project \/ h[r].loc.session = 0 \/ h[r].loc.shot = 0
         /\ UNCHANGED <<loc, sessions, shots, takes, online, row, cam, late, calm, fresh, hurt, torn>>
<1>1. h \in [Handlers -> Handler]
  BY DEF TInv, RecordsOK
<1> QED
  BY <1>1, Phases DEF Unfiled, Fail, Ended, OnlyR, AtFile, database, nodeRows, history

(* The clips of a recording become a take.                                 *)
LEMMA FileTakeEffect ==
  ASSUME TInv, NEW r \in Handlers, FileTake(r)
  PROVE  /\ AtFile(h[r]) /\ Filing(r) /\ WentOn(r) /\ h'[r].loc = h[r].loc
         /\ h'[r].next = NextTake(h[r]) /\ h'[r].got = {}
         /\ takes' = NewTake(h[r], h[r].got) /\ \A e \in h[r].got : row[e[1]]
         /\ UNCHANGED <<loc, sessions, shots, online, row, cam, late, calm, fresh, hurt, torn>>
<1> DEFINE x == [h[r] EXCEPT !.next = NextTake(h[r]), !.got = {}]
<1>1. /\ Filing(r) /\ GoOn(r, x) /\ takes' = NewTake(h[r], h[r].got)
      /\ \A e \in h[r].got : row[e[1]]
      /\ UNCHANGED <<loc, sessions, shots, online, row, cam, late, calm, fresh, hurt, torn>>
  BY DEF FileTake, nodeRows, history
<1>2. AtFile(h[r])
  BY <1>1, Phases DEF Filing, AtFile
<1>3. NextTake(h[r]) \in Nat
  BY <1>1, TakeMade
<1>4. /\ x \in Handler /\ x.kind = h[r].kind /\ x.at = h[r].at /\ x.page = h[r].page
      /\ x.nodes = h[r].nodes /\ x.loc = h[r].loc /\ x.got = {} /\ x.next = NextTake(h[r])
  BY <1>3, OpenRecord DEF Handler
<1> HIDE DEF x
<1>5. h[r].kind # "none" /\ h[r].at # LastOf(h[r].kind)
  BY <1>2 DEF AtFile, AtPhase, LastOf
<1> QED
  BY <1>1, <1>2, <1>4, <1>5, Goes

(* A registration is cut short.                                            *)
LEMMA FileTornEffect ==
  ASSUME TInv, NEW r \in Handlers, FileTorn(r)
  PROVE  /\ AtFile(h[r]) /\ Filing(r) /\ Ended(r)
         /\ \E clips \in SUBSET Clips : takes' = NewTake(h[r], clips)
         /\ torn' = torn \cup {Len(takes) + 1}
         /\ UNCHANGED <<loc, sessions, shots, online, row, cam, late, calm, fresh, hurt>>
<1>1. h \in [Handlers -> Handler]
  BY DEF TInv, RecordsOK
<1>2. \E clips \in SUBSET Clips : takes' = NewTake(h[r], clips)
  BY OpenRecord DEF FileTorn
<1>3. AtFile(h[r])
  BY Phases DEF FileTorn, Filing, AtFile
<1> QED
  BY <1>1, <1>2, <1>3 DEF FileTorn, Fail, Ended, OnlyR, nodeRows

(* The counter of the shot and the row of the location are saved.          *)
LEMMA CountEffect ==
  ASSUME TInv, NEW r \in Handlers, CountTake(r)
  PROVE  /\ Counting(h[r]) /\ Ended(r) /\ loc' = h[r].loc
         /\ shots' = [shots EXCEPT ![h[r].loc.shot].next = h[r].next + 1]
         /\ UNCHANGED <<sessions, takes, online, row, cam, late, calm, fresh, hurt, torn>>
<1>1. /\ Step(r) = "count" /\ GoOn(r, h[r]) /\ loc' = h[r].loc
      /\ shots' = [shots EXCEPT ![h[r].loc.shot].next = h[r].next + 1]
      /\ UNCHANGED <<sessions, takes, online, row, cam, late, calm, fresh, hurt, torn>>
  BY DEF CountTake, nodeRows, history
<1>2. Counting(h[r])
  BY <1>1, Phases DEF Counting
<1>3. h[r].kind # "none" /\ h[r].at = LastOf(h[r].kind)
  BY <1>2 DEF Counting, AtPhase, LastOf
<1>4. h[r] \in Handler
  BY OpenRecord
<1> QED
  BY <1>1, <1>2, <1>3, <1>4, Goes

(* A session is made, with its first shot.                                 *)
LEMMA SessionEffect ==
  ASSUME TInv, NEW r \in Handlers, CreateSession(r)
  PROVE  /\ AtPhase(h[r], "session", {1}) /\ WentOn(r)
         /\ h'[r].next = h[r].next /\ h'[r].got = h[r].got
         /\ h'[r].loc = [project |-> TRUE, session |-> sessions + 1, shot |-> Len(shots) + 1]
         /\ shots' = Append(shots, [session |-> sessions + 1, name |-> 0, next |-> 1])
         /\ UNCHANGED <<loc, takes, online, row, cam, late, calm, fresh, hurt, torn>>
<1> DEFINE l == [project |-> TRUE, session |-> sessions + 1, shot |-> Len(shots) + 1]
           x == [h[r] EXCEPT !.loc = l]
<1>1. /\ h[r].kind = "session" /\ Step(r) = "create" /\ GoOn(r, x)
      /\ shots' = Append(shots, [session |-> sessions + 1, name |-> 0, next |-> 1])
      /\ UNCHANGED <<loc, takes, online, row, cam, late, calm, fresh, hurt, torn>>
  BY DEF CreateSession, nodeRows, history
<1>2. AtPhase(h[r], "session", {1})
  BY <1>1, Phases DEF AtPhase
<1>3. l \in Location
  BY DEF Location, TInv, DataOK
<1>4. /\ x \in Handler /\ x.kind = h[r].kind /\ x.at = h[r].at /\ x.page = h[r].page
      /\ x.nodes = h[r].nodes /\ x.loc = l /\ x.got = h[r].got /\ x.next = h[r].next
  <2> HIDE DEF l
  <2> QED
    BY <1>3, OpenRecord DEF Handler
<1> HIDE DEF x
<1>5. h[r].kind # "none" /\ h[r].at # LastOf(h[r].kind)
  BY <1>2 DEF AtPhase, LastOf
<1> QED
  BY <1>1, <1>2, <1>4, <1>5, Goes

(* A shot is made in the session of the row, if that has one.              *)
LEMMA ShotEffect ==
  ASSUME TInv, NEW r \in Handlers, CreateShot(r)
  PROVE  /\ AtPhase(h[r], "shot", {1})
         /\ \/ Ended(r) /\ shots' = shots
            \/ \E k \in Nat :
                 /\ h[r].loc.session # 0 /\ WentOn(r)
                 /\ h'[r].next = h[r].next /\ h'[r].got = h[r].got
                 /\ h'[r].loc.project = h[r].loc.project
                 /\ h'[r].loc.session = h[r].loc.session /\ h'[r].loc.shot = Len(shots) + 1
                 /\ shots' = Append(shots, [session |-> h[r].loc.session, name |-> k, next |-> 1])
         /\ UNCHANGED <<loc, takes, online, row, cam, late, calm, fresh, hurt, torn>>
<1>0. shots \in Seq(Shot) /\ Len(shots) \in Nat /\ h \in [Handlers -> Handler]
  BY DEF TInv, DataOK, RecordsOK
<1>1. /\ h[r].kind = "shot" /\ Step(r) = "create"
      /\ UNCHANGED <<loc, takes, online, row, cam, late, calm, fresh, hurt, torn>>
  BY DEF CreateShot, nodeRows, history
<1>2. AtPhase(h[r], "shot", {1})
  BY <1>1, Phases DEF AtPhase
<1>3. CASE h[r].loc.session = 0
  <2>1. Fail(r) /\ shots' = shots
    BY <1>3 DEF CreateShot
  <2> QED
    BY <1>0, <1>1, <1>2, <2>1 DEF Fail, Ended, OnlyR
<1>4. CASE h[r].loc.session # 0
  <2> DEFINE l == h[r].loc
             name == IF l.shot = 0 THEN 0 ELSE shots[l.shot].name
             k == UniqueName(name, l.session)
             m == [l EXCEPT !.shot = Len(shots) + 1]
             x == [h[r] EXCEPT !.loc = m]
  <2>1. [h[r] EXCEPT !.loc.shot = Len(shots) + 1] = x
    BY OpenRecord DEF Handler, Location
  <2>2. GoOn(r, x) /\ shots' = Append(shots, [session |-> l.session, name |-> k, next |-> 1])
    BY <1>4, <2>1 DEF CreateShot
  <2>3. k \in Nat
    <3>1. l.shot # 0 => l.shot \in DOMAIN shots
      BY <1>0, OpenRecord
    <3>2. name \in Nat
      BY <3>1, ShotRows, <1>0
    <3> HIDE DEF name, l
    <3> QED
      BY <1>0, <3>2, NameFound
  <2>4. /\ m \in Location /\ m.project = l.project /\ m.session = l.session
        /\ m.shot = Len(shots) + 1
    BY <1>0, OpenRecord DEF Location
  <2>5. /\ x \in Handler /\ x.kind = h[r].kind /\ x.at = h[r].at /\ x.page = h[r].page
        /\ x.nodes = h[r].nodes /\ x.loc = m /\ x.got = h[r].got /\ x.next = h[r].next
    <3> HIDE DEF m
    <3> QED
      BY <2>4, OpenRecord DEF Handler
  <2> HIDE DEF x, k, m
  <2>6. h[r].kind # "none" /\ h[r].at # LastOf(h[r].kind)
    BY <1>2 DEF AtPhase, LastOf
  <2>7. WentOn(r) /\ h'[r].loc = m /\ h'[r].next = h[r].next /\ h'[r].got = h[r].got
    BY <2>2, <2>5, <2>6, Goes
  <2> QED
    BY <1>1, <1>2, <1>4, <2>2, <2>3, <2>4, <2>7
<1> QED
  BY <1>3, <1>4

(* A row is saved as it was read, or made, and the request ends.           *)
LEMMA SaveEffect ==
  ASSUME TInv, NEW r \in Handlers, SaveNew(r) \/ SaveOptions(r) \/ DefaultProject(r)
  PROVE  /\ \/ AtPhase(h[r], "session", {2}) \/ AtPhase(h[r], "shot", {2})
            \/ AtPhase(h[r], "config", {2}) \/ AtPhase(h[r], "page", {1})
         /\ Ended(r) /\ loc'.session = h[r].loc.session /\ loc'.shot = h[r].loc.shot
         /\ h[r].loc.project => loc'.project
         /\ UNCHANGED <<shots, takes, online, row, cam, late, calm, fresh, hurt, torn>>
<1>1. PICK l : SaveRow(r, l) /\ (l = h[r].loc \/ l = [h[r].loc EXCEPT !.project = TRUE])
  BY DEF SaveNew, SaveOptions, DefaultProject
<1>2. /\ Step(r) = "save" /\ GoOn(r, h[r]) /\ loc' = l
      /\ UNCHANGED <<shots, takes, online, row, cam, late, calm, fresh, hurt, torn>>
  BY <1>1 DEF SaveRow, nodeRows, history
<1>3. \/ AtPhase(h[r], "session", {2}) \/ AtPhase(h[r], "shot", {2})
      \/ AtPhase(h[r], "config", {2}) \/ AtPhase(h[r], "page", {1})
  BY <1>2, Phases
<1>4. h[r].kind # "none" /\ h[r].at = LastOf(h[r].kind) /\ h[r] \in Handler
  BY <1>3, OpenRecord DEF AtPhase, LastOf
<1>5. Ended(r)
  BY <1>2, <1>4, Goes
<1>6. l.session = h[r].loc.session /\ l.shot = h[r].loc.shot /\ (h[r].loc.project => l.project)
  BY <1>1, OpenRecord DEF Location
<1> QED
  BY <1>2, <1>3, <1>5, <1>6

(* A request is opened with the row, or the page, as it is.                *)
LEMMA OpenEffect ==
  ASSUME TInv, NEW r \in Handlers, NEW kind \in Kinds, Open(r, kind)
  PROVE  /\ ~Active(r) /\ OnlyR(r) /\ Pressed(kind)
         /\ h'[r].kind = kind /\ h'[r].at = 1 /\ h'[r].next = 0 /\ h'[r].got = {}
         /\ h'[r].nodes = Online /\ h'[r].pend = Online /\ kind \in Requests
         /\ h'[r].loc = IF kind = "single" THEN NoRow ELSE loc
         /\ kind \in {"start", "single"} => h'[r].page \in {PageOf(loc)} \cup OldPages
         /\ (fresh' /\ kind \in {"start", "single"}) => h'[r].page = PageOf(loc)
         /\ fresh' => fresh
         /\ calm' => calm /\ \A q \in Handlers : ~Active(q)
         /\ UNCHANGED <<loc, sessions, shots, takes, online, row, cam, late, hurt, torn>>
<1> DEFINE l == IF kind = "single" THEN NoRow ELSE loc
<1>1. PICK p \in {NoPage, PageOf(loc)} \cup OldPages :
        /\ Sends(kind, p)
        /\ h' = [h EXCEPT ![r] = [Idle EXCEPT !.kind = kind, !.at = 1, !.page = p, !.loc = l,
                                  !.nodes = Online, !.pend = Online]]
  BY DEF Open
<1> DEFINE x == [Idle EXCEPT !.kind = kind, !.at = 1, !.page = p, !.loc = l,
                             !.nodes = Online, !.pend = Online]
<1>2. h' = [h EXCEPT ![r] = x] /\ h \in [Handlers -> Handler]
  BY <1>1 DEF TInv, RecordsOK
<1>3. /\ x.kind = kind /\ x.at = 1 /\ x.next = 0 /\ x.got = {} /\ x.nodes = Online
      /\ x.pend = Online /\ x.loc = l /\ x.page = p
  BY DEF Idle
<1> HIDE DEF x
<1>4. OnlyR(r) /\ h'[r] = x
  BY <1>2 DEF OnlyR
<1>5. /\ kind \in {"start", "single"} => p \in {PageOf(loc)} \cup OldPages
      /\ (fresh' /\ kind \in {"start", "single"}) => p = PageOf(loc)
      /\ fresh' => fresh
  BY <1>1 DEF Sends
<1>6. kind \in Requests
  BY CaptureAssumption, StepsLen
<1>7. /\ ~Active(r) /\ Pressed(kind) /\ (calm' => calm /\ \A q \in Handlers : ~Active(q))
      /\ UNCHANGED <<loc, sessions, shots, takes, online, row, cam, late, hurt, torn>>
  BY DEF Open, Active, Quiet, database, nodeRows
<1> QED
  BY <1>3, <1>4, <1>5, <1>6, <1>7
=============================================================================
