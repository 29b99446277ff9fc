---------------------- MODULE CaptureSessionTakeProofs ----------------------
(***************************************************************************)
(* What a recording leaves: shots, takes, their numbers and clips.  The    *)
(* inductive invariant (IInv, at the end) has one part for each idea:      *)
(*   TInv       the types, and that every shot a row refers to exists      *)
(*   ClipInv    a clip that was reported is never reported again           *)
(*   BelongInv  clips wait with requests that stop cameras; every take has *)
(*              a shot, every shot and every recording a session           *)
(*   SoundInv   nothing that is late, offline or unplugged touches a node  *)
(*              without a fault, and every request includes it             *)
(*   CalmInv    while requests do not overlap, the open request has the    *)
(*              row of the location and the counter of its shot as they    *)
(*              are, or has made the session and shot it will save         *)
(*   NumInv     then the takes of a shot have the numbers its counter has  *)
(*              given, one of them perhaps not counted yet                 *)
(*   BusyInv    then a camera that ends its clip by itself has a request   *)
(*              that will collect it                                       *)
(*   LedgerInv  then each clip of a node without a fault is still in the   *)
(*              camera, with a request, or in a take                       *)
(* Those after ClipInv are proved from the lemmas on what an action does.  *)
(***************************************************************************)
EXTENDS CaptureSessionProofs

-----------------------------------------------------------------------------
(* Where rows and clips belong.                                            *)

ReqKinds  == {"start", "single"}
Holds(x)  == AtPhase(x, "stop", 2 .. 4) \/ AtPhase(x, "single", 4 .. 7)

\* Shots belong to sessions, takes to shots, and clips that were reported
\* but not filed to a request that stops cameras.
ShotsBelong == \A s \in DOMAIN shots : shots[s].session # 0
PagesBelong == \A r \in Handlers : h[r].kind \in ReqKinds => h[r].page.session # 0
TakesBelong == \A t \in DOMAIN takes : takes[t].shot \in DOMAIN shots
GotBelongs  == \A r \in Handlers : h[r].got # {} => Holds(h[r])

BelongInv == ShotsBelong /\ PagesBelong /\ TakesBelong /\ GotBelongs

(* A row is added to the shots.                                            *)
LEMMA ShotAdded ==
  ASSUME shots \in Seq(Shot), NEW x, shots' = Append(shots, x)
  PROVE  /\ DOMAIN shots' = DOMAIN shots \cup {Len(shots) + 1} /\ Len(shots) + 1 \notin DOMAIN shots
         /\ \A s \in DOMAIN shots : shots'[s] = shots[s]
         /\ shots'[Len(shots) + 1] = x /\ Len(shots') = Len(shots) + 1
<1>1. Len(shots) \in Nat /\ DOMAIN shots = 1 .. Len(shots)
  OBVIOUS
<1>2. DOMAIN shots' = 1 .. Len(shots) + 1 /\ Len(shots') = Len(shots) + 1
  OBVIOUS
<1>3. 1 .. Len(shots) + 1 = (1 .. Len(shots)) \cup {Len(shots) + 1}
  BY <1>1
<1>4. \A s \in DOMAIN shots : shots'[s] = shots[s]
  OBVIOUS
<1>5. shots'[Len(shots) + 1] = x
  OBVIOUS
<1> QED
  BY <1>1, <1>2, <1>3, <1>4, <1>5

(* A row is added to the takes.                                            *)
LEMMA TakeAdded ==
  ASSUME TInv, NEW r \in Handlers, Filing(r), NEW clips \in SUBSET Clips,
         takes' = NewTake(h[r], clips)
  PROVE  /\ DOMAIN takes' = DOMAIN takes \cup {Len(takes) + 1} /\ Len(takes) + 1 \notin DOMAIN takes
         /\ \A t \in DOMAIN takes : takes'[t] = takes[t]
         /\ takes'[Len(takes) + 1].shot = h[r].loc.shot
         /\ takes'[Len(takes) + 1].seq = NextTake(h[r])
         /\ takes'[Len(takes) + 1].clips = clips
         /\ h[r].loc.shot \in DOMAIN shots
<1> DEFINE after == NewTake(h[r], clips)
           take == [shot |-> h[r].loc.shot, seq |-> NextTake(h[r]), clips |-> clips]
<1>1. /\ after \in Seq(Take) /\ Len(after) = Len(takes) + 1 /\ Len(takes) \in Nat
      /\ \A t \in DOMAIN takes : after[t] = takes[t]
  BY TakeMade
<1>2. after[Len(takes) + 1] = take
  BY TakeMade
<1>3. DOMAIN takes = 1 .. Len(takes)
  BY DEF TInv, DataOK
<1>4. take.shot = h[r].loc.shot /\ take.seq = NextTake(h[r]) /\ take.clips = clips
  OBVIOUS
<1>5. h[r].loc.shot \in DOMAIN shots
  BY OpenRecord DEF Filing, TInv, DataOK
<1>6. takes' = after
  OBVIOUS
<1> HIDE DEF after, take
<1>7. DOMAIN after = (1 .. Len(takes)) \cup {Len(takes) + 1}
  <2>1. DOMAIN after = 1 .. Len(takes) + 1
    BY <1>1
  <2> QED
    BY <1>1, <2>1
<1> QED
  BY <1>1, <1>2, <1>3, <1>4, <1>5, <1>6, <1>7

(* A step of a handler, which makes every row in its place.                *)
LEMMA BelongWork ==
  ASSUME TInv, BelongInv, NEW r \in Handlers, Work(r)
  PROVE  BelongInv'
<1>0. /\ shots \in Seq(Shot) /\ Len(shots) \in Nat /\ h[r] \in Handler
      /\ h[r].kind # "none" => h[r].at \in 1 .. LastOf(h[r].kind)
  BY OpenRecord DEF TInv, DataOK, RecordOK
<1> DEFINE Onward == h'[r] = Idle \/ (h'[r].kind = h[r].kind /\ h'[r].page = h[r].page)
<1>1. ASSUME OnlyR(r), Onward PROVE PagesBelong'
  <2>1. Idle.kind \notin ReqKinds
    BY DEF Idle, ReqKinds
  <2> QED
    BY <1>1, <2>1 DEF OnlyR, BelongInv, PagesBelong
<1>2. ASSUME OnlyR(r), h'[r].got # {} => Holds(h'[r]) PROVE GotBelongs'
  BY <1>2 DEF OnlyR, BelongInv, GotBelongs
<1>3. ASSUME shots' = shots, takes' = takes PROVE ShotsBelong' /\ TakesBelong'
  BY <1>3 DEF BelongInv, ShotsBelong, TakesBelong
<1>4. ASSUME Ended(r) PROVE PagesBelong' /\ GotBelongs'
  <2>1. OnlyR(r) /\ h'[r] = Idle /\ Idle.got = {}
    BY <1>4 DEF Ended, Idle
  <2> QED
    BY <1>1, <1>2, <2>1
<1>5. ASSUME NEW x, shots' = Append(shots, x), x.session # 0, takes' = takes
      PROVE  ShotsBelong' /\ TakesBelong'
  BY <1>0, <1>5, ShotAdded DEF BelongInv, ShotsBelong, TakesBelong
<1>6. ASSUME WentOn(r), h'[r].got = h[r].got, ~AtFile(h[r]) PROVE PagesBelong' /\ GotBelongs'
  <2>1. OnlyR(r) /\ Onward
    BY <1>6 DEF WentOn
  <2>2. h'[r].got # {} => Holds(h'[r])
    <3>1. h'[r].got # {} => Holds(h[r])
      BY <1>6 DEF BelongInv, GotBelongs
    <3>2. Holds(h[r]) => Holds(h'[r])
      <4>1. h'[r].kind = h[r].kind /\ h'[r].at = h[r].at + 1
        BY <1>6 DEF WentOn
      <4> QED
        BY <1>6, <4>1 DEF AtFile, AtPhase, Holds
    <3> QED
      BY <3>1, <3>2
  <2> QED
    BY <1>1, <1>2, <2>1, <2>2
<1>7. ASSUME NEW n \in Nodes, Answer(r, n) PROVE BelongInv'
  <2>1. /\ Stayed(r, n) /\ h'[r].got = h[r].got \cup Reply(n, Step(r))
        /\ UNCHANGED <<shots, takes>>
    BY <1>7, AnswerEffect
  <2>2. OnlyR(r) /\ Onward /\ h'[r].kind = h[r].kind /\ h'[r].at = h[r].at
    BY <2>1 DEF Stayed
  <2>3. Reply(n, Step(r)) # {} => Step(r) \in {"stop", "finalize"}
    BY DEF Reply
  <2>4. Step(r) \in {"stop", "finalize"} => Holds(h[r])
    BY Phases DEF Holds, AtPhase
  <2>5. h'[r].got # {} => Holds(h'[r])
    <3>1. h'[r].got # {} => Holds(h[r])
      BY <2>1, <2>3, <2>4 DEF BelongInv, GotBelongs
    <3> QED
      BY <2>2, <3>1 DEF Holds, AtPhase
  <2> QED
    BY <1>1, <1>2, <1>3, <2>1, <2>2, <2>5 DEF BelongInv
<1>8. ASSUME NEW n \in Nodes, GiveUp(r, n) PROVE BelongInv'
  <2>1. Stayed(r, n) /\ h'[r].got = h[r].got /\ UNCHANGED <<shots, takes>>
    BY <1>8, UnansweredEffect DEF GiveUp
  <2>2. OnlyR(r) /\ Onward /\ h'[r].kind = h[r].kind /\ h'[r].at = h[r].at
    BY <2>1 DEF Stayed
  <2>3. h'[r].got # {} => Holds(h'[r])
    BY <2>1, <2>2 DEF Holds, AtPhase, BelongInv, GotBelongs
  <2> QED
    BY <1>1, <1>2, <1>3, <2>1, <2>2, <2>3 DEF BelongInv
<1>9. CASE Barrier(r)
  <2>1. ~AtFile(h[r]) /\ UNCHANGED <<shots, takes>>
    BY <1>9, BarrierEffect DEF AtFile, AtPhase
  <2>2. Ended(r) \/ (WentOn(r) /\ h'[r].got = h[r].got)
    BY <1>9, BarrierEffect
  <2> QED
    BY <1>3, <1>4, <1>6, <2>1, <2>2 DEF BelongInv
<1>10. CASE ReadLocation(r)
  <2>1. ~AtFile(h[r]) /\ UNCHANGED <<shots, takes>> /\ WentOn(r) /\ h'[r].got = h[r].got
    BY <1>10, ReadEffect DEF AtFile, AtPhase
  <2> QED
    BY <1>3, <1>6, <2>1 DEF BelongInv
<1>11. CASE Slate(r)
  <2>1. /\ ~AtFile(h[r]) /\ h[r].kind \in ReqKinds /\ takes' = takes
        /\ WentOn(r) /\ h'[r].got = h[r].got
    <3>1. /\ AtPhase(h[r], "start", {1}) \/ AtPhase(h[r], "single", {6})
          /\ takes' = takes /\ WentOn(r) /\ h'[r].got = h[r].got
      BY <1>11, SlateEffect
    <3> QED
      BY <3>1 DEF AtFile, AtPhase, ReqKinds
  <2>2. h[r].page.session # 0
    BY <2>1 DEF BelongInv, PagesBelong
  <2>3. \/ shots' = shots
        \/ shots' = Append(shots, [session |-> h[r].page.session, name |-> h[r].page.name,
                                   next |-> 1])
    BY <1>11, SlateEffect
  <2>4. ShotsBelong' /\ TakesBelong'
    BY <1>3, <1>5, <2>1, <2>2, <2>3
  <2> QED
    BY <1>6, <2>1, <2>4 DEF BelongInv
<1>12. CASE Unfiled(r)
  <2>1. Ended(r) /\ UNCHANGED <<shots, takes>>
    BY <1>12, UnfiledEffect
  <2> QED
    BY <1>3, <1>4, <2>1 DEF BelongInv
<1>13. ASSUME NEW clips \in SUBSET Clips, Filing(r), takes' = NewTake(h[r], clips), shots' = shots
       PROVE  ShotsBelong' /\ TakesBelong'
  <2>1. /\ DOMAIN takes' = DOMAIN takes \cup {Len(takes) + 1}
        /\ \A t \in DOMAIN takes : takes'[t] = takes[t]
        /\ takes'[Len(takes) + 1].shot \in DOMAIN shots
    BY <1>13, TakeAdded
  <2> QED
    BY <1>13, <2>1 DEF BelongInv, ShotsBelong, TakesBelong
<1>14. CASE FileTake(r)
  <2>1. /\ Filing(r) /\ takes' = NewTake(h[r], h[r].got) /\ shots' = shots
        /\ WentOn(r) /\ h'[r].got = {}
    BY <1>14, FileTakeEffect
  <2>2. ShotsBelong' /\ TakesBelong'
    BY <1>13, <2>1, OpenRecord
  <2>3. OnlyR(r) /\ Onward
    BY <2>1 DEF WentOn
  <2> QED
    BY <1>1, <1>2, <2>1, <2>2, <2>3 DEF BelongInv
<1>15. CASE FileTorn(r)
  <2>1. /\ Filing(r) /\ shots' = shots /\ Ended(r)
        /\ \E clips \in SUBSET Clips : takes' = NewTake(h[r], clips)
    BY <1>15, FileTornEffect
  <2> QED
    BY <1>4, <1>13, <2>1 DEF BelongInv
<1>16. CASE CountTake(r)
  <2>1. /\ Ended(r) /\ takes' = takes /\ h[r].next + 1 \in Nat
        /\ shots' = [shots EXCEPT ![h[r].loc.shot].next = h[r].next + 1]
    BY <1>16, CountEffect, OpenRecord
  <2>2. DOMAIN shots' = DOMAIN shots /\ \A s \in DOMAIN shots : shots'[s].session = shots[s].session
    BY <1>0, <2>1, Counted
  <2>3. ShotsBelong' /\ TakesBelong'
    BY <2>1, <2>2 DEF BelongInv, ShotsBelong, TakesBelong
  <2> QED
    BY <1>4, <2>1, <2>3 DEF BelongInv
<1>17. CASE CreateSession(r)
  <2>1. /\ ~AtFile(h[r]) /\ WentOn(r) /\ h'[r].got = h[r].got /\ takes' = takes
        /\ shots' = Append(shots, [session |-> sessions + 1, name |-> 0, next |-> 1])
    BY <1>17, SessionEffect DEF AtFile, AtPhase
  <2>2. sessions + 1 # 0
    BY DEF TInv, DataOK
  <2>3. ShotsBelong' /\ TakesBelong'
    BY <1>5, <2>1, <2>2
  <2> QED
    BY <1>6, <2>1, <2>3 DEF BelongInv
<1>18. CASE CreateShot(r)
  <2>1. ~AtFile(h[r]) /\ takes' = takes
    BY <1>18, ShotEffect DEF AtFile, AtPhase
  <2>2. CASE Ended(r) /\ shots' = shots
    BY <1>3, <1>4, <2>1, <2>2 DEF BelongInv
  <2>3. ASSUME NEW k \in Nat, h[r].loc.session # 0, WentOn(r), h'[r].got = h[r].got,
               shots' = Append(shots, [session |-> h[r].loc.session, name |-> k, next |-> 1])
        PROVE  BelongInv'
    <3>1. ShotsBelong' /\ TakesBelong'
      BY <1>5, <2>1, <2>3
    <3> QED
      BY <1>6, <2>1, <2>3, <3>1 DEF BelongInv
  <2> QED
    BY <1>18, <2>2, <2>3, ShotEffect
<1>19. CASE SaveNew(r) \/ SaveOptions(r) \/ DefaultProject(r)
  <2>1. Ended(r) /\ UNCHANGED <<shots, takes>>
    BY <1>19, SaveEffect
  <2> QED
    BY <1>3, <1>4, <2>1 DEF BelongInv
<1> QED
  BY <1>7, <1>8, <1>9, <1>10, <1>11, <1>12, <1>14, <1>15, <1>16, <1>17, <1>18, <1>19 DEF Work

(* A new request, whose page names a session.                              *)
LEMMA BelongOpen ==
  ASSUME TInv, BelongInv, NEW r \in Handlers, NEW kind \in Kinds, Open(r, kind)
  PROVE  BelongInv'
<1>1. /\ OnlyR(r) /\ h'[r].kind = kind /\ h'[r].got = {} /\ UNCHANGED <<shots, takes>>
      /\ Pressed(kind) /\ (kind \in ReqKinds => h'[r].page \in {PageOf(loc)} \cup OldPages)
  BY OpenEffect DEF ReqKinds
<1>2. kind \in ReqKinds => PageOf(loc).session # 0
  BY <1>1 DEF Pressed, PageOf, ReqKinds
<1>3. \A p \in OldPages : p.session # 0
  BY DEF OldPages, BelongInv, ShotsBelong
<1>4. PagesBelong'
  BY <1>1, <1>2, <1>3 DEF BelongInv, PagesBelong, OnlyR
<1> QED
  BY <1>1, <1>4 DEF BelongInv, ShotsBelong, TakesBelong, GotBelongs, OnlyR

\* A step of node n, or one that happens to it, and of no other node.
NodeMoves(n) ==
  /\ UNCHANGED <<loc, sessions, shots, takes, h, fresh, calm, torn>>
  /\ \A m \in Nodes : m # n =>
       online'[m] = online[m] /\ row'[m] = row[m] /\ cam'[m] = cam[m]
  /\ late' \subseteq late /\ hurt \subseteq hurt'

(* Nothing happens to a node that no fault has touched, but for its camera *)
(* that ends a burst or is toggled, and a keepalive.                       *)
LEMMA NodeEffect ==
  ASSUME TInv, NEW n \in Nodes, BurstEnds(n) \/ Keepalive(n) \/ Disturb(n)
  PROVE  /\ NodeMoves(n)
         /\ \/ n \in hurt'
            \/ ~cam[n].plugged
            \/ cam' = cam /\ online'[n] /\ row'[n] = cam[n].plugged
            \/ /\ cam[n].rec /\ cam[n].single /\ UNCHANGED <<online, row>>
               /\ cam'[n] = [cam[n] EXCEPT !.rec = FALSE, !.summ = cam[n].made]
            \/ UNCHANGED <<online, row>> /\ cam'[n] = [cam[n] EXCEPT !.on = ~@]
<1>0. cam \in [Nodes -> Camera] /\ online \in [Nodes -> BOOLEAN] /\ row \in [Nodes -> BOOLEAN]
  BY DEF TInv, NodesOK
<1>1. CASE BurstEnds(n)
  <2>1. cam' = [cam EXCEPT ![n] = [cam[n] EXCEPT !.rec = FALSE, !.summ = cam[n].made]]
    BY <1>0, <1>1 DEF BurstEnds
  <2>2. cam'[n] = [cam[n] EXCEPT !.rec = FALSE, !.summ = cam[n].made]
        /\ \A m \in Nodes : m # n => cam'[m] = cam[m]
    BY <1>0, <2>1
  <2> QED
    BY <1>1, <2>2 DEF BurstEnds, NodeMoves, database, nodeRows, history
<1>2. CASE Keepalive(n)
  BY <1>0, <1>2 DEF Keepalive, NodeMoves, database, history
<1>3. CASE Toggle(n)
  <2>1. cam' = [cam EXCEPT ![n] = [cam[n] EXCEPT !.on = ~@]]
    BY <1>0, <1>3 DEF Toggle
  <2>2. cam'[n] = [cam[n] EXCEPT !.on = ~@] /\ \A m \in Nodes : m # n => cam'[m] = cam[m]
    BY <1>0, <2>1
  <2>3. NodeMoves(n) /\ UNCHANGED <<online, row>>
    BY <1>3, <2>2 DEF Toggle, NodeMoves, database, nodeRows, history
  <2> QED
    BY <2>2, <2>3
<1>4. CASE Replug(n)
  BY <1>0, <1>4 DEF Replug, NodeMoves, database, nodeRows, history
<1>5. CASE Lapse(n)
  BY <1>0, <1>5 DEF Lapse, Fault, NodeMoves, database
<1>6. CASE Unplug(n)
  BY <1>0, <1>6 DEF Unplug, Fault, NodeMoves, database, nodeRows
<1>7. CASE Crash(n) \/ CloseNode(n)
  <2>1. PICK f : Fault(f, n) /\ Restarted(n)
    BY <1>7 DEF Crash, CloseNode
  <2>2. \A m \in Nodes : m # n => cam'[m] = cam[m] /\ online'[m] = online[m]
    BY <1>0, <1>7 DEF Crash, CloseNode, Restarted
  <2> QED
    BY <2>1, <2>2 DEF Fault, Restarted, NodeMoves, database
<1> QED
  BY <1>1, <1>2, <1>3, <1>4, <1>5, <1>6, <1>7 DEF Disturb

(* A late request moves its node, and no other.                            *)
LEMMA LateEffect ==
  ASSUME TInv, NEW m \in late, LateRuns(m)
  PROVE  /\ m.node \in Nodes /\ NodeMoves(m.node) /\ UNCHANGED <<online, row, hurt>>
<1>1. m.node \in Nodes /\ cam \in [Nodes -> Camera]
  BY DEF TInv, NodesOK, Late
<1>2. /\ UNCHANGED <<loc, sessions, shots, takes, h, fresh, calm, torn, online, row, hurt>>
      /\ cam' = [cam EXCEPT ![m.node] = Execute(cam[m.node], m.op)] /\ late' \subseteq late
  BY DEF LateRuns, database, nodeRows, history
<1> QED
  BY <1>1, <1>2 DEF NodeMoves

\* A node that no fault has touched is listed and reached, as is its camera.
SoundNode(n) ==
  /\ online[n] /\ row[n] /\ cam[n].plugged
  /\ \A m \in late : m.node # n
  /\ \A r \in Handlers : Active(r) => n \in h[r].nodes
SoundInv == \A n \in Nodes \ hurt : SoundNode(n)

(* A camera stays plugged in, whatever it executes.                        *)
LEMMA StaysPlugged ==
  ASSUME NEW c \in Camera, NEW op
  PROVE  Execute(c, op).plugged = c.plugged
BY DEF Execute, Prepare, Stop, Finalize, Camera

\* What a step of handler r does to the nodes, and to the history.
WorkMoves(r) ==
  /\ OnlyR(r) /\ Active(r) /\ UNCHANGED <<online, row, calm, fresh>>
  /\ \A n \in Nodes \ hurt' : \A m \in late' : m.node = n => m \in late
  /\ hurt \subseteq hurt' /\ torn \subseteq torn'
  /\ h'[r] = Idle \/ (h'[r].kind = h[r].kind /\ h'[r].nodes = h[r].nodes)
  /\ cam' = cam \/ \E n \in Nodes : Answer(r, n)

(* Of the nodes, a step of a handler moves the camera that answers.        *)
LEMMA WorkNodes ==
  ASSUME TInv, NEW r \in Handlers, Work(r) \/ \E n \in Nodes : Lose(r, n)
  PROVE  WorkMoves(r)
<1>1. ASSUME NEW n \in Nodes, Answer(r, n) PROVE WorkMoves(r)
  <2>1. Stayed(r, n) /\ Active(r) /\ UNCHANGED <<online, row, calm, fresh, late, hurt, torn>>
    BY <1>1, AnswerEffect
  <2> QED
    BY <1>1, <2>1 DEF Stayed, WorkMoves
<1>2. ASSUME NEW n \in Nodes, Unanswered(r, n) PROVE WorkMoves(r)
  <2>1. /\ Stayed(r, n) /\ Active(r) /\ UNCHANGED <<online, row, calm, fresh, torn, cam>>
        /\ hurt' = hurt \cup {n} /\ \A m \in late' : m \in late \/ m.node = n
    BY <1>2, UnansweredEffect
  <2> QED
    BY <2>1 DEF Stayed, WorkMoves
<1>3. ASSUME Ended(r) \/ WentOn(r), Active(r), UNCHANGED <<online, row, calm, fresh, late, hurt, cam>>,
             torn \subseteq torn'
      PROVE  WorkMoves(r)
  BY <1>3 DEF Ended, WentOn, WorkMoves
<1>4. ASSUME AtFile(h[r]) \/ Counting(h[r]) PROVE Active(r)
  BY <1>4 DEF AtFile, Counting, AtPhase, Active
<1>5. CASE Barrier(r)
  BY <1>3, <1>5, BarrierEffect DEF AtPhase, Active
<1>6. CASE ReadLocation(r)
  BY <1>3, <1>6, ReadEffect DEF AtPhase, Active
<1>7. CASE Slate(r)
  <2>1. /\ AtPhase(h[r], "start", {1}) \/ AtPhase(h[r], "single", {6})
        /\ WentOn(r) /\ UNCHANGED <<online, row, calm, fresh, late, hurt, torn, cam>>
    BY <1>7, SlateEffect
  <2> QED
    BY <1>3, <2>1 DEF AtPhase, Active
<1>8. CASE Unfiled(r)
  BY <1>3, <1>4, <1>8, UnfiledEffect
<1>9. CASE FileTake(r)
  BY <1>3, <1>4, <1>9, FileTakeEffect
<1>10. CASE FileTorn(r)
  BY <1>3, <1>4, <1>10, FileTornEffect
<1>11. CASE CountTake(r)
  BY <1>3, <1>4, <1>11, CountEffect
<1>12. CASE CreateSession(r)
  BY <1>3, <1>12, SessionEffect DEF AtPhase, Active
<1>13. CASE CreateShot(r)
  <2>1. /\ AtPhase(h[r], "shot", {1}) /\ (Ended(r) \/ WentOn(r))
        /\ UNCHANGED <<online, row, calm, fresh, late, hurt, torn, cam>>
    BY <1>13, ShotEffect
  <2> QED
    BY <1>3, <2>1 DEF AtPhase, Active
<1>14. CASE SaveNew(r) \/ SaveOptions(r) \/ DefaultProject(r)
  BY <1>3, <1>14, SaveEffect DEF AtPhase, Active
<1> QED
  BY <1>1, <1>2, <1>5, <1>6, <1>7, <1>8, <1>9, <1>10, <1>11, <1>12, <1>13, <1>14
     DEF Work, Lose, GiveUp

(* A node that no fault has touched stays listed and reached.              *)
LEMMA SoundStep ==
  ASSUME TInv, SoundInv, [Next]_vars
  PROVE  SoundInv'
<1>0. cam \in [Nodes -> Camera]
  BY DEF TInv, NodesOK
<1>1. CASE UNCHANGED vars
  BY <1>1 DEF vars, SoundInv, SoundNode, Active
<1>2. ASSUME NEW r \in Handlers, NEW kind \in Kinds, Open(r, kind) PROVE SoundInv'
  <2>1. OnlyR(r) /\ h'[r].nodes = Online /\ UNCHANGED <<online, row, cam, late, hurt>>
    BY <1>2, OpenEffect
  <2>2. \A n \in Nodes \ hurt : n \in Online
    BY DEF SoundInv, SoundNode, Online
  <2> QED
    BY <2>1, <2>2 DEF SoundInv, SoundNode, Active, OnlyR
<1>3. ASSUME NEW r \in Handlers, Work(r) \/ \E n \in Nodes : Lose(r, n) PROVE SoundInv'
  <2>1. /\ OnlyR(r) /\ Active(r) /\ UNCHANGED <<online, row>>
        /\ \A n \in Nodes \ hurt' : \A m \in late' : m.node = n => m \in late
        /\ hurt \subseteq hurt'
        /\ h'[r] = Idle \/ (h'[r].kind = h[r].kind /\ h'[r].nodes = h[r].nodes)
    BY <1>3, WorkNodes DEF WorkMoves
  <2>2. \A n \in Nodes : cam'[n].plugged = cam[n].plugged
    <3>1. CASE cam' = cam
      BY <3>1
    <3>2. ASSUME NEW n \in Nodes, Answer(r, n) PROVE \A m \in Nodes : cam'[m].plugged = cam[m].plugged
      <4>1. cam'[n] = Execute(cam[n], Step(r)) /\ \A m \in Nodes : m # n => cam'[m] = cam[m]
        BY <3>2, AnswerEffect
      <4> QED
        BY <1>0, <4>1, StaysPlugged
    <3> QED
      BY <1>3, <3>1, <3>2, WorkNodes DEF WorkMoves
  <2>3. ASSUME NEW n \in Nodes \ hurt' PROVE SoundNode(n)'
    <3>1. SoundNode(n)
      BY <2>1 DEF SoundInv
    <3>2. Idle.kind = "none"
      BY DEF Idle
    <3>3. \A q \in Handlers : h'[q].kind # "none" => n \in h'[q].nodes
      BY <2>1, <3>1, <3>2 DEF SoundNode, OnlyR, Active
    <3>4. \A m \in late' : m.node # n
      BY <2>1, <3>1 DEF SoundNode
    <3> QED
      BY <2>1, <2>2, <3>1, <3>3, <3>4 DEF SoundNode, Active
  <2> QED
    BY <2>3 DEF SoundInv
<1>4. ASSUME NEW m \in late, LateRuns(m) PROVE SoundInv'
  <2>1. /\ m.node \in Nodes /\ NodeMoves(m.node) /\ UNCHANGED <<online, row, hurt>>
    BY <1>4, LateEffect
  <2>2. m.node \in hurt
    BY <2>1 DEF SoundInv, SoundNode
  <2> QED
    BY <2>1, <2>2 DEF SoundInv, SoundNode, Active, NodeMoves
<1>5. ASSUME NEW n \in Nodes, BurstEnds(n) \/ Keepalive(n) \/ Disturb(n) PROVE SoundInv'
  <2>1. NodeMoves(n)
    BY <1>5, NodeEffect
  <2>2. n \notin hurt' => online'[n] /\ row'[n] /\ cam'[n].plugged
    <3>1. SUFFICES ASSUME n \notin hurt' PROVE online'[n] /\ row'[n] /\ cam'[n].plugged
      OBVIOUS
    <3>2. online[n] /\ row[n] /\ cam[n].plugged
      BY <2>1, <3>1 DEF NodeMoves, SoundInv, SoundNode
    <3>3. cam[n] \in Camera
      BY <1>0
    <3>4. [cam[n] EXCEPT !.rec = FALSE, !.summ = cam[n].made].plugged = cam[n].plugged
          /\ [cam[n] EXCEPT !.on = ~@].plugged = cam[n].plugged
      BY <3>3 DEF Camera
    <3> QED
      BY <1>5, <3>1, <3>2, <3>4, NodeEffect
  <2> QED
    BY <2>1, <2>2 DEF SoundInv, SoundNode, Active, NodeMoves
<1> QED
  BY <1>1, <1>2, <1>3, <1>4, <1>5 DEF Next

(* Every step keeps rows and clips where they belong.                      *)
LEMMA BelongStep ==
  ASSUME TInv, BelongInv, [Next]_vars
  PROVE  BelongInv'
<1>1. ASSUME UNCHANGED <<shots, takes, h>> PROVE BelongInv'
  BY <1>1 DEF BelongInv, ShotsBelong, PagesBelong, TakesBelong, GotBelongs
<1>2. ASSUME NEW r \in Handlers, NEW n \in Nodes, Lose(r, n) PROVE BelongInv'
  <2>1. Stayed(r, n) /\ h'[r].got = h[r].got /\ UNCHANGED <<shots, takes>>
    BY <1>2, UnansweredEffect DEF Lose
  <2>2. OnlyR(r) /\ h'[r].kind = h[r].kind /\ h'[r].at = h[r].at /\ h'[r].page = h[r].page
    BY <2>1 DEF Stayed
  <2> QED
    BY <2>1, <2>2 DEF BelongInv, ShotsBelong, PagesBelong, TakesBelong, GotBelongs, OnlyR,
                      Holds, AtPhase
<1>3. ASSUME NEW m \in late, LateRuns(m) PROVE BelongInv'
  BY <1>1, <1>3, LateEffect DEF NodeMoves
<1>4. ASSUME NEW n \in Nodes, BurstEnds(n) \/ Keepalive(n) \/ Disturb(n) PROVE BelongInv'
  BY <1>1, <1>4, NodeEffect DEF NodeMoves
<1> QED
  BY <1>1, <1>2, <1>3, <1>4, BelongWork, BelongOpen DEF Next, vars

-----------------------------------------------------------------------------
(* The rows while requests do not overlap.                                 *)

\* A location with a session has a project and a shot; the shot is of the session.
Whole(l)  == l.session # 0 => l.project /\ l.shot # 0
Paired(l) == l.shot # 0 => shots[l.shot].session = l.session

\* A handler that has made a session or a shot; one that has the row of the
\* location as it is; one whose page still matters.
Created(x)  == AtPhase(x, "session", {2}) \/ AtPhase(x, "shot", {2})
RowRead(x)  == ~AtPhase(x, "single", 1 .. 5) /\ ~Created(x)
Unslated(x) == AtPhase(x, "start", {1}) \/ AtPhase(x, "single", 1 .. 6)

OneRequest == \A r, q \in Handlers : Active(r) /\ Active(q) => r = q

RowInv(r) ==
  /\ Whole(h[r].loc)
  /\ h[r].kind \in ReqKinds => loc.session # 0
  /\ RowRead(h[r]) => h[r].loc = loc
  /\ Created(h[r]) => h[r].loc.session # 0
  /\ AtPhase(h[r], "stop", 1 .. 4) => h[r].next = 0
  /\ AtPhase(h[r], "single", {7}) \/ Counting(h[r]) =>
       h[r].loc.shot # 0 /\ h[r].next = shots[h[r].loc.shot].next
  /\ fresh => Paired(h[r].loc) /\ (Unslated(h[r]) => h[r].page = PageOf(loc))

CalmInv == calm =>
  /\ OneRequest /\ Whole(loc) /\ (fresh => Paired(loc))
  /\ \A r \in Handlers : Active(r) => RowInv(r)

\* The step of the only open request.
Alone(r) == calm /\ OnlyR(r) /\ Active(r) /\ UNCHANGED <<calm, fresh>>

(* Of a step of the only request, its own record and the location matter.  *)
LEMMA CalmReduced ==
  ASSUME CalmInv, NEW r \in Handlers, Alone(r),
         Whole(loc)', fresh => Paired(loc)', h'[r] = Idle \/ RowInv(r)'
  PROVE  CalmInv'
<1>1. \A q \in Handlers : q # r => ~Active(q) /\ h'[q] = h[q]
  BY DEF CalmInv, OneRequest, Alone, OnlyR
<1>2. Idle.kind = "none"
  BY DEF Idle
<1>3. OneRequest'
  BY <1>1 DEF OneRequest, Active
<1>4. \A q \in Handlers : Active(q)' => RowInv(q)'
  BY <1>1, <1>2 DEF Active
<1> QED
  BY <1>3, <1>4 DEF CalmInv, Alone

(* The only request waits for one node less.                               *)
LEMMA CalmStay ==
  ASSUME CalmInv, NEW r \in Handlers, NEW n \in Nodes, calm, Stayed(r, n), Active(r),
         UNCHANGED <<loc, shots, calm, fresh>>
  PROVE  CalmInv'
<1>1. Alone(r) /\ RowInv(r) /\ Whole(loc) /\ (fresh => Paired(loc))
  BY DEF Alone, Stayed, CalmInv
<1>2. /\ h'[r].kind = h[r].kind /\ h'[r].at = h[r].at /\ h'[r].loc = h[r].loc
      /\ h'[r].next = h[r].next /\ h'[r].page = h[r].page
  BY DEF Stayed
<1>3. RowInv(r)'
  BY <1>1, <1>2 DEF RowInv, Whole, RowRead, Created, AtPhase, Counting, Paired, Unslated, PageOf
<1> QED
  BY <1>1, <1>3, CalmReduced DEF Whole, Paired

(* The only request goes on.                                               *)
LEMMA CalmBarrier ==
  ASSUME TInv, CalmInv, NEW r \in Handlers, calm, Barrier(r)
  PROVE  CalmInv'
<1>1. UNCHANGED <<loc, shots, calm, fresh>>
  BY BarrierEffect
<1>2. CASE AtPhase(h[r], "start", {4}) /\ Ended(r)
  <2>1. Alone(r) /\ h'[r] = Idle
    BY <1>1, <1>2 DEF Alone, Ended, AtPhase, Active
  <2> QED
    BY <1>1, <2>1, CalmReduced DEF CalmInv, Whole, Paired
<1>3. CASE /\ \/ AtPhase(h[r], "start", 2 .. 3) \/ AtPhase(h[r], "stop", 1 .. 3)
              \/ AtPhase(h[r], "single", 1 .. 4) \/ AtPhase(h[r], "config", {1})
           /\ WentOn(r)
           /\ h'[r].loc = h[r].loc /\ h'[r].next = h[r].next
  <2>1. Alone(r)
    BY <1>1, <1>3 DEF Alone, WentOn, AtPhase, Active
  <2>2. RowInv(r) /\ Whole(loc) /\ (fresh => Paired(loc))
    BY <2>1 DEF Alone, CalmInv
  <2>3. h'[r].kind = h[r].kind /\ h'[r].at = h[r].at + 1 /\ h'[r].page = h[r].page
    BY <1>3 DEF WentOn
  <2>4. h[r].at \in Nat
    BY OpenRecord DEF Handler
  <2>5. /\ AtPhase(h'[r], "stop", 1 .. 4) => AtPhase(h[r], "stop", 1 .. 4)
        /\ ~AtPhase(h'[r], "single", {7}) /\ ~Counting(h'[r])
        /\ Unslated(h'[r]) => Unslated(h[r])
        /\ RowRead(h'[r]) => RowRead(h[r])
        /\ Created(h'[r]) => Created(h[r])
    BY <1>3, <2>3, <2>4 DEF AtPhase, Counting, Unslated, RowRead, Created
  <2>6. RowInv(r)'
    BY <1>1, <1>3, <2>2, <2>3, <2>5 DEF RowInv, Whole, Paired, PageOf
  <2> QED
    BY <1>1, <2>1, <2>2, <2>6, CalmReduced DEF Whole, Paired
<1> QED
  BY <1>2, <1>3, BarrierEffect

(* The only request reads the location: from now on it has the row.        *)
LEMMA CalmRead ==
  ASSUME TInv, CalmInv, NEW r \in Handlers, calm, ReadLocation(r)
  PROVE  CalmInv'
<1>1. /\ AtPhase(h[r], "single", {5}) /\ WentOn(r)
      /\ h'[r].loc = loc /\ UNCHANGED <<loc, shots, calm, fresh>>
  BY ReadEffect
<1>2. Alone(r)
  BY <1>1 DEF Alone, WentOn, AtPhase, Active
<1>3. RowInv(r) /\ Whole(loc) /\ (fresh => Paired(loc))
  BY <1>2 DEF Alone, CalmInv
<1>4. h'[r].kind = "single" /\ h'[r].at = 6 /\ h'[r].page = h[r].page /\ Unslated(h[r])
  BY <1>1 DEF WentOn, AtPhase, Unslated
<1>5. RowInv(r)'
  BY <1>1, <1>3, <1>4 DEF RowInv, Whole, AtPhase, Counting, Created, Paired, PageOf, ReqKinds
<1> QED
  BY <1>1, <1>2, <1>3, <1>5, CalmReduced DEF Whole, Paired

(* The only request sets the slate: row and record agree again.            *)
LEMMA CalmSlate ==
  ASSUME TInv, BelongInv, CalmInv, NEW r \in Handlers, calm, Slate(r)
  PROVE  CalmInv'
<1>1. /\ AtPhase(h[r], "start", {1}) \/ AtPhase(h[r], "single", {6})
      /\ WentOn(r) /\ h'[r].loc = loc' /\ h'[r].next = shots'[loc'.shot].next
      /\ loc'.project = h[r].loc.project /\ loc'.session = h[r].page.session
      /\ \/ /\ shots' = shots /\ loc'.shot = h[r].loc.shot /\ loc'.shot # 0
         \/ /\ shots' = Append(shots, [session |-> h[r].page.session,
                                       name |-> h[r].page.name, next |-> 1])
            /\ loc'.shot = Len(shots) + 1
      /\ UNCHANGED <<calm, fresh>>
  BY SlateEffect
<1>2. h[r].kind \in ReqKinds /\ RowRead(h[r]) /\ Unslated(h[r]) /\ Active(r)
  BY <1>1 DEF AtPhase, ReqKinds, RowRead, Created, Unslated, Active
<1>3. Alone(r)
  BY <1>1, <1>2 DEF Alone, WentOn
<1>4. RowInv(r) /\ Whole(loc) /\ (fresh => Paired(loc))
  BY <1>3 DEF Alone, CalmInv
<1>5. h[r].loc = loc /\ loc.session # 0 /\ loc.project /\ h[r].page.session # 0
  BY <1>2, <1>4 DEF RowInv, Whole, BelongInv, PagesBelong
<1>6. shots \in Seq(Shot) /\ Len(shots) \in Nat
  BY DEF TInv, DataOK
<1>7. Whole(loc)' /\ loc'.session # 0 /\ loc'.shot # 0
  BY <1>1, <1>5, <1>6 DEF Whole
<1>8. ASSUME fresh PROVE Paired(loc)'
  <2>1. CASE shots' = shots /\ loc'.shot = h[r].loc.shot /\ loc'.shot # 0
    <3>1. h[r].page = PageOf(loc) /\ PageOf(loc).session = loc.session
      BY <1>2, <1>4, <1>8 DEF RowInv, PageOf
    <3>2. shots[loc.shot].session = loc.session
      BY <1>4, <1>5, <1>8, <2>1 DEF Paired
    <3> QED
      BY <1>1, <1>5, <2>1, <3>1, <3>2 DEF Paired
  <2>2. CASE /\ shots' = Append(shots, [session |-> h[r].page.session,
                                        name |-> h[r].page.name, next |-> 1])
             /\ loc'.shot = Len(shots) + 1
    <3>1. shots'[loc'.shot] = [session |-> h[r].page.session, name |-> h[r].page.name, next |-> 1]
      BY <1>6, <2>2, ShotAdded
    <3> QED
      BY <1>1, <3>1 DEF Paired
  <2> QED
    BY <1>1, <2>1, <2>2
<1>9. h'[r].kind = h[r].kind /\ h'[r].at = h[r].at + 1
  BY <1>1 DEF WentOn
<1>10. /\ ~Unslated(h'[r]) /\ ~Counting(h'[r]) /\ ~AtPhase(h'[r], "stop", 1 .. 4)
       /\ ~Created(h'[r])
  BY <1>1, <1>9 DEF AtPhase, Unslated, Counting, Created
<1>11. RowInv(r)'
  BY <1>1, <1>7, <1>8, <1>10 DEF RowInv, Whole, Paired
<1> QED
  BY <1>3, <1>7, <1>8, <1>11, CalmReduced

(* The only request registers its take, and remembers the number.          *)
LEMMA CalmFile ==
  ASSUME TInv, CalmInv, NEW r \in Handlers, calm, Unfiled(r) \/ FileTake(r) \/ FileTorn(r)
  PROVE  CalmInv'
<1>1. AtFile(h[r]) /\ UNCHANGED <<loc, shots, calm, fresh>> /\ (Ended(r) \/ WentOn(r))
  BY UnfiledEffect, FileTakeEffect, FileTornEffect
<1>2. Alone(r)
  BY <1>1 DEF Alone, Ended, WentOn, AtFile, AtPhase, Active
<1>3. RowInv(r) /\ Whole(loc) /\ (fresh => Paired(loc))
  BY <1>2 DEF Alone, CalmInv
<1>4. CASE Ended(r)
  BY <1>1, <1>2, <1>3, <1>4, CalmReduced DEF Ended, Whole, Paired
<1>5. CASE FileTake(r)
  <2>1. /\ Filing(r) /\ WentOn(r) /\ h'[r].loc = h[r].loc /\ h'[r].next = NextTake(h[r])
    BY <1>5, FileTakeEffect
  <2>2. h'[r].kind = h[r].kind /\ h'[r].at = h[r].at + 1
    BY <2>1 DEF WentOn
  <2>3. /\ RowRead(h[r]) /\ Counting(h'[r]) /\ ~AtPhase(h'[r], "stop", 1 .. 4)
        /\ ~Unslated(h'[r]) /\ ~Created(h'[r])
    BY <1>1, <2>2 DEF AtFile, AtPhase, RowRead, Counting, Unslated, Created
  <2>4. h[r].loc.shot # 0 /\ NextTake(h[r]) = shots[h[r].loc.shot].next
    BY <1>1, <1>3, <2>1 DEF Filing, NextTake, RowInv, AtFile, AtPhase
  <2>5. h[r].kind \in ReqKinds <=> h'[r].kind \in ReqKinds
    BY <2>2
  <2>6. RowInv(r)'
    BY <1>1, <1>3, <2>1, <2>3, <2>4, <2>5 DEF RowInv, Whole, Paired
  <2> QED
    BY <1>1, <1>2, <1>3, <2>6, CalmReduced DEF Whole, Paired
<1> QED
  BY <1>4, <1>5, UnfiledEffect, FileTornEffect

(* The only request counts its take, and saves the row it has.             *)
LEMMA CalmCount ==
  ASSUME TInv, CalmInv, NEW r \in Handlers, calm, CountTake(r)
  PROVE  CalmInv'
<1>1. /\ Counting(h[r]) /\ Ended(r) /\ loc' = h[r].loc
      /\ shots' = [shots EXCEPT ![h[r].loc.shot].next = h[r].next + 1]
      /\ UNCHANGED <<calm, fresh>>
  BY CountEffect
<1>2. Alone(r) /\ RowRead(h[r])
  BY <1>1 DEF Alone, Ended, Counting, AtPhase, Active, RowRead, Created
<1>3. RowInv(r) /\ Whole(loc) /\ (fresh => Paired(loc))
  BY <1>2 DEF Alone, CalmInv
<1>4. loc' = loc
  BY <1>1, <1>2, <1>3 DEF RowInv
<1>5. loc.shot # 0 => shots'[loc.shot].session = shots[loc.shot].session
  <2>1. h[r].next + 1 \in Nat
    BY OpenRecord
  <2>2. loc.shot # 0 => loc.shot \in DOMAIN shots
    BY DEF TInv, DataOK, Location
  <2> QED
    BY <1>1, <2>1, <2>2, Counted DEF TInv, DataOK
<1> QED
  BY <1>1, <1>2, <1>3, <1>4, <1>5, CalmReduced DEF Ended, Whole, Paired

(* The only request makes a session or a shot, of one pair.                *)
LEMMA CalmCreate ==
  ASSUME TInv, CalmInv, NEW r \in Handlers, calm, CreateSession(r) \/ CreateShot(r)
  PROVE  CalmInv'
<1>0. /\ shots \in Seq(Shot) /\ Len(shots) \in Nat /\ sessions + 1 # 0
      /\ loc.shot # 0 => loc.shot \in DOMAIN shots
  BY DEF TInv, DataOK, Location
<1>1. /\ AtPhase(h[r], "session", {1}) \/ AtPhase(h[r], "shot", {1})
      /\ Ended(r) \/ WentOn(r)
      /\ UNCHANGED <<loc, calm, fresh>>
  BY SessionEffect, ShotEffect
<1>2. Alone(r) /\ RowRead(h[r])
  BY <1>1 DEF Alone, Ended, WentOn, AtPhase, Active, RowRead, Created
<1>3. RowInv(r) /\ Whole(loc) /\ (fresh => Paired(loc)) /\ h[r].loc = loc
  BY <1>2 DEF Alone, CalmInv, RowInv
<1>4. ASSUME NEW x, shots' = Append(shots, x) PROVE fresh => Paired(loc)'
  BY <1>0, <1>1, <1>3, <1>4, ShotAdded DEF Paired
<1>5. CASE Ended(r) /\ shots' = shots
  BY <1>1, <1>2, <1>3, <1>5, CalmReduced DEF Ended, Whole, Paired
<1>6. ASSUME WentOn(r), NEW x, shots' = Append(shots, x), Whole(h'[r].loc),
             h'[r].loc.shot = Len(shots) + 1, h'[r].loc.session = x.session, x.session # 0
      PROVE  CalmInv'
  <2>1. h'[r].kind = h[r].kind /\ h'[r].at = h[r].at + 1
    BY <1>6 DEF WentOn
  <2>2. /\ ~RowRead(h'[r]) /\ ~Unslated(h'[r]) /\ ~Counting(h'[r]) /\ ~AtPhase(h'[r], "single", {7})
        /\ ~AtPhase(h'[r], "stop", 1 .. 4) /\ h'[r].kind \notin ReqKinds
    BY <1>1, <2>1 DEF AtPhase, RowRead, Created, Unslated, Counting, ReqKinds
  <2>3. shots'[Len(shots) + 1] = x
    BY <1>0, <1>6, ShotAdded
  <2>4. RowInv(r)'
    BY <1>6, <2>2, <2>3 DEF RowInv, Whole, Paired
  <2> QED
    BY <1>1, <1>2, <1>3, <1>4, <1>6, <2>4, CalmReduced DEF Whole
<1>7. CASE CreateSession(r)
  <2> DEFINE x == [session |-> sessions + 1, name |-> 0, next |-> 1]
             l == [project |-> TRUE, session |-> sessions + 1, shot |-> Len(shots) + 1]
  <2>1. WentOn(r) /\ h'[r].loc = l /\ shots' = Append(shots, x)
    BY <1>7, SessionEffect
  <2>2. Whole(l) /\ l.shot = Len(shots) + 1 /\ l.session = x.session /\ x.session # 0
    BY <1>0 DEF Whole
  <2> HIDE DEF x, l
  <2> QED
    BY <1>6, <2>1, <2>2
<1>8. CASE CreateShot(r)
  <2>1. ASSUME NEW k \in Nat, h[r].loc.session # 0, WentOn(r), h'[r].loc.project = h[r].loc.project,
               h'[r].loc.session = h[r].loc.session, h'[r].loc.shot = Len(shots) + 1,
               shots' = Append(shots, [session |-> h[r].loc.session, name |-> k, next |-> 1])
        PROVE  CalmInv'
    <3> DEFINE x == [session |-> h[r].loc.session, name |-> k, next |-> 1]
    <3>1. Whole(h'[r].loc) /\ x.session = h[r].loc.session
      BY <1>0, <1>3, <2>1 DEF Whole
    <3>2. shots' = Append(shots, x)
      BY <2>1
    <3> HIDE DEF x
    <3> QED
      BY <1>6, <2>1, <3>1, <3>2
  <2> QED
    BY <1>5, <1>8, <2>1, ShotEffect
<1> QED
  BY <1>7, <1>8

(* The only request saves the row, or the pair it made.                    *)
LEMMA CalmSave ==
  ASSUME TInv, CalmInv, NEW r \in Handlers, calm, SaveNew(r) \/ SaveOptions(r) \/ DefaultProject(r)
  PROVE  CalmInv'
<1>1. /\ \/ AtPhase(h[r], "session", {2}) \/ AtPhase(h[r], "shot", {2})
         \/ AtPhase(h[r], "config", {2}) \/ AtPhase(h[r], "page", {1})
      /\ Ended(r) /\ loc'.session = h[r].loc.session /\ loc'.shot = h[r].loc.shot
      /\ h[r].loc.project => loc'.project
      /\ UNCHANGED <<shots, calm, fresh>>
  BY SaveEffect
<1>2. Alone(r)
  BY <1>1 DEF Alone, Ended, AtPhase, Active
<1>3. RowInv(r)
  BY <1>2 DEF Alone, CalmInv
<1>4. Whole(loc)' /\ (fresh => Paired(loc)')
  BY <1>1, <1>3 DEF RowInv, Whole, Paired
<1> QED
  BY <1>1, <1>2, <1>4, CalmReduced DEF Ended

(* A request is opened while no other is.                                  *)
LEMMA CalmOpen ==
  ASSUME TInv, CalmInv, NEW r \in Handlers, NEW kind \in Kinds, Open(r, kind)
  PROVE  CalmInv'
<1> SUFFICES ASSUME calm' PROVE CalmInv'
  BY DEF CalmInv
<1>1. /\ OnlyR(r) /\ Pressed(kind)
      /\ h'[r].kind = kind /\ h'[r].at = 1 /\ h'[r].next = 0
      /\ h'[r].loc = IF kind = "single" THEN NoRow ELSE loc
      /\ fresh' => fresh
      /\ calm /\ \A q \in Handlers : ~Active(q)
      /\ UNCHANGED <<loc, shots>>
  BY OpenEffect
<1>2. (fresh' /\ kind \in ReqKinds) => h'[r].page = PageOf(loc)
  BY OpenEffect DEF ReqKinds
<1>3. Whole(loc) /\ (fresh => Paired(loc))
  BY <1>1 DEF CalmInv
<1>4. kind \in ReqKinds => loc.session # 0
  BY <1>1 DEF Pressed, ReqKinds
<1>5. RowInv(r)'
  <2>1. /\ Unslated(h'[r]) => kind \in ReqKinds
        /\ ~Counting(h'[r]) /\ ~AtPhase(h'[r], "single", {7})
        /\ RowRead(h'[r]) => kind # "single"
        /\ ~Created(h'[r])
    BY <1>1 DEF Unslated, Counting, AtPhase, RowRead, Created, ReqKinds
  <2>2. Whole(h'[r].loc) /\ (fresh' => Paired(h[r].loc)')
    <3>1. NoRow.session = 0 /\ NoRow.shot = 0
      BY DEF NoRow
    <3> QED
      BY <1>1, <1>3, <3>1 DEF Whole, Paired
  <2>3. fresh' /\ kind \in ReqKinds => h'[r].page = PageOf(loc)'
    BY <1>1, <1>2 DEF PageOf
  <2> QED
    BY <1>1, <1>4, <2>1, <2>2, <2>3 DEF RowInv, Whole, Paired
<1>6. \A q \in Handlers : q # r => ~Active(q)'
  BY <1>1 DEF OnlyR, Active
<1> QED
  BY <1>1, <1>3, <1>5, <1>6 DEF CalmInv, OneRequest, Whole, Paired

(* Every step keeps the rows whole while requests do not overlap.          *)
LEMMA CalmStep ==
  ASSUME TInv, BelongInv, CalmInv, [Next]_vars
  PROVE  CalmInv'
<1>1. ASSUME UNCHANGED <<loc, shots, h, calm, fresh>> PROVE CalmInv'
  BY <1>1 DEF CalmInv, OneRequest, Whole, Paired, Active, RowInv, PageOf
<1>2. ASSUME NEW r \in Handlers, Work(r) \/ \E n \in Nodes : Lose(r, n) PROVE CalmInv'
  <2>1. UNCHANGED <<calm, fresh>>
    BY <1>2, WorkNodes DEF WorkMoves
  <2>2. CASE ~calm
    BY <2>1, <2>2 DEF CalmInv
  <2>3. ASSUME calm, NEW n \in Nodes, Answer(r, n) \/ Unanswered(r, n) PROVE CalmInv'
    BY <2>3, AnswerEffect, UnansweredEffect, CalmStay
  <2> QED
    BY <1>2, <2>2, <2>3, CalmBarrier, CalmRead, CalmSlate, CalmFile, CalmCount, CalmCreate, CalmSave
       DEF Work, Lose, GiveUp
<1>3. ASSUME NEW m \in late, LateRuns(m) PROVE CalmInv'
  BY <1>1, <1>3, LateEffect DEF NodeMoves
<1>4. ASSUME NEW n \in Nodes, BurstEnds(n) \/ Keepalive(n) \/ Disturb(n) PROVE CalmInv'
  BY <1>1, <1>4, NodeEffect DEF NodeMoves
<1>5. CASE UNCHANGED vars
  BY <1>1, <1>5 DEF vars
<1> QED
  BY <1>2, <1>3, <1>4, <1>5, CalmOpen DEF Next

-----------------------------------------------------------------------------
(* Takes are numbered within their shot.                                   *)

Done(s) == {t \in DOMAIN takes : takes[t].shot = s /\ t \notin torn}
Seqs(s) == {takes[t].seq : t \in Done(s)}

\* The takes of a shot, of which one may not be counted yet.
InCount(s)  == \E r \in Handlers : Counting(h[r]) /\ h[r].loc.shot = s
Given(s)    == IF InCount(s) THEN shots[s].next ELSE shots[s].next - 1
Numbered(s) ==
  shots[s].next # 0 /\ Cardinality(Done(s)) = Given(s) /\ Seqs(s) = 1 .. Given(s)

NumInv == calm => \A s \in DOMAIN shots : Numbered(s)

(* There are finitely many takes of a shot.                                *)
LEMMA DoneFinite ==
  ASSUME TInv, NEW s
  PROVE  IsFiniteSet(Done(s))
<1>1. DOMAIN takes = 1 .. Len(takes) /\ Len(takes) \in Nat
  BY DEF TInv, DataOK
<1>2. IsFiniteSet(1 .. Len(takes))
  BY <1>1, FS_Interval
<1>3. Done(s) \in SUBSET (1 .. Len(takes))
  BY <1>1 DEF Done
<1> QED
  BY <1>2, <1>3, FS_Subset

(* No take is made, and none is counted.                                   *)
LEMMA NumKept ==
  ASSUME BelongInv, NumInv, calm, UNCHANGED <<takes, torn>>,
         \A s \in DOMAIN shots : shots'[s].next = shots[s].next,
         \A s \in DOMAIN shots' : s \in DOMAIN shots \/ shots'[s].next = 1,
         \A s : InCount(s)' <=> InCount(s),
         \A s \in DOMAIN shots' : InCount(s) => s \in DOMAIN shots
  PROVE  NumInv'
<1> SUFFICES ASSUME NEW s \in DOMAIN shots' PROVE Numbered(s)'
  BY DEF NumInv
<1>1. Done(s)' = Done(s) /\ Seqs(s)' = Seqs(s)
  BY DEF Done, Seqs
<1>2. CASE s \in DOMAIN shots
  <2>1. Given(s)' = Given(s) /\ Numbered(s) /\ shots'[s].next = shots[s].next
    BY <1>2 DEF Given, NumInv
  <2> QED
    BY <1>1, <2>1 DEF Numbered
<1>3. CASE s \notin DOMAIN shots
  <2>1. Done(s) = {}
    BY <1>3 DEF Done, BelongInv, TakesBelong
  <2>2. Seqs(s) = {} /\ Cardinality(Done(s)) = 0
    BY <2>1, FS_EmptySet DEF Seqs
  <2>3. Given(s)' = 0 /\ shots'[s].next = 1
    BY <1>3 DEF Given
  <2>4. 1 .. 0 = {}
    OBVIOUS
  <2> QED
    BY <1>1, <2>2, <2>3, <2>4 DEF Numbered
<1> QED
  BY <1>2, <1>3

(* A request that is open alone counts a take, if one is counted.          *)
LEMMA CountAlone ==
  ASSUME CalmInv, NEW r \in Handlers, Alone(r)
  PROVE  /\ \A s : InCount(s) <=> Counting(h[r]) /\ h[r].loc.shot = s
         /\ \A s : InCount(s)' <=> Counting(h'[r]) /\ h'[r].loc.shot = s
<1>1. \A q \in Handlers : q # r => ~Active(q) /\ h'[q] = h[q]
  BY DEF CalmInv, OneRequest, Alone, OnlyR
<1>2. \A q \in Handlers : q # r => ~Counting(h[q]) /\ ~Counting(h'[q])
  BY <1>1 DEF Counting, AtPhase, Active
<1> QED
  BY <1>2 DEF InCount

(* A take gets the number after the last, and is counted next.             *)
LEMMA NumFiled ==
  ASSUME TInv, BelongInv, CalmInv, NumInv, NEW r \in Handlers, calm, FileTake(r) \/ FileTorn(r)
  PROVE  NumInv'
<1>1. /\ AtFile(h[r]) /\ Filing(r) /\ UNCHANGED <<shots, calm, fresh>> /\ (Ended(r) \/ WentOn(r))
  BY FileTakeEffect, FileTornEffect
<1>2. Alone(r)
  BY <1>1 DEF Alone, Ended, WentOn, AtFile, AtPhase, Active
<1>3. PICK clips \in SUBSET Clips : takes' = NewTake(h[r], clips)
  BY FileTakeEffect, FileTornEffect, OpenRecord
<1>0. PICK shot : shot = h[r].loc.shot
  OBVIOUS
<1> DEFINE last == Len(takes) + 1
<1>4. /\ DOMAIN takes' = DOMAIN takes \cup {last} /\ last \notin DOMAIN takes
      /\ \A t \in DOMAIN takes : takes'[t] = takes[t]
      /\ takes'[last].shot = shot /\ takes'[last].seq = NextTake(h[r])
      /\ shot \in DOMAIN shots
  BY <1>0, <1>1, <1>3, TakeAdded
<1>5. last \notin torn
  BY <1>4 DEF TInv, CountsOK
<1>6. ~Counting(h[r])
  BY <1>1 DEF AtFile, AtPhase, Counting
<1>7. \A s : ~InCount(s)
  BY <1>2, <1>6, CountAlone
<1> HIDE DEF last
<1>8. CASE FileTorn(r)
  <2>1. torn' = torn \cup {last} /\ h'[r] = Idle
    BY <1>8, FileTornEffect DEF last, Ended
  <2>2. \A s : ~InCount(s)'
    BY <1>2, <2>1, CountAlone DEF Counting, AtPhase, Idle
  <2>3. \A s : Done(s)' = Done(s)
    BY <1>4, <2>1 DEF Done
  <2>4. \A s : Seqs(s)' = Seqs(s)
    BY <1>4, <2>3 DEF Seqs, Done
  <2>5. \A s : Given(s)' = Given(s)
    BY <1>1, <1>7, <2>2 DEF Given
  <2> QED
    BY <1>1, <2>3, <2>4, <2>5 DEF NumInv, Numbered
<1>9. CASE FileTake(r)
  <2>1. torn' = torn /\ WentOn(r) /\ h'[r].loc = h[r].loc
    BY <1>9, FileTakeEffect
  <2>2. h'[r].kind = h[r].kind /\ h'[r].at = h[r].at + 1
    BY <2>1 DEF WentOn
  <2>3. Counting(h'[r])
    BY <1>1, <2>2 DEF AtFile, AtPhase, Counting
  <2>4. \A s : InCount(s)' <=> s = shot
    BY <1>0, <1>2, <2>1, <2>3, CountAlone
  <2>5. NextTake(h[r]) = shots[shot].next
    BY <1>0, <1>1, <1>2 DEF Alone, CalmInv, RowInv, NextTake, AtFile, AtPhase
  <2>6. shots[shot].next \in Nat /\ Numbered(shot)
    BY <1>4, ShotRows DEF TInv, DataOK, NumInv
  <2>7. Numbered(shot)'
    <3> DEFINE k == shots[shot].next
    <3>1. Done(shot)' = Done(shot) \cup {last} /\ last \notin Done(shot)
      BY <1>4, <1>5, <2>1 DEF Done
    <3>2. Cardinality(Done(shot) \cup {last}) = Cardinality(Done(shot)) + 1
      BY <3>1, DoneFinite, FS_AddElement
    <3>3. Given(shot) = k - 1 /\ Given(shot)' = k /\ k \in Nat /\ k # 0
      BY <1>1, <1>7, <2>4, <2>1, <2>6 DEF Given, Numbered
    <3>4. Seqs(shot)' = Seqs(shot) \cup {k}
      BY <1>4, <2>5, <3>1 DEF Seqs, Done
    <3>5. Cardinality(Done(shot))' = k
      BY <2>6, <3>1, <3>2, <3>3 DEF Numbered
    <3>6. (1 .. k - 1) \cup {k} = 1 .. k
      BY <3>3
    <3>7. Seqs(shot)' = 1 .. k
      BY <2>6, <3>3, <3>4, <3>6 DEF Numbered
    <3>8. shots'[shot].next # 0
      BY <1>1, <3>3
    <3> HIDE DEF k
    <3>9. /\ shots'[shot].next # 0 /\ Cardinality(Done(shot))' = Given(shot)'
          /\ Seqs(shot)' = 1 .. Given(shot)'
      BY <3>3, <3>5, <3>7, <3>8
    <3> QED
      BY <3>9 DEF Numbered
  <2>8. ASSUME NEW s \in DOMAIN shots, s # shot PROVE Numbered(s)'
    <3>1. Done(s)' = Done(s)
      BY <1>4, <2>1, <2>8 DEF Done
    <3>2. Seqs(s)' = Seqs(s)
      BY <1>4, <3>1 DEF Seqs, Done
    <3>3. Given(s)' = Given(s)
      BY <1>1, <1>7, <2>4, <2>8 DEF Given
    <3> QED
      BY <1>1, <3>1, <3>2, <3>3 DEF NumInv, Numbered
  <2> QED
    BY <1>1, <2>7, <2>8 DEF NumInv
<1> QED
  BY <1>8, <1>9

(* The take is counted: the counter is past its number.                    *)
LEMMA NumCounted ==
  ASSUME TInv, CalmInv, NumInv, NEW r \in Handlers, calm, CountTake(r)
  PROVE  NumInv'
<1> DEFINE shot == h[r].loc.shot
<1>1. /\ Counting(h[r]) /\ Ended(r) /\ UNCHANGED <<takes, torn, calm, fresh>>
      /\ shots' = [shots EXCEPT ![shot].next = h[r].next + 1]
  BY CountEffect
<1>2. Alone(r)
  BY <1>1 DEF Alone, Ended, Counting, AtPhase, Active
<1>3. h[r].next = shots[shot].next
  BY <1>1, <1>2 DEF Alone, CalmInv, RowInv
<1>4. /\ DOMAIN shots' = DOMAIN shots
      /\ \A s \in DOMAIN shots : shots'[s].next = IF s = shot THEN h[r].next + 1 ELSE shots[s].next
      /\ h[r].next \in Nat
  <2>1. h[r].next \in Nat /\ h[r].next + 1 \in Nat
    BY OpenRecord
  <2> QED
    BY <1>1, <2>1, Counted DEF TInv, DataOK
<1>5. \A s : InCount(s) <=> s = shot
  BY <1>1, <1>2, CountAlone
<1>6. \A s : ~InCount(s)'
  BY <1>1, <1>2, CountAlone DEF Ended, Counting, AtPhase, Idle
<1> HIDE DEF shot
<1>7. ASSUME NEW s \in DOMAIN shots PROVE Numbered(s)'
  <2>1. Done(s)' = Done(s) /\ Seqs(s)' = Seqs(s)
    BY <1>1 DEF Done, Seqs
  <2>2. Given(s)' = Given(s) /\ shots'[s].next # 0 /\ Numbered(s)
    BY <1>3, <1>4, <1>5, <1>6, <1>7 DEF Given, NumInv, Numbered
  <2> QED
    BY <2>1, <2>2 DEF Numbered
<1> QED
  BY <1>4, <1>7 DEF NumInv

(* A step of a handler, but for a request that goes unanswered.            *)
LEMMA NumWork ==
  ASSUME TInv, BelongInv, CalmInv, NumInv, calm, NEW r \in Handlers, Work(r)
  PROVE  NumInv'
<1>0. /\ shots \in Seq(Shot) /\ Len(shots) \in Nat /\ h[r].loc.shot \in 0 .. Len(shots)
      /\ h[r].at \in Nat
  BY OpenRecord DEF TInv, DataOK, Handler
<1>1. Alone(r)
  BY WorkNodes DEF WorkMoves, Alone
<1>2. RowInv(r)
  BY <1>1 DEF CalmInv, Alone
<1>3. \A s : InCount(s) => s \in DOMAIN shots
  BY <1>0, <1>1, <1>2, CountAlone DEF RowInv
<1>4. ASSUME UNCHANGED <<takes, torn, shots>>,
             Counting(h'[r]) <=> Counting(h[r]), Counting(h[r]) => h'[r].loc = h[r].loc
      PROVE  NumInv'
  <2>1. \A s : InCount(s)' <=> InCount(s)
    BY <1>1, <1>4, CountAlone
  <2> QED
    BY <1>3, <1>4, <2>1, NumKept
<1>5. ASSUME UNCHANGED <<takes, torn>>, NEW x, x.next = 1, shots' = Append(shots, x),
             ~Counting(h'[r]), ~Counting(h[r])
      PROVE  NumInv'
  <2>1. \A s : InCount(s)' <=> InCount(s)
    BY <1>1, <1>5, CountAlone
  <2>2. /\ \A s \in DOMAIN shots : shots'[s].next = shots[s].next
        /\ \A s \in DOMAIN shots' : s \in DOMAIN shots \/ shots'[s].next = 1
    BY <1>0, <1>5, ShotAdded
  <2> QED
    BY <1>3, <1>5, <2>1, <2>2, NumKept
<1>6. ~Counting(Idle)
  BY DEF Idle, Counting, AtPhase
<1>7. ASSUME NEW n \in Nodes, Answer(r, n) \/ Unanswered(r, n) PROVE NumInv'
  <2>1. Stayed(r, n) /\ UNCHANGED <<takes, torn, shots>>
    BY <1>7, AnswerEffect, UnansweredEffect
  <2> QED
    BY <1>4, <2>1 DEF Stayed, Counting, AtPhase
<1>8. CASE Barrier(r)
  <2>1. UNCHANGED <<takes, torn, shots>>
    BY <1>8, BarrierEffect
  <2>2. \/ AtPhase(h[r], "start", {4}) /\ Ended(r)
        \/ /\ \/ AtPhase(h[r], "start", 2 .. 3) \/ AtPhase(h[r], "stop", 1 .. 3)
              \/ AtPhase(h[r], "single", 1 .. 4) \/ AtPhase(h[r], "config", {1})
           /\ WentOn(r)
    BY <1>8, BarrierEffect
  <2>3. ~Counting(h[r]) /\ ~Counting(h'[r])
    BY <1>6, <2>2 DEF Ended, WentOn, Counting, AtPhase
  <2> QED
    BY <1>4, <2>1, <2>3
<1>9. CASE ReadLocation(r)
  <2>1. AtPhase(h[r], "single", {5}) /\ WentOn(r) /\ UNCHANGED <<takes, torn, shots>>
    BY <1>9, ReadEffect
  <2>2. ~Counting(h[r]) /\ ~Counting(h'[r])
    BY <2>1 DEF WentOn, Counting, AtPhase
  <2> QED
    BY <1>4, <2>1, <2>2
<1>10. CASE Slate(r)
  <2>1. /\ AtPhase(h[r], "start", {1}) \/ AtPhase(h[r], "single", {6})
        /\ WentOn(r) /\ UNCHANGED <<takes, torn>>
        /\ \/ shots' = shots
           \/ shots' = Append(shots, [session |-> h[r].page.session,
                                      name |-> h[r].page.name, next |-> 1])
    BY <1>10, SlateEffect
  <2>2. ~Counting(h[r]) /\ ~Counting(h'[r])
    BY <2>1 DEF WentOn, Counting, AtPhase
  <2> QED
    BY <1>4, <1>5, <2>1, <2>2
<1>11. CASE Unfiled(r)
  <2>1. AtFile(h[r]) /\ Ended(r) /\ UNCHANGED <<takes, torn, shots>>
    BY <1>11, UnfiledEffect
  <2>2. ~Counting(h[r]) /\ ~Counting(h'[r])
    BY <1>6, <2>1 DEF Ended, AtFile, Counting, AtPhase
  <2> QED
    BY <1>4, <2>1, <2>2
<1>12. CASE CreateSession(r)
  <2>1. /\ AtPhase(h[r], "session", {1}) /\ WentOn(r) /\ UNCHANGED <<takes, torn>>
        /\ shots' = Append(shots, [session |-> sessions + 1, name |-> 0, next |-> 1])
    BY <1>12, SessionEffect
  <2>2. ~Counting(h[r]) /\ ~Counting(h'[r])
    BY <2>1 DEF WentOn, Counting, AtPhase
  <2> QED
    BY <1>5, <2>1, <2>2
<1>13. CASE CreateShot(r)
  <2>1. /\ AtPhase(h[r], "shot", {1}) /\ UNCHANGED <<takes, torn>>
        /\ \/ Ended(r) /\ shots' = shots
           \/ \E k \in Nat :
                /\ WentOn(r)
                /\ shots' = Append(shots, [session |-> h[r].loc.session, name |-> k, next |-> 1])
    BY <1>13, ShotEffect
  <2>2. ~Counting(h[r]) /\ ~Counting(h'[r])
    BY <1>6, <2>1 DEF Ended, WentOn, Counting, AtPhase
  <2> QED
    BY <1>4, <1>5, <2>1, <2>2
<1>14. CASE SaveNew(r) \/ SaveOptions(r) \/ DefaultProject(r)
  <2>1. /\ \/ AtPhase(h[r], "session", {2}) \/ AtPhase(h[r], "shot", {2})
           \/ AtPhase(h[r], "config", {2}) \/ AtPhase(h[r], "page", {1})
        /\ Ended(r) /\ UNCHANGED <<takes, torn, shots>>
    BY <1>14, SaveEffect
  <2>2. ~Counting(h[r]) /\ ~Counting(h'[r])
    BY <1>6, <2>1 DEF Ended, Counting, AtPhase
  <2> QED
    BY <1>4, <2>1, <2>2
<1> QED
  BY <1>7, <1>8, <1>9, <1>10, <1>11, <1>12, <1>13, <1>14, NumFiled, NumCounted DEF Work, GiveUp

(* Every step keeps the takes numbered.                                    *)
LEMMA NumStep ==
  ASSUME TInv, BelongInv, CalmInv, NumInv, [Next]_vars
  PROVE  NumInv'
<1>1. ASSUME UNCHANGED <<shots, takes, h, calm, torn>> PROVE NumInv'
  BY <1>1 DEF NumInv, Numbered, Done, Seqs, Given, InCount
<1>2. ASSUME NEW r \in Handlers, Work(r) \/ \E n \in Nodes : Lose(r, n) PROVE NumInv'
  <2>1. calm' = calm
    BY <1>2, WorkNodes DEF WorkMoves
  <2>2. CASE ~calm
    BY <2>1, <2>2 DEF NumInv
  <2>3. ASSUME calm, NEW n \in Nodes, Lose(r, n) PROVE NumInv'
    <3>1. Stayed(r, n) /\ UNCHANGED <<takes, torn, shots>>
      BY <2>3, UnansweredEffect DEF Lose
    <3>2. \A q \in Handlers : (Counting(h'[q]) <=> Counting(h[q])) /\ h'[q].loc = h[q].loc
      BY <3>1 DEF Stayed, OnlyR, Counting, AtPhase
    <3>3. \A s : InCount(s)' <=> InCount(s)
      BY <3>2 DEF InCount
    <3> QED
      BY <2>1, <3>1, <3>3 DEF NumInv, Numbered, Done, Seqs, Given
  <2> QED
    BY <1>2, <2>2, <2>3, NumWork
<1>3. ASSUME NEW m \in late, LateRuns(m) PROVE NumInv'
  BY <1>1, <1>3, LateEffect DEF NodeMoves
<1>4. ASSUME NEW n \in Nodes, BurstEnds(n) \/ Keepalive(n) \/ Disturb(n) PROVE NumInv'
  BY <1>1, <1>4, NodeEffect DEF NodeMoves
<1>5. CASE UNCHANGED vars
  BY <1>1, <1>5 DEF vars
<1>6. ASSUME NEW r \in Handlers, NEW kind \in Kinds, Open(r, kind) PROVE NumInv'
  <2>1. /\ ~Active(r) /\ OnlyR(r) /\ h'[r].at = 1 /\ (calm' => calm)
        /\ UNCHANGED <<shots, takes, torn>>
    BY <1>6, OpenEffect
  <2>2. ~Counting(h[r]) /\ ~Counting(h'[r])
    BY <2>1 DEF Active, Counting, AtPhase
  <2>3. \A q \in Handlers : (Counting(h'[q]) <=> Counting(h[q])) /\ (Counting(h[q]) => h'[q] = h[q])
    BY <2>1, <2>2 DEF OnlyR
  <2>4. \A s : InCount(s)' <=> InCount(s)
    BY <2>3 DEF InCount
  <2> QED
    BY <2>1, <2>4 DEF NumInv, Numbered, Done, Seqs, Given
<1> QED
  BY <1>2, <1>3, <1>4, <1>5, <1>6 DEF Next

(* TakesNumbered.                                                          *)
LEMMA NumberedWhenQuiet ==
  ASSUME TInv, NumInv
  PROVE  TakesNumbered
<1> SUFFICES ASSUME calm, Quiet, NEW s \in DOMAIN shots
             PROVE  /\ {takes[t].seq : t \in Done(s)} = 1 .. shots[s].next - 1
                    /\ Cardinality(Done(s)) = shots[s].next - 1
  BY DEF TakesNumbered, Done
<1>1. ~InCount(s)
  BY DEF Quiet, InCount, Counting, AtPhase
<1>2. Numbered(s)
  BY DEF NumInv
<1> QED
  BY <1>1, <1>2 DEF Numbered, Given, Seqs

-----------------------------------------------------------------------------
(* Every clip of a node that no fault has touched is accounted for.        *)

\* A camera whose clip only all_finalize_single reports; a request that still
\* has to send that to node n.
Waiting(c)    == (c.rec /\ c.single) \/ c.summ # 0
Working(x, n) ==
  /\ x.kind = "single"
  /\ x.at \in 2 .. 3 \/ (x.at = 1 /\ n \notin x.pend) \/ (x.at = 4 /\ n \in x.pend)

Busy(n) ==
  /\ Waiting(cam[n]) => cam[n].listed /\ \E r \in Handlers : Working(h[r], n)
  /\ cam[n].made # 0 => loc.session # 0
BusyInv == calm => \A n \in Nodes \ hurt : Busy(n)

\* The latest clip of a camera, that it has not reported.
Latest(c, k) == k = c.made /\ (c.rec \/ c.summ # 0)
Filed(e)     == \E t \in DOMAIN takes : e \in takes[t].clips
Got(e)       == \E r \in Handlers : e \in h[r].got
Kept(n, k)   == Latest(cam[n], k) \/ Filed(<<n, k>>) \/ Got(<<n, k>>)
LedgerInv ==
  (calm /\ torn = {}) => \A n \in Nodes \ hurt : \A k \in 1 .. cam[n].made : Kept(n, k)

(* The location keeps its session while requests do not overlap.           *)
LEMMA SessionStays ==
  ASSUME TInv, BelongInv, CalmInv, calm, NEW r \in Handlers,
         Work(r) \/ \E n \in Nodes : Lose(r, n), loc.session # 0
  PROVE  loc'.session # 0
<1>1. Alone(r)
  BY WorkNodes DEF WorkMoves, Alone
<1>2. RowInv(r)
  BY <1>1 DEF CalmInv, Alone
<1>3. ASSUME loc' = loc PROVE loc'.session # 0
  BY <1>3
<1>4. CASE Slate(r)
  <2>1. /\ AtPhase(h[r], "start", {1}) \/ AtPhase(h[r], "single", {6})
        /\ loc'.session = h[r].page.session
    BY <1>4, SlateEffect
  <2>2. h[r].kind \in ReqKinds
    BY <2>1 DEF AtPhase, ReqKinds
  <2> QED
    BY <2>1, <2>2 DEF BelongInv, PagesBelong
<1>5. CASE CountTake(r)
  <2>1. Counting(h[r]) /\ loc' = h[r].loc
    BY <1>5, CountEffect
  <2>2. RowRead(h[r])
    BY <2>1 DEF Counting, AtPhase, RowRead, Created
  <2> QED
    BY <1>2, <2>1, <2>2 DEF RowInv
<1>6. CASE SaveNew(r) \/ SaveOptions(r) \/ DefaultProject(r)
  <2>1. /\ \/ AtPhase(h[r], "session", {2}) \/ AtPhase(h[r], "shot", {2})
           \/ AtPhase(h[r], "config", {2}) \/ AtPhase(h[r], "page", {1})
        /\ loc'.session = h[r].loc.session
    BY <1>6, SaveEffect
  <2>2. Created(h[r]) \/ RowRead(h[r])
    BY <2>1 DEF AtPhase, RowRead, Created
  <2> QED
    BY <1>2, <2>1, <2>2 DEF RowInv
<1>7. CASE \E n \in Nodes : Lose(r, n) \/ GiveUp(r, n) \/ Answer(r, n)
  BY <1>3, <1>7, UnansweredEffect, AnswerEffect DEF Lose, GiveUp
<1>8. CASE Barrier(r) \/ ReadLocation(r)
  BY <1>3, <1>8, BarrierEffect, ReadEffect
<1>9. CASE Unfiled(r) \/ FileTake(r) \/ FileTorn(r)
  BY <1>3, <1>9, UnfiledEffect, FileTakeEffect, FileTornEffect
<1>10. CASE CreateSession(r) \/ CreateShot(r)
  BY <1>3, <1>10, SessionEffect, ShotEffect
<1> QED
  BY <1>4, <1>5, <1>6, <1>7, <1>8, <1>9, <1>10 DEF Work

(* The request that will collect the clip of a node goes on with it.       *)
LEMMA WorkingStays ==
  ASSUME TInv, SoundInv, NEW r \in Handlers, NEW n \in Nodes, Working(h[r], n), n \notin hurt',
         Work(r) \/ \E m \in Nodes : Lose(r, m), ~Answer(r, n)
  PROVE  Working(h'[r], n)
<1>1. AtPhase(h[r], "single", 1 .. 4) /\ n \in h[r].nodes /\ h[r].at \in Nat
  <2>1. n \notin hurt
    BY WorkNodes DEF WorkMoves
  <2>2. AtPhase(h[r], "single", 1 .. 4) /\ h[r].at \in Nat
    BY OpenRecord DEF Working, AtPhase, Handler
  <2> QED
    BY <2>1, <2>2 DEF SoundInv, SoundNode, Active, AtPhase
<1>2. ASSUME NEW m \in Nodes, Stayed(r, m), m # n PROVE Working(h'[r], n)
  BY <1>2 DEF Stayed, Working
<1>3. CASE \E m \in Nodes : Answer(r, m)
  BY <1>2, <1>3, AnswerEffect
<1>4. CASE \E m \in Nodes : Unanswered(r, m)
  BY <1>2, <1>4, UnansweredEffect
<1>5. CASE Barrier(r)
  <2>1. h[r].pend = {} /\ (WentOn(r) \/ AtPhase(h[r], "start", {4}))
    BY <1>5, BarrierEffect
  <2>2. WentOn(r) /\ h[r].pend = {}
    BY <1>1, <2>1 DEF AtPhase
  <2>3. h[r].at \in 1 .. 3
    BY <1>1, <2>2 DEF Working, AtPhase
  <2>4. h'[r].kind = "single" /\ h'[r].at = h[r].at + 1 /\ n \in h'[r].pend
    BY <1>1, <2>2 DEF WentOn, AtPhase
  <2> QED
    BY <2>3, <2>4 DEF Working
<1>6. ~ReadLocation(r)
  BY <1>1, ReadEffect DEF AtPhase
<1>7. ~Slate(r)
  <2>1. Slate(r) => AtPhase(h[r], "start", {1}) \/ AtPhase(h[r], "single", {6})
    BY SlateEffect
  <2> QED
    BY <1>1, <2>1 DEF AtPhase
<1>8. ~Unfiled(r) /\ ~FileTake(r) /\ ~FileTorn(r)
  BY <1>1, UnfiledEffect, FileTakeEffect, FileTornEffect DEF AtFile, AtPhase
<1>9. ~CountTake(r)
  <2>1. CountTake(r) => Counting(h[r])
    BY CountEffect
  <2> QED
    BY <1>1, <2>1 DEF Counting, AtPhase
<1>10. ~CreateSession(r) /\ ~CreateShot(r)
  BY <1>1 DEF CreateSession, CreateShot, AtPhase
<1>11. ~SaveNew(r) /\ ~SaveOptions(r) /\ ~DefaultProject(r)
  BY <1>1 DEF SaveNew, SaveOptions, DefaultProject, AtPhase
<1> QED
  BY <1>3, <1>4, <1>5, <1>6, <1>7, <1>8, <1>9, <1>10, <1>11 DEF Work, Lose, GiveUp

(* A camera that no request is to collect from is not waiting.             *)
LEMMA NotWaiting ==
  ASSUME CalmInv, BusyInv, calm, NEW r \in Handlers, Active(r), NEW n \in Nodes \ hurt
  PROVE  Waiting(cam[n]) => cam[n].listed /\ Working(h[r], n)
<1>1. \A q \in Handlers : Working(h[q], n) => q = r
  BY DEF Working, CalmInv, OneRequest, Active
<1> QED
  BY <1>1 DEF BusyInv, Busy

\* What an answer leaves of a camera c and its reply: what it waits for is
\* listed, and its latest clip is recorded on, waits, is reported, or is
\* followed by one that is recorded.
Accounted(n, op, single) ==
  LET c == cam[n]
      d == Execute(c, op)
  IN  /\ Waiting(d) => d.listed /\ single
      /\ \/ /\ d.made = c.made
            /\ c.rec \/ c.summ # 0 => d.rec \/ d.summ # 0 \/ Reply(n, op) = {<<n, c.made>>}
         \/ d.made = c.made + 1 /\ d.rec /\ ~c.rec /\ c.summ = 0

(* An answer leaves its camera accounted for, and only a request that      *)
(* records makes a clip.                                                   *)
LEMMA AnswerAccounts ==
  ASSUME TInv, SoundInv, CamInv, CalmInv, BusyInv, calm, NEW r \in Handlers,
         NEW n \in Nodes \ hurt, Answer(r, n)
  PROVE  /\ Accounted(n, Step(r), Working(h'[r], n))
         /\ Execute(cam[n], Step(r)).made # cam[n].made => h[r].kind \in ReqKinds
<1> DEFINE c == cam[n]
           d == Execute(cam[n], Step(r))
<1>0. c \in Camera /\ c.plugged /\ CamOK(c)
  BY DEF TInv, NodesOK, SoundInv, SoundNode, CamInv
<1>1. /\ Stayed(r, n) /\ n \in h[r].pend /\ Active(r) /\ ~Blocked(c, Step(r))
      /\ Step(r) \in NodeSteps
  BY AnswerEffect DEF Answer
<1>2. Waiting(c) => c.listed /\ Working(h[r], n)
  BY <1>1, NotWaiting
<1>3. h'[r].kind = h[r].kind /\ h'[r].at = h[r].at /\ n \notin h'[r].pend
  BY <1>1 DEF Stayed
<1>4. CASE Step(r) \in {"prepare", "prepare_single"}
  <2>1. AtPhase(h[r], "start", {2}) \/ AtPhase(h[r], "single", {1})
    BY <1>4, Phases
  <2>2. ~Waiting(c)
    BY <1>1, <1>2, <2>1 DEF Working, AtPhase
  <2>3. h[r].kind \in ReqKinds
    BY <2>1 DEF AtPhase, ReqKinds
  <2>4. Step(r) = "prepare_single" => Working(h'[r], n)
    BY <1>3, Phases DEF Working, AtPhase
  <2>5. CASE Step(r) = "prepare"
    <3>1. d = Prepare(c, FALSE)
      BY <2>5 DEF Execute
    <3>2. /\ Waiting(d) => FALSE
          /\ \/ d.made = c.made /\ d.rec = c.rec /\ d.summ = c.summ
             \/ d.made = c.made + 1 /\ d.rec /\ ~c.rec
      BY <1>0, <2>2, <3>1 DEF Prepare, Camera, Waiting
    <3>3. c.summ = 0
      BY <2>2 DEF Waiting
    <3> HIDE DEF c, d
    <3> QED
      BY <2>3, <3>2, <3>3 DEF Accounted, c, d
  <2>6. CASE Step(r) = "prepare_single"
    <3>1. d = Prepare(c, TRUE)
      BY <2>6 DEF Execute
    <3>2. /\ Waiting(d) => d.listed
          /\ \/ d.made = c.made /\ d.rec = c.rec /\ d.summ = c.summ
             \/ d.made = c.made + 1 /\ d.rec /\ ~c.rec
      BY <1>0, <2>2, <3>1 DEF Prepare, Camera, Waiting
    <3>3. c.summ = 0
      BY <2>2 DEF Waiting
    <3> HIDE DEF c, d
    <3> QED
      BY <2>3, <2>4, <2>6, <3>2, <3>3 DEF Accounted, c, d
  <2> QED
    BY <1>4, <2>5, <2>6
<1>5. CASE Step(r) = "stop"
  <2>1. d = Stop(c) /\ ~Waiting(c)
    <3>1. AtPhase(h[r], "stop", {2})
      BY <1>5, Phases
    <3> QED
      BY <1>2, <1>5, <3>1 DEF Execute, Working, AtPhase
  <2>2. d.made = c.made /\ ~Waiting(d)
    BY <1>0, <2>1 DEF Stop, Camera, Waiting
  <2>3. c.rec \/ c.summ # 0 => d.rec \/ d.summ # 0 \/ Reply(n, Step(r)) = {<<n, c.made>>}
    BY <1>0, <1>5, <2>1 DEF Stop, Camera, Waiting, Reply
  <2> HIDE DEF c, d
  <2> QED
    BY <2>2, <2>3 DEF Accounted, c, d
<1>6. CASE Step(r) = "finalize"
  <2>1. d = Finalize(c)
    BY <1>6 DEF Execute
  <2>2. CASE c.listed
    <3>1. ~c.rec
      BY <1>1, <1>6, <2>2 DEF Blocked
    <3>2. d.made = c.made /\ ~Waiting(d)
      BY <1>0, <2>1, <2>2, <3>1 DEF Finalize, Camera, Waiting
    <3>3. c.summ # 0 => Reply(n, Step(r)) = {<<n, c.made>>}
      BY <1>0, <1>6, <2>2 DEF Reply, CamOK, Camera
    <3> HIDE DEF c, d
    <3> QED
      BY <3>1, <3>2, <3>3 DEF Accounted, c, d
  <2>3. CASE ~c.listed
    <3>1. ~Waiting(c)
      BY <1>2, <2>3
    <3>2. d.made = c.made /\ ~Waiting(d) /\ d.rec = c.rec /\ d.summ = c.summ
      BY <1>0, <2>1, <2>3, <3>1 DEF Finalize, Camera, Waiting
    <3> HIDE DEF c, d
    <3> QED
      BY <3>2 DEF Accounted, c, d
  <2> QED
    BY <2>2, <2>3
<1>7. CASE Step(r) \in {"release", "trigger", "halt", "resume", "options"}
  <2>1. /\ d.made = c.made /\ d.rec = c.rec /\ d.summ = c.summ /\ d.single = c.single
        /\ d.listed = c.listed
    <3>1. d \in {[c EXCEPT !.hold = IF c.listed THEN FALSE ELSE @, !.sync = FALSE],
                 [c EXCEPT !.sync = TRUE], [c EXCEPT !.sync = FALSE], c}
      BY <1>7 DEF Execute
    <3> QED
      BY <1>0, <3>1 DEF Camera
  <2>2. Waiting(c) => Working(h'[r], n)
    <3>1. ASSUME Working(h[r], n) PROVE h[r].kind = "single" /\ h[r].at \in 2 .. 3
      <4>1. h[r].kind = "single" /\ (h[r].at \in 2 .. 3 \/ h[r].at = 4)
        BY <1>1, <3>1 DEF Working
      <4>2. h[r].at # 4
        BY <1>7, <4>1, Phases DEF AtPhase
      <4> QED
        BY <4>1, <4>2
    <3> QED
      BY <1>2, <1>3, <3>1 DEF Working
  <2> HIDE DEF c, d
  <2> QED
    BY <1>2, <2>1, <2>2 DEF Accounted, Waiting, c, d
<1> QED
  BY <1>1, <1>4, <1>5, <1>6, <1>7 DEF NodeSteps

(* A step of a handler: a camera waits only while a request collects.      *)
LEMMA BusyWork ==
  ASSUME TInv, CamInv, SoundInv, BelongInv, CalmInv, BusyInv, NEW r \in Handlers,
         Work(r) \/ \E m \in Nodes : Lose(r, m)
  PROVE  BusyInv'
<1> SUFFICES ASSUME calm', NEW n \in Nodes \ hurt' PROVE Busy(n)'
  BY DEF BusyInv
<1>1. WorkMoves(r)
  BY WorkNodes
<1>2. calm /\ n \notin hurt /\ Active(r)
  BY <1>1 DEF WorkMoves
<1>3. loc.session # 0 => loc'.session # 0
  BY <1>2, SessionStays
<1>4. Busy(n)
  BY <1>2 DEF BusyInv
<1>5. CASE Answer(r, n)
  <2>1. cam'[n] = Execute(cam[n], Step(r)) /\ loc' = loc
    BY <1>5, AnswerEffect
  <2>2. /\ Accounted(n, Step(r), Working(h'[r], n))
        /\ Execute(cam[n], Step(r)).made # cam[n].made => h[r].kind \in ReqKinds
    BY <1>2, <1>5, AnswerAccounts
  <2>3. Waiting(cam'[n]) => cam'[n].listed /\ Working(h'[r], n)
    BY <2>1, <2>2 DEF Accounted
  <2>4. h[r].kind \in ReqKinds => loc.session # 0
    BY <1>2 DEF CalmInv, RowInv
  <2>5. cam'[n].made # 0 => loc'.session # 0
    BY <1>4, <2>1, <2>2, <2>4 DEF Busy
  <2> QED
    BY <2>3, <2>5 DEF Busy
<1>6. CASE ~Answer(r, n)
  <2>1. cam'[n] = cam[n]
    <3>1. ASSUME NEW m \in Nodes, Answer(r, m) PROVE cam'[n] = cam[n]
      <4>1. m # n
        BY <1>6, <3>1
      <4> QED
        BY <3>1, <4>1, AnswerEffect
    <3> QED
      BY <1>1, <3>1 DEF WorkMoves
  <2>2. Waiting(cam[n]) => cam[n].listed /\ Working(h[r], n)
    BY <1>2, NotWaiting
  <2>3. Working(h[r], n) => Working(h'[r], n)
    BY <1>6, WorkingStays
  <2>4. Waiting(cam'[n]) => cam'[n].listed /\ \E q \in Handlers : Working(h'[q], n)
    BY <2>1, <2>2, <2>3
  <2>5. cam'[n].made # 0 => loc'.session # 0
    BY <1>3, <1>4, <2>1 DEF Busy
  <2> QED
    BY <2>4, <2>5 DEF Busy
<1> QED
  BY <1>5, <1>6

(* What happens to a camera that no fault touches when no handler works.   *)
LEMMA Undisturbed ==
  ASSUME TInv, SoundInv, NEW n \in Nodes \ hurt',
         \/ \E m \in late : LateRuns(m)
         \/ \E m \in Nodes : BurstEnds(m) \/ Keepalive(m) \/ Disturb(m)
  PROVE  /\ UNCHANGED <<loc, takes, h, calm, torn>> /\ n \notin hurt
         /\ cam'[n].made = cam[n].made /\ cam'[n].listed = cam[n].listed
         /\ \/ /\ cam'[n].rec = cam[n].rec /\ cam'[n].summ = cam[n].summ
               /\ cam'[n].single = cam[n].single
            \/ cam[n].rec /\ cam[n].single /\ cam'[n].summ = cam[n].made
<1>1. ASSUME NEW m \in Nodes, NodeMoves(m)
      PROVE  /\ UNCHANGED <<loc, takes, h, calm, torn>> /\ n \notin hurt
             /\ m # n => cam'[n] = cam[n]
  BY <1>1 DEF NodeMoves
<1>2. ASSUME NEW m \in late, LateRuns(m)
      PROVE  m.node \in Nodes /\ NodeMoves(m.node) /\ m.node # n
  <2>1. m.node \in Nodes /\ NodeMoves(m.node) /\ hurt' = hurt
    BY <1>2, LateEffect
  <2> QED
    BY <2>1 DEF SoundInv, SoundNode
<1>3. ASSUME NEW m \in Nodes, BurstEnds(m) \/ Keepalive(m) \/ Disturb(m) PROVE NodeMoves(m)
  BY <1>3, NodeEffect
<1>4. ASSUME BurstEnds(n) \/ Keepalive(n) \/ Disturb(n)
      PROVE  /\ cam'[n].made = cam[n].made /\ cam'[n].listed = cam[n].listed
             /\ \/ /\ cam'[n].rec = cam[n].rec /\ cam'[n].summ = cam[n].summ
                   /\ cam'[n].single = cam[n].single
                \/ cam[n].rec /\ cam[n].single /\ cam'[n].summ = cam[n].made
  <2>1. cam[n] \in Camera
    BY DEF TInv, NodesOK
  <2>2. cam[n].plugged
    BY <1>1, <1>3, <1>4 DEF SoundInv, SoundNode
  <2>3. \/ cam' = cam
        \/ /\ cam[n].rec /\ cam[n].single
           /\ cam'[n] = [cam[n] EXCEPT !.rec = FALSE, !.summ = cam[n].made]
        \/ cam'[n] = [cam[n] EXCEPT !.on = ~@]
    BY <1>4, <2>2, NodeEffect
  <2> QED
    BY <2>1, <2>3 DEF Camera
<1>5. ASSUME cam'[n] = cam[n]
      PROVE  /\ cam'[n].made = cam[n].made /\ cam'[n].listed = cam[n].listed
             /\ cam'[n].rec = cam[n].rec /\ cam'[n].summ = cam[n].summ
             /\ cam'[n].single = cam[n].single
  BY <1>5
<1> QED
  BY <1>1, <1>2, <1>3, <1>4, <1>5

(* Every step keeps a request for each camera that waits.                  *)
LEMMA BusyStep ==
  ASSUME TInv, CamInv, SoundInv, BelongInv, CalmInv, BusyInv, [Next]_vars
  PROVE  BusyInv'
<1>1. ASSUME \/ \E m \in late : LateRuns(m)
             \/ \E m \in Nodes : BurstEnds(m) \/ Keepalive(m) \/ Disturb(m)
      PROVE  BusyInv'
  <2> SUFFICES ASSUME calm', NEW n \in Nodes \ hurt' PROVE Busy(n)'
    BY DEF BusyInv
  <2>1. /\ UNCHANGED <<loc, h, calm>> /\ n \notin hurt
        /\ cam'[n].made = cam[n].made /\ cam'[n].listed = cam[n].listed
        /\ Waiting(cam'[n]) => Waiting(cam[n])
    BY <1>1, Undisturbed DEF Waiting
  <2> QED
    BY <2>1 DEF BusyInv, Busy
<1>2. ASSUME NEW r \in Handlers, NEW kind \in Kinds, Open(r, kind) PROVE BusyInv'
  <2> SUFFICES ASSUME calm', NEW n \in Nodes \ hurt' PROVE Busy(n)'
    BY DEF BusyInv
  <2>1. calm /\ (\A q \in Handlers : ~Active(q)) /\ n \notin hurt /\ UNCHANGED <<loc, cam>>
    BY <1>2, OpenEffect
  <2>2. ~Waiting(cam[n])
    BY <2>1 DEF BusyInv, Busy, Working, Active
  <2> QED
    BY <2>1, <2>2 DEF BusyInv, Busy
<1>3. CASE UNCHANGED vars
  BY <1>3 DEF vars, BusyInv, Busy
<1> QED
  BY <1>1, <1>2, <1>3, BusyWork DEF Next

(* A clip that was reported stays with its request until it is filed.      *)
LEMMA ReportKept ==
  ASSUME TInv, BelongInv, CalmInv, BusyInv, calm, NEW r \in Handlers,
         Work(r) \/ \E m \in Nodes : Lose(r, m), torn' = {},
         NEW e \in Clips, e[1] \notin hurt', e[2] \in 1 .. cam[e[1]].made, Filed(e) \/ Got(e)
  PROVE  Filed(e)' \/ Got(e)'
<1>1. WorkMoves(r)
  BY WorkNodes
<1>2. e[1] \in Nodes /\ cam[e[1]].made \in Nat
  BY DEF Clips, TInv, NodesOK, Camera
<1>3. loc.session # 0
  <2>1. e[1] \notin hurt /\ cam[e[1]].made # 0
    BY <1>1, <1>2 DEF WorkMoves
  <2> QED
    BY <1>2, <2>1 DEF BusyInv, Busy
<1>4. /\ h[r].got # {} => Holds(h[r])
      /\ RowInv(r)
  BY <1>1 DEF BelongInv, GotBelongs, CalmInv, WorkMoves
<1>5. ASSUME UNCHANGED takes, h[r].got \subseteq h'[r].got PROVE Filed(e)' \/ Got(e)'
  BY <1>1, <1>5 DEF Filed, Got, WorkMoves, OnlyR
<1>6. ASSUME UNCHANGED takes, ~Holds(h[r]) PROVE Filed(e)' \/ Got(e)'
  BY <1>4, <1>5, <1>6
<1>7. CASE \E m \in Nodes : Answer(r, m) \/ Unanswered(r, m)
  BY <1>5, <1>7, AnswerEffect, UnansweredEffect
<1>8. CASE Barrier(r)
  <2>1. UNCHANGED takes /\ (h'[r].got = h[r].got \/ AtPhase(h[r], "start", {4}))
    BY <1>8, BarrierEffect
  <2> QED
    BY <1>5, <1>6, <2>1 DEF Holds, AtPhase
<1>9. CASE ReadLocation(r) \/ Slate(r)
  BY <1>5, <1>9, ReadEffect, SlateEffect
<1>10. ~Unfiled(r)
  <2>1. Unfiled(r) => AtFile(h[r]) /\ (~h[r].loc.project \/ h[r].loc.session = 0 \/ h[r].loc.shot = 0)
    BY UnfiledEffect
  <2>2. AtFile(h[r]) => RowRead(h[r])
    BY DEF AtFile, AtPhase, RowRead, Created
  <2> QED
    BY <1>3, <1>4, <2>1, <2>2 DEF RowInv, Whole
<1>11. ASSUME FileTake(r) PROVE Filed(e)' \/ Got(e)'
  <2>1. Filing(r) /\ takes' = NewTake(h[r], h[r].got)
    BY <1>11, FileTakeEffect
  <2>2. h[r].got \in SUBSET Clips
    BY OpenRecord DEF Handler
  <2>3. /\ DOMAIN takes' = DOMAIN takes \cup {Len(takes) + 1}
        /\ \A t \in DOMAIN takes : takes'[t] = takes[t]
        /\ takes'[Len(takes) + 1].clips = h[r].got
    BY <2>1, <2>2, TakeAdded
  <2>4. CASE Filed(e)
    BY <2>3, <2>4 DEF Filed
  <2>5. CASE e \in h[r].got
    BY <2>3, <2>5 DEF Filed
  <2>6. ASSUME NEW q \in Handlers, q # r, e \in h[q].got PROVE Got(e)'
    BY <1>1, <2>6 DEF WorkMoves, OnlyR, Got
  <2> QED
    BY <2>4, <2>5, <2>6 DEF Got
<1>12. ~FileTorn(r)
  BY FileTornEffect
<1>13. CASE CountTake(r)
  <2>1. UNCHANGED takes /\ Counting(h[r])
    BY <1>13, CountEffect
  <2> QED
    BY <1>6, <2>1 DEF Counting, Holds, AtPhase
<1>14. CASE CreateSession(r)
  BY <1>5, <1>14, SessionEffect
<1>15. CASE CreateShot(r)
  <2>1. UNCHANGED takes /\ AtPhase(h[r], "shot", {1})
    BY <1>15, ShotEffect
  <2> QED
    BY <1>6, <2>1 DEF Holds, AtPhase
<1>16. CASE SaveNew(r) \/ SaveOptions(r) \/ DefaultProject(r)
  <2>1. /\ UNCHANGED takes
        /\ \/ AtPhase(h[r], "session", {2}) \/ AtPhase(h[r], "shot", {2})
           \/ AtPhase(h[r], "config", {2}) \/ AtPhase(h[r], "page", {1})
    BY <1>16, SaveEffect
  <2> QED
    BY <1>6, <2>1 DEF Holds, AtPhase
<1> QED
  BY <1>7, <1>8, <1>9, <1>10, <1>11, <1>12, <1>13, <1>14, <1>15, <1>16 DEF Work, Lose, GiveUp

(* A step of a handler loses no clip of a node that no fault has touched.  *)
LEMMA LedgerWork ==
  ASSUME TInv, CamInv, SoundInv, BelongInv, CalmInv, BusyInv, LedgerInv, NEW r \in Handlers,
         Work(r) \/ \E m \in Nodes : Lose(r, m)
  PROVE  LedgerInv'
<1> SUFFICES ASSUME calm', torn' = {}, NEW n \in Nodes \ hurt', NEW k \in 1 .. cam'[n].made
             PROVE  Kept(n, k)'
  BY DEF LedgerInv
<1>1. WorkMoves(r)
  BY WorkNodes
<1>2. calm /\ torn = {} /\ n \notin hurt
  BY <1>1 DEF WorkMoves
<1>3. cam[n] \in Camera /\ k \in Nat
  BY DEF TInv, NodesOK
<1>4. k <= cam[n].made => Kept(n, k)
  BY <1>2, <1>3 DEF LedgerInv, Camera
<1>5. ASSUME k <= cam[n].made, Filed(<<n, k>>) \/ Got(<<n, k>>)
      PROVE  Filed(<<n, k>>)' \/ Got(<<n, k>>)'
  <2> DEFINE e == <<n, k>>
  <2>1. e \in Clips /\ e[1] = n /\ e[2] = k
    BY <1>3 DEF Clips
  <2>2. k \in 1 .. cam[n].made
    BY <1>3, <1>5 DEF Camera
  <2> HIDE DEF e
  <2>3. Filed(e) \/ Got(e)
    BY <1>5 DEF e
  <2>4. Filed(e)' \/ Got(e)'
    BY <1>2, <2>1, <2>2, <2>3, ReportKept
  <2> QED
    BY <2>4 DEF e
<1>6. CASE Answer(r, n)
  <2> DEFINE d == Execute(cam[n], Step(r))
  <2>1. cam'[n] = d /\ h'[r].got = h[r].got \cup Reply(n, Step(r))
    BY <1>6, AnswerEffect
  <2>2. Accounted(n, Step(r), Working(h'[r], n))
    BY <1>2, <1>6, AnswerAccounts
  <2>3. \/ /\ d.made = cam[n].made
           /\ cam[n].rec \/ cam[n].summ # 0 =>
                d.rec \/ d.summ # 0 \/ Reply(n, Step(r)) = {<<n, cam[n].made>>}
        \/ d.made = cam[n].made + 1 /\ d.rec /\ ~cam[n].rec /\ cam[n].summ = 0
    BY <2>2 DEF Accounted
  <2> HIDE DEF d
  <2>4. k <= d.made
    BY <1>3, <2>1, <2>3 DEF Camera
  <2>5. CASE k <= cam[n].made
    <3>1. CASE Latest(cam[n], k)
      <4>1. d.made = cam[n].made
            /\ (d.rec \/ d.summ # 0 \/ <<n, k>> \in Reply(n, Step(r)))
        BY <2>3, <3>1 DEF Latest
      <4>2. k = d.made
        BY <3>1, <4>1 DEF Latest
      <4> QED
        BY <2>1, <4>1, <4>2 DEF Kept, Latest, Got
    <3> QED
      BY <1>4, <1>5, <2>5, <3>1 DEF Kept
  <2>6. CASE ~(k <= cam[n].made)
    <3>1. k = d.made /\ d.rec
      BY <1>3, <2>3, <2>4, <2>6 DEF Camera
    <3> QED
      BY <2>1, <3>1 DEF Kept, Latest
  <2> QED
    BY <2>5, <2>6
<1>7. CASE ~Answer(r, n)
  <2>1. cam'[n] = cam[n]
    <3>1. ASSUME NEW m \in Nodes, Answer(r, m) PROVE cam'[n] = cam[n]
      <4>1. m # n
        BY <1>7, <3>1
      <4> QED
        BY <3>1, <4>1, AnswerEffect
    <3> QED
      BY <1>1, <3>1 DEF WorkMoves
  <2>2. k <= cam[n].made
    BY <1>3, <2>1 DEF Camera
  <2> QED
    BY <1>4, <1>5, <2>1, <2>2 DEF Kept
<1> QED
  BY <1>6, <1>7

(* Every step keeps the clips of untouched nodes accounted for.            *)
LEMMA LedgerStep ==
  ASSUME TInv, CamInv, SoundInv, BelongInv, CalmInv, BusyInv, LedgerInv, [Next]_vars
  PROVE  LedgerInv'
<1>1. ASSUME \/ \E m \in late : LateRuns(m)
             \/ \E m \in Nodes : BurstEnds(m) \/ Keepalive(m) \/ Disturb(m)
      PROVE  LedgerInv'
  <2> SUFFICES ASSUME calm', torn' = {}, NEW n \in Nodes \ hurt', NEW k \in 1 .. cam'[n].made
               PROVE  Kept(n, k)'
    BY DEF LedgerInv
  <2>1. /\ UNCHANGED <<takes, h, calm, torn>> /\ n \notin hurt
        /\ cam'[n].made = cam[n].made
        /\ cam[n].rec \/ cam[n].summ # 0 =>
             cam'[n].rec \/ cam'[n].summ # 0 \/ cam'[n].summ = cam[n].made
    BY <1>1, Undisturbed
  <2>2. Kept(n, k)
    BY <2>1 DEF LedgerInv
  <2>3. k # 0
    BY <2>1 DEF TInv, NodesOK, Camera
  <2>4. Latest(cam[n], k) => Latest(cam'[n], k)
    BY <2>1, <2>3 DEF Latest
  <2> QED
    BY <2>1, <2>2, <2>4 DEF Kept, Filed, Got
<1>2. ASSUME NEW r \in Handlers, NEW kind \in Kinds, Open(r, kind) PROVE LedgerInv'
  <2> SUFFICES ASSUME calm', torn' = {}, NEW n \in Nodes \ hurt', NEW k \in 1 .. cam'[n].made
               PROVE  Kept(n, k)'
    BY DEF LedgerInv
  <2>1. calm /\ OnlyR(r) /\ ~Active(r) /\ UNCHANGED <<takes, cam, hurt, torn>>
    BY <1>2, OpenEffect
  <2>2. Kept(n, k)
    BY <2>1 DEF LedgerInv
  <2>3. h[r].got = {}
    BY <2>1 DEF BelongInv, GotBelongs, Holds, AtPhase, Active
  <2>4. Got(<<n, k>>) => Got(<<n, k>>)'
    BY <2>1, <2>3 DEF Got, OnlyR
  <2> QED
    BY <2>1, <2>2, <2>4 DEF Kept, Filed
<1>3. CASE UNCHANGED vars
  BY <1>3 DEF vars, LedgerInv, Kept, Filed, Got
<1> QED
  BY <1>1, <1>2, <1>3, LedgerWork DEF Next

(* FaultStaysOnItsNode.                                                    *)
LEMMA NothingIsKept ==
  ASSUME TInv, BelongInv, BusyInv, LedgerInv
  PROVE  FaultStaysOnItsNode
<1> SUFFICES ASSUME calm, torn = {}, Quiet, NEW n \in Nodes \ hurt, NEW k \in 1 .. cam[n].made
             PROVE  \/ k = cam[n].made /\ cam[n].rec
                    \/ \E t \in DOMAIN takes : <<n, k>> \in takes[t].clips
  BY DEF FaultStaysOnItsNode
<1>1. Kept(n, k)
  BY DEF LedgerInv
<1>2. ~Got(<<n, k>>)
  BY DEF Got, Quiet, BelongInv, GotBelongs, Holds, AtPhase
<1>3. cam[n].summ = 0
  BY DEF BusyInv, Busy, Waiting, Working, Quiet
<1> QED
  BY <1>1, <1>2, <1>3 DEF Kept, Latest, Filed

-----------------------------------------------------------------------------
(* The invariant, and the properties that follow from it.                  *)

\* The inductive invariant of the module.
IInv ==
  TInv /\ ClipInv /\ BelongInv /\ SoundInv /\ CalmInv /\ NumInv /\ BusyInv /\ LedgerInv

(* A location before its first recording.                                  *)
LEMMA InvInit == Init => IInv
<1> SUFFICES ASSUME Init PROVE IInv
  OBVIOUS
<1>1. \A r \in Handlers : h[r].kind = "none" /\ h[r].got = {}
  BY DEF Init, Idle
<1>2. /\ DOMAIN takes = {} /\ late = {} /\ hurt = {} /\ torn = {}
      /\ \A n \in Nodes : online[n] /\ row[n]
  BY DEF Init
<1>3. \A n \in Nodes : /\ cam[n].plugged /\ cam[n].made = 0 /\ ~cam[n].rec
                       /\ ~cam[n].single /\ cam[n].summ = 0
  BY DEF Init, Preview
<1>4. TInv
  BY TypeInit
<1>5. ClipInv
  BY <1>1, <1>2, <1>3 DEF ClipInv, CamInv, CamOK, SpentInv, ApartInv, ClipInOneTake
<1>6. BelongInv
  BY <1>1 DEF Init, BelongInv, ShotsBelong, PagesBelong, TakesBelong, GotBelongs, ReqKinds
<1>7. SoundInv
  BY <1>1, <1>2, <1>3 DEF SoundInv, SoundNode, Active
<1>8. CalmInv
  BY <1>1 DEF Init, CalmInv, OneRequest, Active, Whole, Paired, NoRow
<1>9. NumInv
  <2> SUFFICES ASSUME NEW s \in DOMAIN shots PROVE Numbered(s)
    BY DEF NumInv
  <2>1. shots[s].next = 1
    BY DEF Init
  <2>2. ~InCount(s)
    BY <1>1 DEF InCount, Counting, AtPhase
  <2>3. Given(s) = 0
    BY <2>1, <2>2 DEF Given
  <2>4. Done(s) = {}
    BY <1>2 DEF Done
  <2>5. Seqs(s) = {}
    BY <2>4 DEF Seqs
  <2>6. Cardinality(Done(s)) = 0
    BY <2>4, FS_EmptySet
  <2>7. 1 .. 0 = {}
    OBVIOUS
  <2> QED
    BY <2>1, <2>3, <2>5, <2>6, <2>7 DEF Numbered
<1>10. BusyInv /\ LedgerInv
  BY <1>3 DEF BusyInv, Busy, Waiting, LedgerInv
<1> QED
  BY <1>4, <1>5, <1>6, <1>7, <1>8, <1>9, <1>10 DEF IInv

(* Every step keeps the invariant.                                         *)
LEMMA InvStep == IInv /\ [Next]_vars => IInv'
<1> SUFFICES ASSUME IInv, [Next]_vars PROVE IInv'
  OBVIOUS
<1>1. TInv /\ ClipInv /\ BelongInv /\ SoundInv /\ CalmInv /\ NumInv /\ BusyInv /\ LedgerInv
  BY DEF IInv
<1>2. CamInv
  BY <1>1 DEF ClipInv
<1>3. TInv' /\ ClipInv'
  BY <1>1, TypeStep, ClipStep
<1>4. BelongInv' /\ SoundInv' /\ CalmInv'
  BY <1>1, BelongStep, SoundStep, CalmStep
<1>5. NumInv'
  BY <1>1, <1>3, NumStep
<1>6. BusyInv' /\ LedgerInv'
  BY <1>1, <1>2, BusyStep, LedgerStep
<1> QED
  BY <1>3, <1>4, <1>5, <1>6 DEF IInv

(* ShotOfSession: create_session_shot, post_new_session and post_new_shot  *)
(* set session and shot in separate steps, and they still match as long    *)
(* as requests do not overlap and the pages are up to date.                *)
THEOREM ShotsOfTheSession == Spec => []ShotOfSession
<1>1. IInv => ShotOfSession
  BY DEF IInv, CalmInv, ShotOfSession, Paired
<1> QED
  BY InvInit, InvStep, <1>1, PTL DEF Spec

(* TakesNumbered: register_new_take and increment_take read and write the  *)
(* counter of a shot in separate steps, and still number its takes 1, 2,   *)
(* 3, ... as long as requests do not overlap.                              *)
THEOREM TakesAreNumbered == Spec => []TakesNumbered
<1>1. IInv => TakesNumbered
  BY NumberedWhenQuiet DEF IInv
<1> QED
  BY InvInit, InvStep, <1>1, PTL DEF Spec

(* FaultStaysOnItsNode: whatever fails at other nodes, a clip of a node    *)
(* that no fault has touched ends up in a take.                            *)
THEOREM FaultsStay == Spec => []FaultStaysOnItsNode
<1>1. IInv => FaultStaysOnItsNode
  BY NothingIsKept DEF IInv
<1> QED
  BY InvInit, InvStep, <1>1, PTL DEF Spec
=============================================================================
