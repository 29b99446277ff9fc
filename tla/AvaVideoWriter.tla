--------------------------- MODULE AvaVideoWriter ---------------------------
(***************************************************************************)
(* The recording of one camera to an .ava file: SimpleMovieRecorder        *)
(* (recorder.cpp) around an AvaVideoWriter (video_writer_ava.cpp).  The    *)
(* capture thread of the camera appends frames, an HTTP thread closes the  *)
(* recorder, and a TBB pipeline of three filters (serial, parallel,        *)
(* serial) compresses and writes what is in the queue.  Frame and packet   *)
(* objects are reused through two bounded pools.                           *)
(*                                                                         *)
(* A frame is the number of its period since the camera was started, its   *)
(* timestamp divided by the period; numbers the camera or its link skip    *)
(* never reach the recorder.                                               *)
(***************************************************************************)
EXTENDS Naturals, FiniteSets, SequencesExt

CONSTANTS
  LastFrame,   \* bound: the camera delivers no frame after this one
  QueueCap,    \* capacity of m_frame_queue
  UnusedCap,   \* capacity of m_frame_unused
  PacketCap,   \* capacity of m_paquet_unused
  Tokens       \* parallel_pipeline(32, f): frames that may be in the pipeline

ASSUME LastFrameAssumption == LastFrame \in Nat
ASSUME CapacityAssumption ==
  /\ QueueCap \in Nat \ {0}
  /\ UnusedCap \in Nat
  /\ PacketCap \in Nat
  /\ Tokens \in Nat \ {0}
  /\ Tokens <= PacketCap

Frames     == 1..LastFrame
Terminator == 0
Missing    == 0        \* entry of the index for a frame that is not in the file

VARIABLES
  nextFrame,   \* the least number the next frame of the camera may have
  lock,        \* who holds Recorder::m_mutex
  m_closed,    \* Recorder::m_closed
  appender,    \* the capture thread, inside append(): where it is
  hand,        \* the frame it has copied into a frame object
  closer,      \* the thread that closes the recorder
  queue,       \* m_frame_queue
  unused,      \* number of objects in m_frame_unused
  packets,     \* number of objects in m_paquet_unused
  encoding,    \* frames taken from the queue, in the second filter
  compressed,  \* frames with a packet, whose frame object is being given back
  encoded,     \* frames whose packet waits for its turn
  writing,     \* the frame whose packet is in the third filter, if any
  stopped,     \* the first filter has met the terminator
  written,     \* m_written_packets, the frames in the file in file order
  index,       \* the index at the end of the file: packet numbers and Missing
  dropped,     \* m_dropped_frames
  frameCount   \* m_frame_count

pipeline == <<encoding, compressed, encoded, writing, stopped, packets>>
counters == <<dropped, frameCount>>
vars == <<nextFrame, lock, m_closed, appender, hand, closer, queue, unused, packets,
          encoding, compressed, encoded, writing, stopped, written, index,
          dropped, frameCount>>

InFlight      == encoding \cup compressed \cup encoded \cup writing
HoldingFrame  == encoding \cup compressed
HoldingPacket == compressed \cup encoded \cup writing

Init ==
  /\ nextFrame = 1
  /\ lock = "free" /\ m_closed = FALSE
  /\ appender = "idle" /\ hand = 0 /\ closer = "idle"
  /\ queue = <<>> /\ unused = 0 /\ packets = 0
  /\ encoding = {} /\ compressed = {} /\ encoded = {} /\ writing = {}
  /\ stopped = FALSE
  /\ written = <<>> /\ index = <<>>
  /\ dropped = 0 /\ frameCount = 0

\* Mutant of TakeFrom: the result of try_pop is not looked at.
TakeUnchecked(pool) == pool - 1

\* Mutant of TakeFrom: every object is made, the pool is never used.
MakeAlways(pool) == pool

\* An object comes from its pool (try_pop) or, if that is empty, is made.
TakeFrom(pool) == IF pool > 0 THEN pool - 1 ELSE 0

-----------------------------------------------------------------------------
(* The capture thread: Recorder::append.                                   *)

\* append() takes the lock; unless the recorder is closed, addFrame copies the
\* image into a frame object.
AppendFrame(f) ==
  /\ appender = "idle" /\ lock = "free"
  /\ f >= nextFrame
  /\ nextFrame' = f + 1
  /\ IF m_closed
     THEN UNCHANGED <<lock, appender, hand, unused>>
     ELSE lock' = "appender" /\ appender' = "push" /\ hand' = f /\ unused' = TakeFrom(unused)
  /\ UNCHANGED <<m_closed, closer, queue, pipeline, written, index, counters>>

\* m_frame_queue.try_push(frame) succeeds: the frame is recorded.
PushFrame ==
  /\ appender = "push" /\ Len(queue) < QueueCap
  /\ queue' = Append(queue, hand)
  /\ frameCount' = frameCount + 1
  /\ appender' = "idle" /\ hand' = 0 /\ lock' = "free"
  /\ UNCHANGED <<nextFrame, m_closed, closer, unused, pipeline, written, index, dropped>>

\* try_push fails.
RefuseFrame ==
  /\ appender = "push" /\ Len(queue) >= QueueCap
  /\ appender' = "drop"
  /\ UNCHANGED <<nextFrame, lock, m_closed, hand, closer, queue, unused, pipeline,
                 written, index, counters>>

\* Mutant of DropFrame: a refused frame is counted as recorded only.
DropUncounted ==
  /\ appender = "drop" /\ unused < UnusedCap
  /\ unused' = unused + 1
  /\ frameCount' = frameCount + 1
  /\ appender' = "idle" /\ hand' = 0 /\ lock' = "free"
  /\ UNCHANGED <<nextFrame, m_closed, closer, queue, pipeline, written, index, dropped>>

\* The frame object is given back, a push that waits for room in the pool, and
\* the frame is counted as dropped.
DropFrame ==
  /\ appender = "drop" /\ unused < UnusedCap
  /\ unused' = unused + 1
  /\ dropped' = dropped + 1
  /\ frameCount' = frameCount + 1
  /\ appender' = "idle" /\ hand' = 0 /\ lock' = "free"
  /\ UNCHANGED <<nextFrame, m_closed, closer, queue, pipeline, written, index>>

-----------------------------------------------------------------------------
(* The pipeline.                                                           *)

\* First filter: m_frame_queue.pop waits for a frame.
PopFrame ==
  /\ ~stopped /\ queue # <<>> /\ Head(queue) # Terminator
  /\ Cardinality(InFlight) < Tokens
  /\ encoding' = encoding \cup {Head(queue)}
  /\ queue' = Tail(queue)
  /\ UNCHANGED <<nextFrame, lock, m_closed, appender, hand, closer, unused, packets,
                 compressed, encoded, writing, stopped, written, index, counters>>

\* First filter: the terminator stops the flow.
PopTerminator ==
  /\ ~stopped /\ queue # <<>> /\ Head(queue) = Terminator
  /\ Cardinality(InFlight) < Tokens
  /\ stopped' = TRUE
  /\ queue' = Tail(queue)
  /\ UNCHANGED <<nextFrame, lock, m_closed, appender, hand, closer, unused, packets,
                 encoding, compressed, encoded, writing, written, index, counters>>

\* Second filter, parallel: allocate_packet and compression.
Compress(f) ==
  /\ f \in encoding
  /\ packets' = TakeFrom(packets)
  /\ encoding' = encoding \ {f}
  /\ compressed' = compressed \cup {f}
  /\ UNCHANGED <<nextFrame, lock, m_closed, appender, hand, closer, queue, unused,
                 encoded, writing, stopped, written, index, counters>>

\* Second filter: deallocate_frame waits for room in the pool.
ReturnFrame(f) ==
  /\ f \in compressed /\ unused < UnusedCap
  /\ unused' = unused + 1
  /\ compressed' = compressed \ {f}
  /\ encoded' = encoded \cup {f}
  /\ UNCHANGED <<nextFrame, lock, m_closed, appender, hand, closer, queue, packets,
                 encoding, writing, stopped, written, index, counters>>

\* Mutant of Turn: the third filter takes packets as they come.
AnyTurn(f) == f \in encoded

\* serial_in_order: packets in the order in which their frames were popped,
\* which is the order of their numbers.
Turn(f) == f \in encoded /\ \A g \in HoldingFrame \cup encoded : f <= g

\* Third filter: the packet goes to the file.
WritePacket(f) ==
  /\ writing = {} /\ Turn(f)
  /\ written' = Append(written, f)
  /\ encoded' = encoded \ {f}
  /\ writing' = {f}
  /\ UNCHANGED <<nextFrame, lock, m_closed, appender, hand, closer, queue, unused, packets,
                 encoding, compressed, stopped, index, counters>>

\* Third filter: deallocate_packet waits for room in the pool.
ReturnPacket(f) ==
  /\ f \in writing /\ packets < PacketCap
  /\ packets' = packets + 1
  /\ writing' = {}
  /\ UNCHANGED <<nextFrame, lock, m_closed, appender, hand, closer, queue, unused,
                 encoding, compressed, encoded, stopped, written, index, counters>>

-----------------------------------------------------------------------------
(* The thread that stops the recording: Recorder::close.                   *)

\* close() takes the lock, and from now on append() refuses every frame.
BeginClose ==
  /\ closer = "idle" /\ lock = "free"
  /\ lock' = "closer" /\ m_closed' = TRUE /\ closer' = "push"
  /\ UNCHANGED <<nextFrame, appender, hand, queue, unused, pipeline, written, index, counters>>

\* Mutant of PushTerminator: try_push, whose failure nobody notices.
TryPushTerminator ==
  /\ closer = "push"
  /\ queue' = IF Len(queue) < QueueCap THEN Append(queue, Terminator) ELSE queue
  /\ closer' = "join"
  /\ UNCHANGED <<nextFrame, lock, m_closed, appender, hand, unused, pipeline, written,
                 index, counters>>

\* m_frame_queue.push(0) waits for room in the queue.
PushTerminator ==
  /\ closer = "push" /\ Len(queue) < QueueCap
  /\ queue' = Append(queue, Terminator)
  /\ closer' = "join"
  /\ UNCHANGED <<nextFrame, lock, m_closed, appender, hand, unused, pipeline, written,
                 index, counters>>

\* Periods without a frame between packet i and the one before it.
Extra(packetFrames, i) ==
  IF i = 1 THEN 0 ELSE packetFrames[i] - packetFrames[i - 1] - 1

\* For each packet its offset, then a zero for every frame that was missing.
WriteIndex(packetFrames) ==
  FlattenSeq([i \in 1..Len(packetFrames) |->
                <<i>> \o [k \in 1..Extra(packetFrames, i) |-> Missing]])

\* The pipeline has run to its end.
PipelineDone == stopped /\ InFlight = {}

\* pipeline_thread.join() returns; the index is written, the file closed.
EndClose ==
  /\ closer = "join" /\ PipelineDone
  /\ index' = WriteIndex(written)
  /\ closer' = "closed" /\ lock' = "free"
  /\ UNCHANGED <<nextFrame, m_closed, appender, hand, queue, unused, pipeline, written, counters>>

-----------------------------------------------------------------------------
AppendStep   == (\E f \in Frames : AppendFrame(f)) \/ PushFrame \/ RefuseFrame \/ DropFrame
PipelineStep ==
  \/ PopFrame \/ PopTerminator
  \/ \E f \in Frames : Compress(f) \/ ReturnFrame(f) \/ WritePacket(f) \/ ReturnPacket(f)
CloseStep    == BeginClose \/ PushTerminator \/ EndClose

Next == AppendStep \/ PipelineStep \/ CloseStep

Spec == Init /\ [][Next]_vars

\* Every thread that can go on goes on; nobody has to start or stop a recording.
Fairness ==
  /\ WF_vars(PushFrame \/ RefuseFrame) /\ WF_vars(DropFrame)
  /\ WF_vars(PopFrame \/ PopTerminator)
  /\ \A f \in Frames : WF_vars(Compress(f)) /\ WF_vars(ReturnFrame(f))
                       /\ WF_vars(WritePacket(f)) /\ WF_vars(ReturnPacket(f))
  /\ WF_vars(PushTerminator) /\ WF_vars(EndClose)

FairSpec == Spec /\ Fairness

-----------------------------------------------------------------------------
(* Properties.                                                             *)

\* Every variable has its type, no buffer exceeds its capacity.
TypeOK ==
  /\ nextFrame \in 1..LastFrame + 1
  /\ lock \in {"free", "appender", "closer"}
  /\ m_closed \in BOOLEAN
  /\ appender \in {"idle", "push", "drop"}
  /\ hand \in Frames \cup {0}
  /\ closer \in {"idle", "push", "join", "closed"}
  /\ queue \in Seq(Frames \cup {Terminator}) /\ Len(queue) <= QueueCap
  /\ unused \in Nat /\ unused <= UnusedCap
  /\ packets \in Nat /\ packets <= PacketCap
  /\ encoding \subseteq Frames /\ compressed \subseteq Frames
  /\ encoded \subseteq Frames /\ writing \subseteq Frames
  /\ stopped \in BOOLEAN
  /\ written \in Seq(Frames)
  /\ dropped \in Nat /\ frameCount \in Nat

\* The frames in m_frame_queue.
Queued == {queue[i] : i \in 1..Len(queue)} \ {Terminator}

\* Frame objects that exist: in the pool, in the queue, in the pipeline, in hand.
FrameObjects ==
  unused + Cardinality(Queued) + Cardinality(HoldingFrame) + (IF hand = 0 THEN 0 ELSE 1)

\* Packet objects that exist.
PacketObjects == packets + Cardinality(HoldingPacket)

\* An object is only made when its pool is empty: there are never more frame
\* objects than places for them outside the pool, nor more packets than tokens
\* (allocate_frame and allocate_packet, video_writer_ava.cpp:163-189).
ObjectsBounded ==
  /\ FrameObjects <= QueueCap + Tokens + 1
  /\ PacketObjects <= Tokens

\* A frame that has a packet always finds room in the packet pool when it gives
\* it back, so that the third filter never waits.
PacketPoolHasRoom == writing # {} => packets < PacketCap

\* The same for the frame pool: true if it has room for all that can circulate.
FramePoolHasRoom == compressed # {} \/ appender = "drop" => unused < UnusedCap

\* Every frame that append() counted is on its way, in the file, or counted as
\* dropped (m_frame_count and m_dropped_frames, which the summary of a take
\* reports); with PipelineDone, no frame is lost unseen when close() returns.
FramesAccountedFor ==
  frameCount =
    Cardinality(Queued) + Cardinality(HoldingFrame \cup encoded) + Len(written) + dropped

\* Frames that were accepted and are not in the file.
Pending == Queued \cup HoldingFrame \cup encoded

\* How far the recorder is: what append() and the caller of close() see of it.
Phase == CASE closer = "idle"             -> "recording"
           [] closer \in {"push", "join"} -> "closing"
           [] closer = "closed"           -> "closed"

Clip == INSTANCE RecordedClip WITH pending <- Pending, stored <- written, phase <- Phase

\* The recorder keeps the promise of RecordedClip: the frames that append()
\* accepted are in the file when close() returns, each once, in the order in
\* which they were taken, although they are compressed in parallel.
KeepsClip == Clip!Spec

\* A recorder whose frame objects all fit in their pool closes.
CloseEndsIfPoolHolds ==
  (closer = "push" /\ FrameObjects <= UnusedCap) ~> (closer = "closed")

\* A recorder that is being closed gets closed.
CloseEnds == (closer = "push") ~> (closer = "closed")
=============================================================================
