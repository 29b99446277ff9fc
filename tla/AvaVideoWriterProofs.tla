------------------------ MODULE AvaVideoWriterProofs ------------------------
(***************************************************************************)
(* Proofs about AvaVideoWriter and AvaReader, for every value of their     *)
(* constants.                                                              *)
(*                                                                         *)
(* The last two parts are about what is recursive, the index that the      *)
(* writer flattens and the walks of the reader over it.  A function that   *)
(* satisfies the recursive equation is the one that the definition         *)
(* chooses, by induction on its argument (Flattened, SkipsForward,         *)
(* SkipsBackward): then it is enough to write it down.  Induction is that  *)
(* a set of numbers has a least one (Least), which the library states of   *)
(* sets and not of operators.                                              *)
(***************************************************************************)
EXTENDS AvaReader, FiniteSetTheorems, SequenceTheorems, TLAPS

\* Who holds the lock, and that a frame is only in hand while nobody closes.
Locking ==
  /\ appender # "idle" <=> lock = "appender"
  /\ appender # "idle" <=> hand # 0
  /\ appender # "idle" => closer = "idle"
  /\ closer \in {"push", "join"} <=> lock = "closer"
  /\ m_closed <=> closer # "idle"

\* The terminator is the last thing in the queue, nothing follows it, and close()
\* returns when the pipeline is empty.
Ending ==
  /\ \A i \in 1..Len(queue) : queue[i] = Terminator => i = Len(queue) /\ closer = "join"
  /\ stopped => queue = <<>> /\ closer \in {"join", "closed"}
  /\ closer = "closed" => stopped /\ InFlight = {}

\* Frames are in one filter at a time.
Filters ==
  /\ encoding \cap compressed = {} /\ encoding \cap encoded = {} /\ encoding \cap writing = {}
  /\ compressed \cap encoded = {} /\ compressed \cap writing = {}
  /\ encoded \cap writing = {}

\* Frames go through the recorder in the order of their numbers.
InOrder ==
  /\ \A i, j \in 1..Len(queue) : i < j /\ queue[j] # Terminator => queue[i] < queue[j]
  /\ \A f \in InFlight, g \in Queued : f < g
  /\ \A i \in 1..Len(written) : \A g \in Pending : written[i] < g
  /\ \A g \in Queued \cup InFlight : g < nextFrame /\ (hand # 0 => g < hand)
  /\ \A i \in 1..Len(written) : written[i] < nextFrame /\ (hand # 0 => written[i] < hand)
  /\ hand < nextFrame

\* The frames that were taken from the queue and are not in the file.
Unwritten == HoldingFrame \cup encoded

\* The sizes of the sets: objects and frames are conserved.
Counts ==
  /\ Cardinality(Queued) <= Len(queue)
  /\ Cardinality(InFlight) <= Tokens
  /\ unused + Cardinality(Queued) + Cardinality(HoldingFrame)
       + (IF hand = 0 THEN 0 ELSE 1) <= QueueCap + Tokens + 1
  /\ packets + Cardinality(HoldingPacket) <= Tokens
  /\ frameCount = Cardinality(Queued) + Cardinality(Unwritten) + Len(written) + dropped

\* Inductive.
IInv == TypeOK /\ Locking /\ Ending /\ Filters /\ InOrder /\ Counts
-----------------------------------------------------------------------------
(* Sets of frames and their sizes.                                         *)

\* A set of frames is finite, and its size a number.
LEMMA FramesFinite ==
  ASSUME NEW S \in SUBSET Frames
  PROVE  IsFiniteSet(S) /\ Cardinality(S) \in Nat
<1>1. IsFiniteSet(Frames)
  BY FS_Interval, LastFrameAssumption DEF Frames
<1>2. IsFiniteSet(S)
  BY <1>1, FS_Subset
<1> QED BY <1>2, FS_CardinalityType

\* A frame that joins a set adds one to its size.
LEMMA OneMore ==
  ASSUME NEW S \in SUBSET Frames, NEW f, f \notin S
  PROVE  Cardinality(S \cup {f}) = Cardinality(S) + 1
BY FramesFinite, FS_AddElement

\* A frame that leaves a set takes one from its size.
LEMMA OneLess ==
  ASSUME NEW S \in SUBSET Frames, NEW f \in S
  PROVE  Cardinality(S \ {f}) = Cardinality(S) - 1
BY FramesFinite, FS_RemoveElement

\* A smaller set of frames has a smaller size.
LEMMA FewerFrames ==
  ASSUME NEW S \in SUBSET Frames, NEW T \in SUBSET S
  PROVE  Cardinality(T) <= Cardinality(S)
BY FramesFinite, FS_Subset

-----------------------------------------------------------------------------
(* What a push and a pop do to the frames of m_frame_queue.                *)

\* The queue holds frames.
LEMMA QueuedType ==
  ASSUME TypeOK
  PROVE  Queued \in SUBSET Frames
BY DEF TypeOK, Queued

\* A frame that is pushed is a frame of the queue from then on.
LEMMA QueuedAfterPush ==
  ASSUME TypeOK, NEW f \in Frames, queue' = Append(queue, f)
  PROVE  Queued' = Queued \cup {f}
<1>1. Len(queue') = Len(queue) + 1 /\ queue'[Len(queue) + 1] = f
  BY DEF TypeOK
<1>2. \A i \in 1..Len(queue) : queue'[i] = queue[i]
  BY DEF TypeOK
<1>3. Len(queue) \in Nat
  BY DEF TypeOK
<1>4. f # Terminator
  BY LastFrameAssumption DEF Frames, Terminator
<1>5. 1..Len(queue') = (1..Len(queue)) \cup {Len(queue) + 1}
  BY <1>1, <1>3
<1> QED BY <1>1, <1>2, <1>4, <1>5 DEF Queued

\* The terminator is no frame.
LEMMA QueuedAfterTerminator ==
  ASSUME TypeOK, queue' = Append(queue, Terminator)
  PROVE  Queued' = Queued
<1>1. Len(queue') = Len(queue) + 1 /\ queue'[Len(queue) + 1] = Terminator
  BY DEF TypeOK, Terminator
<1>2. \A i \in 1..Len(queue) : queue'[i] = queue[i]
  BY DEF TypeOK, Terminator
<1>3. Len(queue) \in Nat
  BY DEF TypeOK
<1>4. 1..Len(queue') = (1..Len(queue)) \cup {Len(queue) + 1}
  BY <1>1, <1>3
<1> QED BY <1>1, <1>2, <1>4 DEF Queued

\* The shape of the queue after a pop.
LEMMA TailOfQueue ==
  ASSUME TypeOK, queue # <<>>, queue' = Tail(queue)
  PROVE  /\ Len(queue) \in Nat /\ Len(queue) > 0
         /\ Len(queue') = Len(queue) - 1
         /\ queue[1] = Head(queue)
         /\ \A i \in 1..Len(queue') : queue'[i] = queue[i + 1]
BY DEF TypeOK

\* A frame that is popped was the first of the queue and is in it no more.
LEMMA QueuedAfterPop ==
  ASSUME TypeOK, InOrder, queue # <<>>, queue' = Tail(queue), Head(queue) # Terminator
  PROVE  /\ Head(queue) \in Queued
         /\ Queued' = Queued \ {Head(queue)}
<1>1. Head(queue) \in Queued
  BY TailOfQueue DEF Queued
<1>2. ASSUME NEW g \in Queued' PROVE g \in Queued \ {Head(queue)}
  <2>1. PICK i \in 1..Len(queue') : g = queue'[i] /\ g # Terminator
    BY <1>2 DEF Queued
  <2>2. i + 1 \in 1..Len(queue) /\ g = queue[i + 1] /\ 1 \in 1..Len(queue) /\ 1 < i + 1
    BY <2>1, TailOfQueue
  <2>3. queue[1] < g /\ g \in Queued
    BY <2>1, <2>2 DEF InOrder, Queued
  <2> QED BY <2>3, QueuedType, TailOfQueue DEF Frames
<1>3. ASSUME NEW g \in Queued \ {Head(queue)} PROVE g \in Queued'
  <2>1. PICK i \in 1..Len(queue) : g = queue[i] /\ g # Terminator
    BY <1>3 DEF Queued
  <2>2. i # 1
    BY <1>3, <2>1, TailOfQueue
  <2>3. i - 1 \in 1..Len(queue') /\ queue'[i - 1] = queue[(i - 1) + 1] /\ (i - 1) + 1 = i
    BY <2>2, TailOfQueue
  <2> QED BY <2>1, <2>3 DEF Queued
<1> QED BY <1>1, <1>2, <1>3

-----------------------------------------------------------------------------
(* Every step keeps each part of the invariant.                            *)

\* Every step keeps types and capacities.
LEMMA TypeStep ==
  ASSUME IInv, [Next]_vars
  PROVE  TypeOK'
<1> USE DEF IInv
<1>1. CASE \E f \in Frames : AppendFrame(f)
  BY <1>1, LastFrameAssumption, CapacityAssumption
  DEF AppendFrame, TypeOK, TakeFrom, Frames, pipeline, counters
<1>2. CASE PushFrame
  BY <1>2, CapacityAssumption DEF PushFrame, TypeOK, Locking, pipeline
<1>3. CASE RefuseFrame
  BY <1>3 DEF RefuseFrame, TypeOK, pipeline, counters
<1>4. CASE DropFrame
  BY <1>4, CapacityAssumption DEF DropFrame, TypeOK, pipeline
<1>5. CASE PopFrame
  <2>1. Head(queue) \in Frames
    BY <1>5 DEF PopFrame, TypeOK, Terminator
  <2>2. Tail(queue) \in Seq(Frames \cup {Terminator}) /\ Len(Tail(queue)) <= QueueCap
    BY <1>5, CapacityAssumption DEF PopFrame, TypeOK
  <2> QED BY <1>5, <2>1, <2>2 DEF PopFrame, TypeOK, counters
<1>6. CASE PopTerminator
  BY <1>6, CapacityAssumption DEF PopTerminator, TypeOK, counters
<1>7. CASE \E f \in Frames : Compress(f)
  BY <1>7, CapacityAssumption DEF Compress, TypeOK, TakeFrom, counters
<1>8. CASE \E f \in Frames : ReturnFrame(f)
  BY <1>8, CapacityAssumption DEF ReturnFrame, TypeOK, counters
<1>9. CASE \E f \in Frames : WritePacket(f)
  BY <1>9 DEF WritePacket, TypeOK, counters
<1>10. CASE \E f \in Frames : ReturnPacket(f)
  BY <1>10, CapacityAssumption DEF ReturnPacket, TypeOK, counters
<1>11. CASE BeginClose
  BY <1>11 DEF BeginClose, TypeOK, pipeline, counters
<1>12. CASE PushTerminator
  BY <1>12, CapacityAssumption DEF PushTerminator, TypeOK, pipeline, counters
<1>13. CASE EndClose
  BY <1>13 DEF EndClose, TypeOK, pipeline, counters
<1>14. CASE UNCHANGED vars
  BY <1>14 DEF TypeOK, vars
<1> QED
  BY <1>1, <1>2, <1>3, <1>4, <1>5, <1>6, <1>7, <1>8,
     <1>9, <1>10, <1>11, <1>12, <1>13, <1>14
  DEF Next, AppendStep, PipelineStep, CloseStep

\* Every step keeps Locking: append() and close() exclude each other.
LEMMA LockingStep ==
  ASSUME IInv, [Next]_vars
  PROVE  Locking'
<1> USE DEF IInv
<1>1. CASE \E f \in Frames : AppendFrame(f)
  BY <1>1 DEF AppendFrame, Locking, TypeOK
<1>2. CASE PushFrame
  BY <1>2 DEF PushFrame, Locking
<1>3. CASE RefuseFrame
  BY <1>3 DEF RefuseFrame, Locking
<1>4. CASE DropFrame
  BY <1>4 DEF DropFrame, Locking
<1>5. CASE PopFrame
  BY <1>5 DEF PopFrame, Locking
<1>6. CASE PopTerminator
  BY <1>6 DEF PopTerminator, Locking
<1>7. CASE \E f \in Frames : Compress(f)
  BY <1>7 DEF Compress, Locking
<1>8. CASE \E f \in Frames : ReturnFrame(f)
  BY <1>8 DEF ReturnFrame, Locking
<1>9. CASE \E f \in Frames : WritePacket(f)
  BY <1>9 DEF WritePacket, Locking
<1>10. CASE \E f \in Frames : ReturnPacket(f)
  BY <1>10 DEF ReturnPacket, Locking
<1>11. CASE BeginClose
  BY <1>11 DEF BeginClose, Locking
<1>12. CASE PushTerminator
  BY <1>12 DEF PushTerminator, Locking
<1>13. CASE EndClose
  BY <1>13 DEF EndClose, Locking
<1>14. CASE UNCHANGED vars
  BY <1>14 DEF Locking, vars
<1> QED
  BY <1>1, <1>2, <1>3, <1>4, <1>5, <1>6, <1>7, <1>8,
     <1>9, <1>10, <1>11, <1>12, <1>13, <1>14
  DEF Next, AppendStep, PipelineStep, CloseStep

\* Every step keeps Ending: nothing is pushed behind the terminator.
LEMMA EndingStep ==
  ASSUME IInv, [Next]_vars
  PROVE  Ending'
<1> USE DEF IInv
<1>1. CASE \E f \in Frames : AppendFrame(f)
  BY <1>1 DEF AppendFrame, Ending, InFlight, pipeline
<1>2. CASE PushFrame
  BY <1>2 DEF PushFrame, Ending, Locking, Terminator, pipeline
<1>3. CASE RefuseFrame
  BY <1>3 DEF RefuseFrame, Ending, Locking, pipeline
<1>4. CASE DropFrame
  BY <1>4 DEF DropFrame, Ending, Locking, pipeline
<1>5. CASE PopFrame
  BY <1>5 DEF PopFrame, Ending
<1>6. CASE PopTerminator
  BY <1>6 DEF PopTerminator, Ending
<1>7. CASE \E f \in Frames : Compress(f)
  BY <1>7 DEF Compress, Ending, InFlight
<1>8. CASE \E f \in Frames : ReturnFrame(f)
  BY <1>8 DEF ReturnFrame, Ending, InFlight
<1>9. CASE \E f \in Frames : WritePacket(f)
  BY <1>9 DEF WritePacket, Turn, Ending, InFlight
<1>10. CASE \E f \in Frames : ReturnPacket(f)
  BY <1>10 DEF ReturnPacket, Ending, InFlight
<1>11. CASE BeginClose
  BY <1>11 DEF BeginClose, Ending, pipeline
<1>12. CASE PushTerminator
  BY <1>12 DEF PushTerminator, Ending, pipeline
<1>13. CASE EndClose
  BY <1>13 DEF EndClose, PipelineDone, Ending, InFlight, pipeline
<1>14. CASE UNCHANGED vars
  BY <1>14 DEF Ending, InFlight, vars
<1> QED
  BY <1>1, <1>2, <1>3, <1>4, <1>5, <1>6, <1>7, <1>8,
     <1>9, <1>10, <1>11, <1>12, <1>13, <1>14
  DEF Next, AppendStep, PipelineStep, CloseStep

\* Every step keeps Filters: a frame goes from one filter to the next.
LEMMA FiltersStep ==
  ASSUME IInv, [Next]_vars
  PROVE  Filters'
<1> USE DEF IInv
<1>1. CASE \E f \in Frames : AppendFrame(f)
  BY <1>1 DEF AppendFrame, Filters, pipeline
<1>2. CASE PushFrame
  BY <1>2 DEF PushFrame, Filters, pipeline
<1>3. CASE RefuseFrame
  BY <1>3 DEF RefuseFrame, Filters, pipeline
<1>4. CASE DropFrame
  BY <1>4 DEF DropFrame, Filters, pipeline
<1>5. CASE PopFrame
  <2>1. Head(queue) \in Queued
    BY <1>5, QueuedAfterPop DEF PopFrame
  <2>2. Head(queue) \notin InFlight
    BY <2>1, QueuedType DEF InOrder, Frames
  <2> QED BY <1>5, <2>2 DEF PopFrame, Filters, InFlight
<1>6. CASE PopTerminator
  BY <1>6 DEF PopTerminator, Filters
<1>7. CASE \E f \in Frames : Compress(f)
  BY <1>7 DEF Compress, Filters
<1>8. CASE \E f \in Frames : ReturnFrame(f)
  BY <1>8 DEF ReturnFrame, Filters
<1>9. CASE \E f \in Frames : WritePacket(f)
  BY <1>9 DEF WritePacket, Filters, Turn
<1>10. CASE \E f \in Frames : ReturnPacket(f)
  BY <1>10 DEF ReturnPacket, Filters
<1>11. CASE BeginClose
  BY <1>11 DEF BeginClose, Filters, pipeline
<1>12. CASE PushTerminator
  BY <1>12 DEF PushTerminator, Filters, pipeline
<1>13. CASE EndClose
  BY <1>13 DEF EndClose, Filters, pipeline
<1>14. CASE UNCHANGED vars
  BY <1>14 DEF Filters, vars
<1> QED
  BY <1>1, <1>2, <1>3, <1>4, <1>5, <1>6, <1>7, <1>8,
     <1>9, <1>10, <1>11, <1>12, <1>13, <1>14
  DEF Next, AppendStep, PipelineStep, CloseStep

\* The frame in hand is a frame.
LEMMA HandType ==
  ASSUME IInv, appender # "idle"
  PROVE  hand \in Frames
BY DEF IInv, TypeOK, Locking

\* Frames of the recorder are numbers.
LEMMA FrameNumbers ==
  ASSUME IInv
  PROVE  /\ Pending \subseteq Nat /\ InFlight \subseteq Nat /\ Queued \subseteq Nat
         /\ hand \in Nat /\ nextFrame \in Nat
         /\ Len(written) \in Nat /\ \A i \in 1..Len(written) : written[i] \in Nat
         /\ Len(queue) \in Nat /\ \A i \in 1..Len(queue) : queue[i] \in Nat
<1>1. Queued \subseteq Frames /\ \A f \in Frames : f \in Nat
  BY QueuedType, LastFrameAssumption DEF IInv, Frames
<1>2. InFlight \subseteq Frames /\ Pending \subseteq Frames
  BY <1>1 DEF IInv, TypeOK, Pending, InFlight, HoldingFrame
<1>3. hand \in Nat /\ nextFrame \in Nat
  BY <1>1, LastFrameAssumption DEF IInv, TypeOK
<1>4. Len(written) \in Nat /\ \A i \in 1..Len(written) : written[i] \in Frames
  BY DEF IInv, TypeOK
<1>5. Len(queue) \in Nat /\ \A i \in 1..Len(queue) : queue[i] \in Frames \cup {0}
  BY DEF IInv, TypeOK, Terminator
<1> QED BY <1>1, <1>2, <1>3, <1>4, <1>5

\* A step that moves no frame into, within or out of the file and the queue and
\* takes none in hand keeps the order.
LEMMA SameOrder ==
  ASSUME InOrder, queue' = queue, written' = written, nextFrame' = nextFrame,
         InFlight' \subseteq InFlight, HoldingFrame' \cup encoded' \subseteq HoldingFrame \cup encoded,
         hand' \in {hand, 0}, nextFrame > 0
  PROVE  InOrder'
<1>1. Queued' = Queued
  BY DEF Queued
<1>2. Pending' \subseteq Pending
  BY <1>1 DEF Pending
<1> QED BY <1>1, <1>2 DEF InOrder

\* Every step keeps InOrder: frames do not overtake each other.
LEMMA InOrderStep ==
  ASSUME IInv, [Next]_vars
  PROVE  InOrder'
<1> USE DEF IInv
<1>1. CASE \E f \in Frames : AppendFrame(f)
  <2>1. PICK f \in Frames : AppendFrame(f)
    BY <1>1
  <2>2. /\ Queued' = Queued /\ Pending' = Pending /\ InFlight' = InFlight
        /\ queue' = queue /\ written' = written
    BY <2>1 DEF AppendFrame, Queued, Pending, InFlight, HoldingFrame, pipeline
  <2>3. f \in Nat /\ f >= nextFrame /\ nextFrame' = f + 1 /\ hand' \in {f, 0}
    BY <2>1 DEF AppendFrame, Frames, Locking
  <2> QED BY <2>2, <2>3, FrameNumbers DEF InOrder
<1>2. CASE PushFrame
  <2>1. /\ queue' = Append(queue, hand) /\ hand \in Frames /\ hand # 0
        /\ hand' = 0 /\ nextFrame' = nextFrame /\ written' = written
    BY <1>2, HandType DEF PushFrame, Locking
  <2>2. Queued' = Queued \cup {hand}
    BY <2>1, QueuedAfterPush
  <2>3. InFlight' = InFlight /\ Pending' = Pending \cup {hand}
    BY <1>2, <2>2 DEF PushFrame, InFlight, Pending, HoldingFrame, pipeline
  <2>4. \A i, j \in 1..Len(queue') : i < j /\ queue'[j] # Terminator => queue'[i] < queue'[j]
    <3>1. TAKE i, j \in 1..Len(queue')
    <3>2. /\ Len(queue') = Len(queue) + 1 /\ queue'[Len(queue) + 1] = hand
          /\ \A k \in 1..Len(queue) : queue'[k] = queue[k]
      BY <2>1 DEF TypeOK
    <3>3. HAVE i < j /\ queue'[j] # Terminator
    <3>4. i \in 1..Len(queue) /\ queue[i] # Terminator
      <4>1. i \in 1..Len(queue)
        BY <3>2, <3>3, FrameNumbers
      <4>2. closer # "join"
        BY <1>2 DEF PushFrame, Locking
      <4> QED BY <4>1, <4>2 DEF Ending
    <3>5. CASE j \in 1..Len(queue)
      BY <3>2, <3>3, <3>4, <3>5 DEF InOrder
    <3>6. CASE j = Len(queue) + 1
      <4>1. queue[i] \in Queued
        BY <3>4 DEF Queued
      <4> QED BY <2>1, <3>2, <3>4, <3>6, <4>1 DEF InOrder
    <3> QED BY <3>2, <3>5, <3>6, FrameNumbers
  <2> QED BY <2>1, <2>2, <2>3, <2>4, FrameNumbers DEF InOrder
<1>3. CASE RefuseFrame
  BY <1>3, SameOrder DEF RefuseFrame, TypeOK, InFlight, HoldingFrame, pipeline
<1>4. CASE DropFrame
  BY <1>4, SameOrder DEF DropFrame, TypeOK, InFlight, HoldingFrame, pipeline
<1>5. CASE PopFrame
  <2> DEFINE f == Head(queue)
  <2>1. queue # <<>> /\ queue' = Tail(queue) /\ f # Terminator
    BY <1>5 DEF PopFrame
  <2>2. f \in Queued /\ Queued' = Queued \ {f}
    BY <2>1, QueuedAfterPop
  <2>3. InFlight' = InFlight \cup {f} /\ Pending' = Pending
    BY <1>5, <2>2 DEF PopFrame, InFlight, Pending, HoldingFrame
  <2>4. \A g \in Queued' : f < g
    <3>1. TAKE g \in Queued'
    <3>2. PICK i \in 1..Len(queue) : g = queue[i] /\ g # Terminator /\ i # 1
      BY <2>2, TailOfQueue, <2>1 DEF Queued
    <3>3. 1 \in 1..Len(queue) /\ 1 < i /\ f = queue[1]
      BY <2>1, <3>2, TailOfQueue
    <3> QED BY <3>2, <3>3 DEF InOrder
  <2>5. \A i, j \in 1..Len(queue') : i < j /\ queue'[j] # Terminator => queue'[i] < queue'[j]
    <3>1. TAKE i, j \in 1..Len(queue')
    <3>2. /\ i + 1 \in 1..Len(queue) /\ queue'[i] = queue[i + 1]
          /\ j + 1 \in 1..Len(queue) /\ queue'[j] = queue[j + 1]
      BY <2>1, TailOfQueue
    <3> QED BY <3>2 DEF InOrder
  <2>6. nextFrame' = nextFrame /\ hand' = hand /\ written' = written
    BY <1>5 DEF PopFrame
  <2> HIDE DEF f
  <2> QED BY <2>2, <2>3, <2>4, <2>5, <2>6, FrameNumbers DEF InOrder
<1>6. CASE PopTerminator
  <2>1. Len(queue') = 0
    <3>1. queue # <<>> /\ queue' = Tail(queue) /\ Head(queue) = Terminator
      BY <1>6 DEF PopTerminator
    <3>2. 1 \in 1..Len(queue) /\ queue[1] = Terminator
      BY <3>1, TailOfQueue
    <3>3. Len(queue) = 1
      BY <3>2 DEF Ending
    <3> QED BY <3>1, <3>3, TailOfQueue
  <2>2. Queued' = {} /\ 1..Len(queue') = {}
    BY <2>1 DEF Queued
  <2>3. InFlight' = InFlight /\ Pending' \subseteq Pending
    BY <1>6, <2>2 DEF PopTerminator, InFlight, Pending, HoldingFrame
  <2>4. nextFrame' = nextFrame /\ hand' = hand /\ written' = written
    BY <1>6 DEF PopTerminator
  <2> QED BY <2>1, <2>2, <2>3, <2>4 DEF InOrder
<1>7. CASE \E f \in Frames : Compress(f)
  BY <1>7, SameOrder DEF Compress, TypeOK, InFlight, HoldingFrame
<1>8. CASE \E f \in Frames : ReturnFrame(f)
  BY <1>8, SameOrder DEF ReturnFrame, TypeOK, InFlight, HoldingFrame
<1>9. CASE \E f \in Frames : WritePacket(f)
  <2>1. PICK f \in Frames : WritePacket(f)
    BY <1>9
  <2>2. queue' = queue /\ Queued' = Queued /\ InFlight' = InFlight
    BY <2>1 DEF WritePacket, Turn, Queued, InFlight, HoldingFrame
  <2>3. Pending' = Pending \ {f} /\ f \in Pending
    <3>1. f \notin Queued /\ f \notin HoldingFrame
      BY <2>1, FrameNumbers DEF WritePacket, Turn, InOrder, Filters, HoldingFrame, InFlight
    <3> QED BY <2>1, <2>2, <3>1 DEF WritePacket, Turn, Pending, HoldingFrame
  <2>4. \A g \in Pending' : f < g
    BY <2>1, <2>2, <2>3, FrameNumbers DEF WritePacket, Turn, InOrder, Pending, InFlight
  <2>5. /\ Len(written') = Len(written) + 1 /\ written'[Len(written) + 1] = f
        /\ \A i \in 1..Len(written) : written'[i] = written[i]
        /\ Len(written) \in Nat
    BY <2>1 DEF WritePacket, TypeOK
  <2>6. \A i \in 1..Len(written') : i \in 1..Len(written) \/ i = Len(written) + 1
    BY <2>5
  <2>7. f \in InFlight /\ nextFrame' = nextFrame /\ hand' = hand
    BY <2>1 DEF WritePacket, Turn, InFlight
  <2> QED BY <2>2, <2>3, <2>4, <2>5, <2>6, <2>7 DEF InOrder
<1>10. CASE \E f \in Frames : ReturnPacket(f)
  BY <1>10, SameOrder DEF ReturnPacket, TypeOK, InFlight, HoldingFrame
<1>11. CASE BeginClose
  BY <1>11, SameOrder DEF BeginClose, TypeOK, InFlight, HoldingFrame, pipeline
<1>12. CASE PushTerminator
  <2>1. /\ queue' = Append(queue, Terminator) /\ nextFrame' = nextFrame
        /\ hand' = hand /\ written' = written
    BY <1>12 DEF PushTerminator
  <2>2. Queued' = Queued
    BY <2>1, QueuedAfterTerminator
  <2>3. InFlight' = InFlight /\ Pending' = Pending
    BY <1>12, <2>2 DEF PushTerminator, InFlight, Pending, HoldingFrame, pipeline
  <2>4. \A i, j \in 1..Len(queue') : i < j /\ queue'[j] # Terminator => queue'[i] < queue'[j]
    <3>1. /\ Len(queue') = Len(queue) + 1 /\ queue'[Len(queue) + 1] = Terminator
          /\ \A k \in 1..Len(queue) : queue'[k] = queue[k]
      BY <2>1 DEF TypeOK, Terminator
    <3>2. TAKE i, j \in 1..Len(queue')
    <3>3. HAVE i < j /\ queue'[j] # Terminator
    <3>4. i \in 1..Len(queue) /\ j \in 1..Len(queue)
      BY <3>1, <3>3, FrameNumbers
    <3> QED BY <3>1, <3>3, <3>4 DEF InOrder
  <2> QED BY <2>1, <2>2, <2>3, <2>4 DEF InOrder
<1>13. CASE EndClose
  BY <1>13, SameOrder DEF EndClose, TypeOK, InFlight, HoldingFrame, pipeline
<1>14. CASE UNCHANGED vars
  BY <1>14, SameOrder DEF vars, TypeOK, InFlight, HoldingFrame
<1> QED
  BY <1>1, <1>2, <1>3, <1>4, <1>5, <1>6, <1>7, <1>8,
     <1>9, <1>10, <1>11, <1>12, <1>13, <1>14
  DEF Next, AppendStep, PipelineStep, CloseStep

-----------------------------------------------------------------------------
(* Objects and frames are counted.                                         *)

\* The sizes of the sets that are counted.
LEMMA Sizes ==
  ASSUME IInv
  PROVE  /\ Queued \in SUBSET Frames /\ InFlight \in SUBSET Frames
         /\ HoldingFrame \in SUBSET InFlight /\ HoldingPacket \in SUBSET InFlight
         /\ Unwritten \in SUBSET InFlight
         /\ Cardinality(Queued) \in Nat /\ Cardinality(InFlight) \in Nat
         /\ Cardinality(HoldingFrame) \in Nat /\ Cardinality(HoldingPacket) \in Nat
         /\ Cardinality(Unwritten) \in Nat
         /\ Cardinality(HoldingFrame) <= Cardinality(InFlight)
         /\ Cardinality(HoldingPacket) <= Cardinality(InFlight)
         /\ Cardinality(Queued) <= QueueCap
         /\ Len(queue) \in Nat /\ Len(written) \in Nat /\ unused \in Nat /\ packets \in Nat
         /\ dropped \in Nat /\ frameCount \in Nat
<1>1. /\ Queued \in SUBSET Frames /\ InFlight \in SUBSET Frames
      /\ HoldingFrame \in SUBSET InFlight /\ HoldingPacket \in SUBSET InFlight
      /\ Unwritten \in SUBSET InFlight
  BY QueuedType DEF IInv, TypeOK, InFlight, HoldingFrame, HoldingPacket, Unwritten
<1>2. /\ Cardinality(Queued) \in Nat /\ Cardinality(InFlight) \in Nat
      /\ Cardinality(HoldingFrame) \in Nat /\ Cardinality(HoldingPacket) \in Nat
      /\ Cardinality(Unwritten) \in Nat
  BY <1>1, FramesFinite
<1>3. /\ Cardinality(HoldingFrame) <= Cardinality(InFlight)
      /\ Cardinality(HoldingPacket) <= Cardinality(InFlight)
  BY <1>1, FewerFrames
<1>4. /\ Len(queue) \in Nat /\ Len(written) \in Nat /\ unused \in Nat /\ packets \in Nat
      /\ dropped \in Nat /\ frameCount \in Nat
  BY DEF IInv, TypeOK
<1>5. Cardinality(Queued) <= QueueCap
  BY <1>2, <1>4, CapacityAssumption DEF IInv, Counts, TypeOK
<1> QED BY <1>1, <1>2, <1>3, <1>4, <1>5

\* The sizes are numbers.
LEMMA Numbers ==
  ASSUME IInv
  PROVE  /\ Cardinality(Queued) \in Nat /\ Cardinality(InFlight) \in Nat
         /\ Cardinality(HoldingFrame) \in Nat /\ Cardinality(HoldingPacket) \in Nat
         /\ Cardinality(Unwritten) \in Nat
         /\ Cardinality(HoldingFrame) <= Cardinality(InFlight)
         /\ Len(queue) \in Nat /\ Len(written) \in Nat /\ unused \in Nat /\ packets \in Nat
         /\ dropped \in Nat /\ frameCount \in Nat
BY Sizes

\* What the counts are for.
LEMMA CountsMean ==
  ASSUME Counts
  PROVE  ObjectsBounded /\ FramesAccountedFor
BY DEF Counts, ObjectsBounded, FrameObjects, PacketObjects, FramesAccountedFor, Unwritten

\* A step that leaves the counted sets alone keeps the counts.
LEMMA SameCounts ==
  ASSUME IInv, UNCHANGED <<queue, encoding, compressed, encoded, writing, unused, packets,
                           hand, written, dropped, frameCount>>
  PROVE  Counts'
BY DEF IInv, Counts, Queued, InFlight, HoldingFrame, HoldingPacket, Unwritten

\* Every step keeps Counts: objects and frames are conserved.
LEMMA CountsStep ==
  ASSUME IInv, [Next]_vars
  PROVE  Counts'
<1> USE CapacityAssumption
<1>a. Counts
  BY DEF IInv
<1>b. /\ Cardinality(Queued) \in Nat /\ Cardinality(InFlight) \in Nat
      /\ Cardinality(HoldingFrame) \in Nat /\ Cardinality(HoldingPacket) \in Nat
      /\ Cardinality(Unwritten) \in Nat
      /\ Len(queue) \in Nat /\ Len(written) \in Nat /\ unused \in Nat /\ packets \in Nat
      /\ dropped \in Nat /\ frameCount \in Nat
  BY Sizes
<1>1. CASE \E f \in Frames : AppendFrame(f)
  <2>1. PICK f \in Frames : AppendFrame(f)
    BY <1>1
  <2>2. CASE m_closed
    BY <2>1, <2>2, SameCounts DEF AppendFrame, pipeline, counters
  <2>3. CASE ~m_closed
    <3>1. /\ hand = 0 /\ hand' # 0 /\ unused' = TakeFrom(unused)
      BY <2>1, <2>3, LastFrameAssumption DEF AppendFrame, IInv, Locking, Frames
    <3>2. UNCHANGED <<queue, encoding, compressed, encoded, writing, packets, written,
                      dropped, frameCount>>
      BY <2>1 DEF AppendFrame, pipeline, counters
    <3>3. /\ Queued' = Queued /\ InFlight' = InFlight /\ HoldingFrame' = HoldingFrame
          /\ HoldingPacket' = HoldingPacket /\ Unwritten' = Unwritten
      BY <3>2 DEF Queued, InFlight, HoldingFrame, HoldingPacket, Unwritten
    <3>4. /\ Cardinality(InFlight) <= Tokens
          /\ unused + Cardinality(Queued) + Cardinality(HoldingFrame) <= QueueCap + Tokens + 1
      BY <3>1, Numbers DEF IInv, Counts
    <3>5. unused' + Cardinality(Queued) + Cardinality(HoldingFrame) + 1 <= QueueCap + Tokens + 1
      <4>1. CASE unused > 0
        BY <3>1, <3>4, <4>1, Numbers, SMTT(30) DEF TakeFrom
      <4>2. CASE ~(unused > 0)
        <5>1. unused' = 0
          BY <3>1, <4>2 DEF TakeFrom
        <5>2. Cardinality(Queued) <= QueueCap /\ Cardinality(HoldingFrame) <= Tokens
          BY <3>4, Numbers, Sizes
        <5> QED BY <5>1, <5>2, Numbers
      <4> QED BY <4>1, <4>2
    <3> QED BY <3>1, <3>2, <3>3, <3>5 DEF IInv, Counts
  <2> QED BY <2>2, <2>3
<1>2. CASE PushFrame
  <2>1. /\ queue' = Append(queue, hand) /\ hand \in Frames /\ hand # 0 /\ hand' = 0
        /\ frameCount' = frameCount + 1 /\ Len(queue') = Len(queue) + 1
        /\ UNCHANGED <<encoding, compressed, encoded, writing, unused, packets, written, dropped>>
    BY <1>2, HandType DEF PushFrame, IInv, Locking, TypeOK, pipeline
  <2>2. Queued' = Queued \cup {hand} /\ hand \notin Queued
    BY <2>1, QueuedAfterPush, FrameNumbers DEF IInv, InOrder
  <2>3. Cardinality(Queued') = Cardinality(Queued) + 1
    BY <2>2, OneMore, Sizes
  <2>4. /\ InFlight' = InFlight /\ HoldingFrame' = HoldingFrame
        /\ HoldingPacket' = HoldingPacket /\ Unwritten' = Unwritten
    BY <2>1 DEF InFlight, HoldingFrame, HoldingPacket, Unwritten
  <2>5. /\ Cardinality(Queued') = Cardinality(Queued) + 1 /\ Len(queue') = Len(queue) + 1
        /\ Cardinality(InFlight') = Cardinality(InFlight) /\ Cardinality(HoldingFrame') = Cardinality(HoldingFrame)
        /\ Cardinality(HoldingPacket') = Cardinality(HoldingPacket) /\ Cardinality(Unwritten') = Cardinality(Unwritten)
        /\ hand # 0 /\ hand' = 0 /\ unused' = unused /\ packets' = packets
        /\ frameCount' = frameCount + 1 /\ Len(written') = Len(written) /\ dropped' = dropped
    BY <2>1, <2>3, <2>4
  <2> QED BY <1>a, <1>b, <2>5, SMTT(90) DEF Counts
<1>3. CASE RefuseFrame
  BY <1>3, SameCounts DEF RefuseFrame, pipeline, counters
<1>4. CASE DropFrame
  <2>1. /\ hand # 0 /\ hand' = 0 /\ unused' = unused + 1
        /\ dropped' = dropped + 1 /\ frameCount' = frameCount + 1
        /\ UNCHANGED <<queue, encoding, compressed, encoded, writing, packets, written>>
    BY <1>4 DEF DropFrame, IInv, Locking, pipeline
  <2>2. /\ Queued' = Queued /\ InFlight' = InFlight /\ HoldingFrame' = HoldingFrame
        /\ HoldingPacket' = HoldingPacket /\ Unwritten' = Unwritten
    BY <2>1 DEF Queued, InFlight, HoldingFrame, HoldingPacket, Unwritten
  <2>3. /\ Cardinality(Queued') = Cardinality(Queued) /\ Len(queue') = Len(queue)
        /\ Cardinality(InFlight') = Cardinality(InFlight) /\ Cardinality(HoldingFrame') = Cardinality(HoldingFrame)
        /\ Cardinality(HoldingPacket') = Cardinality(HoldingPacket) /\ Cardinality(Unwritten') = Cardinality(Unwritten)
        /\ hand # 0 /\ hand' = 0 /\ unused' = unused + 1 /\ packets' = packets
        /\ frameCount' = frameCount + 1 /\ Len(written') = Len(written) /\ dropped' = dropped + 1
    BY <2>1, <2>2
  <2> QED BY <1>a, <1>b, <2>3, SMTT(90) DEF Counts
<1>5. CASE PopFrame
  <2> DEFINE f == Head(queue)
  <2>1. /\ queue # <<>> /\ queue' = Tail(queue) /\ f # Terminator
        /\ encoding' = encoding \cup {f} /\ Cardinality(InFlight) < Tokens
        /\ UNCHANGED <<compressed, encoded, writing, unused, packets, hand, written,
                       dropped, frameCount>>
    BY <1>5 DEF PopFrame, counters
  <2>2. f \in Queued /\ Queued' = Queued \ {f} /\ Len(queue') = Len(queue) - 1
    BY <2>1, QueuedAfterPop, TailOfQueue DEF IInv
  <2>3. f \notin InFlight
    BY <2>2, FrameNumbers DEF IInv, InOrder
  <2> HIDE DEF f
  <2>4. /\ InFlight' = InFlight \cup {f} /\ HoldingFrame' = HoldingFrame \cup {f}
        /\ HoldingPacket' = HoldingPacket /\ Unwritten' = Unwritten \cup {f}
    BY <2>1 DEF InFlight, HoldingFrame, HoldingPacket, Unwritten
  <2>5. /\ Cardinality(Queued') = Cardinality(Queued) - 1
        /\ Cardinality(InFlight') = Cardinality(InFlight) + 1
        /\ Cardinality(HoldingFrame') = Cardinality(HoldingFrame) + 1
        /\ Cardinality(Unwritten') = Cardinality(Unwritten) + 1
    <3>1. HoldingFrame \in SUBSET Frames /\ Unwritten \in SUBSET Frames
          /\ f \notin HoldingFrame /\ f \notin Unwritten
      BY <2>3, Sizes
    <3> QED BY <2>2, <2>3, <2>4, <3>1, OneMore, OneLess, Sizes
  <2>6. /\ Cardinality(Queued') = Cardinality(Queued) - 1 /\ Len(queue') = Len(queue) - 1
        /\ Cardinality(InFlight') = Cardinality(InFlight) + 1 /\ Cardinality(InFlight) < Tokens
        /\ Cardinality(HoldingFrame') = Cardinality(HoldingFrame) + 1
        /\ Cardinality(HoldingPacket') = Cardinality(HoldingPacket) /\ Cardinality(Unwritten') = Cardinality(Unwritten) + 1
        /\ hand' = hand /\ unused' = unused /\ packets' = packets
        /\ frameCount' = frameCount /\ Len(written') = Len(written) /\ dropped' = dropped
    BY <2>1, <2>2, <2>4, <2>5
  <2> QED BY <1>a, <1>b, <2>6, SMTT(90) DEF Counts
<1>6. CASE PopTerminator
  <2>1. /\ queue # <<>> /\ queue' = Tail(queue) /\ Head(queue) = Terminator
        /\ UNCHANGED <<encoding, compressed, encoded, writing, unused, packets, hand, written,
                       dropped, frameCount>>
    BY <1>6 DEF PopTerminator, counters
  <2>2. 1 \in 1..Len(queue) /\ queue[1] = Terminator
    BY <2>1, TailOfQueue DEF IInv
  <2>3. Len(queue) = 1 /\ Len(queue') = 0
    <3>1. Len(queue) = 1
      BY <2>2 DEF IInv, Ending
    <3> QED BY <2>1, <3>1, TailOfQueue DEF IInv
  <2>4. Queued = {} /\ Queued' = {}
    BY <2>2, <2>3 DEF Queued
  <2>5. /\ InFlight' = InFlight /\ HoldingFrame' = HoldingFrame
        /\ HoldingPacket' = HoldingPacket /\ Unwritten' = Unwritten
    BY <2>1 DEF InFlight, HoldingFrame, HoldingPacket, Unwritten
  <2>6. Cardinality(Queued') = 0 /\ Cardinality(Queued) = 0
    BY <2>4, FS_EmptySet
  <2> QED BY <2>1, <2>3, <2>5, <2>6, Numbers DEF IInv, Counts
<1>7. CASE \E f \in Frames : Compress(f)
  <2>1. PICK f \in Frames : Compress(f)
    BY <1>7
  <2>2. /\ f \in encoding /\ packets' = TakeFrom(packets)
        /\ encoding' = encoding \ {f} /\ compressed' = compressed \cup {f}
        /\ UNCHANGED <<queue, encoded, writing, unused, hand, written, dropped, frameCount>>
    BY <2>1 DEF Compress, counters
  <2>3. /\ Queued' = Queued /\ InFlight' = InFlight /\ HoldingFrame' = HoldingFrame
        /\ HoldingPacket' = HoldingPacket \cup {f} /\ Unwritten' = Unwritten
        /\ f \in InFlight /\ f \notin HoldingPacket
    BY <2>2 DEF Queued, InFlight, HoldingFrame, HoldingPacket, Unwritten, IInv, Filters
  <2>4. HoldingPacket \in SUBSET Frames /\ HoldingPacket \cup {f} \in SUBSET InFlight
    BY <2>3, Sizes
  <2>5. /\ Cardinality(HoldingPacket') = Cardinality(HoldingPacket) + 1
        /\ Cardinality(HoldingPacket') <= Cardinality(InFlight)
    BY <2>3, <2>4, OneMore, FewerFrames, Sizes
  <2>6. Cardinality(InFlight) <= Tokens /\ packets + Cardinality(HoldingPacket) <= Tokens
    BY DEF IInv, Counts
  <2>7. packets' + Cardinality(HoldingPacket') <= Tokens
    BY <2>2, <2>5, <2>6, Numbers DEF TakeFrom
  <2> QED BY <2>2, <2>3, <2>7 DEF IInv, Counts
<1>8. CASE \E f \in Frames : ReturnFrame(f)
  <2>1. PICK f \in Frames : ReturnFrame(f)
    BY <1>8
  <2>2. /\ f \in compressed /\ unused' = unused + 1
        /\ compressed' = compressed \ {f} /\ encoded' = encoded \cup {f}
        /\ UNCHANGED <<queue, encoding, writing, packets, hand, written, dropped, frameCount>>
    BY <2>1 DEF ReturnFrame, counters
  <2>3. /\ Queued' = Queued /\ InFlight' = InFlight /\ HoldingFrame' = HoldingFrame \ {f}
        /\ HoldingPacket' = HoldingPacket /\ Unwritten' = Unwritten
        /\ f \in HoldingFrame
    BY <2>2 DEF Queued, InFlight, HoldingFrame, HoldingPacket, Unwritten, IInv, Filters
  <2>4. Cardinality(HoldingFrame') = Cardinality(HoldingFrame) - 1
    <3>1. HoldingFrame \in SUBSET Frames
      BY Sizes
    <3> QED BY <2>3, <3>1, OneLess
  <2> QED BY <2>2, <2>3, <2>4, Numbers, SMTT(30) DEF IInv, Counts
<1>9. CASE \E f \in Frames : WritePacket(f)
  <2>1. PICK f \in Frames : WritePacket(f)
    BY <1>9
  <2>2. /\ f \in encoded /\ writing = {} /\ encoded' = encoded \ {f} /\ writing' = {f}
        /\ Len(written') = Len(written) + 1
        /\ UNCHANGED <<queue, encoding, compressed, unused, packets, hand, dropped, frameCount>>
    BY <2>1 DEF WritePacket, Turn, counters, IInv, TypeOK
  <2>3. /\ Queued' = Queued /\ InFlight' = InFlight /\ HoldingFrame' = HoldingFrame
        /\ HoldingPacket' = HoldingPacket /\ Unwritten' = Unwritten \ {f}
        /\ f \in Unwritten
    BY <2>2 DEF Queued, InFlight, HoldingFrame, HoldingPacket, Unwritten, IInv, Filters
  <2>4. Cardinality(Unwritten') = Cardinality(Unwritten) - 1
    <3>1. Unwritten \in SUBSET Frames
      BY Sizes
    <3> QED BY <2>3, <3>1, OneLess
  <2>5. /\ Cardinality(Queued') = Cardinality(Queued) /\ Len(queue') = Len(queue)
        /\ Cardinality(InFlight') = Cardinality(InFlight) /\ Cardinality(HoldingFrame') = Cardinality(HoldingFrame)
        /\ Cardinality(HoldingPacket') = Cardinality(HoldingPacket) /\ Cardinality(Unwritten') = Cardinality(Unwritten) - 1
        /\ hand' = hand /\ unused' = unused /\ packets' = packets
        /\ frameCount' = frameCount /\ Len(written') = Len(written) + 1 /\ dropped' = dropped
    BY <2>2, <2>3, <2>4
  <2> QED BY <1>a, <1>b, <2>5, SMTT(90) DEF Counts
<1>10. CASE \E f \in Frames : ReturnPacket(f)
  <2>1. PICK f \in Frames : ReturnPacket(f)
    BY <1>10
  <2>2. /\ f \in writing /\ writing' = {} /\ packets' = packets + 1
        /\ UNCHANGED <<queue, encoding, compressed, encoded, unused, hand, written, dropped,
                       frameCount>>
    BY <2>1 DEF ReturnPacket, counters
  <2>3. /\ Queued' = Queued /\ HoldingFrame' = HoldingFrame /\ Unwritten' = Unwritten
        /\ InFlight' \in SUBSET InFlight /\ HoldingPacket' \in SUBSET (HoldingPacket \ {f})
        /\ f \in HoldingPacket
    BY <2>2 DEF Queued, InFlight, HoldingFrame, HoldingPacket, Unwritten, IInv, Filters
  <2>4. HoldingPacket \in SUBSET Frames /\ HoldingPacket \ {f} \in SUBSET Frames
        /\ InFlight' \in SUBSET Frames /\ HoldingPacket' \in SUBSET Frames
    BY <2>3, Sizes
  <2>5. Cardinality(HoldingPacket') <= Cardinality(HoldingPacket) - 1
    BY <2>3, <2>4, OneLess, FewerFrames
  <2>6. Cardinality(InFlight') <= Cardinality(InFlight)
    BY <2>3, FewerFrames, Sizes
  <2>7. Cardinality(InFlight') \in Nat /\ Cardinality(HoldingPacket') \in Nat
    BY <2>4, FramesFinite
  <2>8. /\ Cardinality(Queued') = Cardinality(Queued) /\ Len(queue') = Len(queue)
        /\ Cardinality(InFlight') \in Nat /\ Cardinality(InFlight') <= Cardinality(InFlight)
        /\ Cardinality(HoldingFrame') = Cardinality(HoldingFrame) /\ Cardinality(Unwritten') = Cardinality(Unwritten)
        /\ Cardinality(HoldingPacket') \in Nat
        /\ Cardinality(HoldingPacket') <= Cardinality(HoldingPacket) - 1
        /\ hand' = hand /\ unused' = unused /\ packets' = packets + 1
        /\ frameCount' = frameCount /\ Len(written') = Len(written) /\ dropped' = dropped
    BY <2>2, <2>3, <2>5, <2>6, <2>7
  <2> QED BY <1>a, <1>b, <2>8, SMTT(90) DEF Counts
<1>11. CASE BeginClose
  BY <1>11, SameCounts DEF BeginClose, pipeline, counters
<1>12. CASE PushTerminator
  <2>1. /\ queue' = Append(queue, Terminator) /\ Len(queue') = Len(queue) + 1
        /\ UNCHANGED <<encoding, compressed, encoded, writing, unused, packets, hand, written,
                       dropped, frameCount>>
    BY <1>12 DEF PushTerminator, pipeline, counters, IInv, TypeOK
  <2>2. /\ Queued' = Queued /\ InFlight' = InFlight /\ HoldingFrame' = HoldingFrame
        /\ HoldingPacket' = HoldingPacket /\ Unwritten' = Unwritten
    BY <2>1, QueuedAfterTerminator DEF InFlight, HoldingFrame, HoldingPacket, Unwritten, IInv
  <2> QED BY <2>1, <2>2, Numbers DEF IInv, Counts
<1>13. CASE EndClose
  BY <1>13, SameCounts DEF EndClose, pipeline, counters
<1>14. CASE UNCHANGED vars
  BY <1>14, SameCounts DEF vars
<1> QED
  BY <1>1, <1>2, <1>3, <1>4, <1>5, <1>6, <1>7, <1>8,
     <1>9, <1>10, <1>11, <1>12, <1>13, <1>14
  DEF Next, AppendStep, PipelineStep, CloseStep

-----------------------------------------------------------------------------
(* The theorems.                                                           *)

\* The invariant holds before a recording starts.
LEMMA InitIInv ==
  Init => IInv
<1> SUFFICES ASSUME Init PROVE IInv
  OBVIOUS
<1>1. TypeOK
  <2>1. 1 \in 1..LastFrame + 1
    BY LastFrameAssumption
  <2>2. queue \in Seq(Frames \cup {Terminator}) /\ Len(queue) = 0 /\ written \in Seq(Frames)
    BY DEF Init
  <2>3. hand \in Frames \cup {0} /\ Len(queue) <= QueueCap /\ unused <= UnusedCap /\ packets <= PacketCap
    BY <2>2, CapacityAssumption DEF Init
  <2> QED BY <2>1, <2>2, <2>3 DEF Init, TypeOK
<1>5. Locking /\ Ending /\ Filters
  BY DEF Init, Locking, Ending, Filters
<1>2. Queued = {} /\ InFlight = {} /\ HoldingFrame = {} /\ HoldingPacket = {} /\ Unwritten = {}
  BY DEF Init, Queued, InFlight, HoldingFrame, HoldingPacket, Unwritten
<1>3. InOrder
  BY <1>2 DEF Init, InOrder, Pending
<1>4. Counts
  BY <1>2, FS_EmptySet, CapacityAssumption DEF Init, Counts
<1> QED BY <1>1, <1>3, <1>4, <1>5 DEF IInv

\* The invariant holds in every state.
THEOREM InvariantHolds ==
  Spec => []IInv
<1>1. IInv /\ [Next]_vars => IInv'
  BY TypeStep, LockingStep, EndingStep, FiltersStep, InOrderStep, CountsStep DEF IInv
<1> QED BY InitIInv, <1>1, PTL DEF Spec

\* Every buffer stays within its capacity and every variable keeps its type,
\* for any capacities and any number of frames.
THEOREM WriterTypeCorrect ==
  Spec => []TypeOK
<1>1. IInv => TypeOK
  BY DEF IInv
<1> QED BY InvariantHolds, <1>1, PTL

\* Frame and packet objects are reused: allocate_frame and allocate_packet never
\* make more than the places outside the pools.
THEOREM ObjectsAreBounded ==
  Spec => []ObjectsBounded
<1>1. IInv => ObjectsBounded
  BY CountsMean DEF IInv
<1> QED BY InvariantHolds, <1>1, PTL

\* Frames are conserved from append() to the file: the two counters of the
\* summary of a take tell the truth about it.
THEOREM FramesAreAccountedFor ==
  Spec => []FramesAccountedFor
<1>1. IInv => FramesAccountedFor
  BY CountsMean DEF IInv
<1> QED BY InvariantHolds, <1>1, PTL

\* deallocate_packet never waits: the pool of packets has room for all of them.
THEOREM PacketPoolSuffices ==
  Spec => []PacketPoolHasRoom
<1>1. IInv => PacketPoolHasRoom
  <2> SUFFICES ASSUME IInv, writing # {} PROVE packets < PacketCap
    BY DEF PacketPoolHasRoom
  <2>1. PICK f \in writing : f \in HoldingPacket
    BY DEF HoldingPacket
  <2>2. HoldingPacket \in SUBSET Frames /\ Cardinality(HoldingPacket) \in Nat
    BY Sizes
  <2>3. Cardinality(HoldingPacket) # 0
    BY <2>1, <2>2, FramesFinite, FS_EmptySet
  <2> QED BY <2>2, <2>3, Sizes, CapacityAssumption, SMTT(30) DEF IInv, Counts
<1> QED BY InvariantHolds, <1>1, PTL

\* deallocate_frame never waits when the pool of frames has room for all that can
\* exist: in the queue, in the pipeline and in the hand of the capture thread.
\* The capacities of the code (300, 300 and 32) do not satisfy the premise.
THEOREM FramePoolSuffices ==
  ASSUME UnusedCap >= QueueCap + Tokens + 1
  PROVE  Spec => []FramePoolHasRoom
<1>1. IInv => FramePoolHasRoom
  <2> SUFFICES ASSUME IInv, compressed # {} \/ appender = "drop" PROVE unused < UnusedCap
    BY DEF FramePoolHasRoom
  <2>1. /\ HoldingFrame \in SUBSET Frames
        /\ Cardinality(HoldingFrame) \in Nat /\ Cardinality(Queued) \in Nat /\ unused \in Nat
    BY Sizes
  <2>2. Cardinality(HoldingFrame) + (IF hand = 0 THEN 0 ELSE 1) > 0
    <3>1. CASE compressed # {}
      <4>1. Cardinality(HoldingFrame) # 0
        BY <2>1, <3>1, FramesFinite, FS_EmptySet DEF HoldingFrame
      <4> QED BY <2>1, <4>1
    <3>2. CASE appender = "drop"
      BY <2>1, <3>2 DEF IInv, Locking
    <3> QED BY <3>1, <3>2
  <2>3. unused + Cardinality(Queued) + Cardinality(HoldingFrame)
          + (IF hand = 0 THEN 0 ELSE 1) <= QueueCap + Tokens + 1
    BY DEF IInv, Counts
  <2>4. QueueCap \in Nat /\ Tokens \in Nat /\ UnusedCap \in Nat
    BY CapacityAssumption
  <2> QED BY <2>1, <2>2, <2>3, <2>4, SMTT(60)
<1> QED BY InvariantHolds, <1>1, PTL

-----------------------------------------------------------------------------
(* The recorder implements RecordedClip.                                   *)

\* Every step of the recorder is a step of the abstract clip or leaves it alone.
LEMMA ClipStep ==
  ASSUME IInv, [Next]_vars
  PROVE  [Clip!Next]_(Clip!clip)
<1> USE DEF IInv
<1>1. CASE \E f \in Frames : AppendFrame(f)
  BY <1>1 DEF AppendFrame, Clip!clip, Pending, Queued, HoldingFrame, Phase, pipeline
<1>2. CASE PushFrame
  <2>1. hand \in Frames /\ hand # 0 /\ Phase = "recording" /\ Phase' = Phase
    BY <1>2, HandType DEF PushFrame, Locking, Phase
  <2>2. Queued' = Queued \cup {hand}
    BY <1>2, <2>1, QueuedAfterPush DEF PushFrame
  <2>3. Pending' = Pending \cup {hand} /\ written' = written
    BY <1>2, <2>2 DEF PushFrame, Pending, HoldingFrame, pipeline
  <2>4. Clip!Newest(hand)
    BY <2>1 DEF InOrder, Clip!Newest, Pending, HoldingFrame, InFlight
  <2>5. Clip!Accept(hand)
    BY <2>1, <2>3, <2>4 DEF Clip!Accept
  <2> QED BY <2>1, <2>5 DEF Clip!Next
<1>3. CASE RefuseFrame
  BY <1>3 DEF RefuseFrame, Clip!clip, Pending, Queued, HoldingFrame, Phase, pipeline
<1>4. CASE DropFrame
  BY <1>4 DEF DropFrame, Clip!clip, Pending, Queued, HoldingFrame, Phase, pipeline
<1>5. CASE PopFrame
  <2>1. Head(queue) \in Queued /\ Queued' = Queued \ {Head(queue)}
    BY <1>5, QueuedAfterPop DEF PopFrame
  <2>2. Pending' = Pending
    BY <1>5, <2>1 DEF PopFrame, Pending, HoldingFrame
  <2> QED BY <1>5, <2>2 DEF PopFrame, Clip!clip, Phase
<1>6. CASE PopTerminator
  <2>1. queue # <<>> /\ queue' = Tail(queue) /\ Head(queue) = Terminator
    BY <1>6 DEF PopTerminator
  <2>2. 1 \in 1..Len(queue) /\ queue[1] = Terminator
    BY <2>1, TailOfQueue
  <2>3. Len(queue) = 1
    BY <2>2 DEF Ending
  <2>4. Len(queue') = 0
    BY <2>1, <2>3, TailOfQueue
  <2>5. Queued = {} /\ Queued' = {}
    BY <2>2, <2>3, <2>4 DEF Queued
  <2> QED BY <1>6, <2>5 DEF PopTerminator, Clip!clip, Pending, HoldingFrame, Phase
<1>7. CASE \E f \in Frames : Compress(f)
  BY <1>7 DEF Compress, Clip!clip, Pending, Queued, HoldingFrame, Phase
<1>8. CASE \E f \in Frames : ReturnFrame(f)
  BY <1>8 DEF ReturnFrame, Clip!clip, Pending, Queued, HoldingFrame, Phase
<1>9. CASE \E f \in Frames : WritePacket(f)
  <2>1. PICK f \in Frames : WritePacket(f)
    BY <1>9
  <2>2. f \in encoded /\ encoded' = encoded \ {f} /\ written' = Append(written, f) /\ Phase' = Phase
    BY <2>1 DEF WritePacket, Turn, Phase
  <2>3. Queued' = Queued /\ HoldingFrame' = HoldingFrame
    BY <2>1 DEF WritePacket, Queued, HoldingFrame
  <2>4. f \notin Queued /\ f \notin HoldingFrame
    BY <2>2, FrameNumbers DEF InOrder, Filters, HoldingFrame, InFlight
  <2>5. Pending' = Pending \ {f} /\ f \in Pending
    BY <2>2, <2>3, <2>4 DEF Pending
  <2>6. \A g \in Pending : f <= g
    BY <2>1, <2>2, FrameNumbers DEF WritePacket, Turn, InOrder, Pending, InFlight
  <2>7. Phase # "closed"
    <3>1. closer # "closed"
      BY <2>2 DEF Ending, InFlight
    <3> QED BY <3>1 DEF TypeOK, Phase
  <2>8. Clip!Store(f)
    BY <2>2, <2>5, <2>6, <2>7 DEF Clip!Store
  <2> QED BY <2>8 DEF Clip!Next
<1>10. CASE \E f \in Frames : ReturnPacket(f)
  BY <1>10 DEF ReturnPacket, Clip!clip, Pending, Queued, HoldingFrame, Phase
<1>11. CASE BeginClose
  <2>1. Phase = "recording" /\ Phase' = "closing"
    BY <1>11 DEF BeginClose, Phase
  <2>2. Pending' = Pending /\ written' = written
    BY <1>11 DEF BeginClose, Pending, Queued, HoldingFrame, pipeline
  <2> QED BY <2>1, <2>2 DEF Clip!BeginClose, Clip!Next
<1>12. CASE PushTerminator
  <2>1. Queued' = Queued
    BY <1>12, QueuedAfterTerminator DEF PushTerminator
  <2> QED BY <1>12, <2>1 DEF PushTerminator, Clip!clip, Pending, HoldingFrame, Phase, pipeline
<1>13. CASE EndClose
  <2>1. Phase = "closing" /\ Phase' = "closed"
    BY <1>13 DEF EndClose, Phase
  <2>2. Pending' = Pending /\ written' = written
    BY <1>13 DEF EndClose, Pending, Queued, HoldingFrame, pipeline
  <2>3. Pending = {}
    BY <1>13 DEF EndClose, PipelineDone, Ending, Pending, Queued, InFlight, HoldingFrame
  <2> QED BY <2>1, <2>2, <2>3 DEF Clip!EndClose, Clip!Next
<1>14. CASE UNCHANGED vars
  BY <1>14 DEF vars, Clip!clip, Pending, Queued, HoldingFrame, Phase
<1> QED
  BY <1>1, <1>2, <1>3, <1>4, <1>5, <1>6, <1>7, <1>8,
     <1>9, <1>10, <1>11, <1>12, <1>13, <1>14
  DEF Next, AppendStep, PipelineStep, CloseStep

\* A recorder is a RecordedClip: what append() accepted is in the file when close()
\* returns, once and in order, for any capacities and any number of frames.
THEOREM RecorderKeepsClip ==
  Spec => KeepsClip
<1>1. Init => Clip!Init
  BY DEF Init, Clip!Init, Pending, Queued, HoldingFrame, Phase
<1>2. IInv /\ [Next]_vars => [Clip!Next]_(Clip!clip)
  BY ClipStep
<1> QED BY <1>1, <1>2, InvariantHolds, PTL DEF Spec, Clip!Spec, KeepsClip

-----------------------------------------------------------------------------
(* Numbers, and what is recursive.                                         *)

\* A set of numbers has a least one.
LEMMA Least ==
  ASSUME NEW S \in SUBSET Nat, S # {}
  PROVE  \E n \in S : \A k \in S : n <= k
<1> DEFINE R == OpToRel(<, Nat)
<1>1. IsWellFoundedOn(R, Nat) BY NatLessThanWellFounded
<1>2. R = {ss \in Nat \X Nat : ss[1] < ss[2]} BY DEF OpToRel
<1>3. \A a, b \in Nat : a < b => <<a, b>> \in R BY <1>2
<1> HIDE DEF R
<1>4. \E n \in S : \A k \in S : ~ (<<k, n>> \in R) BY <1>1, WFMin
<1>5. \A a, b \in S : ~ (a < b) => b <= a OBVIOUS
<1> QED
  <2>1. PICK n \in S : \A k \in S : ~ (<<k, n>> \in R) BY <1>4
  <2>2. \A k \in S : ~ (k < n) BY <1>3, <2>1
  <2> QED BY <1>5, <2>2

\* A set of numbers with 0 that has the successor of each of its members has them all.
LEMMA Inductive ==
  ASSUME NEW S \in SUBSET Nat, 0 \in S, \A n \in S : n + 1 \in S
  PROVE  S = Nat
<1> SUFFICES ASSUME Nat \ S # {} PROVE FALSE
  OBVIOUS
<1>1. PICK n \in Nat \ S : \A k \in Nat \ S : n <= k BY Least
<1>2. n # 0 /\ n - 1 \in Nat OBVIOUS
<1>3. n - 1 \in S BY <1>1, <1>2
<1> QED BY <1>2, <1>3

\* FlattenSeq joins what it is given from left to right.
LEMMA Flattened ==
  ASSUME NEW s, Len(s) \in Nat \ {0}, NEW f,
         f = [i \in 1 .. Len(s) |-> IF i = 1 THEN s[i] ELSE f[i - 1] \o s[i]]
  PROVE  FlattenSeq(s) = f[Len(s)]
<1> DEFINE N == Len(s)
           Joins(g) == g = [i \in 1 .. N |-> IF i = 1 THEN s[i] ELSE g[i - 1] \o s[i]]
           g == CHOOSE h : Joins(h)
           S == {n \in Nat : n + 1 \in 1 .. N => f[n + 1] = g[n + 1]}
<1>1. FlattenSeq(s) = g[N]
  BY DEF FlattenSeq
<1>2. Joins(f) OBVIOUS
<1>3. Joins(g) BY <1>2
<1> HIDE DEF g
<1>4. 0 \in S BY <1>2, <1>3
<1>5. ASSUME NEW n \in S PROVE n + 1 \in S
  <2> SUFFICES ASSUME n + 2 \in 1 .. N PROVE f[n + 2] = g[n + 2]
    OBVIOUS
  <2>1. f[n + 1] = g[n + 1] OBVIOUS
  <2>2. ASSUME NEW h, Joins(h) PROVE h[n + 2] = h[n + 1] \o s[n + 2]
    <3> DEFINE i == n + 2
    <3>1. i \in 1 .. N /\ i # 1 /\ i - 1 = n + 1 OBVIOUS
    <3> HIDE DEF i
    <3>2. h[i] = h[i - 1] \o s[i] BY <2>2, <3>1
    <3>3. h[i] = h[n + 1] \o s[i] BY <3>1, <3>2
    <3> QED BY <3>3 DEF i
  <2> HIDE DEF Joins
  <2>3. f[n + 2] = f[n + 1] \o s[n + 2] BY <1>2, <2>2
  <2>4. g[n + 2] = g[n + 1] \o s[n + 2] BY <1>3, <2>2
  <2> QED BY <2>1, <2>3, <2>4
<1>6. S = Nat
  <2> HIDE DEF S
  <2>1. S \in SUBSET Nat BY DEF S
  <2> QED BY <1>4, <1>5, <2>1, Inductive
<1>7. N - 1 \in S
  <2> N - 1 \in Nat OBVIOUS
  <2> QED BY <1>6
<1>8. f[N] = g[N] BY <1>7
<1> QED BY <1>1, <1>8

\* SkipTo goes forward as the function f says.
LEMMA SkipsForward ==
  ASSUME frame_count \in Nat, NEW f, NEW frame \in 0 .. frame_count + 1,
         f = [k \in 0 .. frame_count + 1 |-> IF Missed(k) THEN f[k + 1] ELSE k]
  PROVE  SkipTo(frame, 1) = f[frame]
<1> DEFINE N == frame_count + 1
           Walks(g) == g = [k \in 0 .. frame_count + 1 |-> IF Missed(k) THEN g[k + 1] ELSE k]
           g == CHOOSE h : Walks(h)
           S == {n \in Nat : n <= N => f[N - n] = g[N - n]}
<1>1. SkipTo(frame, 1) = g[frame] BY DEF SkipTo
<1>2. Walks(f) OBVIOUS
<1>3. Walks(g) BY <1>2
<1> HIDE DEF g
<1>4. 0 \in S BY <1>2, <1>3 DEF Missed
<1>5. ASSUME NEW n \in S PROVE n + 1 \in S
  <2> SUFFICES ASSUME n + 1 <= N PROVE f[N - n - 1] = g[N - n - 1]
    OBVIOUS
  <2>1. f[N - n] = g[N - n] OBVIOUS
  <2>2. N - n - 1 \in 0 .. frame_count + 1 /\ (N - n - 1) + 1 = N - n OBVIOUS
  <2> QED BY <1>2, <1>3, <2>1, <2>2
<1>6. S = Nat
  <2> HIDE DEF S
  <2>1. S \in SUBSET Nat BY DEF S
  <2> QED BY <1>4, <1>5, <2>1, Inductive
<1>7. N - frame \in S
  <2> N - frame \in Nat OBVIOUS
  <2> QED BY <1>6
<1>8. f[frame] = g[frame] BY <1>7
<1> QED BY <1>1, <1>8

\* SkipTo goes backward as the function f says.
LEMMA SkipsBackward ==
  ASSUME frame_count \in Nat, NEW f, NEW frame \in 0 .. frame_count + 1,
         f = [k \in 0 .. frame_count + 1 |-> IF Missed(k) THEN f[k + -1] ELSE k]
  PROVE  SkipTo(frame, -1) = f[frame]
<1> DEFINE N == frame_count + 1
           Walks(g) == g = [k \in 0 .. frame_count + 1 |-> IF Missed(k) THEN g[k + -1] ELSE k]
           g == CHOOSE h : Walks(h)
           S == {n \in Nat : n <= N => f[n] = g[n]}
<1>1. SkipTo(frame, -1) = g[frame] BY DEF SkipTo
<1>2. Walks(f) OBVIOUS
<1>3. Walks(g) BY <1>2
<1> HIDE DEF g
<1>4. 0 \in S BY <1>2, <1>3 DEF Missed
<1>5. ASSUME NEW n \in S PROVE n + 1 \in S
  <2> SUFFICES ASSUME n + 1 <= N PROVE f[n + 1] = g[n + 1]
    OBVIOUS
  <2>1. f[n] = g[n] OBVIOUS
  <2>2. n + 1 \in 0 .. frame_count + 1 /\ (n + 1) + -1 = n OBVIOUS
  <2> QED BY <1>2, <1>3, <2>1, <2>2
<1>6. S = Nat
  <2> HIDE DEF S
  <2>1. S \in SUBSET Nat BY DEF S
  <2> QED BY <1>4, <1>5, <2>1, Inductive
<1>7. frame \in S BY <1>6
<1>8. f[frame] = g[frame] BY <1>7
<1> QED BY <1>1, <1>8

-----------------------------------------------------------------------------
(* The index of a file, and what the reader finds in it.                   *)

\* Where the entries of packet i begin and end in the index of a file with the frames W:
\* the entry of the packet, and one for each period without a frame before it.
Begins(W, i) == IF i = 1 THEN 1 ELSE W[i - 1] - W[1] + 2
Ends(W, i)   == W[i] - W[1] + 1

\* Entry k of that index.
Entry(W, k) ==
  IF \E i \in 1 .. Len(W) : k = Begins(W, i)
  THEN CHOOSE i \in 1 .. Len(W) : k = Begins(W, i) ELSE Missing

\* Frames in the order of their numbers.
Rising(W) == W \in Seq(Nat) /\ \A i, j \in 1 .. Len(W) : i < j => W[i] < W[j]

\* The entries of the packets lie one behind the other.
LEMMA Slots ==
  ASSUME NEW W, Rising(W)
  PROVE  /\ Len(W) \in Nat
         /\ \A i \in 1 .. Len(W) : /\ Begins(W, i) \in Nat \ {0} /\ Ends(W, i) \in Nat
                                   /\ Begins(W, i) <= Ends(W, i)
                                   /\ i # Len(W) => Begins(W, i + 1) = Ends(W, i) + 1
                                   /\ i # 1 => Begins(W, i) = Ends(W, i - 1) + 1
         /\ \A i, j \in 1 .. Len(W) : i < j => Ends(W, i) < Begins(W, j)
<1>0. W \in Seq(Nat) /\ Len(W) \in Nat /\ \A i \in 1 .. Len(W) : W[i] \in Nat BY DEF Rising
<1>1. ASSUME NEW i \in 1 .. Len(W)
      PROVE  /\ Begins(W, i) \in Nat \ {0} /\ Ends(W, i) \in Nat
             /\ Begins(W, i) <= Ends(W, i)
             /\ i # Len(W) => Begins(W, i + 1) = Ends(W, i) + 1
             /\ i # 1 => Begins(W, i) = Ends(W, i - 1) + 1
  <2>1. CASE i = 1 BY <1>0, <2>1 DEF Begins, Ends
  <2>2. CASE i # 1
    <3>1. i - 1 \in 1 .. Len(W) /\ 1 \in 1 .. Len(W) /\ i - 1 < i BY <1>0, <2>2
    <3>2. W[i - 1] < W[i] /\ W[1] <= W[i - 1] BY <1>0, <3>1 DEF Rising
    <3>3. W[1] \in Nat /\ W[i] \in Nat /\ W[i - 1] \in Nat BY <1>0, <3>1
    <3>4. Begins(W, i) = W[i - 1] - W[1] + 2 /\ Begins(W, i + 1) = W[i] - W[1] + 2
      <4>1. i + 1 # 1 /\ (i + 1) - 1 = i BY <3>1
      <4> QED BY <2>2, <4>1 DEF Begins
    <3>5. Ends(W, i) = W[i] - W[1] + 1 /\ Ends(W, i - 1) = W[i - 1] - W[1] + 1 BY DEF Ends
    <3> DEFINE u == W[1]
               v == W[i - 1]
               w == W[i]
    <3>6. /\ u \in Nat /\ v \in Nat /\ w \in Nat /\ v < w /\ u <= v
          /\ Begins(W, i) = v - u + 2 /\ Begins(W, i + 1) = w - u + 2
          /\ Ends(W, i) = w - u + 1 /\ Ends(W, i - 1) = v - u + 1
      BY <3>2, <3>3, <3>4, <3>5
    <3> HIDE DEF u, v, w
    <3> QED BY <3>6
  <2> QED BY <2>1, <2>2
<1>2. ASSUME NEW i \in 1 .. Len(W), NEW j \in 1 .. Len(W), i < j
      PROVE  Ends(W, i) < Begins(W, j)
  <2>1. j # 1 /\ j - 1 \in 1 .. Len(W) /\ i <= j - 1 /\ 1 \in 1 .. Len(W) BY <1>0, <1>2
  <2>2. W[1] \in Nat /\ W[i] \in Nat /\ W[j - 1] \in Nat BY <1>0, <2>1
  <2>3. W[i] <= W[j - 1]
    <3>1. i < j - 1 => W[i] < W[j - 1] BY <2>1 DEF Rising
    <3>2. i = j - 1 \/ i < j - 1 BY <2>1
    <3> QED BY <2>2, <3>1, <3>2
  <2>4. Ends(W, i) = W[i] - W[1] + 1 /\ Begins(W, j) = W[j - 1] - W[1] + 2
    BY <2>1 DEF Begins, Ends
  <2> DEFINE u == W[1]
             v == W[i]
             w == W[j - 1]
  <2>5. /\ u \in Nat /\ v \in Nat /\ w \in Nat /\ v <= w
        /\ Ends(W, i) = v - u + 1 /\ Begins(W, j) = w - u + 2
    BY <2>2, <2>3, <2>4
  <2> HIDE DEF u, v, w
  <2> QED BY <2>5
<1> QED BY <1>0, <1>1, <1>2

\* Every entry of the index is of a packet.
LEMMA SlotOf ==
  ASSUME NEW W, Rising(W), W # <<>>, NEW k \in 1 .. Ends(W, Len(W))
  PROVE  \E i \in 1 .. Len(W) : k \in Begins(W, i) .. Ends(W, i)
<1> DEFINE S == {i \in 1 .. Len(W) : k <= Ends(W, i)}
<1>0. W \in Seq(Nat) /\ Len(W) \in Nat /\ Len(W) # 0 BY DEF Rising
<1>1. Len(W) \in S /\ S \in SUBSET Nat BY <1>0, Slots
<1>2. PICK i \in S : \A j \in S : i <= j
  <2> HIDE DEF S
  <2> QED BY <1>1, Least
<1>3. i = 1 => Begins(W, i) = 1 BY DEF Begins
<1>4. CASE i = 1 BY <1>0, <1>2, <1>3, <1>4, Slots
<1>5. CASE i # 1
  <2>1. i \in 1 .. Len(W) /\ i - 1 \in 1 .. Len(W) /\ i - 1 < i BY <1>0, <1>2, <1>5
  <2>2. i - 1 \notin S BY <1>2, <2>1
  <2>3. Ends(W, i - 1) < k BY <2>1, <2>2, Slots
  <2>4. Begins(W, i) = Ends(W, i - 1) + 1 BY <1>5, <2>1, Slots
  <2>5. Ends(W, i - 1) \in Nat /\ Ends(W, i) \in Nat /\ k <= Ends(W, i) BY <1>2, <2>1, Slots
  <2> QED BY <2>1, <2>3, <2>4, <2>5
<1> QED BY <1>4, <1>5

\* The first entry of a packet is its number, the others are of missing frames.
LEMMA Entries ==
  ASSUME NEW W, Rising(W), NEW i \in 1 .. Len(W), NEW k \in Begins(W, i) .. Ends(W, i)
  PROVE  Entry(W, k) = IF k = Begins(W, i) THEN i ELSE Missing
<1>1. ASSUME NEW j \in 1 .. Len(W), k = Begins(W, j) PROVE j = i
  <2>0. k \in Int /\ Begins(W, i) \in Nat /\ Ends(W, i) \in Nat /\ Ends(W, j) \in Nat
        /\ Begins(W, j) \in Nat /\ Begins(W, j) <= Ends(W, j)
    BY Slots
  <2>1. ~ (i < j)
    <3>1. i < j => Ends(W, i) < Begins(W, j) BY Slots
    <3> QED BY <1>1, <2>0, <3>1
  <2>2. ~ (j < i)
    <3>1. j < i => Ends(W, j) < Begins(W, i) BY Slots
    <3> QED BY <1>1, <2>0, <3>1
  <2>3. i \in Int /\ j \in Int BY Slots
  <2> QED BY <2>1, <2>2, <2>3
<1>2. CASE k = Begins(W, i)
  <2>1. \E j \in 1 .. Len(W) : k = Begins(W, j) BY <1>2
  <2> DEFINE c == CHOOSE j \in 1 .. Len(W) : k = Begins(W, j)
  <2>2. c \in 1 .. Len(W) /\ k = Begins(W, c) BY <2>1
  <2>3. Entry(W, k) = c BY <2>1 DEF Entry
  <2> HIDE DEF c
  <2> QED BY <1>1, <1>2, <2>2, <2>3
<1>3. CASE k # Begins(W, i)
  BY <1>1, <1>3 DEF Entry
<1> QED BY <1>2, <1>3

\* What WriteIndex writes for packet i.
LEMMA Chunks ==
  ASSUME NEW W, Rising(W), NEW i \in 1 .. Len(W)
  PROVE  LET c == <<i>> \o [k \in 1 .. Extra(W, i) |-> Missing]
         IN  /\ c \in Seq(Nat) /\ Len(c) = Ends(W, i) - Begins(W, i) + 1
             /\ c[1] = i /\ \A k \in 2 .. Len(c) : c[k] = Missing
<1> DEFINE z == [k \in 1 .. Extra(W, i) |-> Missing]
<1>0. /\ Extra(W, i) = Ends(W, i) - Begins(W, i)
      /\ Begins(W, i) \in Nat /\ Ends(W, i) \in Nat /\ Begins(W, i) <= Ends(W, i)
  <2>1. W[1] \in Nat /\ W[i] \in Nat /\ (i # 1 => W[i - 1] \in Nat)
    <3>1. 1 \in 1 .. Len(W) /\ (i # 1 => i - 1 \in 1 .. Len(W)) BY Slots
    <3> QED BY <3>1 DEF Rising
  <2>2. Extra(W, i) = Ends(W, i) - Begins(W, i) BY <2>1 DEF Extra, Ends, Begins
  <2> QED BY <2>2, Slots
<1>1. Extra(W, i) \in Nat BY <1>0
<1>2. z \in Seq(Nat) /\ Len(z) = Extra(W, i) /\ \A k \in 1 .. Len(z) : z[k] = Missing
  <2> Missing \in Nat BY DEF Missing
  <2> QED BY <1>1
<1>3. <<i>> \in Seq(Nat) /\ Len(<<i>>) = 1 /\ <<i>>[1] = i OBVIOUS
<1> HIDE DEF z
<1> DEFINE o == <<i>>
<1>4. o \in Seq(Nat) /\ Len(o) = 1 /\ o[1] = i BY <1>3
<1> HIDE DEF o
<1>5. /\ o \o z \in Seq(Nat) /\ Len(o \o z) = 1 + Extra(W, i)
      /\ (o \o z)[1] = i /\ \A k \in 2 .. Len(o \o z) : (o \o z)[k] = Missing
  <2>1. /\ o \o z \in Seq(Nat) /\ Len(o \o z) = Len(o) + Len(z)
        /\ \A k \in 1 .. Len(o) + Len(z) : (o \o z)[k] = IF k <= Len(o) THEN o[k] ELSE z[k - Len(o)]
    BY <1>2, <1>4, ConcatProperties
  <2>2. (o \o z)[1] = i BY <1>1, <1>2, <1>4, <2>1
  <2>3. ASSUME NEW k \in 2 .. Len(o \o z) PROVE (o \o z)[k] = Missing
    <3>1. k - 1 \in 1 .. Len(z) /\ k \in 1 .. Len(o) + Len(z) /\ ~(k <= Len(o))
      BY <1>1, <1>2, <1>4, <2>1
    <3> QED BY <1>2, <1>4, <2>1, <3>1
  <2> QED BY <1>2, <1>4, <2>1, <2>2, <2>3
<1> QED BY <1>0, <1>5 DEF o, z

\* WriteIndex writes one entry for each period from the first frame to the last.
LEMMA IndexWritten ==
  ASSUME NEW W, Rising(W), W # <<>>
  PROVE  WriteIndex(W) = [k \in 1 .. Ends(W, Len(W)) |-> Entry(W, k)]
<1> DEFINE N == Len(W)
           c(i) == <<i>> \o [k \in 1 .. Extra(W, i) |-> Missing]
           s == [i \in 1 .. N |-> c(i)]
           F(i) == [k \in 1 .. Ends(W, i) |-> Entry(W, k)]
           f == [i \in 1 .. N |-> F(i)]
<1>0. W \in Seq(Nat) /\ N \in Nat /\ N # 0 BY DEF Rising
<1>1. \A i \in 1 .. N : /\ c(i) \in Seq(Nat) /\ Len(c(i)) = Ends(W, i) - Begins(W, i) + 1
                        /\ c(i)[1] = i /\ \A k \in 2 .. Len(c(i)) : c(i)[k] = Missing
  BY Chunks
<1>2. \A i \in 1 .. N : /\ F(i) \in Seq(Nat) /\ Len(F(i)) = Ends(W, i)
                        /\ \A k \in 1 .. Len(F(i)) : F(i)[k] = Entry(W, k)
  <2> SUFFICES ASSUME NEW i \in 1 .. N
               PROVE  /\ F(i) \in Seq(Nat) /\ Len(F(i)) = Ends(W, i)
                      /\ \A k \in 1 .. Len(F(i)) : F(i)[k] = Entry(W, k)
    OBVIOUS
  <2>1. Ends(W, i) \in Nat BY Slots
  <2>2. \A k : Entry(W, k) \in Nat BY DEF Entry, Missing
  <2>3. F(i) \in [1 .. Ends(W, i) -> Nat] BY <2>2
  <2> QED BY <2>1, <2>3
<1>3. WriteIndex(W) = FlattenSeq(s) BY DEF WriteIndex
<1>4. Len(s) = N /\ \A i \in 1 .. N : s[i] = c(i)
  <2>1. DOMAIN s = 1 .. N OBVIOUS
  <2>2. s \in Seq(Seq(Nat))
    <3>1. s \in [1 .. N -> Seq(Nat)] BY <1>1
    <3> QED BY <1>0, <3>1
  <2>3. Len(s) = N
    <3> HIDE DEF s
    <3> QED BY <1>0, <2>1, <2>2
  <2> QED BY <2>3
<1>5. \A i \in 1 .. N : f[i] = F(i) OBVIOUS
<1> HIDE DEF c, F, s, f
<1>6. F(1) = c(1)
  <2>1. Begins(W, 1) = 1 /\ Ends(W, 1) = 1 /\ 1 \in 1 .. N
    <3>1. 1 \in 1 .. N /\ W[1] \in Nat BY <1>0
    <3> QED BY <3>1 DEF Begins, Ends
  <2> DEFINE a == F(1)
             b == c(1)
  <2>2. a \in Seq(Nat) /\ Len(a) = Ends(W, 1) /\ \A k \in 1 .. Len(a) : a[k] = Entry(W, k)
    BY <1>2, <2>1
  <2>3. b \in Seq(Nat) /\ Len(b) = Ends(W, 1) - Begins(W, 1) + 1 /\ b[1] = 1
    BY <1>1, <2>1
  <2> HIDE DEF a, b
  <2>4. Entry(W, 1) = 1
    <3>1. 1 \in Begins(W, 1) .. Ends(W, 1) BY <2>1
    <3> QED BY <2>1, <3>1, Entries
  <2>5. Len(a) = Len(b) /\ Len(a) = 1 BY <2>1, <2>2, <2>3
  <2>6. \A k \in 1 .. Len(a) : a[k] = b[k] BY <2>2, <2>3, <2>4, <2>5
  <2>7. a = b BY <2>2, <2>3, <2>5, <2>6, SeqEqual
  <2> QED BY <2>7 DEF a, b
<1>7. ASSUME NEW i \in 2 .. N PROVE F(i) = F(i - 1) \o c(i)
  <2>1. i \in 1 .. N /\ i - 1 \in 1 .. N /\ i # 1 BY <1>0
  <2>2. /\ Begins(W, i) = Ends(W, i - 1) + 1 /\ Ends(W, i - 1) \in Nat /\ Ends(W, i) \in Nat
        /\ Begins(W, i) <= Ends(W, i) /\ Begins(W, i) \in Nat
    BY <2>1, Slots
  <2> DEFINE a == F(i - 1)
             b == c(i)
             d == F(i)
  <2>3. /\ a \in Seq(Nat) /\ Len(a) = Ends(W, i - 1)
        /\ \A k \in 1 .. Len(a) : a[k] = Entry(W, k)
    BY <1>2, <2>1
  <2>4. /\ b \in Seq(Nat) /\ Len(b) = Ends(W, i) - Begins(W, i) + 1
        /\ b[1] = i /\ \A k \in 2 .. Len(b) : b[k] = Missing
    BY <1>1, <2>1
  <2>5. /\ d \in Seq(Nat) /\ Len(d) = Ends(W, i)
        /\ \A k \in 1 .. Len(d) : d[k] = Entry(W, k)
    BY <1>2, <2>1
  <2> HIDE DEF a, b, d
  <2>0. /\ Len(a) = Ends(W, i - 1) /\ Len(d) = Ends(W, i)
        /\ Len(b) = Ends(W, i) - Begins(W, i) + 1
    BY <2>3, <2>4, <2>5
  <2>6. /\ a \o b \in Seq(Nat) /\ Len(a \o b) = Len(a) + Len(b) /\ Len(a \o b) = Len(d)
        /\ \A k \in 1 .. Len(a) + Len(b) : (a \o b)[k] = IF k <= Len(a) THEN a[k] ELSE b[k - Len(a)]
    <3>1. /\ a \o b \in Seq(Nat) /\ Len(a \o b) = Len(a) + Len(b)
          /\ \A k \in 1 .. Len(a) + Len(b) : (a \o b)[k] = IF k <= Len(a) THEN a[k] ELSE b[k - Len(a)]
      BY <2>3, <2>4, ConcatProperties
    <3>2. Len(a) + Len(b) = Len(d) BY <2>0, <2>2
    <3> QED BY <3>1, <3>2
  <2>7. ASSUME NEW k \in 1 .. Len(d) PROVE (a \o b)[k] = d[k]
    <3>1. CASE k <= Len(a)
      <4>1. k \in 1 .. Len(a) BY <2>3, <3>1
      <4>2. (a \o b)[k] = a[k] BY <2>6, <3>1
      <4> QED BY <2>3, <2>5, <4>1, <4>2
    <3>2. CASE ~(k <= Len(a))
      <4>1. k - Len(a) \in 1 .. Len(b) /\ k \in Begins(W, i) .. Ends(W, i)
        BY <2>0, <2>2, <3>2
      <4>2. (a \o b)[k] = b[k - Len(a)] BY <2>6, <3>2
      <4>3. Entry(W, k) = IF k = Begins(W, i) THEN i ELSE Missing BY <2>1, <4>1, Entries
      <4>4. k = Begins(W, i) <=> k - Len(a) = 1 BY <2>0, <2>2
      <4>5. k - Len(a) # 1 => k - Len(a) \in 2 .. Len(b) BY <4>1
      <4> QED BY <2>4, <2>5, <4>2, <4>3, <4>4, <4>5
    <3> QED BY <3>1, <3>2
  <2>8. a \o b = d BY <2>5, <2>6, <2>7, SeqEqual
  <2> QED BY <2>8 DEF a, b, d
<1>8. f = [i \in 1 .. Len(s) |-> IF i = 1 THEN s[i] ELSE f[i - 1] \o s[i]]
  <2>1. ASSUME NEW i \in 1 .. N PROVE f[i] = IF i = 1 THEN s[i] ELSE f[i - 1] \o s[i]
    <3>1. CASE i = 1 BY <1>4, <1>5, <1>6, <3>1
    <3>2. CASE i # 1
      <4>1. i \in 2 .. N /\ i - 1 \in 1 .. N BY <1>0, <3>2
      <4>2. f[i] = F(i) /\ f[i - 1] = F(i - 1) /\ s[i] = c(i) BY <1>4, <1>5, <4>1
      <4>3. F(i) = F(i - 1) \o c(i) BY <1>7, <4>1
      <4> QED BY <3>2, <4>2, <4>3
    <3> QED BY <3>1, <3>2
  <2>2. f = [i \in 1 .. N |-> F(i)] BY DEF f
  <2>3. f = [i \in 1 .. N |-> f[i]] BY <2>2
  <2>4. Len(s) = N BY <1>4
  <2> QED BY <2>1, <2>3, <2>4
<1>9. FlattenSeq(s) = f[N] BY <1>0, <1>4, <1>8, Flattened
<1>10. N \in 1 .. N BY <1>0
<1> QED BY <1>3, <1>5, <1>9, <1>10 DEF F

\* The packet whose entries hold entry k.
Slot(W, k) == CHOOSE i \in 1 .. Len(W) : k \in Begins(W, i) .. Ends(W, i)

\* The file was written: at least one packet, and the index of WriteIndex.
Filmed == Rising(written) /\ written # <<>> /\ index = WriteIndex(written)

\* No entry is of two packets.
LEMMA OneSlot ==
  ASSUME NEW W, Rising(W), NEW i \in 1 .. Len(W), NEW k \in Begins(W, i) .. Ends(W, i)
  PROVE  Slot(W, k) = i
<1>1. ASSUME NEW j \in 1 .. Len(W), k \in Begins(W, j) .. Ends(W, j) PROVE j = i
  <2>1. /\ Begins(W, i) \in Nat /\ Ends(W, i) \in Nat /\ k \in Int
        /\ Begins(W, j) \in Nat /\ Ends(W, j) \in Nat /\ i \in Int /\ j \in Int
    BY Slots
  <2>2. ~ (i < j)
    <3>1. i < j => Ends(W, i) < Begins(W, j) BY Slots
    <3> QED BY <1>1, <2>1, <3>1
  <2>3. ~ (j < i)
    <3>1. j < i => Ends(W, j) < Begins(W, i) BY Slots
    <3> QED BY <1>1, <2>1, <3>1
  <2> QED BY <2>1, <2>2, <2>3
<1> QED BY <1>1 DEF Slot

\* What the reader finds in the index.
LEMMA Found ==
  ASSUME Filmed
  PROVE  /\ frame_count = Ends(written, Len(written)) /\ frame_count \in Nat \ {0}
         /\ Len(written) \in Nat \ {0}
         /\ \A i \in 1 .. Len(written) : /\ Ends(written, i) <= frame_count
                                         /\ i # Len(written) => Ends(written, i) < frame_count
                                         /\ index[Begins(written, i)] = i
         /\ \A i \in 1 .. Len(written) : \A k \in Begins(written, i) .. Ends(written, i) :
              k \in 1 .. frame_count /\ (Missed(k) <=> k # Begins(written, i))
<1> DEFINE W == written
           N == Len(written)
<1>0. Rising(W) /\ N \in Nat \ {0} /\ N \in 1 .. N
  <2> W \in Seq(Nat) /\ W # <<>> BY DEF Filmed, Rising
  <2> QED BY DEF Filmed
<1>1. Ends(W, N) \in Nat \ {0}
  <2>1. Begins(W, N) \in Nat \ {0} /\ Ends(W, N) \in Nat /\ Begins(W, N) <= Ends(W, N)
    BY <1>0, Slots
  <2> QED BY <2>1
<1>2. index = [k \in 1 .. Ends(W, N) |-> Entry(W, k)] BY IndexWritten DEF Filmed
<1>3. frame_count = Ends(W, N)
  <2>1. \A k : Entry(W, k) \in Nat BY DEF Entry, Missing
  <2>2. index \in [1 .. Ends(W, N) -> Nat] BY <1>2, <2>1
  <2> QED BY <1>1, <2>2 DEF frame_count
<1>4. ASSUME NEW i \in 1 .. N
      PROVE  Ends(W, i) <= frame_count /\ (i # N => Ends(W, i) < frame_count)
  <2>1. /\ Ends(W, i) \in Nat /\ Ends(W, N) \in Nat /\ Begins(W, N) \in Nat
        /\ Begins(W, N) <= Ends(W, N) /\ (i < N => Ends(W, i) < Begins(W, N))
    BY <1>0, Slots
  <2>2. i # N => i < N BY <1>0
  <2> QED BY <1>3, <2>1, <2>2
<1>5. ASSUME NEW i \in 1 .. N, NEW k \in Begins(W, i) .. Ends(W, i)
      PROVE  /\ k \in 1 .. frame_count /\ index[k] = IF k = Begins(W, i) THEN i ELSE Missing
             /\ Missed(k) <=> k # Begins(W, i)
  <2>1. Begins(W, i) \in Nat \ {0} /\ Ends(W, i) \in Nat BY <1>0, Slots
  <2>2. k \in 1 .. frame_count BY <1>1, <1>3, <1>4, <2>1
  <2>3. index[k] = Entry(W, k) BY <1>2, <1>3, <2>2
  <2>4. Entry(W, k) = IF k = Begins(W, i) THEN i ELSE Missing BY <1>0, Entries
  <2>5. i # Missing BY <1>0 DEF Missing
  <2> QED BY <2>2, <2>3, <2>4, <2>5 DEF Missed
<1>6. ASSUME NEW i \in 1 .. N PROVE index[Begins(W, i)] = i
  <2>1. Begins(W, i) \in Begins(W, i) .. Ends(W, i) BY <1>0, Slots
  <2> QED BY <1>5, <2>1
<1> QED BY <1>0, <1>1, <1>3, <1>4, <1>5, <1>6

\* From an entry of packet i the reader goes back to its first one, and on to that of the
\* next packet, or over the end of the index.
LEMMA Skips ==
  ASSUME Filmed, NEW i \in 1 .. Len(written),
         NEW k \in Begins(written, i) .. Ends(written, i)
  PROVE  /\ SkipTo(k, -1) = Begins(written, i)
         /\ SkipTo(k, 1) = IF k = Begins(written, i) THEN k ELSE Ends(written, i) + 1
<1> DEFINE W == written
           N == Len(written)
           back == [x \in 0 .. frame_count + 1 |-> IF Missed(x) THEN Begins(W, Slot(W, x)) ELSE x]
           fore == [x \in 0 .. frame_count + 1 |-> IF Missed(x) THEN Ends(W, Slot(W, x)) + 1 ELSE x]
<1>0. Rising(W) /\ W # <<>> /\ frame_count = Ends(W, N) /\ frame_count \in Nat /\ N \in Nat
  BY Found DEF Filmed
<1>1. ASSUME NEW x, Missed(x)
      PROVE  \E j \in 1 .. N : /\ x \in Begins(W, j) .. Ends(W, j) /\ Slot(W, x) = j
                               /\ x # Begins(W, j)
  <2>1. x \in 1 .. Ends(W, N) BY <1>0, <1>1 DEF Missed
  <2>2. PICK j \in 1 .. N : x \in Begins(W, j) .. Ends(W, j) BY <1>0, <2>1, SlotOf
  <2> QED BY <1>0, <1>1, <2>2, OneSlot, Found
<1>2. back = [x \in 0 .. frame_count + 1 |-> IF Missed(x) THEN back[x + -1] ELSE x]
  <2> SUFFICES ASSUME NEW x \in 0 .. frame_count + 1, Missed(x)
               PROVE  Begins(W, Slot(W, x)) = back[x + -1]
    OBVIOUS
  <2>1. PICK j \in 1 .. N : x \in Begins(W, j) .. Ends(W, j) /\ Slot(W, x) = j /\ x # Begins(W, j)
    BY <1>1
  <2>2. Begins(W, j) \in Nat \ {0} /\ Ends(W, j) \in Nat BY <1>0, Slots
  <2> DEFINE y == x + -1
  <2>3. y \in Begins(W, j) .. Ends(W, j) /\ y \in 0 .. frame_count + 1 BY <1>0, <2>1, <2>2
  <2> HIDE DEF y
  <2>4. Slot(W, y) = j BY <1>0, <2>3, OneSlot
  <2>5. Missed(y) <=> y # Begins(W, j) BY <2>3, Found
  <2>6. back[y] = Begins(W, j) BY <2>3, <2>4, <2>5
  <2> QED BY <2>1, <2>6 DEF y
<1>3. fore = [x \in 0 .. frame_count + 1 |-> IF Missed(x) THEN fore[x + 1] ELSE x]
  <2> SUFFICES ASSUME NEW x \in 0 .. frame_count + 1, Missed(x)
               PROVE  Ends(W, Slot(W, x)) + 1 = fore[x + 1]
    OBVIOUS
  <2>1. PICK j \in 1 .. N : x \in Begins(W, j) .. Ends(W, j) /\ Slot(W, x) = j /\ x # Begins(W, j)
    BY <1>1
  <2>2. Begins(W, j) \in Nat \ {0} /\ Ends(W, j) \in Nat /\ Ends(W, j) <= frame_count
    BY <1>0, Slots, Found
  <2> DEFINE y == x + 1
  <2>3. y \in 0 .. frame_count + 1 /\ y \in Nat /\ x \in Nat BY <1>0, <2>1, <2>2
  <2>4. CASE x < Ends(W, j)
    <3>1. y \in Begins(W, j) .. Ends(W, j) /\ y # Begins(W, j) BY <2>1, <2>2, <2>4
    <3> HIDE DEF y
    <3>2. Slot(W, y) = j BY <1>0, <3>1, OneSlot
    <3>3. Missed(y) BY <3>1, Found
    <3>4. fore[y] = Ends(W, j) + 1 BY <2>3, <3>2, <3>3
    <3> QED BY <2>1, <3>4 DEF y
  <2>5. CASE x = Ends(W, j)
    <3>1. y = Ends(W, j) + 1 BY <2>5
    <3> HIDE DEF y
    <3>2. ~Missed(y)
      <4>1. CASE j = N
        <5>1. y \notin 1 .. frame_count BY <1>0, <3>1, <4>1
        <5> QED BY <5>1 DEF Missed
      <4>2. CASE j # N
        <5>1. j + 1 \in 1 .. N BY <1>0, <4>2
        <5>2. y = Begins(W, j + 1) BY <1>0, <3>1, <4>2, Slots
        <5>3. y \in Begins(W, j + 1) .. Ends(W, j + 1) BY <1>0, <5>1, <5>2, Slots
        <5> QED BY <5>1, <5>2, <5>3, Found
      <4> QED BY <4>1, <4>2
    <3>3. fore[y] = y BY <2>3, <3>2
    <3> QED BY <2>1, <3>1, <3>3 DEF y
  <2> QED BY <2>1, <2>2, <2>4, <2>5
<1>4. k \in 0 .. frame_count + 1 /\ k \in 1 .. frame_count /\ Slot(W, k) = i
      /\ (Missed(k) <=> k # Begins(W, i))
  BY <1>0, Found, OneSlot
<1>5. SkipTo(k, -1) = back[k]
  <2> HIDE DEF back
  <2> QED BY <1>0, <1>2, <1>4, SkipsBackward
<1>6. SkipTo(k, 1) = fore[k]
  <2> HIDE DEF fore
  <2> QED BY <1>0, <1>3, <1>4, SkipsForward
<1> QED BY <1>4, <1>5, <1>6

\* The reader takes one packet for each frame: the packet of its entry.
LEMMA Reads ==
  ASSUME Filmed, NEW i \in 1 .. Len(written),
         NEW k \in Begins(written, i) .. Ends(written, i)
  PROVE  Backward(k) = i /\ ReadFrame(k) = {i}
<1> DEFINE W == written
           N == Len(written)
           next == Ends(W, i) + 1
<1>0. /\ Rising(W) /\ frame_count = Ends(W, N) /\ frame_count \in Nat \ {0} /\ N \in Nat \ {0}
      /\ Begins(W, i) \in Nat \ {0} /\ Ends(W, i) \in Nat /\ Begins(W, i) <= Ends(W, i)
      /\ Ends(W, i) <= frame_count /\ (i # N => Ends(W, i) < frame_count)
      /\ k \in 1 .. frame_count
  BY Found, Slots DEF Filmed
<1>1. Backward(k) = i
  <2>1. SkipTo(k, -1) = Begins(W, i) BY Skips
  <2>2. Begins(W, i) \in 1 .. frame_count /\ index[Begins(W, i)] = i BY <1>0, Found
  <2> QED BY <2>1, <2>2 DEF Backward, FrameOffset
<1>2. ASSUME k < frame_count PROVE SkipTo(k + 1, 1) = next
  <2> DEFINE y == k + 1
  <2>1. CASE k < Ends(W, i)
    <3>1. y \in Begins(W, i) .. Ends(W, i) /\ y # Begins(W, i) BY <1>0, <2>1
    <3> HIDE DEF y
    <3>2. SkipTo(y, 1) = next BY <3>1, Skips
    <3> QED BY <3>2 DEF y
  <2>2. CASE k = Ends(W, i)
    <3>1. i # N BY <1>0, <1>2, <2>2
    <3>2. i + 1 \in 1 .. N BY <1>0, <3>1
    <3>3. y = next /\ y = Begins(W, i + 1) BY <1>0, <2>2, <3>1, Slots
    <3>4. y \in Begins(W, i + 1) .. Ends(W, i + 1) BY <1>0, <3>2, <3>3, Slots
    <3> HIDE DEF y
    <3>5. SkipTo(y, 1) = y BY <3>2, <3>3, <3>4, Skips
    <3> QED BY <3>3, <3>5 DEF y
  <2> QED BY <1>0, <2>1, <2>2
<1>3. NextOffset(k) = i + 1
  <2>1. CASE i # N
    <3>1. i + 1 \in 1 .. N /\ next = Begins(W, i + 1) /\ k < frame_count BY <1>0, <2>1, Slots
    <3>2. next \in 1 .. frame_count /\ index[next] = i + 1 BY <1>0, <2>1, <3>1, Found
    <3>3. Forward(k + 1) = i + 1 BY <1>2, <3>1, <3>2 DEF Forward, FrameOffset
    <3>4. i + 1 # Missing BY <3>1 DEF Missing
    <3> QED BY <3>1, <3>3, <3>4 DEF NextOffset
  <2>2. CASE i = N
    <3>1. next \notin 1 .. frame_count BY <1>0, <2>2
    <3>2. k < frame_count => Forward(k + 1) = Missing BY <1>2, <3>1 DEF Forward, FrameOffset
    <3> QED BY <2>2, <3>2 DEF NextOffset, IndexOffset
  <2> QED BY <2>1, <2>2
<1>4. ReadFrame(k) = i .. i
  <2> i \in Int BY <1>0
  <2> QED BY <1>1, <1>3 DEF ReadFrame, FrameSize
<1> QED BY <1>0, <1>1, <1>4

\* So a file that was written is played in full, each packet once per entry.
LEMMA PlayedInFull ==
  ASSUME Rising(written), index = WriteIndex(written)
  PROVE  /\ \A k \in 1..frame_count : \E p \in 1..Len(written) : ReadFrame(k) = {p}
         /\ written # <<>> => frame_count = Last(written) - Head(written) + 1
         /\ \A k \in 2..frame_count : Backward(k - 1) <= Backward(k)
         /\ \A p \in 1..Len(written) : \E k \in 1..frame_count :
              ReadFrame(k) = {p} /\ ~RefusesMissing(k)
<1> DEFINE W == written
           N == Len(written)
<1>0. W \in Seq(Nat) BY DEF Rising
<1>1. CASE W = <<>>
  <2>1. Len(written) = 0 BY <1>1
  <2>2. index = <<>>
    <3> DEFINE s == [i \in 1 .. Len(written) |->
                       <<i>> \o [k \in 1 .. Extra(written, i) |-> Missing]]
    <3>1. index = FlattenSeq(s) BY DEF WriteIndex
    <3>2. DOMAIN s = {} BY <2>1
    <3>3. s = <<>> BY <3>2
    <3> HIDE DEF s
    <3> QED BY <3>1, <3>3 DEF FlattenSeq
  <2> QED BY <1>1, <2>1, <2>2 DEF frame_count
<1>2. CASE W # <<>>
  <2>0. Filmed BY <1>2 DEF Filmed
  <2>1. /\ frame_count = Ends(W, N) /\ frame_count \in Nat \ {0} /\ N \in Nat \ {0}
        /\ 1 \in 1 .. N /\ N \in 1 .. N
    BY <2>0, Found
  <2>2. \A k \in 1 .. frame_count : \E i \in 1 .. N : k \in Begins(W, i) .. Ends(W, i)
    BY <1>2, <2>1, SlotOf
  <2>3. \A k \in 1 .. frame_count : \E i \in 1 .. N : ReadFrame(k) = {i}
    BY <2>0, <2>2, Reads
  <2>4. frame_count = Last(written) - Head(written) + 1
    BY <1>0, <1>2, <2>1 DEF Ends, Last
  <2>5. ASSUME NEW k \in 2 .. frame_count PROVE Backward(k - 1) <= Backward(k)
    <3> DEFINE y == k - 1
    <3>1. k \in 1 .. frame_count /\ y \in 1 .. frame_count BY <2>1
    <3>2. PICK i \in 1 .. N : k \in Begins(W, i) .. Ends(W, i) BY <2>2, <3>1
    <3>3. y < k BY <3>1
    <3> HIDE DEF y
    <3>4. PICK j \in 1 .. N : y \in Begins(W, j) .. Ends(W, j) BY <2>2, <3>1
    <3>5. Backward(k) = i /\ Backward(y) = j BY <2>0, <3>2, <3>4, Reads
    <3>6. ~ (i < j)
      <4>1. i < j => Ends(W, i) < Begins(W, j) BY Slots
      <4>2. /\ Ends(W, i) \in Nat /\ Begins(W, j) \in Nat /\ Ends(W, j) \in Nat
            /\ Begins(W, i) \in Nat
        BY Slots
      <4> QED BY <3>1, <3>2, <3>3, <3>4, <4>1, <4>2
    <3>7. j <= i BY <2>1, <3>6
    <3> QED BY <3>5, <3>7 DEF y
  <2>6. ASSUME NEW p \in 1 .. N
        PROVE  \E k \in 1 .. frame_count : ReadFrame(k) = {p} /\ ~RefusesMissing(k)
    <3> DEFINE k == Begins(W, p)
    <3>1. k \in Begins(W, p) .. Ends(W, p) BY Slots
    <3>2. k \in 1 .. frame_count /\ index[k] = p BY <2>0, <3>1, Found
    <3>3. p # Missing BY DEF Missing
    <3>4. ReadFrame(k) = {p} BY <2>0, <3>1, Reads
    <3> HIDE DEF k
    <3> QED BY <3>2, <3>3, <3>4 DEF RefusesMissing
  <2> QED BY <2>3, <2>4, <2>5, <2>6
<1> QED BY <1>1, <1>2

\* The frames are in the file in the order of their numbers, and when it is closed its
\* index is that of its packets.
FileInv == Rising(written) /\ (closer = "closed" => index = WriteIndex(written))

\* At first the file is empty.
LEMMA InitFile == Init => FileInv
BY DEF Init, FileInv, Rising

\* A packet joins the file behind packets of earlier frames, and none when it is closed.
LEMMA FileStep == IInv /\ FileInv /\ [Next]_vars => FileInv'
<1> SUFFICES ASSUME IInv, FileInv, [Next]_vars PROVE FileInv'
  OBVIOUS
<1>0. written \in Seq(Nat) /\ Rising(written) BY DEF FileInv, Rising
<1>1. CASE \E f \in Frames : WritePacket(f)
  <2>1. PICK f \in Frames : WritePacket(f) BY <1>1
  <2>2. f \in encoded /\ written' = Append(written, f) /\ closer' = closer
    BY <2>1 DEF WritePacket, Turn
  <2>3. \A i \in 1 .. Len(written) : written[i] < f
    BY <2>2 DEF IInv, InOrder, Pending
  <2>4. f \in Nat BY DEF Frames
  <2>5. closer # "closed" BY <2>2 DEF IInv, Ending, InFlight
  <2>6. /\ written' \in Seq(Nat) /\ Len(written') = Len(written) + 1 /\ Len(written) \in Nat
        /\ written'[Len(written) + 1] = f
        /\ \A i \in 1 .. Len(written) : written'[i] = written[i]
    BY <1>0, <2>2, <2>4
  <2>7. ASSUME NEW i \in 1 .. Len(written'), NEW j \in 1 .. Len(written'), i < j
        PROVE  written'[i] < written'[j]
    <3>1. i \in 1 .. Len(written) BY <2>6, <2>7
    <3>2. CASE j = Len(written) + 1 BY <2>3, <2>6, <3>1, <3>2
    <3>3. CASE j # Len(written) + 1
      <4>1. j \in 1 .. Len(written) BY <2>6, <3>3
      <4> QED BY <1>0, <2>6, <2>7, <3>1, <4>1 DEF Rising
    <3> QED BY <3>2, <3>3
  <2> QED BY <2>2, <2>5, <2>6, <2>7 DEF FileInv, Rising
<1>2. CASE EndClose
  <2>1. written' = written /\ index' = WriteIndex(written) BY <1>2 DEF EndClose
  <2>2. index' = WriteIndex(written)' BY <2>1 DEF WriteIndex, Extra
  <2> QED BY <1>0, <2>1, <2>2 DEF FileInv, Rising
<1>3. ASSUME written' = written, index' = index, closer' = "closed" => closer = "closed"
      PROVE  FileInv'
  <2>1. WriteIndex(written)' = WriteIndex(written) BY <1>3 DEF WriteIndex, Extra
  <2> QED BY <1>0, <1>3, <2>1 DEF FileInv, Rising
<1>4. CASE AppendStep
  <2>1. written' = written /\ index' = index /\ closer' = closer
    BY <1>4 DEF AppendStep, AppendFrame, PushFrame, RefuseFrame, DropFrame
  <2> QED BY <1>3, <2>1
<1>5. CASE PopFrame \/ PopTerminator
           \/ \E f \in Frames : Compress(f) \/ ReturnFrame(f) \/ ReturnPacket(f)
  <2>1. written' = written /\ index' = index /\ closer' = closer
    BY <1>5 DEF PopFrame, PopTerminator, Compress, ReturnFrame, ReturnPacket
  <2> QED BY <1>3, <2>1
<1>6. CASE BeginClose \/ PushTerminator
  <2>1. written' = written /\ index' = index /\ closer' # "closed"
    BY <1>6 DEF BeginClose, PushTerminator
  <2> QED BY <1>3, <2>1
<1>7. CASE UNCHANGED vars
  <2>1. written' = written /\ index' = index /\ closer' = closer BY <1>7 DEF vars
  <2> QED BY <1>3, <2>1
<1> QED BY <1>1, <1>2, <1>4, <1>5, <1>6, <1>7 DEF Next, PipelineStep, CloseStep

\* What the reader makes of the index is what the writer meant: a film played from a
\* closed file shows every packet, in order and for as long as the recording lasted, for
\* any number of frames and any that are missing (WriteIndex in video_writer_ava.cpp,
\* _get_frame_offset_skip and _compute_frame_size in raw_file_format_readers.py).
THEOREM FilmsShowEveryPacket ==
  Spec => []EveryPacketIsShown
<1>1. IInv /\ FileInv => EveryPacketIsShown
  BY PlayedInFull DEF FileInv, EveryPacketIsShown
<1> QED BY InitFile, FileStep, InvariantHolds, <1>1, PTL DEF Spec
-----------------------------------------------------------------------------
(* The development of what a film shows.                                   *)

\* What the formats of the cameras come to.
LEMMA Formats ==
  /\ \A bits \in SampleBits : Brightest(bits) \in Nat /\ Brightest(bits) * 2 ^ (16 - bits) <= White
  /\ Brightest(8) = 255 /\ Brightest(10) = 1023 /\ Brightest(12) = 4095
  /\ Container(8) = 8 /\ Container(10) = 16 /\ Container(12) = 16
  /\ 2 ^ (16 - 10) = 64 /\ 2 ^ (16 - 12) = 16
<1>1. 2 ^ 8 = 256 /\ 2 ^ 10 = 1024 /\ 2 ^ 12 = 4096 /\ 2 ^ 6 = 64 /\ 2 ^ 4 = 16
  OBVIOUS
<1>2. 16 - 10 = 6 /\ 16 - 12 = 4 /\ 16 - 8 = 8 OBVIOUS
<1> QED BY <1>1, <1>2 DEF Brightest, Container, White, SampleBits

\* The gains as integers.
LEMMA Factors ==
  /\ Factor(100, 255) = 255 /\ Factor(137, 255) = 349 /\ Factor(265, 255) = 675
  /\ Factor(100, White) = 65535 /\ Factor(137, White) = 89782 /\ Factor(265, White) = 173667
BY DEF Factor, White

\* The light of a sample fits its word, is dark for a dark sample, and grows with it.
LEMMA LightGrows ==
  ASSUME NEW bits \in SampleBits, NEW black \in Nat
  PROVE  /\ \A s \in 0 .. Brightest(bits) :
              /\ Light(s, black, bits) \in Nat
              /\ Light(s, black, bits) <= IF bits = 8 THEN 255 ELSE White
              /\ s <= black => Light(s, black, bits) = 0
         /\ \A s, t \in 0 .. Brightest(bits) :
              s < t => Light(s, black, bits) <= Light(t, black, bits)
<1> DEFINE B == Brightest(bits)
           T == IF bits = 8 THEN 255 ELSE White
           a(s) == AboveBlack(s, black)
           l(s) == Light(s, black, bits)
<1>1. B \in Nat /\ T \in Nat BY Formats DEF White
<1>2. \/ B * 1 <= T /\ \A s : l(s) = a(s)
      \/ B * 16 <= T /\ \A s \in 0 .. B : l(s) = a(s) * 16
      \/ B * 64 <= T /\ \A s \in 0 .. B : l(s) = a(s) * 64
  <2>1. CASE bits = 8 BY <2>1, Formats DEF Light, Aligned
  <2>2. CASE bits = 10 BY <2>2, Formats DEF Light, Aligned, White
  <2>3. CASE bits = 12 BY <2>3, Formats DEF Light, Aligned, White
  <2> QED BY <2>1, <2>2, <2>3 DEF SampleBits
<1> HIDE DEF B, T, l
<1>3. ASSUME NEW s \in 0 .. B PROVE a(s) \in 0 .. B /\ (s <= black => a(s) = 0)
  BY <1>1 DEF AboveBlack
<1>4. ASSUME NEW s \in 0 .. B, NEW t \in 0 .. B, s < t PROVE a(s) <= a(t)
  BY <1>1, <1>4 DEF AboveBlack
<1> HIDE DEF a
<1>5. ASSUME NEW s \in 0 .. B PROVE l(s) \in Nat /\ l(s) <= T /\ (s <= black => l(s) = 0)
  BY <1>1, <1>2, <1>3
<1>6. ASSUME NEW s \in 0 .. B, NEW t \in 0 .. B, s < t PROVE l(s) <= l(t)
  BY <1>1, <1>2, <1>3, <1>4, <1>6
<1> QED BY <1>5, <1>6, Zenon DEF B, T, l

\* The integer product of a word and a gain, and how far it is from the exact one.
LEMMA Products ==
  ASSUME NEW gain \in SampleGains, NEW L \in Nat, L <= White
  PROVE  LET p == ProductTop(L, Factor(gain, White))
             x == (L * gain) \div 100
         IN  p \in Nat /\ x \in Int /\ p <= x /\ x <= p + 5
<1>1. ASSUME NEW F \in {65535, 89782, 173667}, NEW p, p = ProductTop(L, F)
      PROVE  p \in Nat /\ 65536 * p <= L * F /\ L * F < 65536 * p + 65536
  <2>1. CASE F = 65535
    BY <1>1, <2>1 DEF ProductTop
  <2>2. CASE F = 89782
    BY <1>1, <2>2 DEF ProductTop
  <2>3. CASE F = 173667
    BY <1>1, <2>3 DEF ProductTop
  <2> QED BY <1>1, <2>1, <2>2, <2>3
<1>2. CASE gain = 100
  <2>1. (L * gain) \div 100 = L BY <1>2 DEF White
  <2> DEFINE p == ProductTop(L, 65535)
  <2>2. p \in Nat /\ 65536 * p <= L * 65535 /\ L * 65535 < 65536 * p + 65536 BY <1>1
  <2> HIDE DEF p
  <2>3. p <= L /\ L <= p + 5 BY <2>2 DEF White
  <2> QED BY <1>2, <2>1, <2>2, <2>3, Factors DEF p
<1>3. CASE gain = 137
  BY <1>1, <1>3, Factors DEF White
<1>4. CASE gain = 265
  BY <1>1, <1>4, Factors DEF White
<1> QED BY <1>2, <1>3, <1>4 DEF SampleGains

\* And it grows with the word.
LEMMA ProductsGrow ==
  ASSUME NEW gain \in SampleGains, NEW L \in Nat, NEW M \in Nat, L <= M
  PROVE  ProductTop(L, Factor(gain, White)) <= ProductTop(M, Factor(gain, White))
<1>1. CASE gain = 100 BY <1>1, Factors DEF White, ProductTop
<1>2. CASE gain = 137 BY <1>2, Factors DEF White, ProductTop
<1>3. CASE gain = 265 BY <1>3, Factors DEF White, ProductTop
<1> QED BY <1>1, <1>2, <1>3 DEF SampleGains

\* The two developments of any sample, at any black level, show the same light, where
\* the integer product is exact.
LEMMA SameLight ==
  ASSUME NEW bits \in SampleBits, NEW gain \in SampleGains, NEW black \in Nat,
         NEW colour \in BOOLEAN, NEW s \in 0 .. Brightest(bits),
         ~Overflows(s, black, bits, gain, colour)
  PROVE  LET d == To16bitLinear(s, black, bits, gain, colour)
         IN  /\ Near(d, Clipped(ToFloatLinear(s, black, bits, gain, colour)))
             /\ s <= black => d = 0
<1> DEFINE L == Light(s, black, bits)
           d == To16bitLinear(s, black, bits, gain, colour)
           x == ToFloatLinear(s, black, bits, gain, colour)
<1>0. /\ L \in Nat /\ L <= (IF bits = 8 THEN 255 ELSE White)
      /\ s <= black => L = 0
  BY LightGrows
<1>1. (Container(bits) = 8 <=> bits = 8) /\ Container(bits) \in {8, 16}
  BY DEF Container, SampleBits
<1>2. \A y, z \in Int : Near(y, z) <=> y - z >= -655 /\ y - z <= 655
  <2>1. White \div 100 = 655 BY DEF White
  <2> QED BY <2>1 DEF Near
<1>3. CASE ~colour /\ bits = 8
  <2>1. d = L * 256 /\ x = (L * 257 * 100) \div 100
    BY <1>1, <1>3 DEF To16bitLinear, ToFloatLinear, Grey
  <2> HIDE DEF L, d, x
  <2>2. L \in Nat /\ L <= 255 BY <1>0, <1>3
  <2>3. x = L * 257 BY <2>1, <2>2
  <2>4. Clipped(x) = x BY <2>2, <2>3 DEF Clipped, White
  <2>5. Near(d, Clipped(x)) BY <1>2, <2>1, <2>2, <2>3, <2>4
  <2>6. L = 0 => d = 0 BY <2>1
  <2> QED BY <1>0, <2>5, <2>6, Zenon DEF L, d, x
<1>4. CASE ~colour /\ bits # 8
  <2>1. d = L /\ x = (L * 1 * 100) \div 100
    BY <1>1, <1>4 DEF To16bitLinear, ToFloatLinear, Grey
  <2> HIDE DEF L, d, x
  <2>2. L \in Nat /\ L <= White BY <1>0, <1>4
  <2>3. x = L BY <2>1, <2>2
  <2>4. Clipped(x) = x BY <2>2, <2>3 DEF Clipped, White
  <2>5. Near(d, Clipped(x)) BY <1>2, <2>1, <2>2, <2>3, <2>4
  <2>6. L = 0 => d = 0 BY <2>1
  <2> QED BY <1>0, <2>5, <2>6, Zenon DEF L, d, x
<1>5. CASE colour /\ bits = 8
  <2>1. d = Clipped(L * Factor(gain, 255)) /\ x = (L * 257 * gain) \div 100
    BY <1>1, <1>5 DEF To16bitLinear, ToFloatLinear, Colour8
  <2> HIDE DEF L, d, x
  <2>2. L \in Nat /\ L <= 255 BY <1>0, <1>5
  <2>3. CASE gain = 100
    <3>1. d = Clipped(L * 255) /\ x = L * 257 BY <2>1, <2>2, <2>3, Factors
    <3>2. Clipped(x) = x /\ d = L * 255 BY <2>2, <3>1 DEF Clipped, White
    <3>3. Near(d, Clipped(x)) BY <1>2, <2>2, <3>1, <3>2
    <3>4. L = 0 => d = 0 BY <3>2
    <3> QED BY <1>0, <3>3, <3>4, Zenon DEF L, d, x
  <2>4. CASE gain = 137
    <3>1. d = Clipped(L * 349) /\ x = (L * 35209) \div 100 BY <2>1, <2>2, <2>4, Factors
    <3>2. d \in Int /\ Clipped(x) \in Int /\ d - Clipped(x) >= -655 /\ d - Clipped(x) <= 655
      BY <2>2, <3>1 DEF Clipped, White
    <3>3. L = 0 => d = 0 BY <3>1 DEF Clipped, White
    <3>4. Near(d, Clipped(x)) BY <1>2, <3>2
    <3> QED BY <1>0, <3>3, <3>4, Zenon DEF L, d, x
  <2>5. CASE gain = 265
    <3>1. d = Clipped(L * 675) /\ x = (L * 68105) \div 100 BY <2>1, <2>2, <2>5, Factors
    <3>2. d \in Int /\ Clipped(x) \in Int /\ d - Clipped(x) >= -655 /\ d - Clipped(x) <= 655
      BY <2>2, <3>1 DEF Clipped, White
    <3>3. L = 0 => d = 0 BY <3>1 DEF Clipped, White
    <3>4. Near(d, Clipped(x)) BY <1>2, <3>2
    <3> QED BY <1>0, <3>3, <3>4, Zenon DEF L, d, x
  <2> QED BY <2>3, <2>4, <2>5 DEF SampleGains
<1>6. CASE colour /\ bits # 8
  <2> DEFINE p == ProductTop(L, Factor(gain, White))
             q == (L * gain) \div 100
  <2>0. L \in Nat /\ L <= White BY <1>0, <1>6
  <2>1. p \in Nat /\ q \in Int /\ p <= q /\ q <= p + 5 BY <2>0, Products
  <2>2. p <= White BY <1>1, <1>6, <2>1 DEF Overflows, White
  <2>3. d = Clipped(p % 65536) /\ x = q
    <3>1. L * 1 * gain = L * gain BY <2>0 DEF SampleGains
    <3> QED BY <1>1, <1>6, <3>1 DEF To16bitLinear, ToFloatLinear, Colour16, ProductTop32
  <2>4. L = 0 => q = 0
    BY DEF SampleGains
  <2> HIDE DEF L, d, x, p, q
  <2>5. d = p BY <2>1, <2>2, <2>3 DEF Clipped, White
  <2>6. Near(d, Clipped(x)) BY <1>2, <2>1, <2>2, <2>3, <2>5 DEF Clipped, White
  <2>7. L = 0 => d = 0 BY <2>1, <2>4, <2>5
  <2> QED BY <1>0, <2>6, <2>7, Zenon DEF L, d, x
<1> QED BY <1>3, <1>4, <1>5, <1>6

\* A brighter sample does not come out darker.
LEMMA BrighterLight ==
  ASSUME NEW bits \in SampleBits, NEW gain \in SampleGains, NEW black \in Nat,
         NEW colour \in BOOLEAN, NEW s \in 0 .. Brightest(bits), NEW t \in 0 .. Brightest(bits),
         s < t, ~Overflows(t, black, bits, gain, colour)
  PROVE  To16bitLinear(s, black, bits, gain, colour) <= To16bitLinear(t, black, bits, gain, colour)
<1> DEFINE L == Light(s, black, bits)
           M == Light(t, black, bits)
           d == To16bitLinear(s, black, bits, gain, colour)
           e == To16bitLinear(t, black, bits, gain, colour)
<1>0. /\ L \in Nat /\ M \in Nat /\ L <= M
      /\ M <= IF bits = 8 THEN 255 ELSE White
  BY LightGrows
<1>1. (Container(bits) = 8 <=> bits = 8) /\ Container(bits) \in {8, 16}
  BY DEF Container, SampleBits
<1>2. CASE ~colour
  <2>1. (bits = 8 /\ d = L * 256 /\ e = M * 256) \/ (bits # 8 /\ d = L /\ e = M)
    BY <1>1, <1>2 DEF To16bitLinear, Grey
  <2> HIDE DEF L, M, d, e
  <2>2. d <= e BY <1>0, <2>1 DEF White
  <2> QED BY <2>2 DEF d, e
<1>3. CASE colour /\ bits = 8
  <2>1. d = Clipped(L * Factor(gain, 255)) /\ e = Clipped(M * Factor(gain, 255))
    BY <1>1, <1>3 DEF To16bitLinear, Colour8
  <2>2. Factor(gain, 255) \in {255, 349, 675} BY Factors DEF SampleGains
  <2> HIDE DEF L, M, d, e
  <2>3. L \in Nat /\ M \in Nat /\ L <= M /\ M <= 255 BY <1>0, <1>3
  <2>4. d <= e BY <1>0, <2>1, <2>2, <2>3 DEF Clipped, White
  <2> QED BY <2>4 DEF d, e
<1>4. CASE colour /\ bits # 8
  <2> DEFINE p == ProductTop(L, Factor(gain, White))
             q == ProductTop(M, Factor(gain, White))
  <2>0. L \in Nat /\ M \in Nat /\ L <= M /\ L <= White /\ M <= White BY <1>0, <1>4 DEF White
  <2>1. p \in Nat /\ q \in Nat /\ p <= q BY <2>0, Products, ProductsGrow
  <2>2. q <= White BY <1>1, <1>4, <2>1 DEF Overflows, White
  <2>3. d = Clipped(p % 65536) /\ e = Clipped(q % 65536)
    BY <1>1, <1>4 DEF To16bitLinear, Colour16, ProductTop32
  <2> HIDE DEF L, M, d, e, p, q
  <2>4. d = p /\ e = q BY <2>1, <2>2, <2>3 DEF Clipped, White
  <2> QED BY <2>1, <2>4 DEF d, e
<1> QED BY <1>2, <1>3, <1>4

\* A full sample comes out white.
LEMMA FullIsWhite ==
  ASSUME NEW bits \in SampleBits, NEW colour \in BOOLEAN
  PROVE  Near(To16bitLinear(Brightest(bits), 0, bits, 100, colour), White)
<1>1. 0 \in Nat /\ 100 \in SampleGains /\ Brightest(bits) \in {255, 1023, 4095}
  BY Formats DEF SampleBits, SampleGains
<1>2. CASE ~colour
  <2>1. CASE bits = 8
    BY <1>2, <2>1, Formats DEF To16bitLinear, Grey, Light, Aligned, AboveBlack, Near, White
  <2>2. CASE bits = 10
    BY <1>2, <2>2, Formats DEF To16bitLinear, Grey, Light, Aligned, AboveBlack, Near, White
  <2>3. CASE bits = 12
    BY <1>2, <2>3, Formats DEF To16bitLinear, Grey, Light, Aligned, AboveBlack, Near, White
  <2> QED BY <2>1, <2>2, <2>3 DEF SampleBits
<1>3. CASE colour /\ bits = 8
  BY <1>3, Formats, Factors DEF To16bitLinear, Colour8, Clipped, Light, Aligned, AboveBlack, Near, White
<1>4. CASE colour /\ bits = 10
  <2>1. Light(Brightest(bits), 0, bits) = 65472
    BY <1>4, Formats DEF Light, Aligned, AboveBlack
  <2>2. ProductTop32(65472, 65535) = 65471 BY DEF ProductTop32, ProductTop
  <2>3. To16bitLinear(Brightest(bits), 0, bits, 100, colour) = 65471
    BY <1>4, <2>1, <2>2, Formats, Factors DEF To16bitLinear, Colour16, Clipped, White
  <2> QED BY <2>3 DEF Near, White
<1>5. CASE colour /\ bits = 12
  <2>1. Light(Brightest(bits), 0, bits) = 65520
    BY <1>5, Formats DEF Light, Aligned, AboveBlack
  <2>2. ProductTop32(65520, 65535) = 65519 BY DEF ProductTop32, ProductTop
  <2>3. To16bitLinear(Brightest(bits), 0, bits, 100, colour) = 65519
    BY <1>5, <2>1, <2>2, Formats, Factors DEF To16bitLinear, Colour16, Clipped, White
  <2> QED BY <2>3 DEF Near, White
<1> QED BY <1>2, <1>3, <1>4, <1>5 DEF SampleBits

\* Only what is whiter than white overflows.
LEMMA WhiteOverflows ==
  ASSUME NEW bits \in SampleBits, NEW gain \in SampleGains, NEW black \in Nat,
         NEW colour \in BOOLEAN, NEW s \in 0 .. Brightest(bits),
         ToFloatLinear(s, black, bits, gain, colour) <= White
  PROVE  ~Overflows(s, black, bits, gain, colour)
<1> SUFFICES ASSUME colour, Container(bits) = 16
             PROVE  ~(ProductTop(Light(s, black, bits), Factor(gain, White)) > White)
  BY DEF Overflows
<1> DEFINE L == Light(s, black, bits)
           p == ProductTop(L, Factor(gain, White))
           q == (L * gain) \div 100
<1>1. L \in Nat /\ L <= White
  <2>1. bits # 8 BY DEF Container
  <2> QED BY <2>1, LightGrows
<1>2. p \in Nat /\ q \in Int /\ p <= q BY <1>1, Products
<1>3. ToFloatLinear(s, black, bits, gain, colour) = q
  <2>1. L * 1 * gain = L * gain BY <1>1 DEF SampleGains
  <2> QED BY <2>1 DEF ToFloatLinear
<1> HIDE DEF L, p, q
<1>4. q <= White BY <1>3
<1>5. ~(p > White) BY <1>2, <1>4 DEF White
<1> QED BY <1>5 DEF L, p

\* A film is developed as an image is, for every sample of the depths the cameras record
\* in, every black level, the default gains, with and without colour: black stays black;
\* unless the integer product leaves its 32 bits, the 16 bits show the light of the
\* floating point development within a hundredth of white, and no brighter sample comes
\* out darker; and the product leaves them only for what is whiter than white
\* (raw_processing_to_16bit_linear against raw_processing_to_float32_linear,
\* raw_file_format_readers.py).  So what a closed file holds is (FilmIsDeveloped).
THEOREM FilmsAreDeveloped ==
  /\ \A bits \in SampleBits, black \in Nat, gain \in SampleGains, colour \in BOOLEAN :
       Faithful(bits, black, gain, colour)
  /\ Spec => []FilmIsDeveloped
<1>1. ASSUME NEW bits \in SampleBits, NEW black \in Nat, NEW gain \in SampleGains,
             NEW colour \in BOOLEAN
      PROVE  Faithful(bits, black, gain, colour)
  <2> DEFINE Dev(s)   == RawFile(s, black, bits, gain, colour).uint16_linearRGB
             Float(s) == RawFile(s, black, bits, gain, colour).float32_linearRGB
             Sure(s)  == ~Overflows(s, black, bits, gain, colour)
  <2>1. \A s : /\ Dev(s) = To16bitLinear(s, black, bits, gain, colour)
               /\ Float(s) = ToFloatLinear(s, black, bits, gain, colour)
    BY DEF RawFile
  <2> HIDE DEF Dev, Float
  <2>2. ASSUME NEW s \in 0 .. Brightest(bits)
        PROVE  /\ s <= black => Dev(s) = 0
               /\ Sure(s) => Near(Dev(s), Clipped(Float(s)))
               /\ (Sure(s) /\ s > 0) => Dev(s - 1) <= Dev(s)
               /\ Float(s) <= White => Sure(s)
    <3>1. s <= black => Dev(s) = 0
      <4>1. ASSUME Light(s, black, bits) = 0
            PROVE  To16bitLinear(s, black, bits, gain, colour) = 0
        BY <4>1, Factors
           DEF To16bitLinear, Colour8, Colour16, Grey, ProductTop32, ProductTop, Clipped, White,
               Container, SampleBits, SampleGains
      <4> QED BY <2>1, <4>1, LightGrows
    <3>2. Sure(s) => Near(Dev(s), Clipped(Float(s))) BY <2>1, SameLight
    <3>3. ASSUME Sure(s), s > 0 PROVE Dev(s - 1) <= Dev(s)
      <4>1. Brightest(bits) \in Nat BY Formats
      <4>2. s - 1 \in 0 .. Brightest(bits) /\ s - 1 < s BY <3>3, <4>1
      <4> QED BY <2>1, <3>3, <4>2, BrighterLight
    <3>4. Float(s) <= White => Sure(s) BY <2>1, WhiteOverflows
    <3> QED BY <3>1, <3>2, <3>3, <3>4
  <2> QED BY <2>2 DEF Faithful, Dev, Float
<1>2. SampleBlack \subseteq Nat BY DEF SampleBlack
<1>3. DevelopmentsAgree BY <1>1, <1>2, FullIsWhite DEF DevelopmentsAgree
<1>4. FilmIsDeveloped BY <1>3 DEF FilmIsDeveloped
<1>5. Spec => []FilmIsDeveloped BY <1>4, PTL
<1> QED BY <1>1, <1>5
=============================================================================
