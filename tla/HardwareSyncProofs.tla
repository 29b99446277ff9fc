-------------------------- MODULE HardwareSyncProofs --------------------------
(***************************************************************************)
(* Proofs about HardwareSync, for all framerates and durations that can be *)
(* asked for, and any number of timeouts and faults: the types, when a     *)
(* pulse fits its period, and that the box does what the node believes.    *)
(***************************************************************************)
EXTENDS HardwareSync, TLAPS, FiniteSetTheorems, SequenceTheorems

-----------------------------------------------------------------------------
(* The strengthened invariant.                                             *)

(* The longest duration that start lets through, and the largest int of    *)
(* the box; left unexpanded where their values do not matter, because      *)
(* Zenon writes a number as that many successors.                          *)
MaxWidth == 65000
MaxInt   == 32767

(* What the node sends: what start has clamped.                            *)
Sane == {c \in Command : c.width <= MaxWidth /\ (c.op = "S" => c.rate \in 1 .. 300)}

(* A port is opened twice at most, and asked twice each time; no call is   *)
(* made before the box is found, and none is answered that is under way.   *)
LinkInv ==
  /\ link.at = "closed" => link.opened <= 1
  /\ link.at = "ask" => link.asked <= 1
  /\ link.at # "ready" => call.at = "idle"
  /\ call.at # "idle" => ~heard

WidthInv ==
  /\ call.cmd \in Sane
  /\ inbox \in Seq(Sane)

(* The last command is the one that node asks for.                         *)
Matches ==
  link.at = "ready" =>
    /\ node.active <=> call.cmd.op \in {"S", "E"}
    /\ call.cmd.op \in {"S", "E", "X"}
    /\ call.cmd.op = "S" => call.cmd.rate = Clamp(node.rate, 1, 300)
    /\ call.cmd.op = "E" => node.ext

(* What the box does once it has obeyed a command.                         *)
Did(b, c) ==
  /\ c.op = "S" => b.from = {"timer"} /\ b.rate = c.rate
  /\ c.op = "E" => b.from = {"external"}
  /\ c.op = "X" => b.from = {}

(* The last command is the last one on its way, or has been obeyed; while  *)
(* it is not answered it may also have been lost.                          *)
OnItsWay == inbox # <<>> => inbox[Len(inbox)] = call.cmd

Delivery ==
  (link.at = "ready" /\ ~wiped) =>
    /\ call.at = "wait" =>
         /\ OnItsWay
         /\ port > 0 => box.up
         /\ inbox = <<>> => box.up /\ (port > 0 => Did(box, call.cmd))
    /\ call.at = "idle" /\ heard =>
         /\ OnItsWay
         /\ box.up
         /\ inbox = <<>> => Did(box, call.cmd)

(* As long as no answer is late and nothing fails, one command or one      *)
(* answer is on its way while the node waits, and none otherwise.          *)
Empty == inbox = <<>> /\ port = 0
OneOnItsWay ==
  \/ Empty
  \/ Len(inbox) = 1 /\ port = 0
  \/ inbox = <<>> /\ port = 1 /\ box.up

Prompt ==
  ~slow =>
    /\ plugged
    /\ link.at # "none"
    /\ link.at \in {"closed", "ask"} => Empty
    /\ link.at = "wait" => OneOnItsWay
    /\ link.at = "ready" => box.up
    /\ link.at = "ready" /\ call.at # "wait" => Empty
    /\ link.at = "ready" /\ call.at = "wait" => OneOnItsWay /\ ~Empty
    /\ link.at = "ready" /\ call.at = "idle" => heard

(* A pulse ends before the next one begins, exactly if its duration did    *)
(* not turn negative on the way or the cap did not.                        *)
InPeriod(rate, width) == Ticks(width) * rate < TicksPerSecond
Capped(rate, asked) == asked <= MaxInt \/ rate \notin CapOverflows
Fits(b) == "timer" \in b.from => (InPeriod(b.rate, b.width) <=> Capped(b.rate, b.asked))

IInv == TypeOK /\ LinkInv /\ WidthInv /\ Matches /\ Delivery /\ Prompt /\ Fits(box)
-----------------------------------------------------------------------------
(* What the box makes of a command.                                        *)

(* An int of 16 bits; one that fits keeps its value, one that is too large *)
(* by less than 2^16 turns negative.                                       *)
LEMMA Wraps ==
  ASSUME NEW x \in Int
  PROVE  /\ Int16(x) \in Int /\ -32768 <= Int16(x) /\ Int16(x) <= MaxInt
         /\ 0 <= x /\ x <= MaxInt => Int16(x) = x
         /\ MaxInt < x /\ x < 65536 => Int16(x) = x - 65536
<1> DEFINE y == x + 32768
           m == y % 65536
<1>1. y \in Int BY SMT
<1>2. m \in Int /\ 0 <= m /\ m < 65536
  <2> HIDE DEF y
  <2>1. QED BY <1>1, SMTT(30)
<1>3. ASSUME 0 <= x, x <= MaxInt PROVE m = y
  <2>1. 0 <= y /\ y < 65536 BY <1>3, SMTT(30) DEF MaxInt
  <2> HIDE DEF y
  <2>2. QED BY <1>1, <2>1, SMTT(30)
<1>4. ASSUME MaxInt < x, x < 65536 PROVE m = y - 65536
  <2>1. 65536 <= y /\ y < 131072 BY <1>4, SMTT(30) DEF MaxInt
  <2> HIDE DEF y
  <2>2. QED BY <1>1, <2>1, SMTT(30)
<1>5. Int16(x) = m - 32768 BY DEF Int16
<1>6. y = x + 32768 OBVIOUS
<1> HIDE DEF m, y
<1>7. QED BY <1>2, <1>3, <1>4, <1>5, <1>6, SMTT(30) DEF MaxInt

(* A width that is short enough in microseconds is so in ticks of 16 us.   *)
LEMMA ShortEnough ==
  ASSUME NEW rate \in Nat, NEW w \in Nat, w <= MaxInt, w * rate < 1000000
  PROVE  InPeriod(rate, w)
<1> DEFINE q == (625 * w) \div 10000
<1>1. q \in Nat /\ 16 * q <= w /\ q < 65536 BY SMTT(60) DEF MaxInt
<1>2. Ticks(w) = q
  <2>1. ~(w < 0) BY SMT
  <2>2. Ticks(w) = q % 65536 BY <2>1 DEF Ticks
  <2> HIDE DEF q
  <2>3. QED BY <1>1, <2>2, SMT
<1> HIDE DEF q
<1>3. (16 * q) * rate <= w * rate BY <1>1, SMTT(60)
<1>4. 16 * (q * rate) < 1000000 BY <1>1, <1>3, SMTT(60)
<1> DEFINE p == q * rate
<1>5. p \in Int BY <1>1, SMT
<1>6. 16 * p < 1000000 BY <1>4
<1> HIDE DEF p
<1>7. p < 62500 BY <1>5, <1>6, SMT
<1>8. QED BY <1>2, <1>7, SMT DEF InPeriod, TicksPerSecond, p

(* A width that has turned negative lasts more than half a second.         *)
LEMMA TooLong ==
  ASSUME NEW rate \in Nat, rate >= 2, NEW w \in Int, -32768 <= w, w < 0
  PROVE  ~InPeriod(rate, w)
<1> DEFINE q == 429496 + (7296 + 625 * w) \div 10000
<1>1. q \in Int /\ 427448 <= q /\ q <= 429496 BY SMTT(60)
<1>2. Ticks(w) = q % 65536 BY SMT DEF Ticks
<1> HIDE DEF q
<1>3. q % 65536 = q - 393216 BY <1>1, SMTT(60)
<1>4. Ticks(w) \in Int /\ Ticks(w) >= 34232 BY <1>1, <1>2, <1>3, SMT
<1> DEFINE ticks == Ticks(w)
<1> HIDE DEF ticks
<1>5. ticks \in Int /\ ticks >= 34232 BY <1>4 DEF ticks
<1>6. ticks * rate >= ticks * 2 BY <1>5, SMTT(60)
<1>7. ~(ticks * rate < 62500) BY <1>5, <1>6, SMTT(60)
<1>8. QED BY <1>7 DEF InPeriod, TicksPerSecond, ticks

(* The cap turns negative at the framerates of CapOverflows, and above     *)
(* them it is what it was meant to be.                                     *)
LEMMA CapSign ==
  ASSUME NEW rate \in 1 .. 300
  PROVE  LET q   == 1000 \div rate
             cap == Int16((q - 3) * 1000)
         IN  /\ cap \in Int /\ -32768 <= cap /\ cap <= MaxInt
             /\ cap < 0 <=> rate \in CapOverflows
             /\ rate >= 28 => q \in 3 .. 35 /\ q * rate <= 1000 /\ cap = (q - 3) * 1000
<1> DEFINE q   == 1000 \div rate
           cap == Int16((q - 3) * 1000)
<1>1. q \in Int BY SMT
<1>2. cap \in Int /\ -32768 <= cap /\ cap <= MaxInt
  <2> DEFINE x == (q - 3) * 1000
  <2>1. x \in Int BY <1>1, SMT
  <2> HIDE DEF x
  <2>2. /\ Int16(x) \in Int /\ -32768 <= Int16(x) /\ Int16(x) <= MaxInt BY <2>1, Wraps
  <2>3. QED BY <2>2 DEF x
<1>3. ASSUME rate >= 28
      PROVE  q \in 3 .. 35 /\ q * rate <= 1000 /\ cap = (q - 3) * 1000 /\ cap >= 0
  <2>1. q \in 3 .. 35 /\ q * rate <= 1000 BY <1>3, SMTT(60)
  <2> HIDE DEF q
  <2>2. cap = (q - 3) * 1000 /\ cap >= 0 BY <2>1, SMT DEF Int16
  <2>3. QED BY <2>1, <2>2
<1>4. ASSUME rate >= 15, rate <= 27 PROVE cap < 0
  <2>1. 37 <= q /\ q <= 66 BY <1>4, SMTT(60)
  <2> HIDE DEF q
  <2>2. QED BY <1>1, <2>1, SMTT(60) DEF Int16
<1>5. ASSUME rate >= 10, rate <= 14 PROVE ~(cap < 0)
  <2>1. 71 <= q /\ q <= 100 BY <1>5, SMTT(60)
  <2> HIDE DEF q
  <2>2. QED BY <1>1, <2>1, SMTT(60) DEF Int16
<1>6. ASSUME rate \in {2, 4, 8, 9} PROVE cap < 0
  <2>1. q \in {500, 250, 125, 111} BY <1>6, SMTT(60)
  <2> HIDE DEF q
  <2>2. QED BY <2>1, SMTT(60) DEF Int16
<1>7. ASSUME rate \in {1, 3, 5, 6, 7} PROVE ~(cap < 0)
  <2>1. q \in {1000, 333, 200, 166, 142} BY <1>7, SMTT(60)
  <2> HIDE DEF q
  <2>2. QED BY <2>1, SMTT(60) DEF Int16
<1> HIDE DEF cap
<1>8. cap < 0 <=> rate \in CapOverflows
  <2>1. CASE rate >= 28
    <3>1. rate \notin CapOverflows BY <2>1, SMT DEF CapOverflows
    <3>2. ~(cap < 0) BY <1>2, <1>3, <2>1, SMT
    <3>3. QED BY <3>1, <3>2
  <2>2. CASE rate >= 15 /\ rate <= 27
    <3>1. rate \in CapOverflows BY <2>2, SMT DEF CapOverflows
    <3>2. QED BY <1>4, <2>2, <3>1
  <2>3. CASE rate >= 10 /\ rate <= 14
    <3>1. rate \notin CapOverflows BY <2>3, SMT DEF CapOverflows
    <3>2. QED BY <1>5, <2>3, <3>1
  <2>4. CASE rate \in {2, 4, 8, 9}
    <3>1. rate \in CapOverflows BY <2>4 DEF CapOverflows
    <3>2. QED BY <1>6, <2>4, <3>1
  <2>5. CASE rate \in {1, 3, 5, 6, 7}
    <3>1. rate \notin CapOverflows BY <2>5, SMT DEF CapOverflows
    <3>2. QED BY <1>7, <2>5, <3>1
  <2>6. \/ rate >= 28 \/ (rate >= 15 /\ rate <= 27) \/ (rate >= 10 /\ rate <= 14)
        \/ rate \in {2, 4, 8, 9} \/ rate \in {1, 3, 5, 6, 7}
    BY SMT
  <2>7. QED BY <2>1, <2>2, <2>3, <2>4, <2>5, <2>6
<1>9. QED BY <1>2, <1>3, <1>8 DEF cap

(* The width of a pulse is an int, and it ends before the next one begins  *)
(* exactly if it is capped.                                                *)
LEMMA WidthFits ==
  ASSUME NEW rate \in 1 .. 300, NEW width \in Nat, width <= MaxWidth
  PROVE  /\ PulseWidth(rate, width) \in Int
         /\ InPeriod(rate, PulseWidth(rate, width)) <=> Capped(rate, width)
<1> DEFINE q   == 1000 \div rate
           cap == Int16((q - 3) * 1000)
           d   == Int16(width)
           w   == PulseWidth(rate, width)
<1>1. /\ cap \in Int /\ -32768 <= cap /\ cap <= MaxInt
      /\ cap < 0 <=> rate \in CapOverflows
      /\ rate >= 28 => q \in 3 .. 35 /\ q * rate <= 1000 /\ cap = (q - 3) * 1000
  BY CapSign
<1>2. /\ d \in Int
      /\ width <= MaxInt => d = width
      /\ ~(width <= MaxInt) => -32768 <= d /\ d < 0
  <2>1. width \in Int /\ 0 <= width /\ width < 65536 BY SMT DEF MaxWidth
  <2>2. MaxInt \in Int BY SMT DEF MaxInt
  <2>3. width <= MaxInt \/ MaxInt < width BY <2>1, <2>2, SMT
  <2>4. /\ d \in Int /\ -32768 <= d
        /\ width <= MaxInt => d = width
        /\ MaxInt < width => d = width - 65536
    BY <2>1, Wraps
  <2> HIDE DEF d
  <2>5. QED BY <2>1, <2>2, <2>3, <2>4, SMT
<1>3. w = IF UnsignedLess(d, cap) THEN d ELSE cap BY DEF PulseWidth
<1> HIDE DEF d, cap, w
<1>4. w \in Int BY <1>1, <1>2, <1>3
<1>5. ASSUME w \in Nat, w <= MaxInt, rate < 28 \/ (w <= cap /\ ~(cap < 0))
      PROVE  InPeriod(rate, w)
  <2>1. rate \in Nat BY SMT
  <2>2. CASE rate < 28
    <3>1. rate <= 27 BY <2>1, <2>2, SMT
    <3>2. w * rate <= 32767 * 27 BY <1>5, <2>1, <3>1, SMTT(60) DEF MaxInt
    <3>3. w * rate < 1000000 BY <1>5, <2>1, <3>2, SMTT(60)
    <3>4. QED BY <1>5, <2>1, <3>3, ShortEnough
  <2>3. CASE ~(rate < 28)
    <3>1. q \in 3 .. 35 /\ q * rate <= 1000 /\ cap = (q - 3) * 1000
      <4>1. rate >= 28 BY <2>1, <2>3, SMT
      <4>2. QED BY <1>1, <4>1
    <3> HIDE DEF q
    <3>2. w <= (q - 3) * 1000 BY <1>5, <2>3, <3>1
    <3>3. w * rate <= ((q - 3) * 1000) * rate BY <1>5, <2>1, <3>1, <3>2, SMTT(60)
    <3>4. ((q - 3) * 1000) * rate < 1000000
      <4>1. rate >= 1 BY SMT
      <4>2. QED BY <2>1, <3>1, <4>1, SMTT(60)
    <3>5. w * rate < 1000000 BY <1>5, <2>1, <3>1, <3>3, <3>4, SMTT(60)
    <3>6. QED BY <1>5, <2>1, <3>5, ShortEnough
  <2>4. QED BY <2>2, <2>3
<1>6. CASE width <= MaxInt
  <2>1. d \in Nat /\ d <= MaxInt BY <1>2, <1>6
  <2>2. w \in Nat /\ w <= MaxInt BY <1>1, <1>3, <2>1, SMT DEF UnsignedLess
  <2>3. rate < 28 \/ (w <= cap /\ ~(cap < 0))
    <3>1. rate < 28 \/ ~(cap < 0)
      <4>1. rate < 28 \/ rate \notin CapOverflows BY SMT DEF CapOverflows
      <4>2. QED BY <1>1, <4>1
    <3>2. ~(cap < 0) => w <= cap BY <1>1, <1>3, <2>1, SMT DEF UnsignedLess
    <3>3. QED BY <3>1, <3>2
  <2>4. QED BY <1>4, <1>5, <1>6, <2>2, <2>3 DEF Capped, w
<1>7. CASE ~(width <= MaxInt) /\ rate \notin CapOverflows
  <2>1. w = cap /\ ~(cap < 0)
    <3>1. ~(cap < 0) /\ d < 0 BY <1>1, <1>2, <1>7
    <3>2. QED BY <1>1, <1>2, <1>3, <3>1, SMT DEF UnsignedLess
  <2>2. w \in Nat /\ w <= MaxInt /\ w <= cap BY <1>1, <2>1, SMT
  <2>3. QED BY <1>4, <1>5, <1>7, <2>1, <2>2 DEF Capped, w
<1>8. CASE ~(width <= MaxInt) /\ rate \in CapOverflows
  <2>1. -32768 <= w /\ w < 0 BY <1>1, <1>2, <1>3, <1>8
  <2>2. rate \in Nat /\ rate >= 2 BY <1>8, SMT DEF CapOverflows
  <2>3. ~InPeriod(rate, w) BY <1>4, <2>1, <2>2, TooLong
  <2>4. QED BY <1>4, <1>8, <2>3 DEF Capped, w
<1>9. QED BY <1>6, <1>7, <1>8

(* The width of a pulse of the external source is an int.                  *)
LEMMA ExternalFits ==
  ASSUME NEW width \in Nat
  PROVE  ExternalWidth(width) \in Int
<1>1. width \in Int BY SMT
<1>2. Int16(width) \in Int BY <1>1, Wraps
<1>3. QED BY <1>2, SMT DEF ExternalWidth

(* A box that obeys a command is a box, its pulses end before the next     *)
(* ones begin exactly if they are capped, and it does what it was told.    *)
LEMMA Obeyed ==
  ASSUME NEW b \in Box, NEW c \in Sane, Fits(b)
  PROVE  /\ Obey(b, c) \in Box
         /\ Obey(b, c).up = b.up
         /\ Fits(Obey(b, c))
         /\ Did(Obey(b, c), c)
<1> DEFINE o == Obey(b, c)
<1>1. c \in Command /\ c.width <= MaxWidth BY DEF Sane
<1>2. CASE c.op = "S"
  <2>1. c.rate \in 1 .. 300 /\ c.width \in Nat BY <1>1, <1>2, SMT DEF Sane, Command
  <2> DEFINE w == PulseWidth(c.rate, c.width)
  <2>2. w \in Int /\ (InPeriod(c.rate, w) <=> Capped(c.rate, c.width))
    BY <1>1, <2>1, WidthFits
  <2>3. o = [b EXCEPT !.from = {"timer"}, !.rate = c.rate, !.width = w, !.asked = c.width]
    BY <1>2, SMT DEF Obey, Only
  <2> HIDE DEF w, o
  <2>4. /\ o.up = b.up /\ o.from = {"timer"} /\ o.rate = c.rate
        /\ o.width = w /\ o.asked = c.width
    BY <2>3, SMT DEF Box
  <2>5. o \in Box
    <3>1. {"timer"} \in SUBSET Sources /\ c.rate \in 0 .. 300 BY <2>1, SMT DEF Sources
    <3>2. QED BY <2>1, <2>2, <2>3, <3>1 DEF Box
  <2>6. Fits(o) BY <2>2, <2>4 DEF Fits
  <2>7. Did(o, c) BY <1>2, <2>4, SMT DEF Did
  <2>8. QED BY <2>4, <2>5, <2>6, <2>7, SMT DEF o
<1>3. CASE c.op = "E"
  <2>1. c.width \in Nat BY <1>1, SMT DEF Command
  <2> DEFINE w == ExternalWidth(c.width)
  <2>2. o = [b EXCEPT !.from = {"external"}, !.width = w, !.asked = c.width]
    BY <1>3, SMT DEF Obey, Only
  <2>6. w \in Int BY <2>1, ExternalFits
  <2> HIDE DEF o, w
  <2>3. o.up = b.up /\ o.from = {"external"} BY <2>2, SMT DEF Box
  <2>4. o \in Box BY <2>1, <2>2, <2>6 DEF Box, Sources
  <2>5. Fits(o) /\ Did(o, c) BY <1>3, <2>3, SMT DEF Fits, Did
  <2>7. QED BY <2>3, <2>4, <2>5, SMT DEF o
<1>4. CASE c.op = "X"
  <2>1. o = [b EXCEPT !.from = {}] BY <1>4, SMT DEF Obey
  <2> HIDE DEF o
  <2>2. o.up = b.up /\ o.from = {} BY <2>1, SMT DEF Box
  <2>3. o \in Box BY <2>1, SMT DEF Box, Sources
  <2>4. Fits(o) /\ Did(o, c) BY <1>4, <2>2, SMT DEF Fits, Did
  <2>5. QED BY <2>2, <2>3, <2>4, SMT DEF o
<1>5. CASE c.op = "I"
  <2>1. o = b BY <1>5, SMT DEF Obey
  <2>2. QED BY <1>5, <2>1, SMT DEF Did
<1>6. QED BY <1>1, <1>2, <1>3, <1>4, <1>5, SMT DEF Command

-----------------------------------------------------------------------------
(* Sequences, and the steps of a call.                                     *)

(* The last command stays the last one when the first is taken.            *)
LEMMA LastOfTail ==
  ASSUME NEW S, NEW s \in Seq(S), s # <<>>
  PROVE  /\ Head(s) \in S
         /\ Tail(s) \in Seq(S)
         /\ Len(Tail(s)) = Len(s) - 1
         /\ Tail(s) # <<>> => Tail(s)[Len(Tail(s))] = s[Len(s)]
         /\ Tail(s) = <<>> => Head(s) = s[Len(s)]
<1>1. Len(s) \in Nat \ {0} BY EmptySeq
<1>2. /\ Head(s) \in S /\ Tail(s) \in Seq(S) /\ Len(Tail(s)) = Len(s) - 1
      /\ \A i \in 1 .. Len(Tail(s)) : Tail(s)[i] = s[i + 1]
  BY HeadTailProperties
<1>3. Tail(s) # <<>> => Len(Tail(s)) \in 1 .. Len(Tail(s))
  <2>1. Tail(s) # <<>> => Len(Tail(s)) \in Nat \ {0} BY <1>2, EmptySeq
  <2>2. QED BY <2>1, SMT
<1>4. Tail(s) = <<>> => Len(s) = 1 BY <1>1, <1>2, EmptySeq, SMT
<1>5. QED BY <1>1, <1>2, <1>3, <1>4, SMT

(* ... and when some of the first ones are lost.                           *)
LEMMA LastOfRest ==
  ASSUME NEW S, NEW s \in Seq(S), NEW k \in 0 .. Len(s)
  PROVE  LET r == SubSeq(s, k + 1, Len(s)) IN
         /\ r \in Seq(S)
         /\ Len(r) = Len(s) - k
         /\ r # <<>> => r[Len(r)] = s[Len(s)]
<1> DEFINE r == SubSeq(s, k + 1, Len(s))
<1>1. Len(s) \in Nat BY LenProperties
<1>2. \A i \in k + 1 .. Len(s) : s[i] \in S
  <2>1. \A i \in k + 1 .. Len(s) : i \in 1 .. Len(s) BY <1>1, SMT
  <2>2. QED BY <2>1, ElementOfSeq
<1>3. k + 1 \in Int BY <1>1, SMT
<1>4. /\ r \in Seq(S)
      /\ Len(r) = IF k + 1 <= Len(s) THEN Len(s) - (k + 1) + 1 ELSE 0
      /\ \A i \in 1 .. Len(s) - (k + 1) + 1 : r[i] = s[(k + 1) + i - 1]
  BY <1>1, <1>2, <1>3, SubSeqProperties
<1>5. Len(r) = Len(s) - k BY <1>1, <1>4, SMT
<1>6. r # <<>> => Len(r) \in Nat \ {0} BY <1>4, EmptySeq
<1> HIDE DEF r
<1>7. r # <<>> => r[Len(r)] = s[Len(s)] BY <1>1, <1>4, <1>5, <1>6, SMT
<1>8. QED BY <1>4, <1>5, <1>7 DEF r

(* ... and a command that is sent becomes the last one.                    *)
LEMMA LastOfAppend ==
  ASSUME NEW S, NEW s \in Seq(S), NEW c \in S
  PROVE  /\ Append(s, c) \in Seq(S)
         /\ Append(s, c) # <<>>
         /\ Len(Append(s, c)) = Len(s) + 1
         /\ Append(s, c)[Len(Append(s, c))] = c
BY AppendProperties

(* A try that fails is tried again or given up.                            *)
LEMMA Retried ==
  ASSUME call \in Call, Retry
  PROVE  call' \in Call /\ call'.cmd = call.cmd /\ call'.at \in {"idle", "try"}
<1>1. CASE call.try < MaxTries
  <2>1. call.try + 1 \in 1 .. MaxTries BY <1>1, SMT DEF Call, MaxTries
  <2>2. call' = [call EXCEPT !.at = "try", !.try = @ + 1] BY <1>1, SMT DEF Retry
  <2>3. QED BY <2>1, <2>2 DEF Call, MaxTries
<1>2. CASE ~(call.try < MaxTries)
  <2>1. call' = [call EXCEPT !.at = "idle"] BY <1>2, SMT DEF Retry, Return
  <2>2. QED BY <2>1, SMT DEF Call
<1>3. QED BY <1>1, <1>2

(* A call that returns.                                                    *)
LEMMA Returned ==
  ASSUME call \in Call, Return
  PROVE  call' \in Call /\ call'.cmd = call.cmd /\ call'.at = "idle"
BY SMT DEF Return, Call

(* A call that begins.                                                     *)
LEMMA Begun ==
  ASSUME NEW c \in Sane, Begin(c)
  PROVE  call' \in Call /\ call'.cmd = c /\ call'.at = "try" /\ heard' = FALSE
BY SMT DEF Begin, Sane, Call, MaxTries

(* What start asks for is bounded.                                         *)
LEMMA Clamped ==
  ASSUME NEW width \in Nat
  PROVE  Clamp(width, 100, 65000) \in Nat /\ Clamp(width, 100, 65000) <= MaxWidth
BY SMT DEF Clamp, MaxWidth

(* start sends what it has clamped.                                          *)
LEMMA Started ==
  ASSUME NEW n \in Node, NEW external \in BOOLEAN, StartCall(n, external)
  PROVE  /\ call' \in Call
         /\ call'.at = "try"
         /\ call'.cmd \in Sane
         /\ call'.cmd.op = IF external THEN "E" ELSE "S"
         /\ call'.cmd.op = "S" => call'.cmd.rate = Clamp(n.rate, 1, 300)
         /\ heard' = FALSE
<1> DEFINE c == [op |-> IF external THEN "E" ELSE "S", rate |-> Clamp(n.rate, 1, 300),
                 width |-> Clamp(n.width, 100, 65000)]
<1>1. n.rate \in Int /\ n.width \in Nat BY SMT DEF Node
<1>2. Clamp(n.rate, 1, 300) \in 1 .. 300 BY <1>1, SMT DEF Clamp
<1>3. Clamp(n.width, 100, 65000) \in Nat /\ Clamp(n.width, 100, 65000) <= MaxWidth
  BY <1>1, Clamped, SMT
<1>4. c \in Sane
  <2> DEFINE op == IF external THEN "E" ELSE "S"
  <2>1. op \in {"I", "S", "E", "X"} OBVIOUS
  <2>2. /\ c.width = Clamp(n.width, 100, 65000) /\ c.rate = Clamp(n.rate, 1, 300)
        /\ c = [op |-> op, rate |-> c.rate, width |-> c.width]
    BY SMT
  <2> HIDE DEF c, op
  <2>3. c \in Command BY <1>2, <1>3, <2>1, <2>2, SMT DEF Command
  <2>4. QED BY <1>2, <1>3, <2>2, <2>3, SMT DEF Sane
<1>5. Begin(c) BY SMT DEF StartCall
<1>6. /\ c.op = IF external THEN "E" ELSE "S"
      /\ c.rate = Clamp(n.rate, 1, 300)
  BY SMT
<1> HIDE DEF c
<1>7. QED BY <1>4, <1>5, <1>6, Begun

-----------------------------------------------------------------------------
(* Each part of the invariant is preserved by every step.                  *)

(* What the steps that begin a call of start make of the variables.        *)
LEMMA SyncStarted ==
  ASSUME TypeOK, NEW external \in BOOLEAN, StartSync(external)
  PROVE  /\ call' \in Call /\ call'.at = "try" /\ call'.cmd \in Sane
         /\ call'.cmd.op = IF external THEN "E" ELSE "S"
         /\ call'.cmd.op = "S" => call'.cmd.rate = Clamp(node.rate, 1, 300)
         /\ node' \in Node /\ node'.active /\ node'.rate = node.rate
         /\ node'.width = node.width /\ node'.ext = node.ext
         /\ heard' = FALSE
         /\ link.at = "ready" /\ call.at = "idle"
         /\ UNCHANGED <<box, inbox, port, plugged, link, faults, wiped, slow>>
<1>1. node \in Node BY DEF TypeOK
<1>2. node' = [node EXCEPT !.active = TRUE] BY DEF StartSync
<1>3. StartCall(node, external) BY DEF StartSync
<1>4. UNCHANGED <<box, inbox, port, plugged, link, faults, wiped, slow>> BY DEF StartSync
<1>5. link.at = "ready" /\ call.at = "idle" BY DEF StartSync, Requested
<1>6. /\ node' \in Node /\ node'.active /\ node'.rate = node.rate
      /\ node'.width = node.width /\ node'.ext = node.ext
  BY <1>1, <1>2 DEF Node
<1>7. QED BY <1>1, <1>3, <1>4, <1>5, <1>6, Started

(* What set_global_framerate makes of them.                                *)
LEMMA FramerateSet ==
  ASSUME TypeOK,
         NEW rate \in Rates, NEW width \in Durations, NEW external \in BOOLEAN,
         SetFramerate(rate, width, external)
  PROVE  /\ node' \in Node /\ node'.active = node.active
         /\ \/ /\ node.active
               /\ call' \in Call /\ call'.at = "try" /\ call'.cmd \in Sane
               /\ call'.cmd.op = "S"
               /\ call'.cmd.rate = Clamp(node'.rate, 1, 300)
               /\ heard' = FALSE
            \/ ~node.active /\ UNCHANGED <<call, heard>>
         /\ link.at = "ready" /\ call.at = "idle"
         /\ UNCHANGED <<box, inbox, port, plugged, link, faults, wiped, slow>>
<1>1. node \in Node BY DEF TypeOK
<1> DEFINE w == IF width = 0 THEN node.width ELSE width
<1>2. rate \in Int /\ width \in Nat BY SyncAssumption
<1>3. w \in Nat BY <1>1, <1>2 DEF Node
<1>4. node' = [node EXCEPT !.rate = rate, !.width = w, !.ext = external]
  BY DEF SetFramerate
<1>5. UNCHANGED <<box, inbox, port, plugged, link, faults, wiped, slow>> BY DEF SetFramerate
<1>6. link.at = "ready" /\ call.at = "idle" BY DEF SetFramerate, Requested
<1>7. IF node.active THEN StartCall(node', FALSE) ELSE UNCHANGED <<call, heard>>
  BY DEF SetFramerate
<1> HIDE DEF w
<1>8. node' \in Node /\ node'.active = node.active /\ node'.width = w
  BY <1>1, <1>2, <1>3, <1>4 DEF Node
<1>9. CASE node.active
  <2>1. StartCall(node', FALSE) BY <1>7, <1>9
  <2>3. /\ call' \in Call /\ call'.at = "try" /\ call'.cmd \in Sane
        /\ call'.cmd.op = IF FALSE THEN "E" ELSE "S"
        /\ call'.cmd.op = "S" => call'.cmd.rate = Clamp(node'.rate, 1, 300)
        /\ heard' = FALSE
    BY <1>8, <2>1, Started
  <2>4. QED BY <1>3, <1>5, <1>6, <1>8, <1>9, <2>3
<1>10. CASE ~node.active BY <1>3, <1>5, <1>6, <1>7, <1>8, <1>10
<1>11. QED BY <1>9, <1>10

(* What stop makes of them.                                                *)
LEMMA SyncStopped ==
  ASSUME TypeOK, StopSync
  PROVE  /\ call' \in Call /\ call'.at = "try" /\ call'.cmd \in Sane /\ call'.cmd.op = "X"
         /\ node' \in Node /\ ~node'.active
         /\ node'.width = node.width
         /\ heard' = FALSE
         /\ link.at = "ready" /\ call.at = "idle"
         /\ UNCHANGED <<box, inbox, port, plugged, link, faults, wiped, slow>>
<1>1. node \in Node BY DEF TypeOK
<1>2. node' = [node EXCEPT !.active = FALSE] BY DEF StopSync
<1>3. StopPulses \in Sane /\ StopPulses.op = "X"
  BY SMT DEF StopPulses, Sane, Command, MaxWidth
<1>4. Begin(StopPulses) BY DEF StopSync
<1>5. UNCHANGED <<box, inbox, port, plugged, link, faults, wiped, slow>> BY DEF StopSync
<1>6. link.at = "ready" /\ call.at = "idle" BY DEF StopSync, Requested
<1>7. node' \in Node /\ ~node'.active /\ node'.width = node.width BY <1>1, <1>2 DEF Node
<1>8. QED BY <1>3, <1>4, <1>5, <1>6, <1>7, Begun

(* What an answer makes of them while the box is being found.              *)
LEMMA BoxFound ==
  ASSUME TypeOK, Found
  PROVE  /\ link.at = "wait" /\ port > 0 /\ port' = port - 1
         /\ link' \in Link
         /\ \/ /\ link.opened = 1 /\ link'.at = "closed" /\ link'.opened = 1
               /\ UNCHANGED <<node, call, heard>>
            \/ /\ link'.at = "ready"
               /\ node' \in Node /\ node'.active /\ node'.rate = node.rate
               /\ node'.width = node.width
               /\ call' \in Call /\ call'.at = "try" /\ call'.cmd \in Sane
               /\ call'.cmd.op = "S"
               /\ call'.cmd.rate = Clamp(node.rate, 1, 300)
               /\ heard' = FALSE
         /\ UNCHANGED <<box, inbox, plugged, faults, wiped, slow>>
<1>1. node \in Node /\ link \in Link BY DEF TypeOK
<1>2. link.at = "wait" /\ port > 0 /\ port' = port - 1 BY DEF Found
<1>3. UNCHANGED <<box, inbox, plugged, faults, wiped, slow>> BY DEF Found
<1>4. \/ /\ link.opened = 1
         /\ link' = [link EXCEPT !.at = "closed"]
         /\ UNCHANGED <<node, call, heard>>
      \/ /\ link' = [link EXCEPT !.at = "ready"]
         /\ node' = [node EXCEPT !.active = TRUE]
         /\ StartCall(node, FALSE)
  BY DEF Found
<1>5. CASE /\ link.opened = 1
           /\ link' = [link EXCEPT !.at = "closed"]
           /\ UNCHANGED <<node, call, heard>>
  <2>1. link' \in Link /\ link'.at = "closed" /\ link'.opened = 1 BY <1>1, <1>5 DEF Link
  <2>2. QED BY <1>2, <1>3, <1>5, <2>1
<1>6. CASE /\ link' = [link EXCEPT !.at = "ready"]
           /\ node' = [node EXCEPT !.active = TRUE]
           /\ StartCall(node, FALSE)
  <2>1. link' \in Link /\ link'.at = "ready" BY <1>1, <1>6 DEF Link
  <2>2. node' \in Node /\ node'.active /\ node'.rate = node.rate /\ node'.width = node.width
    BY <1>1, <1>6 DEF Node
  <2>3. /\ call' \in Call /\ call'.at = "try" /\ call'.cmd \in Sane
        /\ call'.cmd.op = IF FALSE THEN "E" ELSE "S"
        /\ call'.cmd.op = "S" => call'.cmd.rate = Clamp(node.rate, 1, 300)
        /\ heard' = FALSE
    BY <1>1, <1>6, Started
  <2>4. QED BY <1>2, <1>3, <2>1, <2>2, <2>3
<1>7. QED BY <1>4, <1>5, <1>6

(* What one turn of the box makes of them.                                 *)
LEMMA Served ==
  ASSUME TypeOK, inbox \in Seq(Sane), Fits(box), Serve
  PROVE  /\ box' \in Box /\ box.up /\ box'.up /\ Fits(box')
         /\ Did(box', Head(inbox))
         /\ inbox # <<>> /\ inbox' = Tail(inbox)
         /\ inbox' \in Seq(Command) /\ inbox' \in Seq(Sane)
         /\ Len(inbox') = Len(inbox) - 1
         /\ inbox' # <<>> => inbox'[Len(inbox')] = inbox[Len(inbox)]
         /\ inbox' = <<>> => Head(inbox) = inbox[Len(inbox)]
         /\ port' = port + 1
         /\ UNCHANGED <<plugged, link, node, call, faults, heard, wiped, slow>>
<1>1. box \in Box /\ inbox \in Seq(Command) BY DEF TypeOK
<1>2. /\ box.up /\ inbox # <<>> /\ box' = Obey(box, Head(inbox)) /\ inbox' = Tail(inbox)
      /\ port' = port + 1
      /\ UNCHANGED <<plugged, link, node, call, faults, heard, wiped, slow>>
  BY DEF Serve
<1>3. Head(inbox) \in Sane /\ inbox' \in Seq(Sane) BY <1>2, LastOfTail
<1>4. inbox' \in Seq(Command) BY <1>1, <1>2, LastOfTail
<1>5. /\ Len(inbox') = Len(inbox) - 1
      /\ inbox' # <<>> => inbox'[Len(inbox')] = inbox[Len(inbox)]
      /\ inbox' = <<>> => Head(inbox) = inbox[Len(inbox)]
  BY <1>1, <1>2, LastOfTail
<1>6. box' \in Box /\ box'.up /\ Fits(box') /\ Did(box', Head(inbox))
  BY <1>1, <1>2, <1>3, Obeyed
<1>7. QED BY <1>2, <1>3, <1>4, <1>5, <1>6

(* What the boot of the box makes of them.                                 *)
LEMMA Booted ==
  ASSUME TypeOK, inbox \in Seq(Sane), Boot
  PROVE  /\ plugged /\ ~box.up
         /\ box' \in Box /\ box'.up /\ box'.from = box.from /\ box'.rate = box.rate
         /\ box'.width = box.width /\ box'.asked = box.asked
         /\ inbox' \in Seq(Command) /\ inbox' \in Seq(Sane)
         /\ Len(inbox') <= Len(inbox)
         /\ inbox' # <<>> => inbox # <<>> /\ inbox'[Len(inbox')] = inbox[Len(inbox)]
         /\ UNCHANGED <<port, plugged, link, node, call, faults, heard, wiped, slow>>
<1>1. box \in Box /\ inbox \in Seq(Command) BY DEF TypeOK
<1>2. /\ plugged /\ ~box.up /\ box' = [box EXCEPT !.up = TRUE]
      /\ UNCHANGED <<port, plugged, link, node, call, faults, heard, wiped, slow>>
  BY DEF Boot
<1>3. PICK k \in 0 .. Len(inbox) : inbox' = SubSeq(inbox, k + 1, Len(inbox)) BY DEF Boot
<1>4. inbox' \in Seq(Sane) BY <1>3, LastOfRest
<1>5. /\ inbox' \in Seq(Command) /\ Len(inbox') = Len(inbox) - k
      /\ inbox' # <<>> => inbox'[Len(inbox')] = inbox[Len(inbox)]
  BY <1>1, <1>3, LastOfRest
<1>6. Len(inbox) \in Nat BY <1>1, LenProperties
<1>7. Len(inbox') <= Len(inbox) BY <1>3, <1>5, <1>6
<1>8. inbox' # <<>> => inbox # <<>>
  <2>1. inbox' # <<>> => Len(inbox') \in Nat \ {0} BY <1>5, EmptySeq
  <2>2. inbox = <<>> => Len(inbox) = 0 BY EmptySeq
  <2>3. QED BY <1>6, <1>7, <2>1, <2>2
<1>9. /\ box' \in Box /\ box'.up /\ box'.from = box.from /\ box'.rate = box.rate
      /\ box'.width = box.width /\ box'.asked = box.asked
  BY <1>1, <1>2 DEF Box
<1>10. QED BY <1>2, <1>4, <1>5, <1>7, <1>8, <1>9

(* Types.                                                                  *)
LEMMA TypeStep ==
  ASSUME IInv, [Next]_vars
  PROVE  TypeOK'
<1>0. TypeOK /\ LinkInv /\ WidthInv /\ Matches /\ Delivery /\ Prompt /\ Fits(box)
  BY DEF IInv
<1>1. CASE Serve
  BY <1>1, <1>0, Served DEF TypeOK, WidthInv
<1>2. CASE Boot
  BY <1>2, <1>0, Booted DEF TypeOK, WidthInv
<1>3. CASE OpenPort
  <2>1. Booting \in Box /\ <<>> \in Seq(Command) BY EmptySeq DEF Booting, Box
  <2>2. link \in Link /\ link.at = "closed" BY <1>3, <1>0 DEF TypeOK, OpenPort
  <2>3. link.opened + 1 \in 0 .. 2 BY <1>0, <2>2 DEF LinkInv, Link
  <2>4. link' = [link EXCEPT !.at = "ask", !.opened = @ + 1, !.asked = 0] BY <1>3 DEF OpenPort
  <2>5. link' = [at |-> "ask", opened |-> link.opened + 1, asked |-> 0]
    BY <2>2, <2>4 DEF Link
  <2>6. link' \in Link BY <2>3, <2>5 DEF Link
  <2>7. QED BY <1>3, <1>0, <2>1, <2>6 DEF OpenPort, TypeOK
<1>4. CASE Ask
  <2>1. Identify \in Command BY DEF Identify, Command
  <2>2. inbox' \in Seq(Command) BY <1>4, <1>0, <2>1, LastOfAppend DEF Ask, TypeOK
  <2>3. link \in Link /\ link.at = "ask" BY <1>4, <1>0 DEF TypeOK, Ask
  <2>4. link.asked + 1 \in 0 .. 2 BY <1>0, <2>3 DEF LinkInv, Link
  <2>5. link' = [link EXCEPT !.at = "wait", !.asked = @ + 1] BY <1>4 DEF Ask
  <2>6. link' \in Link BY <2>3, <2>4, <2>5 DEF Link
  <2>7. QED BY <1>4, <1>0, <2>2, <2>6 DEF Ask, TypeOK
<1>5. CASE Found
  <2>1. port \in Nat /\ port > 0 /\ port' = port - 1 BY <1>5, <1>0 DEF Found, TypeOK
  <2>2. port' \in Nat BY <2>1
  <2>3. QED BY <1>5, <1>0, <2>2, BoxFound DEF TypeOK, WidthInv
<1>6. CASE NotFound
  <2>1. link \in Link BY <1>0 DEF TypeOK
  <2>2. link' \in Link BY <1>6, <2>1 DEF NotFound, Link
  <2>3. QED BY <1>6, <1>0, <2>2 DEF NotFound, TypeOK
<1>7. CASE PurgeFails
  BY <1>7, <1>0, Retried DEF PurgeFails, TypeOK
<1>8. CASE Send
  <2>1. call \in Call /\ inbox \in Seq(Command) BY <1>0 DEF TypeOK
  <2>2. call.cmd \in Command BY <2>1 DEF Call
  <2>3. inbox' \in Seq(Command) BY <1>8, <2>1, <2>2, LastOfAppend DEF Send
  <2>4. call' \in Call BY <1>8, <2>1 DEF Send, Call
  <2>5. QED BY <1>8, <1>0, <2>3, <2>4 DEF Send, TypeOK
<1>9. CASE Acknowledged
  <2>1. call' \in Call BY <1>9, <1>0, Returned DEF Acknowledged, TypeOK
  <2>2. port' \in Nat BY <1>9, <1>0 DEF Acknowledged, TypeOK
  <2>3. QED BY <1>9, <1>0, <2>1, <2>2 DEF Acknowledged, TypeOK
<1>10. CASE TimedOut
  <2>1. call' \in Call BY <1>10, <1>0, Retried, Returned DEF TimedOut, TypeOK
  <2>2. QED BY <1>10, <1>0, <2>1 DEF TimedOut, TypeOK
<1>11. CASE PortFails
  BY <1>11, <1>0, Retried DEF PortFails, TypeOK
<1>12. CASE \E rate \in Rates, width \in Durations, external \in BOOLEAN :
                SetFramerate(rate, width, external)
  <2>1. PICK rate \in Rates, width \in Durations, external \in BOOLEAN :
              SetFramerate(rate, width, external)
    BY <1>12
  <2>2. QED BY <1>0, <2>1, FramerateSet DEF TypeOK, WidthInv
<1>13. CASE StopSync
  BY <1>13, <1>0, SyncStopped DEF TypeOK
<1>14. CASE StartRecordingSync
  <2>1. StartSync(node.ext) /\ node.ext \in BOOLEAN BY <1>14, <1>0 DEF StartRecordingSync, TypeOK, Node
  <2>2. QED BY <1>0, <2>1, SyncStarted DEF TypeOK, WidthInv
<1>15. CASE StartPreviewSync
  <2>1. StartSync(FALSE) /\ FALSE \in BOOLEAN BY <1>15, <1>0 DEF StartPreviewSync, TypeOK, Node
  <2>2. QED BY <1>0, <2>1, SyncStarted DEF TypeOK, WidthInv
<1>16. CASE Reset \/ Unplug
  <2>1. Booting \in Box /\ <<>> \in Seq(Command) BY EmptySeq DEF Booting, Box
  <2>2. faults < MaxFaults /\ faults' = faults + 1 /\ faults \in 0 .. MaxFaults
    BY <1>16, <1>0 DEF Reset, Unplug, Fault, TypeOK
  <2>3. MaxFaults \in Nat BY SyncAssumption, SMT
  <2>4. faults' \in 0 .. MaxFaults BY <2>2, <2>3
  <2>5. QED BY <1>16, <1>0, <2>1, <2>4 DEF Reset, Unplug, Fault, TypeOK
<1>17. CASE UNCHANGED vars
  BY <1>17, <1>0 DEF vars, TypeOK
<1>18. QED
  BY <1>1, <1>2, <1>3, <1>4, <1>5, <1>6, <1>7, <1>8, <1>9,
     <1>10, <1>11, <1>12, <1>13, <1>14, <1>15, <1>16, <1>17 DEF Next

(* How the box is found.                                                   *)
LEMMA LinkStep ==
  ASSUME IInv, [Next]_vars
  PROVE  LinkInv'
<1>0. TypeOK /\ LinkInv /\ WidthInv /\ Matches /\ Delivery /\ Prompt /\ Fits(box)
  BY DEF IInv
<1>1. CASE Serve
  BY <1>1, <1>0, Served DEF LinkInv, WidthInv
<1>2. CASE Boot
  BY <1>2, <1>0, Booted DEF LinkInv, WidthInv
<1>3. CASE OpenPort
  <2>1. call \in Call /\ link \in Link /\ node \in Node BY <1>0 DEF TypeOK
  <2>2. QED BY <1>3, <1>0, <2>1 DEF OpenPort, LinkInv, Link, Call
<1>4. CASE Ask
  <2>1. call \in Call /\ link \in Link /\ node \in Node BY <1>0 DEF TypeOK
  <2>2. QED BY <1>4, <1>0, <2>1 DEF Ask, LinkInv, Link, Call
<1>5. CASE Found
  <2>1. link.at = "wait" /\ call.at = "idle" BY <1>5, <1>0 DEF Found, LinkInv
  <2>2. \/ link'.at = "closed" /\ link'.opened = 1 /\ UNCHANGED call
        \/ link'.at = "ready" /\ heard' = FALSE
    BY <1>5, <1>0, BoxFound DEF WidthInv
  <2>3. QED BY <2>1, <2>2 DEF LinkInv
<1>6. CASE NotFound
  <2>1. call \in Call /\ link \in Link /\ node \in Node BY <1>0 DEF TypeOK
  <2>2. QED BY <1>6, <1>0, <2>1 DEF NotFound, LinkInv, Link, Call
<1>7. CASE PurgeFails
  <2>1. call \in Call /\ link \in Link /\ node \in Node BY <1>0 DEF TypeOK
  <2>2. QED BY <1>7, <1>0, <2>1, Retried DEF PurgeFails, LinkInv, Link, Call
<1>8. CASE Send
  <2>1. call \in Call /\ link \in Link /\ node \in Node BY <1>0 DEF TypeOK
  <2>2. QED BY <1>8, <1>0, <2>1 DEF Send, LinkInv, Link, Call
<1>9. CASE Acknowledged
  <2>1. call \in Call /\ link \in Link /\ node \in Node BY <1>0 DEF TypeOK
  <2>2. QED BY <1>9, <1>0, <2>1, Returned DEF Acknowledged, LinkInv, Link, Call
<1>10. CASE TimedOut
  <2>1. call \in Call /\ link \in Link /\ node \in Node BY <1>0 DEF TypeOK
  <2>2. QED BY <1>10, <1>0, <2>1, Retried, Returned DEF TimedOut, LinkInv, Link, Call
<1>11. CASE PortFails
  <2>1. call \in Call /\ link \in Link /\ node \in Node BY <1>0 DEF TypeOK
  <2>2. QED BY <1>11, <1>0, <2>1, Retried DEF PortFails, LinkInv, Link, Call
<1>12. CASE \E rate \in Rates, width \in Durations, external \in BOOLEAN :
                SetFramerate(rate, width, external)
  <2>1. PICK rate \in Rates, width \in Durations, external \in BOOLEAN :
              SetFramerate(rate, width, external)
    BY <1>12
  <2>2. QED BY <1>0, <2>1, FramerateSet DEF LinkInv, WidthInv
<1>13. CASE StopSync
  BY <1>13, <1>0, SyncStopped DEF LinkInv, WidthInv
<1>14. CASE StartRecordingSync
  <2>1. StartSync(node.ext) /\ node.ext \in BOOLEAN BY <1>14, <1>0 DEF StartRecordingSync, TypeOK, Node
  <2>2. QED BY <1>0, <2>1, SyncStarted DEF LinkInv, WidthInv
<1>15. CASE StartPreviewSync
  <2>1. StartSync(FALSE) /\ FALSE \in BOOLEAN BY <1>15, <1>0 DEF StartPreviewSync, TypeOK, Node
  <2>2. QED BY <1>0, <2>1, SyncStarted DEF LinkInv, WidthInv
<1>16. CASE Reset \/ Unplug
  <2>1. call \in Call /\ link \in Link /\ node \in Node BY <1>0 DEF TypeOK
  <2>2. QED BY <1>16, <1>0, <2>1 DEF Reset, Unplug, Fault, LinkInv
<1>17. CASE UNCHANGED vars
  BY <1>17, <1>0 DEF vars, LinkInv
<1>18. QED
  BY <1>1, <1>2, <1>3, <1>4, <1>5, <1>6, <1>7, <1>8, <1>9,
     <1>10, <1>11, <1>12, <1>13, <1>14, <1>15, <1>16, <1>17 DEF Next

(* What is sent is sane.                                                   *)
LEMMA WidthStep ==
  ASSUME IInv, [Next]_vars
  PROVE  WidthInv'
<1>0. TypeOK /\ LinkInv /\ WidthInv /\ Matches /\ Delivery /\ Prompt /\ Fits(box)
  BY DEF IInv
<1>1. CASE Serve
  BY <1>1, <1>0, Served DEF WidthInv
<1>2. CASE Boot
  BY <1>2, <1>0, Booted DEF WidthInv
<1>3. CASE OpenPort
  <2>1. <<>> \in Seq(Sane) BY EmptySeq
  <2>2. QED BY <1>3, <1>0, <2>1 DEF OpenPort, WidthInv
<1>4. CASE Ask
  <2>1. Identify \in Sane BY SMT DEF Identify, Sane, Command, MaxWidth
  <2>2. inbox' \in Seq(Sane) BY <1>4, <1>0, <2>1, LastOfAppend DEF Ask, WidthInv
  <2>3. QED BY <1>4, <1>0, <2>2 DEF Ask, WidthInv
<1>5. CASE Found
  BY <1>5, <1>0, BoxFound DEF WidthInv
<1>6. CASE NotFound
  <2>1. <<>> \in Seq(Sane) BY EmptySeq
  <2>2. QED BY <1>6, <1>0, <2>1 DEF NotFound, WidthInv
<1>7. CASE PurgeFails
  <2>1. call'.cmd = call.cmd BY <1>7, <1>0, Retried DEF PurgeFails, TypeOK
  <2>2. QED BY <1>7, <1>0, <2>1 DEF PurgeFails, WidthInv
<1>8. CASE Send
  <2>1. inbox' \in Seq(Sane) BY <1>8, <1>0, LastOfAppend DEF Send, WidthInv
  <2>2. call' = [call EXCEPT !.at = "wait"] /\ call \in Call BY <1>8, <1>0 DEF Send, TypeOK
  <2>3. call'.cmd = call.cmd BY <2>2 DEF Call
  <2>4. QED BY <1>8, <1>0, <2>1, <2>3 DEF Send, WidthInv
<1>9. CASE Acknowledged
  <2>1. call'.cmd = call.cmd BY <1>9, <1>0, Returned DEF Acknowledged, TypeOK
  <2>2. QED BY <1>9, <1>0, <2>1 DEF Acknowledged, WidthInv
<1>10. CASE TimedOut
  <2>1. call'.cmd = call.cmd BY <1>10, <1>0, Retried, Returned DEF TimedOut, TypeOK
  <2>2. QED BY <1>10, <1>0, <2>1 DEF TimedOut, WidthInv
<1>11. CASE PortFails
  <2>1. call'.cmd = call.cmd BY <1>11, <1>0, Retried DEF PortFails, TypeOK
  <2>2. QED BY <1>11, <1>0, <2>1 DEF PortFails, WidthInv
<1>12. CASE \E rate \in Rates, width \in Durations, external \in BOOLEAN :
                SetFramerate(rate, width, external)
  <2>1. PICK rate \in Rates, width \in Durations, external \in BOOLEAN :
              SetFramerate(rate, width, external)
    BY <1>12
  <2>2. QED BY <1>0, <2>1, FramerateSet DEF WidthInv
<1>13. CASE StopSync
  BY <1>13, <1>0, SyncStopped DEF WidthInv
<1>14. CASE StartRecordingSync
  <2>1. StartSync(node.ext) /\ node.ext \in BOOLEAN BY <1>14, <1>0 DEF StartRecordingSync, TypeOK, Node
  <2>2. QED BY <1>0, <2>1, SyncStarted DEF WidthInv
<1>15. CASE StartPreviewSync
  <2>1. StartSync(FALSE) /\ FALSE \in BOOLEAN BY <1>15, <1>0 DEF StartPreviewSync, TypeOK, Node
  <2>2. QED BY <1>0, <2>1, SyncStarted DEF WidthInv
<1>16. CASE Reset \/ Unplug
  <2>1. <<>> \in Seq(Sane) BY EmptySeq
  <2>2. QED BY <1>16, <1>0, <2>1 DEF Reset, Unplug, Fault, WidthInv
<1>17. CASE UNCHANGED vars
  BY <1>17, <1>0 DEF vars, WidthInv
<1>18. QED
  BY <1>1, <1>2, <1>3, <1>4, <1>5, <1>6, <1>7, <1>8, <1>9,
     <1>10, <1>11, <1>12, <1>13, <1>14, <1>15, <1>16, <1>17 DEF Next

(* The last command is the one the node asks for.                          *)
LEMMA MatchStep ==
  ASSUME IInv, [Next]_vars
  PROVE  Matches'
<1>0. TypeOK /\ LinkInv /\ WidthInv /\ Matches /\ Delivery /\ Prompt /\ Fits(box)
  BY DEF IInv
<1>1. CASE Serve
  BY <1>1, <1>0, Served DEF Matches, WidthInv
<1>2. CASE Boot
  BY <1>2, <1>0, Booted DEF Matches, WidthInv
<1>3. CASE OpenPort
  <2>1. link \in Link BY <1>0 DEF TypeOK
  <2>2. QED BY <1>3, <1>0, <2>1 DEF OpenPort, Matches, Link
<1>4. CASE Ask
  <2>1. link \in Link BY <1>0 DEF TypeOK
  <2>2. QED BY <1>4, <1>0, <2>1 DEF Ask, Matches, Link
<1>5. CASE Found
  BY <1>5, <1>0, BoxFound DEF Matches, WidthInv
<1>6. CASE NotFound
  <2>1. link \in Link BY <1>0 DEF TypeOK
  <2>2. QED BY <1>6, <1>0, <2>1 DEF NotFound, Matches, Link
<1>7. CASE PurgeFails
  <2>1. call'.cmd = call.cmd BY <1>7, <1>0, Retried DEF PurgeFails, TypeOK
  <2>2. QED BY <1>7, <1>0, <2>1 DEF PurgeFails, Matches
<1>8. CASE Send
  <2>1. call' = [call EXCEPT !.at = "wait"] /\ call \in Call BY <1>8, <1>0 DEF Send, TypeOK
  <2>2. call'.cmd = call.cmd BY <2>1 DEF Call
  <2>3. QED BY <1>8, <1>0, <2>2 DEF Send, Matches
<1>9. CASE Acknowledged
  <2>1. call'.cmd = call.cmd BY <1>9, <1>0, Returned DEF Acknowledged, TypeOK
  <2>2. QED BY <1>9, <1>0, <2>1 DEF Acknowledged, Matches
<1>10. CASE TimedOut
  <2>1. call'.cmd = call.cmd BY <1>10, <1>0, Retried, Returned DEF TimedOut, TypeOK
  <2>2. QED BY <1>10, <1>0, <2>1 DEF TimedOut, Matches
<1>11. CASE PortFails
  <2>1. call'.cmd = call.cmd BY <1>11, <1>0, Retried DEF PortFails, TypeOK
  <2>2. QED BY <1>11, <1>0, <2>1 DEF PortFails, Matches
<1>12. CASE \E rate \in Rates, width \in Durations, external \in BOOLEAN :
                SetFramerate(rate, width, external)
  <2>1. PICK rate \in Rates, width \in Durations, external \in BOOLEAN :
              SetFramerate(rate, width, external)
    BY <1>12
  <2>2. QED BY <1>0, <2>1, FramerateSet DEF Matches, WidthInv
<1>13. CASE StopSync
  BY <1>13, <1>0, SyncStopped DEF Matches, WidthInv
<1>14. CASE StartRecordingSync
  <2>1. StartSync(node.ext) /\ node.ext \in BOOLEAN BY <1>14, <1>0 DEF StartRecordingSync, TypeOK, Node
  <2>2. QED BY <1>0, <2>1, SyncStarted DEF Matches, WidthInv
<1>15. CASE StartPreviewSync
  <2>1. StartSync(FALSE) /\ FALSE \in BOOLEAN BY <1>15, <1>0 DEF StartPreviewSync, TypeOK, Node
  <2>2. QED BY <1>0, <2>1, SyncStarted DEF Matches, WidthInv
<1>16. CASE Reset \/ Unplug
  BY <1>16, <1>0 DEF Reset, Unplug, Fault, Matches
<1>17. CASE UNCHANGED vars
  BY <1>17, <1>0 DEF vars, Matches
<1>18. QED
  BY <1>1, <1>2, <1>3, <1>4, <1>5, <1>6, <1>7, <1>8, <1>9,
     <1>10, <1>11, <1>12, <1>13, <1>14, <1>15, <1>16, <1>17 DEF Next

(* What becomes of the last command.                                       *)
LEMMA DeliveryStep ==
  ASSUME IInv, [Next]_vars
  PROVE  Delivery'
<1>0. TypeOK /\ LinkInv /\ WidthInv /\ Matches /\ Delivery /\ Prompt /\ Fits(box)
  BY DEF IInv
<1>1. CASE Serve
  <2>1. QED BY <1>1, <1>0, Served DEF Delivery, OnItsWay, WidthInv
<1>2. CASE Boot
  <2>1. port \in Nat BY <1>0 DEF TypeOK
  <2>2. QED BY <1>2, <1>0, <2>1, Booted DEF Delivery, OnItsWay, WidthInv
<1>3. CASE OpenPort
  <2>1. link \in Link BY <1>0 DEF TypeOK
  <2>2. QED BY <1>3, <1>0, <2>1 DEF OpenPort, Delivery, Link
<1>4. CASE Ask
  <2>1. link \in Link BY <1>0 DEF TypeOK
  <2>2. QED BY <1>4, <1>0, <2>1 DEF Ask, Delivery, Link
<1>5. CASE Found
  <2>1. call'.at # "wait" /\ (link'.at = "ready" => ~heard')
    BY <1>5, <1>0, BoxFound DEF LinkInv, WidthInv
  <2>2. QED BY <2>1 DEF Delivery
<1>6. CASE NotFound
  <2>1. link \in Link BY <1>0 DEF TypeOK
  <2>2. QED BY <1>6, <1>0, <2>1 DEF NotFound, Delivery, Link
<1>7. CASE PurgeFails
  <2>1. call'.at \in {"idle", "try"} /\ call'.cmd = call.cmd BY <1>7, <1>0, Retried DEF PurgeFails, TypeOK
  <2>2. ~heard BY <1>7, <1>0 DEF PurgeFails, LinkInv
  <2>3. QED BY <1>7, <1>0, <2>1, <2>2 DEF PurgeFails, Delivery
<1>8. CASE Send
  <2>1. call' = [call EXCEPT !.at = "wait"] /\ call \in Call BY <1>8, <1>0 DEF Send, TypeOK
  <2>2. call'.cmd = call.cmd /\ call'.at = "wait" BY <2>1 DEF Call
  <2>3. inbox' # <<>> /\ inbox'[Len(inbox')] = call.cmd BY <1>8, <1>0, LastOfAppend DEF Send, WidthInv
  <2>4. port' = 0 BY <1>8 DEF Send
  <2>5. QED BY <2>2, <2>3, <2>4 DEF Delivery, OnItsWay
<1>9. CASE Acknowledged
  <2>1. call'.at = "idle" /\ call'.cmd = call.cmd BY <1>9, <1>0, Returned DEF Acknowledged, TypeOK
  <2>2. QED BY <1>9, <1>0, <2>1 DEF Acknowledged, Delivery, OnItsWay
<1>10. CASE TimedOut
  <2>1. call'.at \in {"idle", "try"} /\ call'.cmd = call.cmd BY <1>10, <1>0, Retried, Returned DEF TimedOut, TypeOK
  <2>2. ~heard BY <1>10, <1>0 DEF TimedOut, LinkInv
  <2>3. QED BY <1>10, <1>0, <2>1, <2>2 DEF TimedOut, Delivery
<1>11. CASE PortFails
  <2>1. call'.at \in {"idle", "try"} /\ call'.cmd = call.cmd BY <1>11, <1>0, Retried DEF PortFails, TypeOK
  <2>2. ~heard BY <1>11, <1>0 DEF PortFails, LinkInv
  <2>3. QED BY <1>11, <1>0, <2>1, <2>2 DEF PortFails, Delivery
<1>12. CASE \E rate \in Rates, width \in Durations, external \in BOOLEAN :
                SetFramerate(rate, width, external)
  <2>1. PICK rate \in Rates, width \in Durations, external \in BOOLEAN :
              SetFramerate(rate, width, external)
    BY <1>12
  <2>2. QED BY <1>0, <2>1, FramerateSet DEF Delivery, WidthInv, OnItsWay
<1>13. CASE StopSync
  BY <1>13, <1>0, SyncStopped DEF Delivery
<1>14. CASE StartRecordingSync
  <2>1. StartSync(node.ext) /\ node.ext \in BOOLEAN BY <1>14, <1>0 DEF StartRecordingSync, TypeOK, Node
  <2>2. QED BY <1>0, <2>1, SyncStarted DEF Delivery, WidthInv, OnItsWay
<1>15. CASE StartPreviewSync
  <2>1. StartSync(FALSE) /\ FALSE \in BOOLEAN BY <1>15, <1>0 DEF StartPreviewSync, TypeOK, Node
  <2>2. QED BY <1>0, <2>1, SyncStarted DEF Delivery, WidthInv, OnItsWay
<1>16. CASE Reset \/ Unplug
  BY <1>16, <1>0 DEF Reset, Unplug, Fault, Delivery
<1>17. CASE UNCHANGED vars
  BY <1>17, <1>0 DEF vars, Delivery, OnItsWay
<1>18. QED
  BY <1>1, <1>2, <1>3, <1>4, <1>5, <1>6, <1>7, <1>8, <1>9,
     <1>10, <1>11, <1>12, <1>13, <1>14, <1>15, <1>16, <1>17 DEF Next

(* Nothing is late unless something was late or failed.                    *)
LEMMA PromptStep ==
  ASSUME IInv, [Next]_vars
  PROVE  Prompt'
<1>0. TypeOK /\ LinkInv /\ WidthInv /\ Matches /\ Delivery /\ Prompt /\ Fits(box)
  BY DEF IInv
<1>1. CASE Serve
  <2>1. port \in Nat /\ Len(inbox) \in Nat BY <1>0, LenProperties DEF TypeOK
  <2>2. inbox # <<>> /\ inbox' \in Seq(Command) /\ (inbox' = <<>> <=> Len(inbox') = 0)
    BY <1>1, <1>0, Served, EmptySeq DEF WidthInv
  <2>3. QED BY <1>1, <1>0, <2>1, <2>2, Served DEF Prompt, OneOnItsWay, Empty, WidthInv
<1>2. CASE Boot
  <2>1. port \in Nat /\ Len(inbox) \in Nat /\ Len(inbox') \in Nat BY <1>2, <1>0, Booted, LenProperties DEF TypeOK, WidthInv
  <2>2. (inbox' = <<>> <=> Len(inbox') = 0) /\ (inbox = <<>> <=> Len(inbox) = 0)
    BY <1>2, <1>0, Booted, EmptySeq DEF WidthInv, TypeOK
  <2>3. QED BY <1>2, <1>0, <2>1, <2>2, Booted DEF Prompt, OneOnItsWay, Empty, WidthInv
<1>3. CASE OpenPort
  <2>1. link \in Link BY <1>0 DEF TypeOK
  <2>2. link'.at = "ask" BY <1>3, <2>1 DEF OpenPort, Link
  <2>3. QED BY <1>3, <1>0, <2>2 DEF OpenPort, Prompt, Empty
<1>4. CASE Ask
  <2>1. link \in Link BY <1>0 DEF TypeOK
  <2>2. link'.at = "wait" BY <1>4, <2>1 DEF Ask, Link
  <2>3. inbox = <<>> => Len(inbox') = 1
    <3>1. Identify \in Command BY DEF Identify, Command
    <3>2. QED BY <1>4, <1>0, <3>1, LastOfAppend, EmptySeq DEF Ask, TypeOK
  <2>4. QED BY <1>4, <1>0, <2>2, <2>3 DEF Ask, Prompt, Empty, OneOnItsWay
<1>5. CASE Found
  <2>1. /\ link.at = "wait" /\ port > 0 /\ port' = port - 1
        /\ box' = box /\ inbox' = inbox /\ plugged' = plugged /\ slow' = slow
    BY <1>5 DEF Found
  <2>2. \/ link'.at = "closed" /\ UNCHANGED call
        \/ link'.at = "ready" /\ call'.at = "try"
    BY <1>5, <1>0, BoxFound DEF WidthInv
  <2>3. ~slow => plugged /\ inbox = <<>> /\ port' = 0 /\ box.up
    BY <1>0, <2>1 DEF Prompt, OneOnItsWay, Empty
  <2>4. QED BY <2>1, <2>2, <2>3 DEF Prompt, Empty
<1>6. CASE NotFound
  BY <1>6, <1>0 DEF NotFound, Prompt
<1>7. CASE PurgeFails
  <2>1. ~slow => FALSE
    BY <1>7, <1>0 DEF PurgeFails, Prompt, Empty, LinkInv
  <2>2. QED BY <1>7, <2>1 DEF PurgeFails, Prompt
<1>8. CASE Send
  <2>1. call' = [call EXCEPT !.at = "wait"] /\ call \in Call BY <1>8, <1>0 DEF Send, TypeOK
  <2>2. call'.at = "wait" BY <2>1 DEF Call
  <2>3. inbox = <<>> => Len(inbox') = 1 /\ inbox' # <<>> BY <1>8, <1>0, LastOfAppend, EmptySeq DEF Send, WidthInv
  <2>4. link.at = "ready" BY <1>8, <1>0 DEF Send, LinkInv
  <2>5. QED BY <1>8, <1>0, <2>2, <2>3, <2>4 DEF Send, Prompt, Empty, OneOnItsWay
<1>9. CASE Acknowledged
  <2>1. call'.at = "idle" BY <1>9, <1>0, Returned DEF Acknowledged, TypeOK
  <2>2. link.at = "ready" BY <1>9, <1>0 DEF Acknowledged, LinkInv
  <2>3. QED BY <1>9, <1>0, <2>1, <2>2 DEF Acknowledged, Prompt, Empty, OneOnItsWay
<1>10. CASE TimedOut
  BY <1>10, <1>0, Retried, Returned DEF TimedOut, Prompt
<1>11. CASE PortFails
  <2>1. ~slow => FALSE
    BY <1>11, <1>0 DEF PortFails, Prompt
  <2>2. QED BY <1>11, <2>1 DEF PortFails, Prompt
<1>12. CASE \E rate \in Rates, width \in Durations, external \in BOOLEAN :
                SetFramerate(rate, width, external)
  <2>1. PICK rate \in Rates, width \in Durations, external \in BOOLEAN :
              SetFramerate(rate, width, external)
    BY <1>12
  <2>2. QED BY <1>0, <2>1, FramerateSet DEF Prompt, Empty, OneOnItsWay, WidthInv
<1>13. CASE StopSync
  BY <1>13, <1>0, SyncStopped DEF Prompt, Empty
<1>14. CASE StartRecordingSync
  <2>1. StartSync(node.ext) /\ node.ext \in BOOLEAN BY <1>14, <1>0 DEF StartRecordingSync, TypeOK, Node
  <2>2. QED BY <1>0, <2>1, SyncStarted DEF Prompt, Empty, OneOnItsWay, WidthInv
<1>15. CASE StartPreviewSync
  <2>1. StartSync(FALSE) /\ FALSE \in BOOLEAN BY <1>15, <1>0 DEF StartPreviewSync, TypeOK, Node
  <2>2. QED BY <1>0, <2>1, SyncStarted DEF Prompt, Empty, OneOnItsWay, WidthInv
<1>16. CASE Reset \/ Unplug
  BY <1>16, <1>0 DEF Reset, Unplug, Fault, Prompt
<1>17. CASE UNCHANGED vars
  BY <1>17, <1>0 DEF vars, Prompt, Empty, OneOnItsWay
<1>18. QED
  BY <1>1, <1>2, <1>3, <1>4, <1>5, <1>6, <1>7, <1>8, <1>9,
     <1>10, <1>11, <1>12, <1>13, <1>14, <1>15, <1>16, <1>17 DEF Next

(* No pulse is longer than its period.                                     *)
LEMMA PulseStep ==
  ASSUME IInv, [Next]_vars
  PROVE  Fits(box)'
<1>0. TypeOK /\ LinkInv /\ WidthInv /\ Matches /\ Delivery /\ Prompt /\ Fits(box)
  BY DEF IInv
<1>1. CASE Serve
  BY <1>1, <1>0, Served DEF WidthInv
<1>2. CASE Boot
  BY <1>2, <1>0, Booted DEF Fits, WidthInv
<1>3. CASE OpenPort
  BY <1>3, <1>0 DEF OpenPort, Fits, Booting
<1>4. CASE Ask
  BY <1>4, <1>0 DEF Ask, Fits
<1>5. CASE Found
  BY <1>5, <1>0, BoxFound DEF WidthInv, Fits
<1>6. CASE NotFound
  BY <1>6, <1>0 DEF NotFound, Fits
<1>7. CASE PurgeFails
  BY <1>7, <1>0, Retried DEF PurgeFails, Fits
<1>8. CASE Send
  BY <1>8, <1>0 DEF Send, Fits
<1>9. CASE Acknowledged
  BY <1>9, <1>0, Returned DEF Acknowledged, Fits
<1>10. CASE TimedOut
  BY <1>10, <1>0, Retried, Returned DEF TimedOut, Fits
<1>11. CASE PortFails
  BY <1>11, <1>0, Retried DEF PortFails, Fits
<1>12. CASE \E rate \in Rates, width \in Durations, external \in BOOLEAN :
                SetFramerate(rate, width, external)
  BY <1>12, <1>0, FramerateSet DEF WidthInv, Fits
<1>13. CASE StopSync
  BY <1>13, <1>0, SyncStopped DEF WidthInv, Fits
<1>14. CASE StartRecordingSync
  BY <1>14, <1>0 DEF StartRecordingSync, StartSync, Fits
<1>15. CASE StartPreviewSync
  BY <1>15, <1>0 DEF StartPreviewSync, StartSync, Fits
<1>16. CASE Reset \/ Unplug
  BY <1>16, <1>0 DEF Reset, Unplug, Fault, Fits, Booting
<1>17. CASE UNCHANGED vars
  BY <1>17, <1>0 DEF vars, Fits
<1>18. QED
  BY <1>1, <1>2, <1>3, <1>4, <1>5, <1>6, <1>7, <1>8, <1>9,
     <1>10, <1>11, <1>12, <1>13, <1>14, <1>15, <1>16, <1>17 DEF Next

-----------------------------------------------------------------------------
(* The invariant, and what follows from it.                                *)

(* The invariant holds in every reachable state.                           *)
LEMMA Invariant == Spec => []IInv
<1>1. Init => IInv
  <2> SUFFICES ASSUME Init PROVE IInv
    OBVIOUS
  <2>1. /\ box.from = {} /\ inbox = <<>> /\ port = 0 /\ plugged
        /\ link.at = "closed" /\ link.opened = 0 /\ call.at = "idle" /\ ~heard
    BY DEF Init, Booting
  <2>2. call.cmd = Identify BY DEF Init
  <2>3. <<>> \in Seq(Command) /\ <<>> \in Seq(Sane) BY EmptySeq
  <2>4. DefaultRate \in Int /\ DefaultDuration \in Nat /\ MaxFaults \in Nat
    BY SyncAssumption, SMTT(60)
  <2>5. Identify \in Command /\ Identify \in Sane
    BY SMT DEF Identify, Command, Sane, MaxWidth
  <2>6. box \in Box
    <3>1. Booting \in Box BY SMT DEF Booting, Box
    <3>2. [Booting EXCEPT !.up = TRUE] \in Box BY <3>1 DEF Box
    <3>3. QED BY <3>1, <3>2 DEF Init
  <2>7. link \in Link BY DEF Init, Link
  <2>8. node \in Node BY <2>4 DEF Init, Node
  <2>9. call \in Call BY <2>5 DEF Init, Call, MaxTries
  <2>10. faults \in 0 .. MaxFaults BY <2>4 DEF Init
  <2>11. heard \in BOOLEAN /\ wiped \in BOOLEAN /\ slow \in BOOLEAN BY DEF Init
  <2>12. TypeOK BY <2>1, <2>3, <2>6, <2>7, <2>8, <2>9, <2>10, <2>11 DEF TypeOK
  <2>13. LinkInv /\ Matches /\ Delivery BY <2>1 DEF LinkInv, Matches, Delivery
  <2>14. WidthInv BY <2>1, <2>2, <2>3, <2>4, <2>5 DEF WidthInv
  <2>15. Prompt /\ Fits(box) BY <2>1 DEF Prompt, Empty, Fits
  <2>16. QED BY <2>12, <2>13, <2>14, <2>15 DEF IInv
<1>2. IInv /\ [Next]_vars => IInv'
  <2> SUFFICES ASSUME IInv, [Next]_vars PROVE IInv'
    OBVIOUS
  <2>1. TypeOK' /\ LinkInv' /\ WidthInv' /\ Matches' BY TypeStep, LinkStep, WidthStep, MatchStep
  <2>2. Delivery' /\ Prompt' /\ Fits(box)' BY DeliveryStep, PromptStep, PulseStep
  <2>3. QED BY <2>1, <2>2 DEF IInv
<1>3. QED BY <1>1, <1>2, PTL DEF Spec

(* Every variable keeps to the states the code can put it in.              *)
THEOREM TypeCorrect == Spec => []TypeOK
<1>1. IInv => TypeOK BY DEF IInv
<1>2. QED BY <1>1, Invariant, PTL

(* Whatever framerate and duration are asked for, a pulse ends before the  *)
(* next one begins, unless the duration is above 32767 us and the          *)
(* framerate one of those whose cap overflows; in those cases it does not. *)
THEOREM PulseFits == Spec => []PulseFitsPeriod
<1>1. IInv => PulseFitsPeriod
  BY SMT DEF IInv, Fits, InPeriod, Capped, PulseFitsPeriod, MaxInt
<1>2. QED BY <1>1, Invariant, PTL

(* After a call that read its two bytes, the box does what the node        *)
(* believes, unless it has restarted since; and every call reads them as   *)
(* long as no answer was late and nothing failed.                          *)
THEOREM BoxFollows == Spec => []BoxFollowsNode
<1>1. ASSUME IInv, link.at = "ready", call.at = "idle", box.up, inbox = <<>>,
             heard, ~wiped
      PROVE  Follows
  <2>1. Did(box, call.cmd) BY <1>1 DEF IInv, Delivery
  <2>2. Cardinality({"timer"}) = 1 /\ Cardinality({"external"}) = 1
    BY FS_Singleton
  <2>3. Cardinality({}) = 0 BY FS_EmptySet
  <2>4. /\ node.active <=> call.cmd.op \in {"S", "E"}
        /\ call.cmd.op \in {"S", "E", "X"}
        /\ call.cmd.op = "S" => call.cmd.rate = Clamp(node.rate, 1, 300)
        /\ call.cmd.op = "E" => node.ext
    BY <1>1 DEF IInv, Matches
  <2>5. CASE call.cmd.op = "S" BY <2>1, <2>2, <2>4, <2>5 DEF Did, Follows
  <2>6. CASE call.cmd.op = "E" BY <2>1, <2>2, <2>4, <2>6 DEF Did, Follows
  <2>7. CASE call.cmd.op = "X" BY <2>1, <2>3, <2>4, <2>7 DEF Did, Follows
  <2>8. QED BY <2>4, <2>5, <2>6, <2>7
<1>2. ASSUME IInv, link.at = "ready", call.at = "idle", ~slow PROVE heard
  BY <1>2 DEF IInv, Prompt
<1>3. IInv => BoxFollowsNode BY <1>1, <1>2 DEF BoxFollowsNode
<1>4. QED BY <1>3, Invariant, PTL
===============================================================================
