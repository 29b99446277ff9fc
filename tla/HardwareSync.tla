---------------------------- MODULE HardwareSync ----------------------------
(***************************************************************************)
(* The sync box of a capture node, an Arduino that triggers the shutters   *)
(* of all cameras: how the node finds it and drives it over a serial port  *)
(* (hardware_sync.py, autorun.py, capturenode.cpp), and the program of the *)
(* box itself (ximea_camera_sync.ino).                                     *)
(*                                                                         *)
(* A command is one write, and arrives whole or not at all.  The box       *)
(* answers every command with "OK", so port counts answers.  A framerate   *)
(* and a duration travel as two digits in base 255 and are put together    *)
(* again.  A box that has booted answers well within the timeouts (500 ms  *)
(* against 20 ms), and before the node has its next request; one that      *)
(* still boots does not answer, and loses what came first.                 *)
(*                                                                         *)
(* purge_port calls a method that does not exist: with a byte waiting in   *)
(* the port it raises, and the handlers of start and stop swallow that.    *)
(***************************************************************************)
EXTENDS Integers, Sequences, FiniteSets

CONSTANTS
  Rates,       \* framerates that are asked for
  Durations,   \* pulse durations that are asked for, in microseconds; 0: as before
  DefaultRate, DefaultDuration,
  BootTime,    \* bound: timeouts that pass at most while a box boots
  MaxFaults    \* bound: faults of a behaviour

MaxTries == 5

ASSUME SyncAssumption ==
  /\ Rates \subseteq Int /\ DefaultRate \in 1 .. 300
  /\ Durations \subseteq Nat /\ DefaultDuration \in Nat
  /\ BootTime \in Nat \ {0} /\ MaxFaults \in Nat

VARIABLES
  box,     \* the sync box: its program, the sources its pulses come from, g_duration_us
           \* (width) and, as history, the duration of the command it comes from (asked)
  inbox,   \* commands the box has not read yet
  port,    \* answers waiting in the serial port of the node
  plugged, \* the serial port works
  link,    \* how far the node has come in finding the box
  node,    \* framerate, duration and mode of the node, and m_sync_active
  call,    \* the call of start or stop in progress, or the last one
  faults,  \* faults so far
  heard,   \* history: the last call ended with two bytes read
  wiped,   \* history: the box has restarted since the last command was sent
  slow     \* history: an answer did not come in time, or a fault has happened

vars == <<box, inbox, port, plugged, link, node, call, faults, heard, wiped, slow>>

Sources == {"timer", "external"}
Box     == [up : BOOLEAN, from : SUBSET Sources, rate : 0 .. 300, width : Int, asked : Nat]
Command == [op : {"I", "S", "E", "X"}, rate : 0 .. 300, width : Nat]
Link    == [at : {"closed", "ask", "wait", "ready", "none"}, opened : 0 .. 2, asked : 0 .. 2]
Node    == [active : BOOLEAN, rate : Int, width : Nat, ext : BOOLEAN]
Call    == [cmd : Command, at : {"idle", "try", "wait"}, try : 1 .. MaxTries]

Booting    == [up |-> FALSE, from |-> {}, rate |-> 0, width |-> 1000, asked |-> 1000]
Identify   == [op |-> "I", rate |-> 0, width |-> 0]
StopPulses == [op |-> "X", rate |-> 0, width |-> 0]

Init ==
  /\ box \in {Booting, [Booting EXCEPT !.up = TRUE]}
  /\ inbox = <<>> /\ port = 0 /\ plugged = TRUE
  /\ link = [at |-> "closed", opened |-> 0, asked |-> 0]
  /\ node = [active |-> FALSE, rate |-> DefaultRate, width |-> DefaultDuration, ext |-> FALSE]
  /\ call = [cmd |-> Identify, at |-> "idle", try |-> 1]
  /\ faults = 0
  /\ heard = FALSE /\ wiped = FALSE /\ slow = FALSE

Settled == box.up => inbox = <<>>

-----------------------------------------------------------------------------
(* The box.                                                                *)

(* Arithmetic on int, which has 16 bits.  The box puts the two digits of a *)
(* duration together in one, so durations above 32767 us turn negative.    *)
Int16(x) == ((x + 32768) % 65536) - 32768

(* a < b of two ints taken as unsigned long, which makes a negative one    *)
(* larger than every other.  Such a width keeps its sign here.             *)
UnsignedLess(a, b) == IF (a < 0) = (b < 0) THEN a < b ELSE b < 0

\* Mutant of PulseWidth: the duration is taken as it comes.
PulseAsAsked(rate, width) == Int16(width)

(* g_duration_us: the pulse is to end 3 ms before the next one.            *)
PulseWidth(rate, width) ==
  LET cap == Int16((1000 \div rate - 3) * 1000)
  IN  IF UnsignedLess(Int16(width), cap) THEN Int16(width) ELSE cap

(* ... or, with the external source, it is to last between 100 us and 1 s. *)
ExternalWidth(width) ==
  IF UnsignedLess(1000000, Int16(width)) THEN 1000000
  ELSE IF Int16(width) < 100 THEN 100 ELSE Int16(width)

(* How long a pulse lasts, in ticks of 16 us: g_duration_us * 625 / 10000  *)
(* in a register of 16 bits.  A negative width stands for 2^32 + width, a  *)
(* product of 2^32 + 625 * width, and 2^32 is 429496 * 10000 + 7296.       *)
TicksPerSecond == 62500
Ticks(width) ==
  LET quotient == IF width < 0 THEN 429496 + (7296 + 625 * width) \div 10000
                  ELSE (625 * width) \div 10000
  IN  quotient % 65536

\* Mutant of Only: the other source is not detached.
Both(from, source) == from \cup {source}

(* stop_pulse comes first: what there was is detached.                     *)
Only(from, source) == {source}

(* start_pulse, start_pulse_external and stop_pulse.  The external source  *)
(* goes on with the framerate of the last start_pulse.                     *)
Obey(b, c) ==
  CASE c.op = "S" -> [b EXCEPT !.from = Only(@, "timer"), !.rate = c.rate,
                               !.width = PulseWidth(c.rate, c.width), !.asked = c.width]
    [] c.op = "E" -> [b EXCEPT !.from = Only(@, "external"),
                               !.width = ExternalWidth(c.width), !.asked = c.width]
    [] c.op = "X" -> [b EXCEPT !.from = {}]
    [] OTHER      -> b

(* One turn of loop(): a command is read, obeyed and answered.             *)
Serve ==
  /\ box.up /\ inbox # <<>>
  /\ box' = Obey(box, Head(inbox))
  /\ inbox' = Tail(inbox)
  /\ port' = port + 1
  /\ UNCHANGED <<plugged, link, node, call, faults, heard, wiped, slow>>

(* The box has booted.  Its boot loader has read a part of the commands.   *)
Boot ==
  /\ plugged /\ ~box.up
  /\ box' = [box EXCEPT !.up = TRUE]
  /\ \E k \in 0 .. Len(inbox) : inbox' = SubSeq(inbox, k + 1, Len(inbox))
  /\ UNCHANGED <<port, plugged, link, node, call, faults, heard, wiped, slow>>

-----------------------------------------------------------------------------
(* Finding the box: auto_detect_port opens the port and asks, and autorun  *)
(* opens it again and asks again.                                          *)

(* Opening a port empties it, and resets some boards.                      *)
OpenPort ==
  /\ link.at = "closed"
  /\ link' = [link EXCEPT !.at = "ask", !.opened = @ + 1, !.asked = 0]
  /\ port' = 0
  /\ \/ UNCHANGED <<box, inbox>>
     \/ box' = Booting /\ inbox' = <<>>
  /\ UNCHANGED <<plugged, node, call, faults, heard, wiped, slow>>

(* check_hw *)
Ask ==
  /\ link.at = "ask" /\ Settled
  /\ inbox' = Append(inbox, Identify)
  /\ link' = [link EXCEPT !.at = "wait", !.asked = @ + 1]
  /\ UNCHANGED <<box, port, plugged, node, call, faults, heard, wiped, slow>>

Begin(c) ==
  /\ call' = [cmd |-> c, at |-> "try", try |-> 1]
  /\ heard' = FALSE

(* start clamps what it is asked for.                                      *)
Clamp(x, low, high) == IF x < low THEN low ELSE IF x > high THEN high ELSE x
StartCall(n, external) ==
  Begin([op |-> IF external THEN "E" ELSE "S", rate |-> Clamp(n.rate, 1, 300),
         width |-> Clamp(n.width, 100, 65000)])

(* The first object is closed again; with the second the node starts its   *)
(* preview.                                                                *)
Found ==
  /\ link.at = "wait" /\ port > 0
  /\ port' = port - 1
  /\ \/ /\ link.opened = 1
        /\ link' = [link EXCEPT !.at = "closed"]
        /\ UNCHANGED <<node, call, heard>>
     \/ /\ link.opened = 2
        /\ link' = [link EXCEPT !.at = "ready"]
        /\ node' = [node EXCEPT !.active = TRUE]
        /\ StartCall(node, FALSE)
  /\ UNCHANGED <<box, inbox, plugged, faults, wiped, slow>>

(* Half a second without an answer, because the box still boots or has     *)
(* lost the command while it did: it asks once more, then gives up.        *)
NotFound ==
  /\ link.at = "wait" /\ port = 0 /\ Settled
  /\ link' = [link EXCEPT !.at = IF link.asked = 1 THEN "ask" ELSE "none"]
  /\ slow' = TRUE
  /\ UNCHANGED <<box, inbox, port, plugged, node, call, faults, heard, wiped>>

-----------------------------------------------------------------------------
(* The calls of start and stop.                                            *)

Return == call' = [call EXCEPT !.at = "idle"]

\* Mutant of Retry: one try too many.
RetryPast == IF call.try <= MaxTries THEN call' = [call EXCEPT !.at = "try", !.try = @ + 1]
             ELSE Return

Retry == IF call.try < MaxTries THEN call' = [call EXCEPT !.at = "try", !.try = @ + 1]
         ELSE Return

(* purge_port raises if a byte is waiting, or if the port is gone.         *)
PurgeFails ==
  /\ call.at = "try"
  /\ port > 0 \/ ~plugged
  /\ Retry
  /\ UNCHANGED <<box, inbox, port, plugged, link, node, faults, heard, wiped, slow>>

Send ==
  /\ call.at = "try" /\ port = 0 /\ plugged /\ Settled
  /\ inbox' = Append(inbox, call.cmd)
  /\ call' = [call EXCEPT !.at = "wait"]
  /\ wiped' = FALSE
  /\ UNCHANGED <<box, port, plugged, link, node, faults, heard, slow>>

(* Two bytes have come.  Nobody looks at what they say, or at whose answer *)
(* they are.                                                               *)
Acknowledged ==
  /\ call.at = "wait" /\ port > 0 /\ plugged
  /\ port' = port - 1
  /\ Return
  /\ heard' = TRUE
  /\ UNCHANGED <<box, inbox, plugged, link, node, faults, wiped, slow>>

(* read_char raises after half a second, and start tries again; the read   *)
(* of stop returns what there is.                                          *)
TimedOut ==
  /\ call.at = "wait" /\ port = 0 /\ plugged /\ Settled
  /\ Len(inbox) < BootTime
  /\ IF call.cmd.op = "X" THEN Return ELSE Retry
  /\ slow' = TRUE
  /\ UNCHANGED <<box, inbox, port, plugged, link, node, faults, heard, wiped>>

(* The port of a box that was unplugged raises, in start and in stop.      *)
PortFails ==
  /\ call.at = "wait" /\ ~plugged
  /\ Retry
  /\ UNCHANGED <<box, inbox, port, plugged, link, node, faults, heard, wiped, slow>>

-----------------------------------------------------------------------------
(* The requests of the node.                                               *)

Requested == link.at = "ready" /\ call.at = "idle" /\ Settled

(* set_global_framerate.  Preview never uses the external source.          *)
SetFramerate(rate, width, external) ==
  /\ Requested
  /\ node' = [node EXCEPT !.rate = rate, !.width = IF width = 0 THEN @ ELSE width,
                          !.ext = external]
  /\ IF node.active THEN StartCall(node', FALSE) ELSE UNCHANGED <<call, heard>>
  /\ UNCHANGED <<box, inbox, port, plugged, link, faults, wiped, slow>>

StopSync ==
  /\ Requested /\ node.active
  /\ Begin(StopPulses)
  /\ node' = [node EXCEPT !.active = FALSE]
  /\ UNCHANGED <<box, inbox, port, plugged, link, faults, wiped, slow>>

StartSync(external) ==
  /\ Requested
  /\ StartCall(node, external)
  /\ node' = [node EXCEPT !.active = TRUE]
  /\ UNCHANGED <<box, inbox, port, plugged, link, faults, wiped, slow>>

StartRecordingSync == StartSync(node.ext)
StartPreviewSync   == StartSync(FALSE)

-----------------------------------------------------------------------------
(* What can happen to a box in use.                                        *)

Fault ==
  /\ link.at = "ready" /\ plugged /\ faults < MaxFaults
  /\ faults' = faults + 1
  /\ slow' = TRUE /\ wiped' = TRUE
  /\ box' = Booting /\ inbox' = <<>>
  /\ UNCHANGED <<port, link, node, call, heard>>

Reset  == Fault /\ UNCHANGED plugged
Unplug == Fault /\ plugged' = FALSE

-----------------------------------------------------------------------------
Next ==
  \/ Serve \/ Boot
  \/ OpenPort \/ Ask \/ Found \/ NotFound
  \/ PurgeFails \/ Send \/ Acknowledged \/ TimedOut \/ PortFails
  \/ \E rate \in Rates, width \in Durations, external \in BOOLEAN :
       SetFramerate(rate, width, external)
  \/ StopSync \/ StartRecordingSync \/ StartPreviewSync
  \/ Reset \/ Unplug

Spec == Init /\ [][Next]_vars

-----------------------------------------------------------------------------
(* Every variable keeps to the states the code can put it in; a call makes *)
(* five tries at most.                                                     *)
TypeOK ==
  /\ box \in Box
  /\ inbox \in Seq(Command)
  /\ port \in Nat
  /\ plugged \in BOOLEAN
  /\ link \in Link
  /\ node \in Node
  /\ call \in Call
  /\ faults \in 0 .. MaxFaults
  /\ heard \in BOOLEAN /\ wiped \in BOOLEAN /\ slow \in BOOLEAN

Follows ==
  /\ node.active <=> box.from # {}
  /\ Cardinality(box.from) <= 1
  /\ "timer" \in box.from => box.rate = Clamp(node.rate, 1, 300)
  /\ "external" \in box.from => node.ext

(* The box does what the node believes (m_sync_active, m_global_framerate, *)
(* m_external_sync_recording) after every call that read its two bytes,    *)
(* even if they answered an earlier command or the box booted in the       *)
(* middle; and unless an answer has ever been late or the box has failed,  *)
(* every call reads its two bytes (start, stop and purge_port).            *)
BoxFollowsNode ==
  (link.at = "ready" /\ call.at = "idle" /\ box.up /\ inbox = <<>>) =>
    /\ slow \/ heard
    /\ heard /\ ~wiped => Follows

(* The framerates whose cap, (1000/freq-3)*1000, turns negative in 16 bits.*)
CapOverflows == {2, 4, 8, 9} \cup 15 .. 27

(* A pulse of the timer has ended when the next one begins, although the   *)
(* cap of start_pulse is computed in 16 bits, with one exception: it has   *)
(* not when a duration above 32767 us, which start lets through, meets a   *)
(* framerate whose cap overflows too.  That pulse would last over half a   *)
(* second; the next one restarts its timer, so that it never ends.         *)
PulseFitsPeriod ==
  "timer" \in box.from =>
    (Ticks(box.width) * box.rate < TicksPerSecond <=>
       box.asked <= 32767 \/ box.rate \notin CapOverflows)
=============================================================================
