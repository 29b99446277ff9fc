------------------------------ MODULE AvaReader ------------------------------
(***************************************************************************)
(* The reading of an .ava file by AvaSequenceFileReader                    *)
(* (raw_file_format_readers.py), which the jobs of the farm use on the     *)
(* files that AvaVideoWriter wrote.  The offset of a packet is its number: *)
(* packets lie one behind the other and the index follows the last one, so *)
(* the size of what is read is a number of packets.                        *)
(*                                                                         *)
(* Entries are numbered from 1; the reader numbers them from 0.            *)
(***************************************************************************)
EXTENDS AvaVideoWriter, RawDevelopment, Integers

\* The header says where the index starts: behind the last packet.
IndexOffset == Len(written) + 1

frame_count == Len(index)

\* `not self._frame_indices[frame_index]`
Missed(k) == k \in 1..frame_count /\ index[k] = Missing

\* Where the loop that skips missing frames ends, over the end of the index too.
SkipTo(frame, step) ==
  LET walk[k \in 0..frame_count + 1] == IF Missed(k) THEN walk[k + step] ELSE k
  IN  walk[frame]

\* _get_frame_offset_skip: the offset of the frame, or of the next one in the
\* direction given that is not missing; Missing (None) if there is none.
FrameOffset(frame, step) ==
  LET k == SkipTo(frame, step)
  IN  IF k \in 1..frame_count THEN index[k] ELSE Missing

Backward(frame) == FrameOffset(frame, -1)
Forward(frame)  == FrameOffset(frame, 1)

\* Mutant of NextOffset: the frame ends where the entry behind it says.
NextEntry(frame) == IF frame < frame_count THEN index[frame + 1] ELSE IndexOffset

\* The end of a frame: the next frame that is there, or the index.
NextOffset(frame) ==
  IF frame < frame_count /\ Forward(frame + 1) # Missing
  THEN Forward(frame + 1) ELSE IndexOffset

\* _compute_frame_size, in packets.
FrameSize(frame) == NextOffset(frame) - Backward(frame)

\* _read_frame: the packets a frame is decompressed from.
ReadFrame(frame) == Backward(frame) .. (Backward(frame) + FrameSize(frame) - 1)

\* _read_one_frame_16bit_linear refuses a missing frame if it is asked to.
RefusesMissing(frame) == index[frame] = Missing

-----------------------------------------------------------------------------
(* Properties.                                                             *)

\* A film played from a closed file shows one whole packet per frame, in the
\* order of the file, and every packet is shown: what the writer left out of the
\* index for a missing frame never makes the reader decompress two packets, part
\* of one or none, nor skip one, and the film lasts as long as the recording
\* (WriteIndex in video_writer_ava.cpp against _compute_frame_size in
\* raw_file_format_readers.py).
EveryPacketIsShown ==
  closer = "closed" =>
    /\ \A k \in 1..frame_count : \E p \in 1..Len(written) : ReadFrame(k) = {p}
    /\ written # <<>> => frame_count = Last(written) - Head(written) + 1
    /\ \A k \in 2..frame_count : Backward(k - 1) <= Backward(k)
    /\ \A p \in 1..Len(written) : \E k \in 1..frame_count :
         ReadFrame(k) = {p} /\ ~RefusesMissing(k)

\* What a closed file holds is developed faithfully, in every format a camera
\* records: _read_one_frame_16bit_linear gives the light that the floating point
\* development of the same samples gives, for every sample that does not overflow,
\* and none overflows that is not whiter than white (DevelopmentsAgree).
FilmIsDeveloped == (closer = "closed" /\ frame_count > 0) => DevelopmentsAgree
=============================================================================
