--------------------------- MODULE RawDevelopment ---------------------------
(***************************************************************************)
(* From the samples of a sensor to linear light, as the readers of raw     *)
(* files compute it (raw_file_format_readers.py): once in integers of 16   *)
(* bits, for films and thumbnails, and once in floating point.  One sample *)
(* of one colour; gains are in hundredths, floating point numbers are in   *)
(* units of the white of 16 bits, rounded down.                            *)
(***************************************************************************)
EXTENDS Integers

White == 65535

(* A file holds samples of 8 bits in bytes, and samples of 10, 12 or 14    *)
(* bits in words of 16.                                                    *)
Container(bits) == IF bits > 8 THEN 16 ELSE 8
Brightest(bits) == 2 ^ bits - 1

(* Black point correction: what is darker than black is black.             *)
AboveBlack(sample, black) == IF sample < black THEN 0 ELSE sample - black

\* Mutant of Aligned: the bits stay where the sensor put them.
Unaligned(light, bits) == light

(* Samples of more than 8 bits are moved to the top of their word.         *)
Aligned(light, bits) == IF bits > 8 THEN light * 2 ^ (16 - bits) ELSE light

Light(sample, black, bits) == Aligned(AboveBlack(sample, black), bits)

(* A gain as an integer, cut off as astype(np.uint32) does.                *)
Factor(gain, unit) == (unit * gain) \div 100

(* (light * factor) >> 16, without and with the 32 bits of the product.    *)
ProductTop(light, factor) ==
  (light * (factor \div 256) + (light * (factor % 256)) \div 256) \div 256
ProductTop32(light, factor) == ProductTop(light, factor) % 65536

Clipped(x) == IF x > White THEN White ELSE x

(* raw_processing_to_16bit_linear: colour of a byte, colour of a word, and *)
(* grey of either.                                                         *)
Colour8(light, gain)  == Clipped(light * Factor(gain, 255))
Colour16(light, gain) == Clipped(ProductTop32(light, Factor(gain, White)))
Grey(light, bits)     == IF Container(bits) = 8 THEN light * 256 ELSE light

To16bitLinear(sample, black, bits, gain, colour) ==
  LET light == Light(sample, black, bits)
  IN  CASE colour /\ Container(bits) = 8  -> Colour8(light, gain)
        [] colour /\ Container(bits) = 16 -> Colour16(light, gain)
        [] ~colour                        -> Grey(light, bits)

(* raw_processing_to_float32_linear, which never clips at white.           *)
ToFloatLinear(sample, black, bits, gain, colour) ==
  LET light == Light(sample, black, bits)
      unit  == IF Container(bits) = 8 THEN 257 ELSE 1
  IN  (light * unit * (IF colour THEN gain ELSE 100)) \div 100

(* AvaRawImageFileReader: an image is read once and developed both ways,   *)
(* with the depth, black level and gains that its footer names.            *)
RawFile(sample, black, bits, gain, colour) ==
  [uint16_linearRGB  |-> To16bitLinear(sample, black, bits, gain, colour),
   float32_linearRGB |-> ToFloatLinear(sample, black, bits, gain, colour)]

(* The product of a word and a gain above 1 can leave 32 bits.             *)
Overflows(sample, black, bits, gain, colour) ==
  /\ colour /\ Container(bits) = 16
  /\ ProductTop(Light(sample, black, bits), Factor(gain, White)) > White

-----------------------------------------------------------------------------
(* The depths and the default gains of the cameras, and black levels for   *)
(* TLC; samples are taken one and all.                                     *)
SampleBits  == {8, 10, 12}
SampleGains == {100, 137, 265}
SampleBlack == {0, 16}

Near(x, y) == x - y \in -White \div 100 .. White \div 100

(* The two images of a raw file show the same light, cut at white: black   *)
(* is black; while the integer product keeps to its 32 bits they differ by *)
(* less than a hundredth, and a brighter sample never comes out darker;    *)
(* and it leaves them only for what is whiter than white, where the        *)
(* 16-bit image is wrong.                                                  *)
Faithful(bits, black, gain, colour) ==
  LET Dev(s)   == RawFile(s, black, bits, gain, colour).uint16_linearRGB
      Exact(s) == ~Overflows(s, black, bits, gain, colour)
  IN  \A s \in 0 .. Brightest(bits) :
        LET float == RawFile(s, black, bits, gain, colour).float32_linearRGB
        IN  /\ s <= black => Dev(s) = 0
            /\ Exact(s) => Near(Dev(s), Clipped(float))
            /\ (Exact(s) /\ s > 0) => Dev(s - 1) <= Dev(s)
            /\ float <= White => Exact(s)

(* So for every depth a camera records in, with and without colour, and a  *)
(* full sample comes out white (AvaRawImageFileReader; films are developed *)
(* in 16 bits alone).                                                      *)
DevelopmentsAgree ==
  \A bits \in SampleBits, colour \in BOOLEAN :
    /\ Near(To16bitLinear(Brightest(bits), 0, bits, 100, colour), White)
    /\ \A gain \in SampleGains, black \in SampleBlack : Faithful(bits, black, gain, colour)
=============================================================================
