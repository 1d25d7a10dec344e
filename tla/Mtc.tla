-------------------------------- MODULE Mtc --------------------------------
(***************************************************************************)
(* MIDI timecode as native_mtc_timecode.h computes it: the rate code of a   *)
(* project frame rate, the hours:minutes:seconds:frames label of a          *)
(* position, and the eight quarter frames and the full frame that carry a   *)
(* label to the slave.  There is no state here: the functions are pure.     *)
(*                                                                         *)
(* A frame rate is an integer number of ten-thousandths of a frame per      *)
(* second; a position is already reduced to one day and multiplied by the   *)
(* rate (lines 64-66), an integer number of millionths of a frame.  The     *)
(* rounding of binary floating point is not modelled, except that fmod      *)
(* times the rate may give the whole day: ExactFrames keeps that end point. *)
(***************************************************************************)
EXTENDS Integers

Codes == 0 .. 3
DropCode == 2

-----------------------------------------------------------------------------
(* Frame rates.                                                            *)

Million == 1000000

\* |rate - num/den| < 0.01, with rate in ten-thousandths, as halved / 2.
Near(halved, num, den) ==
  LET apart == halved * den - 20000 * num
  IN  /\ apart < 200 * den
      /\ -apart < 200 * den

\* A raw rate in ten-thousandths; rates from 47 up are counted at half rate.
\* The result is twice the counted rate, so that it stays an integer.
Halved(raw) == IF raw >= 470000 THEN raw ELSE 2 * raw

\* Outside 20..61 (and for a rate that is no number) the default stands.
Usable(raw) == raw >= 200000 /\ raw <= 610000

RateCode(raw, drop) ==
  LET r == Halved(raw)
  IN  CASE ~Usable(raw)                                -> 3
        [] Usable(raw) /\ (Near(r, 24, 1) \/ Near(r, 24000, 1001)) -> 0
        [] Usable(raw) /\ Near(r, 25, 1)               -> 1
        [] Usable(raw) /\ (Near(r, 30, 1) \/ Near(r, 30000, 1001))
                                       -> IF drop THEN DropCode ELSE 3
        [] OTHER                                       -> 3

Nominal(code) == CASE code = 0 -> 24 [] code = 1 -> 25 [] OTHER -> 30

-----------------------------------------------------------------------------
(* Frame numbers and labels.                                               *)

PerDay(code) == IF code = DropCode THEN 2589408 ELSE Nominal(code) * 86400

Frames(code) == 0 .. PerDay(code) - 1

ExactFrames(code) == 0 .. PerDay(code) * Million

\* Playback rounds down, with a millionth of tolerance; a stopped locate
\* rounds to the nearest frame.  Both wrap at the end of the day.
FrameAt(code, exact, nearest) ==
  (IF nearest THEN (exact + 500000) \div Million
              ELSE (exact + 1) \div Million) % PerDay(code)

\* Drop-frame counting: 18 labels are skipped in ten minutes, 2 at the start
\* of every minute but the first of the ten.
Renumbered(code, n) ==
  LET left == n % 17982
  IN  CASE code # DropCode -> n
        [] code = DropCode /\ left < 2 -> n + 18 * (n \div 17982)
        [] OTHER -> n + 18 * (n \div 17982) + 2 * ((left - 2) \div 1798)

Fields(code, n) ==
  LET number == Renumbered(code, n)
      total  == number \div Nominal(code)
  IN  [hour   |-> (total \div 3600) % 24,
       minute |-> (total \div 60) % 60,
       second |-> total % 60,
       frame  |-> number % Nominal(code),
       code   |-> code]

-----------------------------------------------------------------------------
(* What goes out on the wire.                                              *)

\* The nibble of quarter frame index (the index itself is the high nibble).
Nibble(f, index) ==
  CASE index = 0 -> f.frame % 16
    [] index = 1 -> (f.frame \div 16) % 2
    [] index = 2 -> f.second % 16
    [] index = 3 -> (f.second \div 16) % 4
    [] index = 4 -> f.minute % 16
    [] index = 5 -> (f.minute \div 16) % 4
    [] index = 6 -> f.hour % 16
    [] OTHER     -> ((f.hour \div 16) % 2) + 2 * (f.code % 4)

QuarterFrameData(f, quarterFrameIndex) ==
  LET index == quarterFrameIndex % 8
  IN  16 * index + Nibble(f, index)

\* One call of the MTC bridge sends up to eight quarter frames, all of the
\* label of that moment, and goes on from the index where the last call ended.
Batch(f, first, messages) ==
  [i \in first .. first + messages - 1 |-> QuarterFrameData(f, i)]

\* The four data bytes of the full frame, in the order they are sent.
FullFrame(f) ==
  <<32 * (f.code % 4) + (f.hour % 32), f.minute % 64, f.second % 64,
    f.frame % 32>>

-----------------------------------------------------------------------------
(* The reference definitions the theorems compare with: SMPTE drop-frame    *)
(* labels and their frame count, and what a slave reads back.               *)

\* Two labels of every minute but each tenth do not exist in drop-frame time.
Dropped(f) ==
  f.code = DropCode /\ f.minute % 10 # 0 /\ f.second = 0 /\ f.frame < 2

Labels(code) ==
  {f \in [hour : 0 .. 23, minute : 0 .. 59, second : 0 .. 59,
          frame : 0 .. Nominal(code) - 1, code : {code}] : ~Dropped(f)}

\* How many frames of the day a label is after midnight.
Count(f) ==
  LET minutes == 60 * f.hour + f.minute
      number  == Nominal(f.code) * (60 * minutes + f.second) + f.frame
  IN  IF f.code = DropCode THEN number - 2 * (minutes - minutes \div 10)
                           ELSE number

\* A slave joins the nibbles d[0] .. d[7] of eight quarter frames.
Joined(d) ==
  [hour   |-> d[6] + 16 * (d[7] % 2),
   minute |-> d[4] + 16 * d[5],
   second |-> d[2] + 16 * d[3],
   frame  |-> d[0] + 16 * d[1],
   code   |-> d[7] \div 2]

\* A slave reads the label of a full frame from its four data bytes.
Located(b) ==
  [hour   |-> b[1] % 32,
   minute |-> b[2],
   second |-> b[3],
   frame  |-> b[4],
   code   |-> b[1] \div 32]
=============================================================================
