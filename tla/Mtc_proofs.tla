----------------------------- MODULE Mtc_proofs -----------------------------
(***************************************************************************)
(* What the timecode functions of Mtc guarantee, for every frame of the     *)
(* day, every position and every frame rate.                                *)
(***************************************************************************)
EXTENDS Mtc, TLAPS

-----------------------------------------------------------------------------
(* Frame rates.                                                            *)

(* A frame rate gives one of MTC's four rate codes, whatever the project    *)
(* reports (nativeMtcFrameRate's early return and its three branches).      *)
LEMMA RateCodeType ==
  ASSUME NEW raw \in Int, NEW drop \in BOOLEAN
  PROVE  RateCode(raw, drop) \in Codes
  BY DEF RateCode, Codes, DropCode

(* Drop-frame numbering is never forced: only a project that asks for it    *)
(* and counts in the family of 30 frames per second, directly or at half    *)
(* rate, gets it (nativeMtcFrameRate, the last branch).                     *)
THEOREM DropFrameOnlyOnRequest ==
  ASSUME NEW raw \in Int, NEW drop \in BOOLEAN,
         RateCode(raw, drop) = DropCode
  PROVE  /\ drop
         /\ \/ 299600 < raw /\ raw < 300100
            \/ 599200 < raw /\ raw < 600200
<1> DEFINE r == Halved(raw)
<1>1. /\ Usable(raw)
      /\ drop
      /\ Near(r, 30, 1) \/ Near(r, 30000, 1001)
  BY DEF RateCode, DropCode
<1>2. r \in Int /\ ((r = raw /\ raw >= 470000) \/ (r = 2 * raw /\ raw < 470000))
  BY DEF Halved
<1>3. 599200 < r /\ r < 600200
  BY <1>1, <1>2 DEF Near
<1> QED
  BY <1>1, <1>2, <1>3

-----------------------------------------------------------------------------
(* Positions.                                                              *)

(* The frame count of a day is a positive number.                           *)
LEMMA PerDayType ==
  ASSUME NEW code \in Codes
  PROVE  /\ Nominal(code) \in {24, 25, 30}
         /\ PerDay(code) \in {2073600, 2160000, 2589408, 2592000}
         /\ code = DropCode <=> PerDay(code) = 2589408
         /\ code # DropCode => PerDay(code) = Nominal(code) * 86400
  BY DEF Codes, Nominal, PerDay, DropCode

(* A position always gives a frame of the day, the end of the day included, *)
(* where rounding up would give a 25th hour (nativeMtcTimeFields, the       *)
(* remainder by framesPerDay).                                              *)
THEOREM FrameInDay ==
  ASSUME NEW code \in Codes, NEW exact \in ExactFrames(code),
         NEW nearest \in BOOLEAN
  PROVE  FrameAt(code, exact, nearest) \in Frames(code)
<1> DEFINE whole == IF nearest THEN (exact + 500000) \div Million
                               ELSE (exact + 1) \div Million
<1>1. exact \in Nat
  BY PerDayType DEF ExactFrames, Million
<1>2. whole \in Nat
  BY <1>1 DEF Million
<1>3. PerDay(code) \in Nat /\ PerDay(code) > 0
  BY PerDayType
<1>4. whole % PerDay(code) \in 0 .. PerDay(code) - 1
  BY <1>2, <1>3
<1> QED
  BY <1>4 DEF FrameAt, Frames

(* During playback the timecode never runs ahead of the position by more    *)
(* than the millionth of a frame of tolerance, nor behind by a frame; a     *)
(* stopped locate is at most half a frame away.  Wrapping at the end of the *)
(* day is the only exception (the floor and llround of                      *)
(* nativeMtcTimeFields).                                                    *)
THEOREM FrameNearPosition ==
  ASSUME NEW code \in Codes, NEW exact \in ExactFrames(code),
         NEW nearest \in BOOLEAN
  PROVE  LET n == FrameAt(code, exact, nearest)
             end == PerDay(code) * Million
         IN  /\ ~nearest =>
                  \/ n * Million <= exact + 1 /\ exact < (n + 1) * Million
                  \/ n = 0 /\ exact + 1 >= end
             /\ nearest =>
                  \/ n * Million <= exact + 500000
                     /\ exact + 500000 < (n + 1) * Million
                  \/ n = 0 /\ exact + 500000 >= end
<1> DEFINE whole == IF nearest THEN (exact + 500000) \div Million
                               ELSE (exact + 1) \div Million
           n == FrameAt(code, exact, nearest)
           day == PerDay(code)
<1>1. exact \in Nat /\ exact <= day * Million /\ day \in Nat /\ day > 0
  BY PerDayType DEF ExactFrames, Million
<1>2. /\ whole \in Nat
      /\ ~nearest => whole * Million <= exact + 1
                     /\ exact + 1 < (whole + 1) * Million
      /\ nearest => whole * Million <= exact + 500000
                    /\ exact + 500000 < (whole + 1) * Million
  BY <1>1 DEF Million
<1>3. whole <= day
  BY <1>1, <1>2 DEF Million
<1>4. n = whole % day
  BY DEF FrameAt
<1>5. CASE whole < day
  <2>1. n = whole
    BY <1>1, <1>2, <1>4, <1>5
  <2> QED
    BY <1>1, <1>2, <2>1 DEF Million
<1>6. CASE whole = day
  <2>1. n = 0
    BY <1>1, <1>4, <1>6
  <2> QED
    BY <1>1, <1>2, <1>6, <2>1 DEF Million
<1> QED
  BY <1>1, <1>2, <1>3, <1>5, <1>6

-----------------------------------------------------------------------------
(* Labels.                                                                 *)

(* A frame of the day is a number below the frame count of the day.         *)
LEMMA FramesType ==
  ASSUME NEW code \in Codes, NEW n
  PROVE  n \in Frames(code) <=> n \in Nat /\ n < PerDay(code)
  BY PerDayType DEF Frames

(* Frame m of ten minutes is in their minute k, the two extra frames of the *)
(* first minute set aside.                                                  *)
InMinute(k, m) ==
  k \in 0 .. 9 /\ 1798 * k + 2 <= m /\ m < 1798 * k + 1800

(* The complete minutes of the current ten, past the two extra frames of    *)
(* the first.                                                               *)
LEMMA MinutesOfTen ==
  ASSUME NEW m \in Nat, m >= 2, m < 17982
  PROVE  LET k == (m - 2) \div 1798
         IN  InMinute(k, m)
<1>1. \A j \in Nat : j < 17980 =>
        LET k == j \div 1798
        IN  k \in 0 .. 9 /\ 1798 * k <= j /\ j < 1798 * k + 1798
  OBVIOUS
<1>2. m - 2 \in Nat /\ m - 2 < 17980
  OBVIOUS
<1> DEFINE k == (m - 2) \div 1798
<1>3. k \in 0 .. 9 /\ 1798 * k <= m - 2 /\ m - 2 < 1798 * k + 1798
  BY <1>1, <1>2
<1> HIDE DEF k
<1>4. k \in 0 .. 9 /\ 1798 * k + 2 <= m /\ m < 1798 * k + 1800
  BY <1>3
<1> QED
  BY <1>4 DEF k, InMinute

(* Drop-frame numbering in closed form: q tens of minutes are complete, and *)
(* k minutes of the current ten, the first excepted (nativeMtcTimeFields,   *)
(* tenMinuteBlocks and remainder).                                          *)
LEMMA DropForm ==
  ASSUME NEW n \in Frames(DropCode)
  PROVE  LET q == n \div 17982
             m == n % 17982
             k == IF m < 2 THEN 0 ELSE (m - 2) \div 1798
         IN  /\ q \in 0 .. 143 /\ k \in 0 .. 9 /\ m \in Nat /\ m < 17982
             /\ n = 17982 * q + m
             /\ Renumbered(DropCode, n) = n + 18 * q + 2 * k
             /\ k = 0 => m < 1800
             /\ k > 0 => 1798 * k + 2 <= m /\ m < 1798 * k + 1800
<1> DEFINE q == n \div 17982
           m == n % 17982
           k == IF m < 2 THEN 0 ELSE (m - 2) \div 1798
<1>1. n \in Nat /\ n < 2589408
  <2>1. DropCode \in Codes
    BY DEF DropCode, Codes
  <2> QED
    BY <2>1, FramesType, PerDayType
<1>2. q \in 0 .. 143 /\ m \in Nat /\ m < 17982 /\ n = 17982 * q + m
  BY <1>1
<1>3. /\ k \in 0 .. 9
      /\ k = 0 => m < 1800
      /\ k > 0 => 1798 * k + 2 <= m /\ m < 1798 * k + 1800
  <2> HIDE DEF m
  <2>1. CASE m < 2
    BY <2>1, <1>2
  <2>2. CASE m >= 2
    <3>1. k = (m - 2) \div 1798
      BY <2>2, <1>2
    <3> HIDE DEF k
    <3>2. InMinute((m - 2) \div 1798, m)
      BY <2>2, <1>2, MinutesOfTen
    <3> QED
      BY <3>1, <3>2, <1>2 DEF InMinute
  <2> QED
    BY <2>1, <2>2, <1>2
<1>4. Renumbered(DropCode, n) = n + 18 * q + 2 * k
  <2>1. CASE m < 2
    BY <2>1, <1>2 DEF Renumbered
  <2>2. CASE m >= 2
    BY <2>2, <1>2 DEF Renumbered
  <2> QED
    BY <2>1, <2>2, <1>2
<1> HIDE DEF q, m, k
<1>5. /\ q \in 0 .. 143 /\ k \in 0 .. 9 /\ m \in Nat /\ m < 17982
      /\ n = 17982 * q + m
      /\ Renumbered(DropCode, n) = n + 18 * q + 2 * k
      /\ k = 0 => m < 1800
      /\ k > 0 => 1798 * k + 2 <= m /\ m < 1798 * k + 1800
  BY <1>2, <1>3, <1>4
<1> QED
  BY <1>5 DEF q, m, k

(* The number a frame is labelled with stays within a day of labels.        *)
LEMMA RenumberedType ==
  ASSUME NEW code \in Codes, NEW n \in Frames(code)
  PROVE  /\ Renumbered(code, n) \in Nat
         /\ Renumbered(code, n) < Nominal(code) * 86400
<1>1. CASE code = DropCode
  <2> DEFINE q == n \div 17982
             m == n % 17982
             k == IF m < 2 THEN 0 ELSE (m - 2) \div 1798
             number == Renumbered(DropCode, n)
  <2>1. /\ q \in 0 .. 143 /\ k \in 0 .. 9 /\ m \in Nat /\ m < 17982
        /\ n = 17982 * q + m
        /\ number = n + 18 * q + 2 * k
    BY <1>1, DropForm
  <2>2. Nominal(code) = 30
    BY <1>1 DEF Nominal, DropCode
  <2> HIDE DEF q, m, k, number
  <2>3. number \in Nat /\ number < 2592000
    BY <2>1
  <2> QED
    BY <1>1, <2>2, <2>3 DEF number
<1>2. CASE code # DropCode
  BY <1>2, PerDayType DEF Renumbered, Frames
<1> QED
  BY <1>1, <1>2

(* Division and remainder under names the proofs can leave unexpanded.      *)
Quot(a, b) == a \div b
Rem(a, b) == a % b

(* A number of seconds below a day is its hours, minutes and seconds.       *)
LEMMA Clock ==
  ASSUME NEW total \in Nat, total < 86400
  PROVE  /\ Rem(Quot(total, 3600), 24) \in 0 .. 23
         /\ Rem(Quot(total, 60), 60) \in 0 .. 59
         /\ Rem(total, 60) \in 0 .. 59
         /\ total = 60 * (60 * Rem(Quot(total, 3600), 24)
                           + Rem(Quot(total, 60), 60)) + Rem(total, 60)
<1> DEFINE a == Quot(total, 60)
           s == Rem(total, 60)
           h == Quot(total, 3600)
           b == Quot(a, 60)
           m == Rem(a, 60)
<1>1. a \in Nat /\ a < 1440 /\ s \in 0 .. 59 /\ total = 60 * a + s
  BY DEF Quot, Rem
<1>2. h \in 0 .. 23 /\ 3600 * h <= total /\ total < 3600 * h + 3600
  BY DEF Quot
<1> HIDE DEF a, s, h
<1>3. b \in 0 .. 23 /\ m \in 0 .. 59 /\ a = 60 * b + m
  BY <1>1 DEF Quot, Rem
<1> HIDE DEF b, m
<1>4. h = b
  BY <1>1, <1>2, <1>3
<1>5. Rem(h, 24) = h
  BY <1>2 DEF Rem
<1>6. /\ Rem(h, 24) \in 0 .. 23
      /\ m \in 0 .. 59
      /\ s \in 0 .. 59
      /\ total = 60 * (60 * Rem(h, 24) + m) + s
  BY <1>1, <1>2, <1>3, <1>4, <1>5
<1> QED
  BY <1>6 DEF h, m, a, s

(* A number of frames is so many seconds, less than a day, and frames.      *)
IsSplit(nom, number, total, r) ==
  /\ total \in Nat /\ total < 86400
  /\ r \in 0 .. nom - 1
  /\ number = nom * total + r

(* A number of frames below a day is its seconds and frames.                *)
LEMMA WholeSeconds ==
  ASSUME NEW nom \in {24, 25, 30}, NEW number \in Nat,
         number < nom * 86400
  PROVE  IsSplit(nom, number, Quot(number, nom), Rem(number, nom))
<1>1. CASE nom = 24
  <2>1. /\ Quot(number, 24) \in Nat /\ Quot(number, 24) < 86400
        /\ Rem(number, 24) \in 0 .. 23
        /\ number = 24 * Quot(number, 24) + Rem(number, 24)
    BY <1>1 DEF Quot, Rem
  <2> QED
    BY <1>1, <2>1 DEF IsSplit
<1>2. CASE nom = 25
  <2>1. /\ Quot(number, 25) \in Nat /\ Quot(number, 25) < 86400
        /\ Rem(number, 25) \in 0 .. 24
        /\ number = 25 * Quot(number, 25) + Rem(number, 25)
    BY <1>2 DEF Quot, Rem
  <2> QED
    BY <1>2, <2>1 DEF IsSplit
<1>3. CASE nom = 30
  <2>1. /\ Quot(number, 30) \in Nat /\ Quot(number, 30) < 86400
        /\ Rem(number, 30) \in 0 .. 29
        /\ number = 30 * Quot(number, 30) + Rem(number, 30)
    BY <1>3 DEF Quot, Rem
  <2> QED
    BY <1>3, <2>1 DEF IsSplit
<1> QED
  BY <1>1, <1>2, <1>3

(* The fields of a label are in range and say the number they come from     *)
(* (the divisions and remainders that end nativeMtcTimeFields).             *)
LEMMA FieldsForm ==
  ASSUME NEW code \in Codes, NEW n \in Frames(code)
  PROVE  LET f == Fields(code, n)
         IN  /\ f \in [hour : 0 .. 23, minute : 0 .. 59, second : 0 .. 59,
                        frame : 0 .. Nominal(code) - 1, code : {code}]
             /\ Renumbered(code, n) =
                  Nominal(code) * (60 * (60 * f.hour + f.minute) + f.second)
                    + f.frame
<1> DEFINE number == Renumbered(code, n)
           nom == Nominal(code)
           total == Quot(number, nom)
           h == Rem(Quot(total, 3600), 24)
           m == Rem(Quot(total, 60), 60)
           s == Rem(total, 60)
           r == Rem(number, nom)
           f == Fields(code, n)
<1>1. /\ number \in Nat
      /\ nom \in {24, 25, 30}
      /\ number < nom * 86400
  BY RenumberedType, PerDayType
<1>2. f = [hour |-> h, minute |-> m, second |-> s, frame |-> r, code |-> code]
  BY DEF Fields, Quot, Rem
<1> HIDE DEF number, nom, f
<1> HIDE DEF total
<1>3. /\ total \in Nat /\ total < 86400
      /\ r \in 0 .. nom - 1
      /\ number = nom * total + r
  <2>1. IsSplit(nom, number, total, r)
    BY <1>1, WholeSeconds DEF total
  <2> HIDE DEF r
  <2> QED
    BY <2>1 DEF IsSplit
<1>4. /\ h \in 0 .. 23 /\ m \in 0 .. 59 /\ s \in 0 .. 59
      /\ total = 60 * (60 * h + m) + s
  BY <1>3, Clock
<1> HIDE DEF h, m, s, r
<1>5. /\ f \in [hour : 0 .. 23, minute : 0 .. 59, second : 0 .. 59,
                 frame : 0 .. nom - 1, code : {code}]
      /\ f.hour = h /\ f.minute = m /\ f.second = s /\ f.frame = r
  BY <1>2, <1>3, <1>4
<1>6. number = nom * (60 * (60 * f.hour + f.minute) + f.second) + f.frame
  BY <1>3, <1>4, <1>5
<1> QED
  BY <1>5, <1>6 DEF number, nom, f

(* The number of a label: the frames of a day in which no label is skipped. *)
Number(code, f) ==
  Nominal(code) * (60 * (60 * f.hour + f.minute) + f.second) + f.frame

(* Every combination of fields in range, the skipped labels included.       *)
AllLabels(code) ==
  [hour : 0 .. 23, minute : 0 .. 59, second : 0 .. 59,
   frame : 0 .. Nominal(code) - 1, code : {code}]

(* FieldsForm, with its two formulas named.                                 *)
LEMMA FieldsNumber ==
  ASSUME NEW code \in Codes, NEW n \in Frames(code)
  PROVE  /\ Fields(code, n) \in AllLabels(code)
         /\ Number(code, Fields(code, n)) = Renumbered(code, n)
  BY FieldsForm DEF Number, AllLabels

(* Two labels with the same number are the same label.                      *)
LEMMA NumberUnique ==
  ASSUME NEW code \in Codes,
         NEW f \in AllLabels(code), NEW g \in AllLabels(code),
         Number(code, f) = Number(code, g)
  PROVE  f = g
<1> DEFINE nom == Nominal(code)
<1>1. nom \in {24, 25, 30}
  BY PerDayType
<1>2. /\ f = [hour |-> f.hour, minute |-> f.minute, second |-> f.second,
              frame |-> f.frame, code |-> code]
      /\ g = [hour |-> g.hour, minute |-> g.minute, second |-> g.second,
              frame |-> g.frame, code |-> code]
  BY DEF AllLabels
<1> DEFINE fh == f.hour  fm == f.minute  fs == f.second  ff == f.frame
           gh == g.hour  gm == g.minute  gs == g.second  gf == g.frame
<1>3. /\ fh \in 0 .. 23 /\ fm \in 0 .. 59 /\ fs \in 0 .. 59
      /\ gh \in 0 .. 23 /\ gm \in 0 .. 59 /\ gs \in 0 .. 59
      /\ ff \in 0 .. nom - 1 /\ gf \in 0 .. nom - 1
  BY DEF AllLabels
<1> DEFINE a == 60 * (60 * fh + fm) + fs
           b == 60 * (60 * gh + gm) + gs
<1>4. nom * a + ff = nom * b + gf
  BY DEF Number
<1> HIDE DEF nom, fh, fm, fs, ff, gh, gm, gs, gf
<1>5. a \in Nat /\ b \in Nat
  BY <1>3
<1>6. a = b /\ ff = gf
  <2> HIDE DEF a, b
  <2>1. CASE nom = 24
    BY <2>1, <1>3, <1>4, <1>5
  <2>2. CASE nom = 25
    BY <2>2, <1>3, <1>4, <1>5
  <2>3. CASE nom = 30
    BY <2>3, <1>3, <1>4, <1>5
  <2> QED
    BY <2>1, <2>2, <2>3, <1>1
<1>7. fh = gh /\ fm = gm /\ fs = gs
  BY <1>3, <1>6
<1> QED
  BY <1>2, <1>6, <1>7 DEF fh, fm, fs, ff, gh, gm, gs, gf

(* The minutes since midnight of a drop-frame label, and how far into its   *)
(* minute it is.                                                            *)
Minutes(f) == 60 * f.hour + f.minute
Within(f) == 30 * f.second + f.frame

\* A drop-frame label by its minutes and the frames within the minute.
LEMMA MinutesType ==
  ASSUME NEW f \in AllLabels(DropCode)
  PROVE  /\ Minutes(f) \in Nat /\ Minutes(f) < 1440
         /\ Within(f) \in Nat /\ Within(f) < 1800
         /\ Number(DropCode, f) = 1800 * Minutes(f) + Within(f)
         /\ Minutes(f) % 10 = f.minute % 10
         /\ Within(f) < 2 <=> f.second = 0 /\ f.frame < 2
         /\ f.code = DropCode
<1>1. Nominal(DropCode) = 30
  BY DEF Nominal, DropCode
<1> DEFINE h == f.hour  m == f.minute  s == f.second  r == f.frame
           number == Number(DropCode, f)
<1>2. h \in 0 .. 23 /\ m \in 0 .. 59 /\ s \in 0 .. 59 /\ r \in 0 .. 29
  BY <1>1 DEF AllLabels
<1>3. f.code = DropCode
  BY DEF AllLabels
<1>4. number = 30 * (60 * (60 * h + m) + s) + r
  BY <1>1 DEF Number
<1> HIDE DEF h, m, s, r, number
<1> DEFINE a == 60 * h + m
           w == 30 * s + r
<1>5. /\ a \in Nat /\ a < 1440
      /\ w \in Nat /\ w < 1800
      /\ number = 1800 * a + w
      /\ a % 10 = m % 10
      /\ w < 2 <=> s = 0 /\ r < 2
  BY <1>2, <1>4
<1>6. a = Minutes(f) /\ w = Within(f)
  BY DEF h, m, s, r, Minutes, Within
<1> HIDE DEF a, w
<1> QED
  BY <1>3, <1>5, <1>6 DEF m, s, r, number

(* In drop-frame time the tens of minutes and the minutes that the counting *)
(* adds labels for are those of the label it arrives at, and that label is  *)
(* none of the skipped ones.                                                *)
LEMMA DropMinutes ==
  ASSUME NEW n \in Frames(DropCode)
  PROVE  LET f == Fields(DropCode, n)
         IN  /\ n = Number(DropCode, f) - 2 * (Minutes(f) - Minutes(f) \div 10)
             /\ Minutes(f) % 10 # 0 => Within(f) >= 2
<1> DEFINE f == Fields(DropCode, n)
           q == n \div 17982
           m == n % 17982
           k == IF m < 2 THEN 0 ELSE (m - 2) \div 1798
           number == Renumbered(DropCode, n)
<1>1. DropCode \in Codes
  BY DEF DropCode, Codes
<1>2. /\ q \in 0 .. 143 /\ k \in 0 .. 9 /\ m \in Nat /\ m < 17982
      /\ n = 17982 * q + m
      /\ number = n + 18 * q + 2 * k
      /\ k = 0 => m < 1800
      /\ k > 0 => 1798 * k + 2 <= m /\ m < 1798 * k + 1800
  BY DropForm
<1>3. f \in AllLabels(DropCode) /\ Number(DropCode, f) = number
  BY <1>1, FieldsNumber
<1> HIDE DEF f, q, m, k, number
<1> DEFINE a == Minutes(f)
           w == Within(f)
<1>4. a \in Nat /\ w \in Nat /\ w < 1800 /\ number = 1800 * a + w
  BY <1>3, MinutesType
<1> HIDE DEF a, w
<1>5. a = 10 * q + k /\ w = m + 2 * k - 1800 * k
  BY <1>2, <1>4
<1>6. a \div 10 = q /\ a % 10 = k
  BY <1>2, <1>4, <1>5
<1>7. n = number - 2 * (a - a \div 10)
  BY <1>2, <1>5, <1>6
<1>8. a % 10 # 0 => w >= 2
  BY <1>2, <1>5, <1>6
<1> QED
  BY <1>3, <1>7, <1>8 DEF a, w, f

(* The frame count of a label, by its number.                               *)
LEMMA CountForm ==
  ASSUME NEW code \in Codes, NEW f \in AllLabels(code)
  PROVE  /\ code = DropCode =>
              Count(f) = Number(code, f) - 2 * (Minutes(f) - Minutes(f) \div 10)
         /\ code # DropCode => Count(f) = Number(code, f)
<1>1. f.code = code
  BY DEF AllLabels
<1> QED
  BY <1>1 DEF Count, Number, Minutes

(* A label is one of AllLabels that drop-frame time does not skip.          *)
LEMMA LabelsForm ==
  ASSUME NEW code \in Codes, NEW f
  PROVE  f \in Labels(code) <=> f \in AllLabels(code) /\ ~Dropped(f)
  BY DEF Labels, AllLabels

(* Every frame of the day gets a label that exists - hour, minute, second   *)
(* and frame in range, none of the two labels skipped at the start of a     *)
(* minute in drop-frame time - and the label says how many frames have      *)
(* passed since midnight (nativeMtcTimeFields against the definition of     *)
(* SMPTE time).                                                             *)
THEOREM LabelCountsFrames ==
  ASSUME NEW code \in Codes, NEW n \in Frames(code)
  PROVE  /\ Fields(code, n) \in Labels(code)
         /\ Count(Fields(code, n)) = n
<1> DEFINE f == Fields(code, n)
<1>1. f \in AllLabels(code) /\ Number(code, f) = Renumbered(code, n)
  BY FieldsNumber
<1>2. CASE code = DropCode
  <2>1. /\ n = Number(DropCode, f) - 2 * (Minutes(f) - Minutes(f) \div 10)
        /\ Minutes(f) % 10 # 0 => Within(f) >= 2
    BY <1>2, DropMinutes
  <2>2. /\ Minutes(f) % 10 = f.minute % 10
        /\ Within(f) < 2 <=> f.second = 0 /\ f.frame < 2
        /\ Within(f) \in Nat
    BY <1>1, <1>2, MinutesType
  <2> HIDE DEF f
  <2>3. ~Dropped(f)
    <3>1. ~(Within(f) >= 2 /\ Within(f) < 2)
      BY <2>2
    <3> QED
      BY <3>1, <2>1, <2>2 DEF Dropped
  <2>4. Count(f) = n
    BY <1>1, <1>2, <2>1, CountForm
  <2> QED
    BY <1>1, <2>3, <2>4, LabelsForm DEF f
<1>3. CASE code # DropCode
  <2>1. f.code = code
    BY <1>1 DEF AllLabels
  <2>2. ~Dropped(f)
    BY <1>3, <2>1 DEF Dropped
  <2>3. Count(f) = n
    BY <1>1, <1>3, CountForm DEF Renumbered
  <2> QED
    BY <1>1, <2>2, <2>3, LabelsForm
<1> QED
  BY <1>2, <1>3

(* Two different frames of the day never share a label: the slave can       *)
(* follow every one of them.                                                *)
THEOREM LabelsDistinct ==
  ASSUME NEW code \in Codes, NEW m \in Frames(code), NEW n \in Frames(code),
         Fields(code, m) = Fields(code, n)
  PROVE  m = n
<1>1. Count(Fields(code, m)) = m /\ Count(Fields(code, n)) = n
  BY LabelCountsFrames
<1> QED
  BY <1>1

(* Minute a of the day and the w frames of it a label that exists counts,   *)
(* and n, the frames since midnight.                                        *)
IsDropCount(n, a, w) ==
  /\ n = 1800 * a + w - 2 * (a - a \div 10)
  /\ a % 10 # 0 => w >= 2

(* The drop-frame number of a label that exists, from its frame count: the  *)
(* converse of DropMinutes.                                                 *)
LEMMA DropConverse ==
  ASSUME NEW a \in Nat, a < 1440, NEW w \in Nat, w < 1800,
         NEW n, IsDropCount(n, a, w)
  PROVE  /\ n \in Nat /\ n < 2589408
         /\ Renumbered(DropCode, n) = 1800 * a + w
<1> DEFINE q == a \div 10
           k == a % 10
           m == 1798 * k + w
<1>1. q \in 0 .. 143 /\ k \in 0 .. 9 /\ a = 10 * q + k
  OBVIOUS
<1>2. (k # 0 => w >= 2) /\ n = 1800 * a + w - 2 * (a - q)
  BY DEF IsDropCount
<1> HIDE DEF q, k
<1>3. m \in Nat /\ m < 17982 /\ n = 17982 * q + m
  BY <1>1, <1>2
<1>4. m < 2 => k = 0
  BY <1>1, <1>2
<1>5. m >= 2 => (m - 2) \div 1798 = k
  <2>1. CASE k = 0
    BY <2>1
  <2>2. CASE k # 0
    <3>1. m - 2 = 1798 * k + (w - 2) /\ w - 2 \in Nat /\ w - 2 < 1798
      BY <1>1, <1>2, <2>2
    <3> QED
      BY <1>1, <3>1
  <2> QED
    BY <2>1, <2>2
<1> HIDE DEF m
<1>6. n \in Nat /\ n < 2589408
  BY <1>1, <1>3
<1>7. n \div 17982 = q /\ n % 17982 = m
  BY <1>1, <1>3
<1>8. Renumbered(DropCode, n) = n + 18 * q + 2 * k
  <2>1. CASE m < 2
    BY <2>1, <1>1, <1>3, <1>4, <1>6, <1>7 DEF Renumbered
  <2>2. CASE m >= 2
    BY <2>2, <1>1, <1>3, <1>5, <1>6, <1>7 DEF Renumbered
  <2> QED
    BY <2>1, <2>2, <1>3
<1>9. n + 18 * q + 2 * k = 1800 * a + w
  BY <1>1, <1>2
<1> QED
  BY <1>6, <1>8, <1>9

(* Every label that exists is sent for some frame of the day, the one it    *)
(* counts: the timecode skips nothing but the labels SMPTE skips.           *)
THEOREM EveryLabelReached ==
  ASSUME NEW code \in Codes, NEW f \in Labels(code)
  PROVE  /\ Count(f) \in Frames(code)
         /\ Fields(code, Count(f)) = f
<1> DEFINE n == Count(f)
<1>1. f \in AllLabels(code) /\ ~Dropped(f)
  BY LabelsForm
<1>2. CASE code = DropCode
  <2> DEFINE a == Minutes(f)
             w == Within(f)
  <2>1. /\ a \in Nat /\ a < 1440
        /\ w \in Nat /\ w < 1800
        /\ Number(DropCode, f) = 1800 * a + w
        /\ a % 10 = f.minute % 10
        /\ w < 2 <=> f.second = 0 /\ f.frame < 2
        /\ f.code = DropCode
    BY <1>1, <1>2, MinutesType
  <2>2. n = Number(DropCode, f) - 2 * (a - a \div 10)
    BY <1>1, <1>2, CountForm
  <2> HIDE DEF a, w, n
  <2>3. a % 10 # 0 => w >= 2
    <3>1. a % 10 # 0 => ~(w < 2)
      BY <1>1, <2>1 DEF Dropped
    <3> QED
      BY <2>1, <3>1
  <2>4. IsDropCount(n, a, w)
    BY <2>1, <2>2, <2>3 DEF IsDropCount
  <2>5. n \in Nat /\ n < 2589408 /\ Renumbered(DropCode, n) = 1800 * a + w
    BY <2>1, <2>4, DropConverse
  <2>6. n \in Frames(code)
    <3>1. PerDay(code) = 2589408
      BY <1>2, PerDayType
    <3> QED
      BY <2>5, <3>1, FramesType
  <2>7. Number(code, Fields(code, n)) = Number(code, f)
    BY <1>2, <2>1, <2>5, <2>6, FieldsNumber
  <2>8. Fields(code, n) \in AllLabels(code)
    BY <2>6, FieldsNumber
  <2>9. Fields(code, n) = f
    BY <1>1, <2>7, <2>8, NumberUnique
  <2> QED
    BY <2>6, <2>9 DEF n
<1>3. CASE code # DropCode
  <2>1. n = Number(code, f)
    BY <1>1, <1>3, CountForm
  <2>2. n \in Frames(code)
    <3> DEFINE h == f.hour  m == f.minute  s == f.second  r == f.frame
               nom == Nominal(code)
    <3>1. /\ h \in 0 .. 23 /\ m \in 0 .. 59 /\ s \in 0 .. 59
          /\ r \in 0 .. nom - 1
      BY <1>1 DEF AllLabels
    <3>2. n = nom * (60 * (60 * h + m) + s) + r
      BY <2>1 DEF Number
    <3>3. nom \in {24, 25, 30} /\ PerDay(code) = nom * 86400
      BY <1>3, PerDayType
    <3> HIDE DEF h, m, s, r, nom, n
    <3> DEFINE t == 60 * (60 * h + m) + s
    <3>4. t \in Nat /\ t < 86400
      BY <3>1
    <3>5. n = nom * t + r
      BY <3>2
    <3> HIDE DEF t
    <3>6. n \in Nat /\ n < nom * 86400
      <4>1. CASE nom = 24
        BY <4>1, <3>1, <3>4, <3>5
      <4>2. CASE nom = 25
        BY <4>2, <3>1, <3>4, <3>5
      <4>3. CASE nom = 30
        BY <4>3, <3>1, <3>4, <3>5
      <4> QED
        BY <4>1, <4>2, <4>3, <3>3
    <3> QED
      BY <3>3, <3>6 DEF Frames
  <2> HIDE DEF n
  <2>3. Renumbered(code, n) = n
    BY <1>3 DEF Renumbered
  <2>4. Number(code, Fields(code, n)) = Number(code, f)
    BY <2>1, <2>2, <2>3, FieldsNumber
  <2>5. Fields(code, n) = f
    BY <1>1, <2>2, <2>4, FieldsNumber, NumberUnique
  <2> QED
    BY <2>2, <2>5 DEF n
<1> QED
  BY <1>2, <1>3

(* A drop-frame label follows the clock: read as hours, minutes, seconds    *)
(* and thirtieths of a second, it is never more than 0.06 s behind nor      *)
(* 0.147 s ahead of the real time of its frame, over the whole day (the     *)
(* unit is a thirty-thousandth of a second; a frame lasts 1001 of them).    *)
THEOREM DropFrameFollowsClock ==
  ASSUME NEW n \in Frames(DropCode)
  PROVE  LET ahead == 1000 * Number(DropCode, Fields(DropCode, n)) - 1001 * n
         IN  -1799 <= ahead /\ ahead <= 4390
<1> DEFINE q == n \div 17982
           m == n % 17982
           k == IF m < 2 THEN 0 ELSE (m - 2) \div 1798
           number == Number(DropCode, Fields(DropCode, n))
<1>1. DropCode \in Codes
  BY DEF DropCode, Codes
<1>2. number = Renumbered(DropCode, n)
  BY <1>1, FieldsNumber
<1>3. /\ q \in 0 .. 143 /\ k \in 0 .. 9 /\ m \in Nat /\ m < 17982
      /\ n = 17982 * q + m
      /\ Renumbered(DropCode, n) = n + 18 * q + 2 * k
      /\ k = 0 => m < 1800
      /\ k > 0 => 1798 * k + 2 <= m /\ m < 1798 * k + 1800
  BY DropForm
<1> HIDE DEF q, m, k, number
<1>4. 1000 * number - 1001 * n = 18 * q + 2000 * k - m
  BY <1>2, <1>3
<1>5. -1799 <= 18 * q + 2000 * k - m /\ 18 * q + 2000 * k - m <= 4390
  BY <1>3
<1> QED
  BY <1>4, <1>5 DEF number

-----------------------------------------------------------------------------
(* What goes out on the wire.                                              *)

(* The five fields of a label as bounded integers.                          *)
LEMMA LabelBounds ==
  ASSUME NEW code \in Codes, NEW f \in AllLabels(code)
  PROVE  /\ f.hour \in 0 .. 23 /\ f.minute \in 0 .. 59
         /\ f.second \in 0 .. 59 /\ f.frame \in 0 .. 29
         /\ f.code \in 0 .. 3
         /\ f = [hour |-> f.hour, minute |-> f.minute, second |-> f.second,
                 frame |-> f.frame, code |-> f.code]
<1>1. Nominal(code) \in {24, 25, 30}
  BY PerDayType
<1>2. /\ f.hour \in 0 .. 23 /\ f.minute \in 0 .. 59
      /\ f.second \in 0 .. 59 /\ f.frame \in 0 .. Nominal(code) - 1
      /\ f.code \in 0 .. 3
      /\ f = [hour |-> f.hour, minute |-> f.minute, second |-> f.second,
              frame |-> f.frame, code |-> f.code]
  BY DEF AllLabels, Codes
<1>3. f.frame \in 0 .. 29
  BY <1>1, <1>2
<1> QED
  BY <1>2, <1>3

(* The eight quarter frames carry the label, rate code included, and each   *)
(* names its place in the high nibble: a slave that joins them reads the    *)
(* label that was sent (nativeMtcQuarterFrameData).                         *)
THEOREM QuarterFramesCarryLabel ==
  ASSUME NEW code \in Codes, NEW f \in AllLabels(code)
  PROVE  /\ \A i \in 0 .. 7 : QuarterFrameData(f, i) \div 16 = i
         /\ Joined([i \in 0 .. 7 |-> QuarterFrameData(f, i) % 16]) = f
<1> DEFINE h == f.hour  m == f.minute  s == f.second  r == f.frame  c == f.code
           d == [i \in 0 .. 7 |-> QuarterFrameData(f, i) % 16]
<1>1. /\ h \in 0 .. 23 /\ m \in 0 .. 59 /\ s \in 0 .. 59
      /\ r \in 0 .. 29 /\ c \in 0 .. 3
      /\ f = [hour |-> h, minute |-> m, second |-> s, frame |-> r, code |-> c]
  BY LabelBounds
<1>2. /\ Nibble(f, 0) = r % 16
      /\ Nibble(f, 1) = (r \div 16) % 2
      /\ Nibble(f, 2) = s % 16
      /\ Nibble(f, 3) = (s \div 16) % 4
      /\ Nibble(f, 4) = m % 16
      /\ Nibble(f, 5) = (m \div 16) % 4
      /\ Nibble(f, 6) = h % 16
      /\ Nibble(f, 7) = ((h \div 16) % 2) + 2 * (c % 4)
  BY DEF Nibble
<1> HIDE DEF h, m, s, r, c
<1>3. \A i \in 0 .. 7 : Nibble(f, i) \in 0 .. 15
  <2>1. \A x \in 0 .. 59 : x % 16 \in 0 .. 15 /\ (x \div 16) % 4 \in 0 .. 15
                          /\ (x \div 16) % 2 \in 0 .. 1
    OBVIOUS
  <2>2. 2 * (c % 4) \in 0 .. 6
    BY <1>1
  <2>3. /\ Nibble(f, 0) \in 0 .. 15 /\ Nibble(f, 1) \in 0 .. 15
        /\ Nibble(f, 2) \in 0 .. 15 /\ Nibble(f, 3) \in 0 .. 15
    BY <1>1, <1>2, <2>1
  <2>4. /\ Nibble(f, 4) \in 0 .. 15 /\ Nibble(f, 5) \in 0 .. 15
        /\ Nibble(f, 6) \in 0 .. 15 /\ Nibble(f, 7) \in 0 .. 15
    BY <1>1, <1>2, <2>1, <2>2
  <2> QED
    BY <2>3, <2>4
<1>4. \A i \in 0 .. 7 : /\ QuarterFrameData(f, i) = 16 * i + Nibble(f, i)
                       /\ QuarterFrameData(f, i) \div 16 = i
                       /\ QuarterFrameData(f, i) % 16 = Nibble(f, i)
  <2> TAKE i \in 0 .. 7
  <2>1. i % 8 = i
    OBVIOUS
  <2>2. QuarterFrameData(f, i) = 16 * i + Nibble(f, i)
    BY <2>1 DEF QuarterFrameData
  <2> DEFINE x == Nibble(f, i)
  <2>3. x \in 0 .. 15
    BY <1>3
  <2> HIDE DEF x
  <2>4. (16 * i + x) \div 16 = i /\ (16 * i + x) % 16 = x
    BY <2>3
  <2> QED
    BY <2>2, <2>4 DEF x
<1>5. /\ d[0] = r % 16 /\ d[1] = (r \div 16) % 2
      /\ d[2] = s % 16 /\ d[3] = (s \div 16) % 4
      /\ d[4] = m % 16 /\ d[5] = (m \div 16) % 4
      /\ d[6] = h % 16 /\ d[7] = ((h \div 16) % 2) + 2 * (c % 4)
  BY <1>2, <1>4
<1> HIDE DEF d
<1>6. /\ (r % 16) + 16 * ((r \div 16) % 2) = r
      /\ (s % 16) + 16 * ((s \div 16) % 4) = s
      /\ (m % 16) + 16 * ((m \div 16) % 4) = m
  BY <1>1
<1>7. /\ (h % 16) + 16 * ((((h \div 16) % 2) + 2 * (c % 4)) % 2) = h
      /\ (((h \div 16) % 2) + 2 * (c % 4)) \div 2 = c
  BY <1>1
<1>8. Joined(d) = [hour |-> h, minute |-> m, second |-> s, frame |-> r,
                   code |-> c]
  BY <1>5, <1>6, <1>7 DEF Joined
<1> QED
  BY <1>1, <1>4, <1>8 DEF d

(* What can go wrong between two calls of the MTC bridge: each call takes   *)
(* the label anew, so a slave may join four quarter frames of one call with *)
(* four of the next.  When the minute changed in between, what it reads has *)
(* the seconds and frames of the old label and the minute of the new one: a *)
(* whole minute ahead of the old label (nativeMtcBridgeTickOnMainThread     *)
(* computes fields once a call and keeps quarterFrameIndex).                *)
THEOREM SplitQuarterFramesJump ==
  ASSUME NEW code \in Codes,
         NEW f \in AllLabels(code), NEW g \in AllLabels(code),
         g.hour = f.hour, g.minute = f.minute + 1
  PROVE  LET sent == [i \in 0 .. 7 |-> IF i < 4 THEN Batch(f, 0, 4)[i]
                                                ELSE Batch(g, 4, 4)[i]]
             read == Joined([i \in 0 .. 7 |-> sent[i] % 16])
         IN  /\ read = [f EXCEPT !.minute = f.minute + 1]
             /\ Number(code, read) = Number(code, f) + 60 * Nominal(code)
<1> DEFINE sent == [i \in 0 .. 7 |-> IF i < 4 THEN Batch(f, 0, 4)[i]
                                              ELSE Batch(g, 4, 4)[i]]
           df == [i \in 0 .. 7 |-> QuarterFrameData(f, i) % 16]
           dg == [i \in 0 .. 7 |-> QuarterFrameData(g, i) % 16]
           d == [i \in 0 .. 7 |-> sent[i] % 16]
           read == Joined(d)
<1>1. Joined(df) = f /\ Joined(dg) = g
  BY QuarterFramesCarryLabel
<1>2. \A i \in 0 .. 7 : d[i] = IF i < 4 THEN df[i] ELSE dg[i]
  <2> TAKE i \in 0 .. 7
  <2>1. CASE i < 4
    BY <2>1 DEF Batch
  <2>2. CASE ~(i < 4)
    BY <2>2 DEF Batch
  <2> QED
    BY <2>1, <2>2
<1> HIDE DEF d, df, dg
<1>3. /\ d[0] = df[0] /\ d[1] = df[1] /\ d[2] = df[2] /\ d[3] = df[3]
      /\ d[4] = dg[4] /\ d[5] = dg[5] /\ d[6] = dg[6] /\ d[7] = dg[7]
  BY <1>2
<1>4. /\ f.frame = df[0] + 16 * df[1] /\ f.second = df[2] + 16 * df[3]
      /\ g.minute = dg[4] + 16 * dg[5] /\ g.hour = dg[6] + 16 * (dg[7] % 2)
      /\ g.code = dg[7] \div 2
  BY <1>1 DEF Joined
<1>5. read = [hour |-> g.hour, minute |-> g.minute, second |-> f.second,
              frame |-> f.frame, code |-> g.code]
  BY <1>3, <1>4 DEF Joined
<1>6. g.code = f.code
  BY DEF AllLabels
<1>7. read = [f EXCEPT !.minute = f.minute + 1]
  BY <1>5, <1>6 DEF AllLabels
<1>8. Number(code, read) = Number(code, f) + 60 * Nominal(code)
  <2> DEFINE h == f.hour  m == f.minute  s == f.second  r == f.frame
             nom == Nominal(code)
             number == Number(code, read)
             before == Number(code, f)
  <2>1. h \in 0 .. 23 /\ m \in 0 .. 59 /\ s \in 0 .. 59 /\ r \in 0 .. 29
    BY LabelBounds
  <2>2. nom \in {24, 25, 30}
    BY PerDayType
  <2>3. /\ read.hour = h /\ read.minute = m + 1
        /\ read.second = s /\ read.frame = r
    BY <1>7 DEF AllLabels
  <2>4. /\ number = nom * (60 * (60 * h + (m + 1)) + s) + r
        /\ before = nom * (60 * (60 * h + m) + s) + r
    BY <2>3 DEF Number
  <2> HIDE DEF h, m, s, r, nom, number, before
  <2>5. number = before + 60 * nom
    <3>1. CASE nom = 24
      BY <3>1, <2>1, <2>4
    <3>2. CASE nom = 25
      BY <3>2, <2>1, <2>4
    <3>3. CASE nom = 30
      BY <3>3, <2>1, <2>4
    <3> QED
      BY <2>2, <3>1, <3>2, <3>3
  <2> QED
    BY <2>5 DEF nom, number, before
<1> QED
  BY <1>7, <1>8 DEF d

(* The full frame carries the label too, and each of its four data bytes is *)
(* below 128, as MIDI demands inside a system exclusive message             *)
(* (nativeSendMtcFullFrameLocateOnMainThread).                              *)
THEOREM FullFrameCarriesLabel ==
  ASSUME NEW code \in Codes, NEW f \in AllLabels(code)
  PROVE  /\ \A i \in 1 .. 4 : FullFrame(f)[i] \in 0 .. 127
         /\ Located(FullFrame(f)) = f
<1> DEFINE h == f.hour  m == f.minute  s == f.second  r == f.frame  c == f.code
           b == FullFrame(f)
<1>1. /\ h \in 0 .. 23 /\ m \in 0 .. 59 /\ s \in 0 .. 59
      /\ r \in 0 .. 29 /\ c \in 0 .. 3
      /\ f = [hour |-> h, minute |-> m, second |-> s, frame |-> r, code |-> c]
  BY LabelBounds
<1>2. /\ b[1] = 32 * (c % 4) + (h % 32) /\ b[2] = m % 64
      /\ b[3] = s % 64 /\ b[4] = r % 32
  BY DEF FullFrame
<1> HIDE DEF h, m, s, r, c, b
<1>3. b[1] = 32 * c + h /\ b[2] = m /\ b[3] = s /\ b[4] = r
  BY <1>1, <1>2
<1>4. (32 * c + h) \div 32 = c /\ (32 * c + h) % 32 = h
  BY <1>1
<1>5. Located(b) = [hour |-> h, minute |-> m, second |-> s, frame |-> r,
                    code |-> c]
  BY <1>3, <1>4 DEF Located
<1>6. /\ 32 * c + h \in 0 .. 127 /\ m \in 0 .. 127 /\ s \in 0 .. 127
      /\ r \in 0 .. 127
  BY <1>1
<1>7. \A i \in 1 .. 4 : b[i] \in 0 .. 127
  BY <1>3, <1>6
<1> QED
  BY <1>1, <1>5, <1>7 DEF b
=============================================================================
