--------------------------- MODULE BitOrderProofs ---------------------------
(* Proofs about BitOrder, for any tables of positions that satisfy its       *)
(* assumption: the format's buffer holds the whole canonical frame and       *)
(* nothing else, from which to_canon restores it.                            *)
EXTENDS BitOrder, TLAPS

----------------------------------------------------------------------------
(* What a conversion stores                                                  *)

\* A bit copied by a step is where the step puts it, if no two put bits in one place.
LEMMA Copies ==
  ASSUME NEW old, NEW to, NEW from, NEW src, NEW set, NEW magic,
         \A i, j \in DOMAIN to : to[i] = to[j] => i = j,
         NEW i \in DOMAIN to, to[i] \in DOMAIN old
  PROVE  Converted(old, to, from, src, set, magic)[to[i]] = src[from[i]]
<1>1. (CHOOSE j \in DOMAIN to : to[j] = to[i]) = i
  OBVIOUS
<1>2. QED
  BY <1>1 DEF Converted

\* A bit no step copies is set, or kept.
LEMMA Sets ==
  ASSUME NEW old, NEW to, NEW from, NEW src, NEW set, NEW magic,
         NEW p \in DOMAIN old, \A i \in DOMAIN to : to[i] # p
  PROVE  Converted(old, to, from, src, set, magic)[p] =
           IF p \in set THEN IF p \in magic THEN One ELSE Zero ELSE old[p]
  BY DEF Converted

LEMMA KeepsDomain ==
  ASSUME NEW old, NEW to, NEW from, NEW src, NEW set, NEW magic
  PROVE  /\ Converted(old, to, from, src, set, magic) =
              [p \in DOMAIN old |-> Converted(old, to, from, src, set, magic)[p]]
         /\ DOMAIN Converted(old, to, from, src, set, magic) = DOMAIN old
  BY DEF Converted

----------------------------------------------------------------------------
(* The positions in the format                                               *)

\* lsb_put_bit turns each byte round: doing it twice is nothing, and bits stay in their byte.
LEMMA LsbTwice ==
  ASSUME NEW b \in Nat
  PROVE  /\ LsbBit(b) \in Nat /\ LsbBit(LsbBit(b)) = b
         /\ LsbBit(b) \div 8 = b \div 8
<1>1. PICK q \in Nat, r \in 0..7 : b = 8 * q + r
  <2>1. b = 8 * (b \div 8) + (b % 8) /\ b \div 8 \in Nat /\ b % 8 \in 0..7
    OBVIOUS
  <2>2. QED
    BY <2>1
<1>2. b \div 8 = q /\ b % 8 = r
  BY <1>1
<1>3. LsbBit(b) = 8 * q + (7 - r)
  BY <1>1, <1>2 DEF LsbBit
<1>4. LsbBit(b) \div 8 = q /\ LsbBit(b) % 8 = 7 - r
  <2>1. PICK s \in 0..7 : s = 7 - r
    OBVIOUS
  <2>2. LsbBit(b) = 8 * q + s
    BY <1>3, <2>1
  <2>3. QED
    BY <2>1, <2>2
<1>5. LsbBit(LsbBit(b)) = 8 * q + 7 - (7 - r)
  BY <1>4 DEF LsbBit
<1>6. QED
  BY <1>1, <1>2, <1>3, <1>4, <1>5

EndsAre(ends) ==
  /\ ends[1] \in 1..16 /\ ends[18] = 112
  /\ \A j \in 1..18 : ends[j] \in Nat
  /\ \A j \in 2..18 : ends[j] - ends[j - 1] \in 1..16
  /\ ends[5] = 34 /\ ends[6] = 36

LEMMA Params == EndsAre(ParamsUnvoiced) /\ EndsAre(ParamsVoiced)
<1>1. EndsAre(ParamsUnvoiced)
  BY DEF EndsAre, ParamsUnvoiced
<1>2. EndsAre(ParamsVoiced)
  BY DEF EndsAre, ParamsVoiced
<1>3. QED
  BY <1>1, <1>2

\* Each bit of a frame is in one parameter.
ParamOf(ends, i, j) == i < ends[j] /\ (j = 1 \/ i >= ends[j - 1])

LEMMA EndsGrow ==
  ASSUME NEW ends, EndsAre(ends)
  PROVE  \A j, k \in 1..18 : j < k => ends[j] <= ends[k - 1]
<1>1. ASSUME NEW j \in 2..18
      PROVE  ends[j - 1] < ends[j]
  <2>1. j - 1 \in 1..18 /\ j \in 1..18
    OBVIOUS
  <2>2. ends[j - 1] \in Nat /\ ends[j] \in Nat /\ ends[j] - ends[j - 1] \in 1..16
    BY <2>1 DEF EndsAre
  <2>3. QED
    BY <2>2
<1>2. /\ ends[1] < ends[2] /\ ends[2] < ends[3] /\ ends[3] < ends[4] /\ ends[4] < ends[5]
      /\ ends[5] < ends[6] /\ ends[6] < ends[7] /\ ends[7] < ends[8] /\ ends[8] < ends[9]
      /\ ends[9] < ends[10] /\ ends[10] < ends[11] /\ ends[11] < ends[12]
      /\ ends[12] < ends[13] /\ ends[13] < ends[14] /\ ends[14] < ends[15]
      /\ ends[15] < ends[16] /\ ends[16] < ends[17] /\ ends[17] < ends[18]
  BY <1>1, SMTT(60)
<1>3. \A j \in 1..18 : ends[j] \in Int
  BY DEF EndsAre
<1>4. QED
  BY <1>2, <1>3, SMTT(60)

LEMMA ParamFound ==
  ASSUME NEW ends, EndsAre(ends), NEW i \in 0..111
  PROVE  \E j \in 1..18 : ParamOf(ends, i, j)
<1> SUFFICES ASSUME \A j \in 1..18 : ~ParamOf(ends, i, j)
             PROVE  FALSE
  OBVIOUS
<1>1. \A j \in 1..18 : ends[j] \in Nat
  BY DEF EndsAre
<1>2. i >= ends[1]
  BY <1>1 DEF ParamOf
<1>3. \A j \in 2..18 : i >= ends[j - 1] => i >= ends[j]
  BY <1>1 DEF ParamOf
<1>4. i >= ends[2] /\ i >= ends[3] /\ i >= ends[4] /\ i >= ends[5] /\ i >= ends[6]
  BY <1>2, <1>3
<1>5. i >= ends[7] /\ i >= ends[8] /\ i >= ends[9] /\ i >= ends[10] /\ i >= ends[11]
  BY <1>3, <1>4
<1>6. i >= ends[12] /\ i >= ends[13] /\ i >= ends[14] /\ i >= ends[15]
  BY <1>3, <1>5
<1>7. i >= ends[16] /\ i >= ends[17] /\ i >= ends[18]
  BY <1>3, <1>6
<1>8. QED
  BY <1>7 DEF EndsAre

\* Where it is: at the distance from the end of word j that it has from the parameter's end.
LEMMA ParamAt ==
  ASSUME NEW ends, EndsAre(ends), NEW i \in 0..111
  PROVE  \E j \in 1..18 :
           /\ ParamOf(ends, i, j)
           /\ ParamBit(ends, i) = 16 * j - (ends[j] - i)
           /\ ParamBit(ends, i) \in (16 * j - 16)..(16 * j - 1)
           /\ ParamBit(ends, i) \div 16 = j - 1
<1>1. PICK j \in 1..18 : ParamOf(ends, i, j)
  BY ParamFound
<1>2. \A k \in 1..18 : ParamOf(ends, i, k) => k = j
  <2> SUFFICES ASSUME NEW k \in 1..18, ParamOf(ends, i, k), k # j
               PROVE  FALSE
    OBVIOUS
  <2>1. ends[j] \in Nat /\ ends[k] \in Nat
    BY DEF EndsAre
  <2>2. CASE j < k
    <3>1. ends[j] <= ends[k - 1]
      BY <2>2, EndsGrow
    <3>2. k - 1 \in 1..18 /\ ends[k - 1] \in Nat
      BY <2>2 DEF EndsAre
    <3>3. QED
      BY <1>1, <2>1, <2>2, <3>1, <3>2 DEF ParamOf
  <2>3. CASE k < j
    <3>1. ends[k] <= ends[j - 1]
      BY <2>3, EndsGrow
    <3>2. j - 1 \in 1..18 /\ ends[j - 1] \in Nat
      BY <2>3 DEF EndsAre
    <3>3. QED
      BY <1>1, <2>1, <2>3, <3>1, <3>2 DEF ParamOf
  <2>4. QED
    BY <2>2, <2>3
<1>3. (CHOOSE k \in 1..18 : ParamOf(ends, i, k)) = j
  BY <1>1, <1>2
<1>4. ParamBit(ends, i) = 16 * j - (ends[j] - i)
  BY <1>3 DEF ParamBit, ParamOf
<1>5. ends[j] - i \in 1..16
  <2>1. CASE j = 1
    BY <1>1, <2>1 DEF ParamOf, EndsAre
  <2>2. CASE j # 1
    <3>1. j \in 2..18 /\ j - 1 \in 1..18
      BY <2>2
    <3>2. ends[j] - ends[j - 1] \in 1..16 /\ ends[j] \in Nat /\ ends[j - 1] \in Nat
      BY <3>1 DEF EndsAre
    <3>3. QED
      BY <1>1, <2>2, <3>2 DEF ParamOf
  <2>3. QED
    BY <2>1, <2>2
<1>6. PICK d \in 1..16 : d = ends[j] - i
  BY <1>5
<1>7. (16 * j - d) \div 16 = j - 1 /\ 16 * j - d \in (16 * j - 16)..(16 * j - 1)
  OBVIOUS
<1>8. QED
  BY <1>1, <1>4, <1>6, <1>7

\* The bits of the parameters are in the 18 words,
LEMMA ParamRange ==
  ASSUME NEW ends, EndsAre(ends), NEW i \in 0..111
  PROVE  ParamBit(ends, i) \in 0..287
<1>1. PICK j \in 1..18 : ParamBit(ends, i) \in (16 * j - 16)..(16 * j - 1)
  BY ParamAt
<1>2. 16 * j - 16 \in Nat /\ 16 * j - 1 <= 287 /\ 16 * j - 1 \in Int
  OBVIOUS
<1>3. QED
  BY <1>1, <1>2

\* at different places,
LEMMA ParamOnce ==
  ASSUME NEW ends, EndsAre(ends), NEW i \in 0..111, NEW k \in 0..111,
         ParamBit(ends, i) = ParamBit(ends, k)
  PROVE  i = k
<1>1. PICK j \in 1..18 :
        ParamBit(ends, i) = 16 * j - (ends[j] - i) /\ ParamBit(ends, i) \div 16 = j - 1
  BY ParamAt
<1>2. PICK m \in 1..18 :
        ParamBit(ends, k) = 16 * m - (ends[m] - k) /\ ParamBit(ends, k) \div 16 = m - 1
  BY ParamAt
<1>3. j = m
  BY <1>1, <1>2
<1>4. PICK e \in Nat : e = ends[j]
  BY DEF EndsAre
<1>5. 16 * j - (e - i) = 16 * j - (e - k)
  BY <1>1, <1>2, <1>3, <1>4
<1>6. QED
  BY <1>5

\* and those of the voicing decision alone in word 5.
LEMMA ParamVoicing ==
  ASSUME NEW ends, EndsAre(ends), NEW i \in 0..111
  PROVE  ParamBit(ends, i) \in 80..95 <=> i \in {34, 35}
<1>1. PICK j \in 1..18 :
        ParamOf(ends, i, j) /\ ParamBit(ends, i) \in (16 * j - 16)..(16 * j - 1)
  BY ParamAt
<1>2. ends[5] = 34 /\ ends[6] = 36 /\ \A m \in 1..18 : ends[m] \in Nat
  BY DEF EndsAre
<1>3. ParamBit(ends, i) \in 80..95 => j = 6
  BY <1>1
<1>4. j = 6 => i \in {34, 35} /\ ParamBit(ends, i) \in 80..95
  BY <1>1, <1>2 DEF ParamOf
<1>5. CASE j < 6
  <2>1. ends[j] <= ends[5] /\ ends[j] \in Nat
    BY <1>2, <1>5, EndsGrow
  <2>2. i \notin {34, 35}
    BY <1>1, <1>2, <2>1 DEF ParamOf
  <2>3. QED
    BY <1>3, <1>5, <2>2
<1>6. CASE j > 6
  <2>1. ends[6] <= ends[j - 1] /\ j # 1 /\ ends[j - 1] \in Nat
    BY <1>2, <1>6, EndsGrow
  <2>2. i \notin {34, 35}
    BY <1>1, <1>2, <2>1 DEF ParamOf
  <2>3. QED
    BY <1>3, <1>6, <2>2
<1>7. QED
  BY <1>3, <1>4, <1>5, <1>6

LsbFormats == {"racal-hr", "racal-fr", "racal-efr"}
ParamFormats == {"hr-ref-dec", "hr-ref-enc"}

LEMMA CopiedSteps ==
  ASSUME NEW f \in BitFormats
  PROVE  /\ CanonUsed(f) \in {112, 244, 260} /\ CanonUsed(f) <= CanonBits(f)
         /\ CanonBits(f) \in Nat /\ FormatBits(f) \in Nat
         /\ Copied(f) \subseteq 0..(CanonUsed(f) - 1)
         /\ f # "ti-efr" => Copied(f) = 0..(CanonUsed(f) - 1)
<1>1. /\ CanonUsed(f) \in {112, 244, 260} /\ CanonUsed(f) <= CanonBits(f)
      /\ CanonBits(f) \in Nat
  BY DEF CanonUsed, CanonBits
<1>2. FormatBits(f) \in Nat
  <2>1. CASE f \in {"racal-hr", "racal-efr", "rtp-efr", "amr-efr"}
    BY <2>1 DEF FormatBits
  <2>2. CASE f \in {"hr-ref-dec", "hr-ref-enc"}
    BY <2>2 DEF FormatBits
  <2>3. CASE f \in {"ti-hr", "ti-fr", "ti-efr", "racal-fr", "gsm"}
    BY <2>3 DEF FormatBits
  <2>4. QED
    BY <2>1, <2>2, <2>3 DEF BitFormats, HrFormats, FrFormats, EfrFormats
<1>3. CASE f = "ti-efr"
  <2>1. CanonUsed(f) = 244
    BY <1>3 DEF CanonUsed, HrFormats, FrFormats
  <2>2. Copied(f) \subseteq 0..243
    BY <1>3 DEF Copied
  <2>3. QED
    BY <1>1, <1>2, <1>3, <2>1, <2>2
<1>4. CASE f # "ti-efr"
  <2>1. Copied(f) = 0..(CanonUsed(f) - 1)
    BY <1>4 DEF Copied
  <2>2. QED
    BY <1>1, <1>2, <1>4, <2>1
<1>5. QED
  BY <1>3, <1>4

\* to_canon reads where from_canon writes: its loops are the same.
LEMMA ReadWhereWritten ==
  ASSUME NEW f, NEW voiced, NEW i
  PROVE  ReadAt(f, voiced, i) = WrittenAt(f, voiced, i)
  BY DEF ReadAt, WrittenAt

\* from_canon writes each place of the format at most once, sets those it does not
\* write, and writes none beyond the frame.
OnceEach(f, voiced) ==
  /\ \A i \in Copied(f) : WrittenAt(f, voiced, i) \in 0..(FormatBits(f) - 1)
  /\ \A i, j \in Copied(f) : WrittenAt(f, voiced, i) = WrittenAt(f, voiced, j) => i = j
  /\ \A p \in 0..(FormatBits(f) - 1) :
       p \in FormatSet(f) \/ \E i \in Copied(f) : WrittenAt(f, voiced, i) = p

LEMMA ShiftedOnce ==
  ASSUME NEW f \in BitFormats \ (LsbFormats \cup ParamFormats), NEW voiced \in BOOLEAN
  PROVE  OnceEach(f, voiced)
<1>1. CASE f \in {"ti-hr", "ti-fr", "ti-efr"}
  <2>0. FormatBits(f) = 264
    BY <1>1 DEF FormatBits
  <2>1. FormatBits(f) = 264 /\ Copied(f) \subseteq 0..259
    <3>1. Copied(f) \subseteq 0..(CanonUsed(f) - 1) /\ CanonUsed(f) \in {112, 244, 260}
      BY CopiedSteps
    <3>2. QED
      BY <2>0, <3>1
  <2>2. \A i \in Int : WrittenAt(f, voiced, i) = AfterGap(i, IF f = "ti-hr" THEN 95 ELSE 182)
    BY <1>1 DEF WrittenAt
  <2>3. \A i \in Copied(f) : WrittenAt(f, voiced, i) \in 0..263
    BY <2>1, <2>2 DEF AfterGap
  <2>4. ASSUME NEW i \in Copied(f), NEW j \in Copied(f),
               WrittenAt(f, voiced, i) = WrittenAt(f, voiced, j)
        PROVE  i = j
    <3> DEFINE gap == IF f = "ti-hr" THEN 95 ELSE 182
    <3>1. i \in Int /\ j \in Int /\ gap \in Int
      BY <2>1
    <3>2. AfterGap(i, gap) = AfterGap(j, gap)
      BY <2>2, <2>4, <3>1
    <3> HIDE DEF gap
    <3>3. QED
      BY <3>1, <3>2 DEF AfterGap
  <2>5. ASSUME NEW p \in 0..263
        PROVE  p \in FormatSet(f) \/ \E i \in Copied(f) : WrittenAt(f, voiced, i) = p
    <3>1. CASE f # "ti-fr"
      BY <1>1, <3>1 DEF FormatSet
    <3>2. CASE f = "ti-fr" /\ p < 182
      <4>1. p \in Copied(f) /\ WrittenAt(f, voiced, p) = p
        BY <2>2, <3>2 DEF Copied, CanonUsed, FrFormats, HrFormats, AfterGap
      <4>2. QED
        BY <4>1
    <3>3. CASE f = "ti-fr" /\ p >= 186
      <4>1. p - 4 \in Copied(f) /\ WrittenAt(f, voiced, p - 4) = p
        BY <2>2, <3>3 DEF Copied, CanonUsed, FrFormats, HrFormats, AfterGap
      <4>2. QED
        BY <4>1
    <3>4. CASE f = "ti-fr" /\ p \in 182..185
      BY <3>4 DEF FormatSet, ByteAt
    <3>5. QED
      BY <3>1, <3>2, <3>3, <3>4
  <2>6. QED
    BY <2>1, <2>3, <2>4, <2>5 DEF OnceEach
<1>2. CASE f \in {"gsm", "rtp-efr", "amr-efr"}
  <2> DEFINE shift == IF f = "amr-efr" THEN 8 ELSE 4
  <2>1. /\ \A i \in Int : WrittenAt(f, voiced, i) = i + shift
        /\ Copied(f) = 0..(IF f = "gsm" THEN 259 ELSE 243)
    <3>1. CanonUsed(f) = IF f = "gsm" THEN 260 ELSE 244
      BY <1>2 DEF CanonUsed, HrFormats, FrFormats
    <3>2. Copied(f) = 0..(CanonUsed(f) - 1)
      BY <1>2 DEF Copied
    <3>3. \A i \in Int : WrittenAt(f, voiced, i) = i + shift
      BY <1>2 DEF WrittenAt
    <3>4. Copied(f) = 0..(IF f = "gsm" THEN 259 ELSE 243)
      BY <3>1, <3>2
    <3>5. QED
      BY <3>3, <3>4
  <2>2. FormatBits(f) = IF f = "gsm" THEN 264 ELSE IF f = "amr-efr" THEN 256 ELSE 248
    BY <1>2 DEF FormatBits
  <2>3. \A i \in Copied(f) : WrittenAt(f, voiced, i) \in 0..(FormatBits(f) - 1)
    <3>1. CASE f = "gsm"
      BY <2>1, <2>2, <3>1
    <3>2. CASE f = "amr-efr"
      BY <2>1, <2>2, <3>2
    <3>3. CASE f = "rtp-efr"
      BY <2>1, <2>2, <3>3
    <3>4. QED
      BY <1>2, <3>1, <3>2, <3>3
  <2>4. \A i, j \in Copied(f) : WrittenAt(f, voiced, i) = WrittenAt(f, voiced, j) => i = j
    BY <2>1
  <2>5. ASSUME NEW p \in 0..(FormatBits(f) - 1)
        PROVE  p \in FormatSet(f) \/ \E i \in Copied(f) : WrittenAt(f, voiced, i) = p
    <3>0. p \in Int /\ FormatBits(f) \in Int
      BY <2>2
    <3>1. CASE p - shift \in Copied(f)
      <4>1. p - shift \in Int /\ WrittenAt(f, voiced, p - shift) = p
        BY <2>1, <3>0
      <4>2. QED
        BY <3>1, <4>1
    <3>2. CASE p - shift \notin Copied(f)
      <4>1. p < shift \/ (f = "amr-efr" /\ p \in 252..255)
        <5>1. CASE f = "gsm"
          BY <2>1, <2>2, <3>2, <5>1
        <5>2. CASE f = "amr-efr"
          BY <2>1, <2>2, <3>2, <5>2
        <5>3. CASE f = "rtp-efr"
          BY <2>1, <2>2, <3>2, <5>3
        <5>4. QED
          BY <1>2, <5>1, <5>2, <5>3
      <4>2. p >= 0
        BY <2>2
      <4>3. QED
        BY <1>2, <3>0, <4>1, <4>2 DEF FormatSet, ByteAt
    <3>3. QED
      BY <3>1, <3>2
  <2>6. QED
    BY <2>3, <2>4, <2>5 DEF OnceEach
<1>3. QED
  BY <1>1, <1>2 DEF BitFormats, HrFormats, FrFormats, EfrFormats, LsbFormats, ParamFormats

LEMMA TurnedOnce ==
  ASSUME NEW f \in LsbFormats, NEW voiced \in BOOLEAN
  PROVE  OnceEach(f, voiced)
<1>1. /\ f \in BitFormats /\ Copied(f) = 0..(CanonUsed(f) - 1)
      /\ \A i \in Int : WrittenAt(f, voiced, i) = LsbBit(i)
  BY CopiedSteps DEF LsbFormats, BitFormats, HrFormats, FrFormats, EfrFormats, WrittenAt
<1>2. /\ CanonUsed(f) = IF f = "racal-hr" THEN 112 ELSE IF f = "racal-fr" THEN 260 ELSE 244
      /\ FormatBits(f) = IF f = "racal-hr" THEN 112 ELSE IF f = "racal-fr" THEN 264 ELSE 248
  BY DEF LsbFormats, CanonUsed, FormatBits, HrFormats, FrFormats
<1>3. \A i \in Copied(f) : WrittenAt(f, voiced, i) \in 0..(FormatBits(f) - 1)
  <2>1. \A b \in Nat : LsbBit(b) \in Nat /\ LsbBit(b) \div 8 = b \div 8
    BY LsbTwice
  <2>2. ASSUME NEW i \in Copied(f)
        PROVE  LsbBit(i) \in 0..(FormatBits(f) - 1)
    <3>1. i \in 0..(CanonUsed(f) - 1) /\ i \in Nat
      BY <1>1, <1>2, <2>2
    <3>2. LsbBit(i) \in Nat /\ LsbBit(i) \div 8 = i \div 8
      BY <2>1, <3>1
    <3>3. CASE f = "racal-hr"
      BY <1>2, <3>1, <3>2, <3>3
    <3>4. CASE f = "racal-fr"
      BY <1>2, <3>1, <3>2, <3>4
    <3>5. CASE f = "racal-efr"
      BY <1>2, <3>1, <3>2, <3>5
    <3>6. QED
      BY <3>3, <3>4, <3>5 DEF LsbFormats
  <2>3. QED
    BY <1>1, <1>2, <2>2
<1>4. \A i, j \in Copied(f) : WrittenAt(f, voiced, i) = WrittenAt(f, voiced, j) => i = j
  <2>1. \A b \in Nat : LsbBit(LsbBit(b)) = b
    BY LsbTwice
  <2>2. QED
    BY <1>1, <1>2, <2>1
<1>5. ASSUME NEW p \in 0..(FormatBits(f) - 1)
      PROVE  p \in FormatSet(f) \/ \E i \in Copied(f) : WrittenAt(f, voiced, i) = p
  <2>1. LsbBit(p) \in Nat /\ LsbBit(LsbBit(p)) = p /\ LsbBit(p) \div 8 = p \div 8
    BY LsbTwice, <1>2
  <2>2. CASE LsbBit(p) \in Copied(f)
    BY <1>1, <2>1, <2>2
  <2>3. CASE LsbBit(p) \notin Copied(f)
    <3>1. LsbBit(p) >= CanonUsed(f)
      BY <1>1, <1>2, <2>1, <2>3
    <3>2. p \in FormatSet(f)
      <4>1. CASE f = "racal-hr"
        BY <1>2, <2>1, <3>1, <4>1
      <4>2. CASE f = "racal-fr"
        <5>1. p \div 8 >= 32 /\ p \in 0..263
          BY <1>2, <2>1, <3>1, <4>2
        <5>2. p \in 256..263
          BY <5>1
        <5>3. QED
          BY <4>2, <5>2 DEF FormatSet, ByteAt
      <4>3. CASE f = "racal-efr"
        <5>1. p \div 8 >= 30 /\ p \in 0..247
          BY <1>2, <2>1, <3>1, <4>3
        <5>2. p \in 240..247
          BY <5>1
        <5>3. QED
          BY <4>3, <5>2 DEF FormatSet, ByteAt
      <4>4. QED
        BY <4>1, <4>2, <4>3 DEF LsbFormats
    <3>3. QED
      BY <3>2
  <2>4. QED
    BY <2>2, <2>3
<1>6. QED
  BY <1>3, <1>4, <1>5 DEF OnceEach

\* The words of the reference code, by the voicing decision.
Words(voiced) == IF voiced THEN ParamsVoiced ELSE ParamsUnvoiced

LEMMA ParamSteps ==
  ASSUME NEW f \in ParamFormats, NEW voiced \in BOOLEAN
  PROVE  /\ EndsAre(Words(voiced)) /\ Copied(f) = 0..111
         /\ \A i : WrittenAt(f, voiced, i) = ParamBit(Words(voiced), i)
         /\ FormatBits(f) \in {320, 352} /\ FormatSet(f) = 0..(FormatBits(f) - 1)
<1>1. EndsAre(Words(voiced))
  BY Params DEF Words
<1>2. Copied(f) = 0..111 /\ \A i : WrittenAt(f, voiced, i) = ParamBit(Words(voiced), i)
  BY DEF ParamFormats, Copied, CanonUsed, HrFormats, WrittenAt, Words
<1>3. FormatBits(f) \in {320, 352} /\ FormatSet(f) = 0..(FormatBits(f) - 1)
  BY DEF ParamFormats, FormatBits, FormatSet
<1>4. QED
  BY <1>1, <1>2, <1>3

LEMMA ParamsOnce ==
  ASSUME NEW f \in ParamFormats, NEW voiced \in BOOLEAN
  PROVE  OnceEach(f, voiced)
<1>1. ASSUME NEW i \in Copied(f)
      PROVE  WrittenAt(f, voiced, i) \in 0..(FormatBits(f) - 1)
  <2>1. i \in 0..111 /\ WrittenAt(f, voiced, i) = ParamBit(Words(voiced), i)
    BY ParamSteps
  <2>2. WrittenAt(f, voiced, i) \in 0..287
    <3>1. EndsAre(Words(voiced))
      BY ParamSteps
    <3>2. ParamBit(Words(voiced), i) \in 0..287
      BY <2>1, <3>1, ParamRange
    <3>3. QED
      BY <2>1, <3>2
  <2>3. FormatBits(f) \in {320, 352}
    BY ParamSteps
  <2>4. QED
    BY <2>2, <2>3
<1>2. ASSUME NEW i \in Copied(f), NEW k \in Copied(f),
             WrittenAt(f, voiced, i) = WrittenAt(f, voiced, k)
      PROVE  i = k
  <2>1. i \in 0..111 /\ k \in 0..111 /\ ParamBit(Words(voiced), i) = ParamBit(Words(voiced), k)
    BY <1>2, ParamSteps
  <2>2. QED
    BY <2>1, ParamSteps, ParamOnce
<1>3. QED
  BY <1>1, <1>2, ParamSteps DEF OnceEach

LEMMA WritesOnceEach ==
  ASSUME NEW f \in BitFormats, NEW voiced \in BOOLEAN
  PROVE  OnceEach(f, voiced)
  BY ShiftedOnce, TurnedOnce, ParamsOnce

----------------------------------------------------------------------------
(* The positions in the canonical frame                                      *)

LEMMA Tables ==
  /\ IsOrder(FrOrder, 260) /\ IsOrder(EfrOrder, 260) /\ IsOrder(AmrOrder, 244)
  /\ \A voiced \in BOOLEAN :
       IsOrder(HrOrder(voiced), 112) /\ {HrOrder(voiced)[93], HrOrder(voiced)[94]} = Voicing
  BY BitOrderAssumption DEF HrOrder

\* The loop of a conversion copies each bit of a canonical frame once.
EachOnce(f, voiced) ==
  /\ \A i \in Copied(f) : CanonAt(f, voiced, i) \in 0..(CanonUsed(f) - 1)
  /\ \A i, j \in Copied(f) : CanonAt(f, voiced, i) = CanonAt(f, voiced, j) => i = j
  /\ \A k \in 0..(CanonUsed(f) - 1) : \E i \in Copied(f) : CanonAt(f, voiced, i) = k

LEMMA TableCopiesEachOnce ==
  ASSUME NEW f \in BitFormats \ {"ti-efr"}, NEW voiced \in BOOLEAN,
         NEW t, IsOrder(t, CanonUsed(f)), \A i : CanonAt(f, voiced, i) = t[i]
  PROVE  EachOnce(f, voiced)
<1>1. PICK last : last = CanonUsed(f) - 1 /\ Copied(f) = 0..last
  BY CopiedSteps
<1>2. \A i \in 0..last : t[i] \in 0..last
  BY <1>1 DEF IsOrder
<1>3. \A i, j \in 0..last : t[i] = t[j] => i = j
  BY <1>1 DEF IsOrder
<1>4. \A k \in 0..last : \E i \in 0..last : t[i] = k
  BY <1>1 DEF IsOrder
<1>5. \A i \in Copied(f) : CanonAt(f, voiced, i) \in 0..(CanonUsed(f) - 1)
  BY <1>1, <1>2
<1>6. \A i, j \in Copied(f) : CanonAt(f, voiced, i) = CanonAt(f, voiced, j) => i = j
  BY <1>1, <1>3
<1>7. \A k \in 0..(CanonUsed(f) - 1) : \E i \in Copied(f) : CanonAt(f, voiced, i) = k
  BY <1>1, <1>4
<1>8. QED
  BY <1>5, <1>6, <1>7 DEF EachOnce

LEMMA EveryTableCopiesEachOnce ==
  ASSUME NEW f \in BitFormats \ {"ti-efr"}, NEW voiced \in BOOLEAN
  PROVE  EachOnce(f, voiced)
<1>1. Copied(f) = 0..(CanonUsed(f) - 1)
  BY CopiedSteps
<1>2. CASE f \in {"ti-hr", "racal-hr"}
  <2>1. CanonUsed(f) = 112 /\ \A i : CanonAt(f, voiced, i) = HrOrder(voiced)[i]
    BY <1>2 DEF CanonUsed, HrFormats, CanonAt
  <2>2. IsOrder(HrOrder(voiced), CanonUsed(f))
    BY <2>1, Tables
  <2>3. QED
    BY <2>1, <2>2, TableCopiesEachOnce
<1>3. CASE f \in {"ti-fr", "racal-fr"}
  <2>1. CanonUsed(f) = 260 /\ \A i : CanonAt(f, voiced, i) = FrOrder[i]
    BY <1>3 DEF CanonUsed, HrFormats, FrFormats, CanonAt
  <2>2. IsOrder(FrOrder, CanonUsed(f))
    BY <2>1, Tables
  <2>3. QED
    BY <2>1, <2>2, TableCopiesEachOnce
<1>4. CASE f = "amr-efr"
  <2>1. CanonUsed(f) = 244 /\ \A i : CanonAt(f, voiced, i) = AmrOrder[i]
    BY <1>4 DEF CanonUsed, HrFormats, FrFormats, CanonAt
  <2>2. IsOrder(AmrOrder, CanonUsed(f))
    BY <2>1, Tables
  <2>3. QED
    BY <2>1, <2>2, TableCopiesEachOnce
<1>5. CASE f \notin {"ti-hr", "racal-hr", "ti-fr", "racal-fr", "amr-efr"}
  <2>1. \A i : CanonAt(f, voiced, i) = i
    BY <1>5 DEF CanonAt
  <2>2. QED
    BY <1>1, <2>1 DEF EachOnce
<1>6. QED
  BY <1>2, <1>3, <1>4, <1>5

\* ti_efr_from_canon reads within the frame too.
LEMMA EfrRange ==
  ASSUME NEW voiced, NEW i \in Copied("ti-efr")
  PROVE  CanonAt("ti-efr", voiced, i) \in 0..243
<1>1. PICK t \in 0..259 : t = EfrOrder[i] /\ t \notin EfrRepeated \cup EfrCrc
  <2>1. i \in 0..243 /\ EfrOrder[i] \notin EfrRepeated \cup EfrCrc
    BY DEF Copied
  <2>2. EfrOrder[i] \in 0..259
    <3>1. PICK n \in Nat : n = 260 /\ IsOrder(EfrOrder, n)
      BY Tables
    <3>2. i \in 0..(n - 1)
      BY <2>1, <3>1
    <3>3. EfrOrder[i] \in 0..(n - 1)
      BY <3>1, <3>2 DEF IsOrder
    <3>4. QED
      BY <3>1, <3>3
  <2>3. QED
    BY <2>1, <2>2
<1>2. EfrCanon(t) \in 0..243
  BY <1>1 DEF EfrCanon, EfrRepeated, EfrCrc
<1>3. QED
  BY <1>1, <1>2 DEF CanonAt

LEMMA CanonRange ==
  ASSUME NEW f \in BitFormats, NEW voiced \in BOOLEAN, NEW i \in Copied(f)
  PROVE  CanonAt(f, voiced, i) \in 0..(CanonUsed(f) - 1)
<1>1. CASE f = "ti-efr"
  <2>1. CanonUsed(f) = 244
    BY <1>1 DEF CanonUsed, HrFormats, FrFormats
  <2>2. QED
    BY <1>1, <2>1, EfrRange
<1>2. CASE f # "ti-efr"
  BY <1>2, EveryTableCopiesEachOnce DEF EachOnce
<1>3. QED
  BY <1>1, <1>2

\* to_canon clears what a canonical frame has behind its last bit.
LEMMA PaddingCleared ==
  ASSUME NEW f \in BitFormats, NEW k \in 0..(CanonBits(f) - 1), k >= CanonUsed(f)
  PROVE  k \in CanonSet(f)
<1>1. CASE f \in HrFormats
  BY <1>1 DEF CanonUsed, CanonBits
<1>2. CASE f \in FrFormats
  <2>1. k \in 260..263
    BY <1>2 DEF CanonUsed, CanonBits, HrFormats, FrFormats
  <2>2. QED
    BY <1>2, <2>1 DEF FrFormats, CanonSet, ByteAt
<1>3. CASE f \in EfrFormats
  <2>1. k \in 244..247
    BY <1>3 DEF CanonUsed, CanonBits, HrFormats, FrFormats, EfrFormats
  <2>2. QED
    BY <1>3, <2>1 DEF EfrFormats, CanonSet, ByteAt
<1>4. QED
  BY <1>1, <1>2, <1>3 DEF BitFormats

----------------------------------------------------------------------------
(* The invariant                                                             *)

Plain(p) == IF p \in Magic(fmt) THEN One ELSE Zero

FrameVoiced == fmt \in HrFormats /\ IsVoiced(Canon(fmt, frame), Voicing)

\* The format's buffer holds the bits of the canonical frame where from_canon writes
\* them, and everywhere else what it sets.
FormatHolds ==
  /\ \A i \in Copied(fmt) :
       fbuf[WrittenAt(fmt, FrameVoiced, i)] = Canon(fmt, frame)[CanonAt(fmt, FrameVoiced, i)]
  /\ \A p \in 0..(FormatBits(fmt) - 1) :
       (\A i \in Copied(fmt) : WrittenAt(fmt, FrameVoiced, i) # p) => fbuf[p] = Plain(p)

BufferTypes ==
  /\ fmt \in Formats /\ fmt \in BitFormats
  /\ frame.n \in Nat
  /\ step \in {"done", "canon", "format", "refused"}
  /\ step \in {"canon", "format"} => frame.n > 0
  /\ DOMAIN fbuf = 0..(FormatBits(fmt) - 1)
  /\ DOMAIN cbuf = 0..(CanonBits(fmt) - 1)

IInv ==
  /\ BufferTypes
  /\ step = "format" => FormatHolds
  /\ fmt # "ti-efr" => RoundTrip

LEMMA CanonBit ==
  ASSUME BufferTypes, NEW k \in 0..(CanonBits(fmt) - 1)
  PROVE  Canon(fmt, frame)[k] =
           IF k < CanonUsed(fmt) THEN Bit(frame.n, k, k \in frame.ones) ELSE Zero
  BY DEF Canon

LEMMA InitInv == Init => IInv
<1> SUFFICES ASSUME Init PROVE IInv
  OBVIOUS
<1>1. BufferTypes
  BY BitOrderAssumption DEF Init, BufferTypes
<1>2. RoundTrip
  BY DEF Init, RoundTrip
<1>3. step # "format"
  BY DEF Init
<1>4. QED
  BY <1>1, <1>2, <1>3 DEF IInv

LEMMA NextFrameInv ==
  ASSUME IInv, NextFrame
  PROVE  IInv'
<1>1. BufferTypes'
  BY DEF IInv, BufferTypes, NextFrame
<1>2. RoundTrip' /\ step' # "format"
  BY DEF NextFrame, RoundTrip
<1>3. QED
  BY <1>1, <1>2 DEF IInv

\* from_canon stores the whole frame, and clears or sets the rest.
LEMMA FromCanonInv ==
  ASSUME IInv, FromCanon
  PROVE  IInv'
<1> DEFINE src == Canon(fmt, frame)
           voiced == FrameVoiced
           from == [i \in Copied(fmt) |-> CanonAt(fmt, voiced, i)]
           to == [i \in Copied(fmt) |-> WrittenAt(fmt, voiced, i)]
<1>1. /\ BufferTypes /\ step = "canon" /\ step' = "format" /\ UNCHANGED <<fmt, frame, cbuf>>
      /\ fbuf' = Converted(fbuf, to, from, src, FormatSet(fmt), Magic(fmt))
  BY DEF IInv, FromCanon, FrameVoiced
<1>2. DOMAIN fbuf = 0..(FormatBits(fmt) - 1) /\ fmt \in BitFormats /\ voiced \in BOOLEAN
  BY <1>1 DEF BufferTypes, FrameVoiced, IsVoiced
<1>3. OnceEach(fmt, voiced)
  BY <1>2, WritesOnceEach
<1>4. /\ DOMAIN to = Copied(fmt) /\ \A i \in Copied(fmt) : to[i] = WrittenAt(fmt, voiced, i)
      /\ \A i \in Copied(fmt) : from[i] = CanonAt(fmt, voiced, i)
  OBVIOUS
<1>5. /\ \A i, j \in DOMAIN to : to[i] = to[j] => i = j
      /\ \A i \in DOMAIN to : to[i] \in DOMAIN fbuf
      /\ \A p \in DOMAIN fbuf : p \in FormatSet(fmt) \/ \E i \in DOMAIN to : to[i] = p
  BY <1>2, <1>3, <1>4 DEF OnceEach
<1> HIDE DEF to, from, src, voiced
<1>6. ASSUME NEW i \in Copied(fmt)
      PROVE  fbuf'[WrittenAt(fmt, voiced, i)] = src[CanonAt(fmt, voiced, i)]
  <2>1. i \in DOMAIN to /\ to[i] \in DOMAIN fbuf
    BY <1>4, <1>5
  <2>2. fbuf'[to[i]] = src[from[i]]
    BY <1>1, <1>5, <2>1, Copies
  <2>3. QED
    BY <1>4, <2>2
<1>7. ASSUME NEW p \in 0..(FormatBits(fmt) - 1), \A i \in Copied(fmt) : WrittenAt(fmt, voiced, i) # p
      PROVE  fbuf'[p] = Plain(p)
  <2>1. p \in DOMAIN fbuf /\ \A i \in DOMAIN to : to[i] # p
    BY <1>2, <1>4, <1>7
  <2>2. p \in FormatSet(fmt)
    BY <1>5, <2>1
  <2>3. fbuf'[p] = IF p \in FormatSet(fmt) THEN IF p \in Magic(fmt) THEN One ELSE Zero ELSE fbuf[p]
    BY <1>1, <2>1, Sets
  <2>4. QED
    BY <2>2, <2>3 DEF Plain
<1>8. FormatHolds'
  <2>1. FrameVoiced' = voiced /\ Canon(fmt, frame)' = src /\ fmt' = fmt
    BY <1>1 DEF FrameVoiced, voiced, src
  <2>2. \A p : Plain(p)' = Plain(p)
    BY <1>1 DEF Plain
  <2>3. QED
    BY <1>6, <1>7, <2>1, <2>2, Zenon DEF FormatHolds
<1>9. BufferTypes'
  <2>1. DOMAIN fbuf' = DOMAIN fbuf
    BY <1>1, KeepsDomain
  <2>2. QED
    BY <1>1, <2>1 DEF BufferTypes
<1>10. RoundTrip'
  BY <1>1 DEF RoundTrip
<1>11. QED
  BY <1>8, <1>9, <1>10 DEF IInv

LEMMA BitOne ==
  ASSUME NEW n, NEW k
  PROVE  Bit(n, k, TRUE).one = TRUE /\ Bit(n, k, FALSE).one = FALSE
  BY DEF Bit

LEMMA PlainOne == One.one = TRUE /\ Zero.one = FALSE /\ One.n = 0 /\ Zero.n = 0
  BY DEF One, Zero, Bit

\* to_canon finds the voicing decision in the format where the frame had it.
LEMMA VoicingFound ==
  ASSUME BufferTypes, FormatHolds, fmt \in HrFormats
  PROVE  IsVoiced(fbuf, VoicingAt(fmt)) <=> IsVoiced(Canon(fmt, frame), Voicing)
<1> DEFINE src == Canon(fmt, frame)
           voiced == FrameVoiced
<1>1. fmt \in BitFormats /\ Copied(fmt) = 0..111 /\ FormatBits(fmt) \in {112, 264, 320, 352}
  BY DEF BitFormats, HrFormats, Copied, CanonUsed, FormatBits
<1>2. /\ \A i \in 0..111 : fbuf[WrittenAt(fmt, voiced, i)] = src[CanonAt(fmt, voiced, i)]
      /\ voiced \in BOOLEAN
  BY <1>1 DEF FormatHolds, FrameVoiced, IsVoiced
<1>3. 93 \in 0..111 /\ 94 \in 0..111 /\ 34 \in 0..111 /\ 35 \in 0..111
  OBVIOUS
<1> HIDE DEF src, voiced
<1>4. CASE fmt \in {"ti-hr", "racal-hr"}
  <2>1. /\ CanonAt(fmt, voiced, 93) = HrOrder(voiced)[93]
        /\ CanonAt(fmt, voiced, 94) = HrOrder(voiced)[94]
    BY <1>4 DEF CanonAt
  <2>2. VoicingAt(fmt) = {WrittenAt(fmt, voiced, 93), WrittenAt(fmt, voiced, 94)}
    <3>1. CASE fmt = "ti-hr"
      BY <3>1 DEF VoicingAt, WrittenAt, AfterGap
    <3>2. CASE fmt = "racal-hr"
      BY <3>2 DEF VoicingAt, WrittenAt
    <3>3. QED
      BY <1>4, <3>1, <3>2
  <2>3. {CanonAt(fmt, voiced, 93), CanonAt(fmt, voiced, 94)} = Voicing
    BY <1>2, <2>1, Tables
  <2>4. /\ fbuf[WrittenAt(fmt, voiced, 93)] = src[CanonAt(fmt, voiced, 93)]
        /\ fbuf[WrittenAt(fmt, voiced, 94)] = src[CanonAt(fmt, voiced, 94)]
    BY <1>2, <1>3
  <2>5. IsVoiced(fbuf, VoicingAt(fmt)) <=>
          \/ src[CanonAt(fmt, voiced, 93)].one
          \/ src[CanonAt(fmt, voiced, 94)].one
    BY <2>2, <2>4, Zenon DEF IsVoiced
  <2>6. IsVoiced(src, Voicing) <=>
          \/ src[CanonAt(fmt, voiced, 93)].one
          \/ src[CanonAt(fmt, voiced, 94)].one
    BY <2>3, Zenon DEF IsVoiced
  <2>7. QED
    BY <2>5, <2>6 DEF src
<1>5. CASE fmt \in ParamFormats
  <2>1. /\ VoicingAt(fmt) = 80..95 /\ Magic(fmt) = {} /\ \A i : CanonAt(fmt, voiced, i) = i
        /\ 80..95 \subseteq 0..(FormatBits(fmt) - 1)
    BY <1>1, <1>5 DEF ParamFormats, VoicingAt, Magic, CanonAt
  <2>2. \A i \in 0..111 : WrittenAt(fmt, voiced, i) \in 80..95 <=> i \in {34, 35}
    <3>1. EndsAre(Words(voiced)) /\ \A i : WrittenAt(fmt, voiced, i) = ParamBit(Words(voiced), i)
      BY <1>2, <1>5, ParamSteps
    <3>2. \A i \in 0..111 : ParamBit(Words(voiced), i) \in 80..95 <=> i \in {34, 35}
      BY <3>1, ParamVoicing
    <3>3. QED
      BY <3>1, <3>2
  <2>3. ASSUME NEW p \in 80..95, \A i \in 0..111 : WrittenAt(fmt, voiced, i) # p
        PROVE  ~fbuf[p].one
    <3>1. fbuf[p] = Plain(p)
      BY <1>1, <2>1, <2>3 DEF FormatHolds, voiced
    <3>2. fbuf[p] = Zero
      BY <2>1, <3>1 DEF Plain
    <3>3. QED
      BY <3>2 DEF Zero, Bit
  <2>4. (\E p \in 80..95 : fbuf[p].one) <=> (\E i \in {34, 35} : src[i].one)
    <3>1. ASSUME NEW p \in 80..95, fbuf[p].one
          PROVE  \E i \in {34, 35} : src[i].one
      <4>1. PICK i \in 0..111 : WrittenAt(fmt, voiced, i) = p
        BY <2>3, <3>1
      <4>2. i \in {34, 35} /\ fbuf[p] = src[i]
        BY <1>2, <2>1, <2>2, <4>1
      <4>3. QED
        BY <3>1, <4>2
    <3>2. ASSUME NEW i \in {34, 35}, src[i].one
          PROVE  \E p \in 80..95 : fbuf[p].one
      <4>1. i \in 0..111
        OBVIOUS
      <4>2. WrittenAt(fmt, voiced, i) \in 80..95 /\ fbuf[WrittenAt(fmt, voiced, i)] = src[i]
        BY <1>2, <2>1, <2>2, <4>1
      <4>3. QED
        BY <3>2, <4>2
    <3>3. QED
      BY <3>1, <3>2
  <2>5. QED
    BY <2>1, <2>4 DEF IsVoiced, Voicing, src
<1>6. QED
  BY <1>4, <1>5 DEF HrFormats, ParamFormats

\* A bit that is only set is a one where the magic has one.
LEMMA PlainFound ==
  ASSUME NEW p, fbuf[p] = Plain(p)
  PROVE  fbuf[p].one = (p \in Magic(fmt))
<1>1. CASE p \in Magic(fmt)
  <2>1. fbuf[p].one = TRUE
    BY <1>1, PlainOne DEF Plain
  <2>2. (p \in Magic(fmt)) = TRUE
    BY <1>1
  <2>3. QED
    BY <2>1, <2>2, Zenon
<1>2. CASE p \notin Magic(fmt)
  <2>1. fbuf[p].one = FALSE
    BY <1>2, PlainOne DEF Plain
  <2>2. (p \in Magic(fmt)) = FALSE
    BY <1>2
  <2>3. QED
    BY <2>1, <2>2, Zenon
<1>3. QED
  BY <1>1, <1>2, Zenon

\* amr_efr_to_canon finds the header amr_efr_from_canon stored.
LEMMA HeaderFound ==
  ASSUME BufferTypes, FormatHolds
  PROVE  Accepted
<1> SUFFICES ASSUME fmt = "amr-efr", NEW p \in ByteAt(0)
             PROVE  fbuf[p].one = (p \in Magic(fmt))
  BY DEF Accepted
<1>1. p \in 0..7 /\ FormatBits(fmt) = 256 /\ Copied(fmt) \subseteq Nat
  BY CopiedSteps DEF ByteAt, FormatBits, BufferTypes
<1>2. \A i \in Copied(fmt) : WrittenAt(fmt, FrameVoiced, i) # p
  BY <1>1 DEF WrittenAt
<1>3. fbuf[p] = Plain(p)
  BY <1>1, <1>2 DEF FormatHolds
<1>4. QED
  BY <1>3, PlainFound

\* Only a frame of zeros is taken for a damaged packet: its magic is the one
\* rtp_efr_from_canon stored, and its other bits are those of the frame.
LEMMA DamagedIsZeros ==
  ASSUME BufferTypes, FormatHolds
  PROVE  Damaged <=> fmt = "rtp-efr" /\ frame.ones \cap 0..243 = {}
<1> SUFFICES ASSUME fmt = "rtp-efr"
             PROVE  (\A p \in 0..247 : fbuf[p].one = (p \in Magic(fmt)))
                    <=> frame.ones \cap 0..243 = {}
  BY DEF Damaged
<1>0. FormatBits(fmt) = 248 /\ Magic(fmt) = {0, 1}
  BY DEF FormatBits, Magic
<1>1. Copied(fmt) = 0..243 /\ CanonUsed(fmt) = 244 /\ CanonBits(fmt) = 248
  BY DEF Copied, CanonUsed, CanonBits, HrFormats, FrFormats
<1>2. \A i \in 0..243 : WrittenAt(fmt, FrameVoiced, i) = i + 4 /\ CanonAt(fmt, FrameVoiced, i) = i
  BY DEF WrittenAt, CanonAt
<1>3. \A i \in 0..243 : fbuf[i + 4] = Canon(fmt, frame)[i]
  BY <1>1, <1>2 DEF FormatHolds
<1>4. \A i \in 0..243 : Canon(fmt, frame)[i] = Bit(frame.n, i, i \in frame.ones)
  BY <1>1, CanonBit
<1>5. ASSUME NEW i \in 0..243
      PROVE  (fbuf[i + 4].one = (i + 4 \in Magic(fmt))) <=> i \notin frame.ones
  <2>1. fbuf[i + 4] = Bit(frame.n, i, i \in frame.ones)
    BY <1>3, <1>4
  <2>2. (i + 4 \in Magic(fmt)) = FALSE
    BY <1>0
  <2>3. CASE i \in frame.ones
    <3>1. fbuf[i + 4] = Bit(frame.n, i, TRUE)
      BY <2>1, <2>3, Zenon
    <3>2. fbuf[i + 4].one = TRUE
      BY <3>1, BitOne
    <3>3. QED
      BY <2>2, <2>3, <3>2, Zenon
  <2>4. CASE i \notin frame.ones
    <3>0. (i \in frame.ones) = FALSE
      BY <2>4
    <3>1. fbuf[i + 4] = Bit(frame.n, i, FALSE)
      BY <2>1, <3>0, Zenon
    <3>2. fbuf[i + 4].one = FALSE
      BY <3>1, BitOne
    <3>3. QED
      BY <2>2, <2>4, <3>2, Zenon
  <2>5. QED
    BY <2>3, <2>4, Zenon
<1>6. ASSUME NEW p \in 0..3
      PROVE  fbuf[p].one = (p \in Magic(fmt))
  <2>1. \A i \in Copied(fmt) : WrittenAt(fmt, FrameVoiced, i) # p
    BY <1>1, <1>2
  <2>2. fbuf[p] = Plain(p)
    BY <1>0, <2>1 DEF FormatHolds
  <2>3. QED
    BY <2>2, PlainFound
<1>7. ASSUME NEW p \in 0..247
      PROVE  p \in 0..3 \/ \E i \in 0..243 : p = i + 4
  <2>1. CASE p > 3
    <3>1. p - 4 \in 0..243 /\ p = (p - 4) + 4
      BY <2>1
    <3>2. QED
      BY <3>1
  <2>2. QED
    BY <2>1
<1>8. \A i \in 0..243 : i + 4 \in 0..247
  OBVIOUS
<1>9. ASSUME \A p \in 0..247 : fbuf[p].one = (p \in Magic(fmt))
      PROVE  frame.ones \cap 0..243 = {}
  <2> SUFFICES ASSUME NEW i \in frame.ones, i \in 0..243
               PROVE  FALSE
    OBVIOUS
  <2>1. i + 4 \in 0..247
    BY <1>8
  <2>2. fbuf[i + 4].one = (i + 4 \in Magic(fmt))
    BY <1>9, <2>1, Zenon
  <2>3. QED
    BY <1>5, <2>2, Zenon
<1>10. ASSUME frame.ones \cap 0..243 = {}
       PROVE  \A p \in 0..247 : fbuf[p].one = (p \in Magic(fmt))
  <2> SUFFICES ASSUME NEW p \in 0..247
               PROVE  fbuf[p].one = (p \in Magic(fmt))
    OBVIOUS
  <2>1. CASE p \in 0..3
    BY <1>6, <2>1, Zenon
  <2>2. ASSUME NEW i \in 0..243, p = i + 4
        PROVE  fbuf[p].one = (p \in Magic(fmt))
    <3>1. i \notin frame.ones
      BY <1>10
    <3>2. QED
      BY <1>5, <2>2, <3>1, Zenon
  <2>3. QED
    BY <1>7, <2>1, <2>2, Zenon
<1>11. QED
  BY <1>9, <1>10, Zenon

\* to_canon restores the frame: each of its bits is read where from_canon wrote it, and
\* what is behind the last one is cleared.
LEMMA Restores ==
  ASSUME BufferTypes, FormatHolds, fmt # "ti-efr"
  PROVE  LET voiced == FrameVoiced
             from == [i \in Copied(fmt) |-> ReadAt(fmt, voiced, i)]
             to == [i \in Copied(fmt) |-> CanonAt(fmt, voiced, i)]
         IN  Converted(cbuf, to, from, fbuf, CanonSet(fmt), {}) = Canon(fmt, frame)
<1> DEFINE voiced == FrameVoiced
           from == [i \in Copied(fmt) |-> ReadAt(fmt, voiced, i)]
           to == [i \in Copied(fmt) |-> CanonAt(fmt, voiced, i)]
           new == Converted(cbuf, to, from, fbuf, CanonSet(fmt), {})
<1>1. /\ fmt \in BitFormats \ {"ti-efr"} /\ voiced \in BOOLEAN
      /\ DOMAIN cbuf = 0..(CanonBits(fmt) - 1)
  BY DEF BufferTypes, FrameVoiced, IsVoiced
<1>2. EachOnce(fmt, voiced)
  BY <1>1, EveryTableCopiesEachOnce
<1>3. /\ DOMAIN to = Copied(fmt) /\ \A i \in Copied(fmt) : to[i] = CanonAt(fmt, voiced, i)
      /\ \A i \in Copied(fmt) : from[i] = WrittenAt(fmt, voiced, i)
  BY ReadWhereWritten
<1>4. /\ new = [k \in DOMAIN cbuf |-> new[k]]
      /\ Canon(fmt, frame) = [k \in DOMAIN cbuf |-> Canon(fmt, frame)[k]]
  <2>1. new = [k \in DOMAIN cbuf |-> new[k]]
    BY KeepsDomain
  <2>2. Canon(fmt, frame) = [k \in DOMAIN cbuf |-> Canon(fmt, frame)[k]]
    BY <1>1 DEF Canon
  <2>3. QED
    BY <2>1, <2>2
<1>5. /\ CanonUsed(fmt) \in Nat /\ CanonBits(fmt) \in Nat /\ CanonUsed(fmt) <= CanonBits(fmt)
  BY <1>1, CopiedSteps
<1> HIDE DEF voiced, from, to
<1>6. /\ \A i, j \in DOMAIN to : to[i] = to[j] => i = j
      /\ \A i \in DOMAIN to : to[i] \in 0..(CanonUsed(fmt) - 1) /\ to[i] \in DOMAIN cbuf
      /\ \A k \in 0..(CanonUsed(fmt) - 1) : \E i \in DOMAIN to : to[i] = k
  <2>1. \A k \in 0..(CanonUsed(fmt) - 1) : k \in DOMAIN cbuf
    BY <1>1, <1>5
  <2>2. QED
    BY <1>2, <1>3, <2>1 DEF EachOnce
<1>7. \A i \in Copied(fmt) : fbuf[WrittenAt(fmt, voiced, i)] = Canon(fmt, frame)[CanonAt(fmt, voiced, i)]
  BY DEF FormatHolds, voiced
<1>8. ASSUME NEW k \in DOMAIN cbuf
      PROVE  new[k] = Canon(fmt, frame)[k]
  <2>1. CASE k < CanonUsed(fmt)
    <3>1. k \in 0..(CanonUsed(fmt) - 1)
      BY <1>1, <1>5, <2>1
    <3>2. PICK i \in DOMAIN to : to[i] = k
      BY <1>6, <3>1
    <3>3. new[to[i]] = fbuf[from[i]]
      BY <1>6, <3>2, Copies
    <3>4. from[i] = WrittenAt(fmt, voiced, i) /\ to[i] = CanonAt(fmt, voiced, i) /\ i \in Copied(fmt)
      BY <1>3
    <3>5. QED
      BY <1>7, <3>2, <3>3, <3>4, Zenon
  <2>2. CASE ~(k < CanonUsed(fmt))
    <3>1. k \in 0..(CanonBits(fmt) - 1) /\ k >= CanonUsed(fmt)
      BY <1>1, <1>5, <2>2
    <3>2. k \in CanonSet(fmt)
      BY <1>1, <3>1, PaddingCleared
    <3>3. \A i \in DOMAIN to : to[i] # k
      BY <1>5, <1>6, <3>1
    <3>4. new[k] = IF k \in CanonSet(fmt) THEN IF k \in {} THEN One ELSE Zero ELSE cbuf[k]
      BY <3>3, Sets
    <3>5. Canon(fmt, frame)[k] = Zero
      BY <2>2, <3>1, CanonBit
    <3>6. QED
      BY <3>2, <3>4, <3>5
  <2>3. QED
    BY <2>1, <2>2
<1> HIDE DEF new
<1>9. new = Canon(fmt, frame)
  BY <1>4, <1>8, Zenon
<1>10. QED
  BY <1>9 DEF new, voiced, from, to

LEMMA ToCanonInv ==
  ASSUME IInv, ToCanon
  PROVE  IInv'
<1>1. BufferTypes /\ FormatHolds /\ step = "format" /\ UNCHANGED <<fmt, frame, fbuf>> /\ frame.n > 0
  BY DEF IInv, ToCanon, BufferTypes
<1>2. Accepted /\ step' = "done"
  BY <1>1, HeaderFound DEF ToCanon
<1>3. (fmt \in HrFormats /\ IsVoiced(fbuf, VoicingAt(fmt))) = FrameVoiced
  BY <1>1, VoicingFound, Zenon DEF FrameVoiced
<1> DEFINE from == [i \in Copied(fmt) |-> ReadAt(fmt, FrameVoiced, i)]
           to == [i \in Copied(fmt) |-> CanonAt(fmt, FrameVoiced, i)]
<1>4. cbuf' = IF Damaged THEN Silence ELSE Converted(cbuf, to, from, fbuf, CanonSet(fmt), {})
  BY <1>2, <1>3, Zenon DEF ToCanon
<1>5. BufferTypes'
  <2>1. DOMAIN cbuf' = DOMAIN cbuf
    <3>1. CASE Damaged
      <4>1. CanonBits(fmt) = 248
        BY <3>1 DEF Damaged, CanonBits, HrFormats, FrFormats
      <4>2. DOMAIN cbuf' = 0..247
        BY <1>4, <3>1 DEF Silence
      <4>3. QED
        BY <1>1, <4>1, <4>2 DEF BufferTypes
    <3>2. CASE ~Damaged
      BY <1>4, <3>2, KeepsDomain
    <3>3. QED
      BY <3>1, <3>2
  <2>2. QED
    BY <1>1, <1>2, <2>1 DEF BufferTypes
<1>6. ASSUME fmt # "ti-efr"
      PROVE  RoundTrip'
  <2>1. Converted(cbuf, to, from, fbuf, CanonSet(fmt), {}) = Canon(fmt, frame)
    BY <1>1, <1>6, Restores
  <2>2. Damaged <=> fmt = "rtp-efr" /\ frame.ones \cap 0..243 = {}
    BY <1>1, DamagedIsZeros
  <2>3. cbuf' = IF fmt = "rtp-efr" /\ frame.ones \cap 0..243 = {} THEN Silence
                ELSE Canon(fmt, frame)
    BY <1>4, <2>1, <2>2, Zenon
  <2>4. Canon(fmt, frame)' = Canon(fmt, frame) /\ Silence' = Silence
    BY <1>1 DEF Canon, Silence
  <2>5. QED
    BY <1>1, <1>2, <2>3, <2>4 DEF RoundTrip
<1>7. QED
  BY <1>1, <1>2, <1>5, <1>6 DEF IInv

LEMMA StutterInv ==
  ASSUME IInv, UNCHANGED vars
  PROVE  IInv'
<1>1. fmt' = fmt /\ frame' = frame /\ step' = step /\ fbuf' = fbuf /\ cbuf' = cbuf
  BY DEF vars
<1>2. BufferTypes' = BufferTypes
  BY <1>1 DEF BufferTypes
<1>3. FormatHolds' = FormatHolds
  BY <1>1, Zenon DEF FormatHolds, FrameVoiced, Plain
<1>4. RoundTrip' = RoundTrip
  BY <1>1, Zenon DEF RoundTrip
<1>5. QED
  BY <1>1, <1>2, <1>3, <1>4, Zenon DEF IInv

----------------------------------------------------------------------------
(* Theorems                                                                  *)

\* The invariant: the format's buffer always holds a whole frame where from_canon puts
\* it, for any tables of positions that are permutations and leave the voicing bits of
\* HR frames where to_canon looks for them.
THEOREM Inductive == Spec => []IInv
<1>1. IInv /\ [Next]_vars => IInv'
  BY NextFrameInv, FromCanonInv, ToCanonInv, StutterInv DEF Next
<1>2. QED
  BY InitInv, <1>1, PTL DEF Spec

\* Each format but the one whose loops stop early gives back the canonical frame it was
\* made of, all bits of it, whatever tables libosmocore has (fmt_*.c).
THEOREM FramesComeBack ==
  ASSUME "ti-efr" \notin Formats
  PROVE  Spec => []RoundTrip
<1>1. IInv => RoundTrip
  BY DEF IInv, BufferTypes
<1>2. QED
  BY <1>1, Inductive, PTL

\* Each bit is one the present frame has or one from_canon sets.
LEMMA FreshBits == IInv => NoStaleBits
<1> SUFFICES ASSUME IInv, step = "format", NEW p \in DOMAIN fbuf
             PROVE  fbuf[p].n \in {0, frame.n}
  BY DEF NoStaleBits
<1>1. BufferTypes /\ FormatHolds
  BY DEF IInv
<1>2. p \in 0..(FormatBits(fmt) - 1) /\ fmt \in BitFormats /\ FrameVoiced \in BOOLEAN
  BY <1>1 DEF BufferTypes, FrameVoiced, IsVoiced
<1>3. CASE \A i \in Copied(fmt) : WrittenAt(fmt, FrameVoiced, i) # p
  <2>1. fbuf[p] = Plain(p)
    BY <1>1, <1>2, <1>3 DEF FormatHolds
  <2>2. fbuf[p] = One \/ fbuf[p] = Zero
    BY <2>1 DEF Plain
  <2>3. QED
    BY <2>2, PlainOne
<1>4. ASSUME NEW i \in Copied(fmt), WrittenAt(fmt, FrameVoiced, i) = p
      PROVE  fbuf[p].n \in {0, frame.n}
  <2> DEFINE k == CanonAt(fmt, FrameVoiced, i)
  <2>1. fbuf[p] = Canon(fmt, frame)[k]
    BY <1>1, <1>4 DEF FormatHolds
  <2>2. k \in 0..(CanonUsed(fmt) - 1)
    BY <1>2, CanonRange
  <2> HIDE DEF k
  <2>3. k \in 0..(CanonBits(fmt) - 1) /\ k < CanonUsed(fmt)
    <3>1. CanonUsed(fmt) <= CanonBits(fmt) /\ CanonUsed(fmt) \in Int /\ CanonBits(fmt) \in Int
      BY <1>2, CopiedSteps
    <3>2. QED
      BY <2>2, <3>1
  <2>4. fbuf[p] = Bit(frame.n, k, k \in frame.ones)
    BY <1>1, <2>1, <2>3, CanonBit
  <2>5. QED
    BY <2>4 DEF Bit
<1>5. QED
  BY <1>3, <1>4

\* What a format's buffer holds after from_canon is of the present frame, also that of
\* the format whose loops stop early (fmt_*.c).
THEOREM NothingIsStale == Spec => []NoStaleBits
  BY Inductive, FreshBits, PTL
=============================================================================
