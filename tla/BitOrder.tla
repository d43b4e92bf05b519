------------------------------ MODULE BitOrder ------------------------------
(* The conversions that permute, shift or pad the bits of a frame (fmt_ti.c, *)
(* fmt_racal.c, fmt_amr.c, fmt_gsm.c, fmt_rtp_efr.c, fmt_hr_ref.c), between  *)
(* a canonical source and a canonical sink:                                  *)
(*     canonical frame -> from_canon -> to_canon -> canonical frame          *)
(* A buffer is a function from bit positions (most significant bit of byte 0 *)
(* first) to bits; the items' buffers are reused from frame to frame.  The   *)
(* tables of positions are libosmocore's: constants here.                    *)
EXTENDS Integers

CONSTANTS
  Formats,                 \* the formats considered, of BitFormats
  FrOrder,                 \* gsm610_bitorder
  EfrOrder,                \* gsm660_bitorder
  AmrOrder,                \* gsm690_12_2_bitorder
  HrVoiced, HrUnvoiced,    \* gsm620_voiced_bitorder, gsm620_unvoiced_bitorder
  Contents,                \* what a frame may be: the positions of the ones in it
  MaxFrames                \* bound: frames converted

HrFormats  == {"ti-hr", "racal-hr", "hr-ref-dec", "hr-ref-enc"}
FrFormats  == {"ti-fr", "racal-fr", "gsm"}
EfrFormats == {"ti-efr", "racal-efr", "amr-efr", "rtp-efr"}
BitFormats == HrFormats \cup FrFormats \cup EfrFormats

\* the positions of the two bits of the voicing decision in a canonical HR frame
Voicing == {34, 35}

IsOrder(t, n) ==
  /\ t \in [0..(n - 1) -> 0..(n - 1)]
  /\ \A i, j \in 0..(n - 1) : t[i] = t[j] => i = j
  /\ \A k \in 0..(n - 1) : \E i \in 0..(n - 1) : t[i] = k

ASSUME BitOrderAssumption ==
  /\ Formats \subseteq BitFormats
  /\ IsOrder(FrOrder, 260) /\ IsOrder(EfrOrder, 260) /\ IsOrder(AmrOrder, 244)
  /\ \A t \in {HrVoiced, HrUnvoiced} : IsOrder(t, 112) /\ {t[93], t[94]} = Voicing
  /\ Contents \subseteq SUBSET Nat
  /\ MaxFrames \in Nat

\* A bit: the number of the frame it comes from, its place there, and its value.
\* Bits that conversions set have number 0, those never written have number -1.
Bit(n, k, one) == [n |-> n, k |-> k, one |-> one]
Zero == Bit(0, 0, FALSE)
One == Bit(0, 0, TRUE)
Unwritten == Bit(-1, 0, FALSE)

----------------------------------------------------------------------------
(* Where the bits are                                                        *)

\* bits that mean something, and bits in all, of a canonical frame
CanonUsed(f) == IF f \in HrFormats THEN 112 ELSE IF f \in FrFormats THEN 260 ELSE 244
CanonBits(f) == IF f \in HrFormats THEN 112 ELSE IF f \in FrFormats THEN 264 ELSE 248

FormatBits(f) ==
  CASE f = "racal-hr" -> 112
    [] f \in {"racal-efr", "rtp-efr"} -> 248
    [] f = "amr-efr" -> 256
    [] f = "hr-ref-dec" -> 16 * 22
    [] f = "hr-ref-enc" -> 16 * 20
    [] OTHER -> 264

\* bit bn of lsb_put_bit and lsb_get_bit
LsbBit(bn) == 8 * (bn \div 8) + 7 - (bn % 8)

\* the TI buffer leaves 4 bits out where its class 2 bits begin
AfterGap(i, gap) == IF i >= gap THEN i + 4 ELSE i

\* params_unvoiced and params_voiced: where each parameter ends in the canonical frame
ParamsUnvoiced == <<5, 16, 25, 33, 34, 36, 43, 50, 55, 62, 69, 74, 81, 88, 93, 100, 107, 112>>
ParamsVoiced   == <<5, 16, 25, 33, 34, 36, 44, 53, 58, 62, 71, 76, 80, 89, 94, 98, 107, 112>>

\* parameter j is right-aligned in word j - 1
ParamBit(ends, i) ==
  LET j == CHOOSE j \in 1..18 : i < ends[j] /\ (j = 1 \/ i >= ends[j - 1])
  IN  16 * j - (ends[j] - i)

HrOrder(voiced) == IF voiced THEN HrVoiced ELSE HrUnvoiced

\* ti_efr_*: the canonical position of entry t of gsm660_bitorder
EfrRepeated == {71, 72, 123, 124, 178, 179, 230, 231}
EfrCrc == 252..259
EfrCanon(t) ==
  IF t < 71 THEN t ELSE IF t < 123 THEN t - 2 ELSE IF t < 178 THEN t - 4
  ELSE IF t < 230 THEN t - 6 ELSE t - 8

\* The steps of a conversion's loop that copy a bit.  The loops of ti_efr_* go to 244.
Copied(f) ==
  IF f = "ti-efr" THEN {i \in 0..243 : EfrOrder[i] \notin EfrRepeated \cup EfrCrc}
  ELSE 0..(CanonUsed(f) - 1)

\* step i copies between this position of the canonical frame
CanonAt(f, voiced, i) ==
  CASE f \in {"ti-hr", "racal-hr"} -> HrOrder(voiced)[i]
    [] f \in {"ti-fr", "racal-fr"} -> FrOrder[i]
    [] f = "ti-efr" -> EfrCanon(EfrOrder[i])
    [] f = "amr-efr" -> AmrOrder[i]
    [] OTHER -> i

\* and this position of the format, which from_canon writes
WrittenAt(f, voiced, i) ==
  CASE f = "ti-hr" -> AfterGap(i, 95)
    [] f \in {"ti-fr", "ti-efr"} -> AfterGap(i, 182)
    [] f \in {"racal-hr", "racal-fr", "racal-efr"} -> LsbBit(i)
    [] f \in {"gsm", "rtp-efr"} -> i + 4
    [] f = "amr-efr" -> i + 8
    [] OTHER -> ParamBit(IF voiced THEN ParamsVoiced ELSE ParamsUnvoiced, i)

\* Mutant: to_canon takes the gap to begin one bit late.
ReadAtLate(f, voiced, i) ==
  IF f = "ti-fr" THEN (IF i > 182 THEN i + 4 ELSE i) ELSE WrittenAt(f, voiced, i)

\* and to_canon reads: its loops are written out a second time
ReadAt(f, voiced, i) ==
  CASE f = "ti-hr" -> AfterGap(i, 95)
    [] f \in {"ti-fr", "ti-efr"} -> AfterGap(i, 182)
    [] f \in {"racal-hr", "racal-fr", "racal-efr"} -> LsbBit(i)
    [] f \in {"gsm", "rtp-efr"} -> i + 4
    [] f = "amr-efr" -> i + 8
    [] OTHER -> ParamBit(IF voiced THEN ParamsVoiced ELSE ParamsUnvoiced, i)

ByteAt(b) == (8 * b)..(8 * b + 7)

\* Mutant: ti_fr_from_canon clears nothing.
FormatSetNotFr(f) == IF f = "ti-fr" THEN {} ELSE 0..351

\* the bits from_canon sets before or besides those it copies
FormatSet(f) ==
  CASE f \in {"ti-hr", "ti-efr"} -> 0..263
    [] f = "ti-fr" -> ByteAt(22) \cup ByteAt(23)
    [] f = "racal-fr" -> ByteAt(32)
    [] f = "racal-efr" -> ByteAt(30)
    [] f = "amr-efr" -> ByteAt(0) \cup ByteAt(31)
    [] f \in {"gsm", "rtp-efr"} -> 0..3
    [] f \in {"hr-ref-dec", "hr-ref-enc"} -> 0..(FormatBits(f) - 1)
    [] OTHER -> {}

\* GSM_MAGIC 0xd, EFR_MAGIC 0xc, the frame header 0x3c
Magic(f) ==
  CASE f = "gsm" -> {0, 1, 3} [] f = "rtp-efr" -> {0, 1} [] f = "amr-efr" -> 2..5 [] OTHER -> {}

\* the bits to_canon clears
CanonSet(f) ==
  CASE f \in {"ti-fr", "racal-fr"} -> ByteAt(32)
    [] f = "gsm" -> 260..263
    [] f \in {"racal-efr", "amr-efr"} -> ByteAt(30)
    [] f = "rtp-efr" -> 244..247
    [] f = "ti-efr" -> 0..247
    [] OTHER -> {}

\* the bits of the format in which to_canon finds the voicing decision
VoicingAt(f) ==
  CASE f = "ti-hr" -> {93, 94}
    [] f = "racal-hr" -> {LsbBit(93), LsbBit(94)}
    [] f \in {"hr-ref-dec", "hr-ref-enc"} -> 80..95
    [] OTHER -> {}

----------------------------------------------------------------------------
(* The chain                                                                 *)

VARIABLES
  fmt,      \* the format of the chain
  frame,    \* the frame under way: its number and the positions of its ones
  step,     \* which items have run on it
  fbuf,     \* the buffer of the from_canon item
  cbuf      \* the buffer of the to_canon item

vars == <<fmt, frame, step, fbuf, cbuf>>

Canon(f, fr) ==
  [k \in 0..(CanonBits(f) - 1) |->
     IF k < CanonUsed(f) THEN Bit(fr.n, k, k \in fr.ones) ELSE Zero]

Init ==
  /\ fmt \in Formats
  /\ frame = [n |-> 0, ones |-> {}]
  /\ step = "done"
  /\ fbuf = [p \in 0..(FormatBits(fmt) - 1) |-> Unwritten]
  /\ cbuf = [k \in 0..(CanonBits(fmt) - 1) |-> Unwritten]

NextFrame ==
  /\ step = "done" /\ frame.n < MaxFrames
  /\ \E ones \in Contents : frame' = [n |-> frame.n + 1, ones |-> ones]
  /\ step' = "canon"
  /\ UNCHANGED <<fmt, fbuf, cbuf>>

\* a buffer after a loop whose step i copies bit from[i] of src to bit to[i], and the
\* stores of the bits of set, which are ones where magic is
Converted(old, to, from, src, set, magic) ==
  [p \in DOMAIN old |->
     IF \E i \in DOMAIN to : to[i] = p THEN src[from[CHOOSE i \in DOMAIN to : to[i] = p]]
     ELSE IF p \in set THEN IF p \in magic THEN One ELSE Zero
     ELSE old[p]]

IsVoiced(buf, places) == \E p \in places : buf[p].one

FromCanon ==
  /\ step = "canon"
  /\ LET src == Canon(fmt, frame)
         voiced == fmt \in HrFormats /\ IsVoiced(src, Voicing)
         from == [i \in Copied(fmt) |-> CanonAt(fmt, voiced, i)]
         to == [i \in Copied(fmt) |-> WrittenAt(fmt, voiced, i)]
     IN  fbuf' = Converted(fbuf, to, from, src, FormatSet(fmt), Magic(fmt))
  /\ step' = "format"
  /\ UNCHANGED <<fmt, frame, cbuf>>

\* amr_efr_to_canon looks for its frame header
Accepted == fmt = "amr-efr" => \A p \in ByteAt(0) : fbuf[p].one = (p \in Magic(fmt))

\* rtp_efr_to_canon takes the magic and nothing but zeros for a damaged packet, and puts
\* SILENCE in its place
Damaged == fmt = "rtp-efr" /\ \A p \in 0..247 : fbuf[p].one = (p \in Magic(fmt))
Silence == [k \in 0..247 |-> IF k < 95 THEN One ELSE Zero]

ToCanon ==
  /\ step = "format"
  /\ LET voiced == fmt \in HrFormats /\ IsVoiced(fbuf, VoicingAt(fmt))
         from == [i \in Copied(fmt) |-> ReadAt(fmt, voiced, i)]
         to == [i \in Copied(fmt) |-> CanonAt(fmt, voiced, i)]
     IN  cbuf' = IF ~Accepted THEN cbuf ELSE IF Damaged THEN Silence
                 ELSE Converted(cbuf, to, from, fbuf, CanonSet(fmt), {})
  /\ step' = IF Accepted THEN "done" ELSE "refused"
  /\ UNCHANGED <<fmt, frame, fbuf>>

Next == NextFrame \/ FromCanon \/ ToCanon

Spec == Init /\ [][Next]_vars

----------------------------------------------------------------------------
(* Properties                                                                *)

\* What each conversion makes of a frame in its format, the other makes the same frame
\* of again, all bits of it; but a damaged packet gives silence (fmt_*.c).
RoundTrip ==
  /\ step = "done" /\ frame.n > 0 =>
       cbuf = IF fmt = "rtp-efr" /\ frame.ones \cap 0..243 = {} THEN Silence
              ELSE Canon(fmt, frame)
  /\ step # "refused"

\* A buffer of a format holds nothing of an earlier frame and nothing that was never
\* written: put_bit keeps the bits around it, and what no loop writes is cleared.
NoStaleBits ==
  step = "format" => \A p \in DOMAIN fbuf : fbuf[p].n \in {0, frame.n}
============================================================================
