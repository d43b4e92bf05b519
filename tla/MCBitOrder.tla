----------------------------- MODULE MCBitOrder -----------------------------
(* Model-checking instances of BitOrder.  The tables stand for libosmocore's *)
(* and share with them what the assumption states.                           *)
EXTENDS BitOrder

MCFrOrder == [i \in 0..259 |-> (7 * i + 3) % 260]
MCAmrOrder == [i \in 0..243 |-> (11 * i + 5) % 244]
MCHrVoiced == [i \in 0..111 |-> (128 - i) % 112]
MCHrUnvoiced == [i \in 0..111 |-> (i + 53) % 112]

\* The reference recordings show where the entries of gsm660_bitorder that ti_efr_*
\* skip stand: the CRC at 65 to 72, the repeated bits in four pairs from 183 on.
SkippedData(i) ==
  IF i < 65 THEN i ELSE IF i < 183 THEN i - 8 ELSE IF i = 185 THEN 175
  ELSE IF i = 188 THEN 176 ELSE IF i = 191 THEN 177 ELSE i - 16

DataAt(d) ==
  IF d < 71 THEN d ELSE IF d < 121 THEN d + 2 ELSE IF d < 174 THEN d + 4
  ELSE IF d < 224 THEN d + 6 ELSE d + 8

MCEfrOrder ==
  [i \in 0..259 |->
     CASE i \in 65..72 -> 187 + i
       [] i \in {183, 184} -> i - 112 [] i \in {186, 187} -> i - 63
       [] i \in {189, 190} -> i - 11  [] i \in {192, 193} -> i + 38
       [] OTHER -> DataAt(SkippedData(i))]

MCFormats == BitFormats \ {"ti-efr"}

\* unvoiced and voiced frames, one with ones in its last bits, and a frame of zeros
MCContents == {{}, {0}, {0, 34}, {0, 35}, {34, 35, 111} \cup 228..243}

\* a frame with ones in the bits that ti-efr loses
MCLastBits == {228..243}
============================================================================
