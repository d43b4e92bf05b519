------------------------------- MODULE GsmHr --------------------------------
(* libgsmhr.c: instances of a codec whose reference code keeps its state in  *)
(* global variables.  Each call copies the instance's copy of the globals    *)
(* in, runs the reference code, and copies them out.  The globals of each    *)
(* half of the codec are given by the frames it was run on since its reset;  *)
(* resetEnc and resetDec set all of them (patches/0005).                     *)
EXTENDS Sequences

CONSTANTS
  Instances,    \* struct gsmhr the client may hold
  InitFails     \* whether dlopen, calloc or malloc may fail

ASSUME HrAssumption == InitFails \in BOOLEAN

VARIABLES
  live,      \* the bss of the library
  inst,      \* the instances: dec_reset_flg and bss_save
  out        \* what the last call of encode or decode put out

hrVars == <<live, inst, out>>

EncFrames == {"speech", "homing"}
DecFrames == {"speech", "first", "homing"}

Globals(enc, dec) == [enc |-> enc, dec |-> dec]
NoInstance == [open |-> FALSE, dec_reset_flg |-> FALSE, save |-> Globals(<<>>, <<>>)]

Coded(op, past, f) == [op |-> op, past |-> past, of |-> f]
\* pcm filled with EHF_MASK
Home == Coded("ehf", <<>>, "none")
Nothing == Coded("none", <<>>, "none")

HrInit ==
  /\ live = Globals(<<"unset">>, <<"unset">>)
  /\ inst = [i \in Instances |-> NoInstance]
  /\ out = Nothing

----------------------------------------------------------------------------
\* resetDec, resetEnc and a copy of the result
GsmhrInit(i) ==
  /\ ~inst[i].open
  /\ live' = Globals(<<>>, <<>>)
  /\ inst' = [inst EXCEPT ![i] =
       [open |-> TRUE, dec_reset_flg |-> TRUE, save |-> Globals(<<>>, <<>>)]]
  /\ UNCHANGED out

GsmhrInitFails(i) == ~inst[i].open /\ InitFails /\ UNCHANGED hrVars

GsmhrExit(i) ==
  /\ inst[i].open
  /\ inst' = [inst EXCEPT ![i] = NoInstance]
  /\ UNCHANGED <<live, out>>

\* Mutant: goes on with the globals as the last call left them.
RestoredNever(i) == live

\* memcpy(bss_base, bss_save)
Restored(i) == inst[i].save

\* encoderHomingFrameTest, speechEncoder, resetEnc
GsmhrEncode(i, f) ==
  /\ inst[i].open
  /\ LET bss == Restored(i)
         enc == IF f = "homing" THEN <<>> ELSE Append(bss.enc, f)
     IN  /\ out' = Coded("encode", bss.enc, f)
         /\ live' = Globals(enc, bss.dec)
         /\ inst' = [inst EXCEPT ![i].save = Globals(enc, bss.dec)]

\* decoderHomingFrameTest(TO_FIRST_SUBFRAME) and (WHOLE_FRAME)
FirstSubframeTest(f) == f \in {"first", "homing"}
WholeFrameTest(f) == f = "homing"

\* dec_reset_flg at the end of gsmhr_decode, given what it was at its start
ResetFlag(flg, f) == IF flg THEN FirstSubframeTest(f) ELSE WholeFrameTest(f)

GsmhrDecode(i, f) ==
  /\ inst[i].open
  /\ LET bss == Restored(i)
         flg == inst[i].dec_reset_flg
         silent == flg /\ FirstSubframeTest(f)
         dec == IF ResetFlag(flg, f) THEN <<>> ELSE Append(bss.dec, f)
     IN  /\ out' = IF silent THEN Home ELSE Coded("decode", bss.dec, f)
         /\ live' = Globals(bss.enc, dec)
         /\ inst' = [inst EXCEPT ![i].save = Globals(bss.enc, dec),
                                 ![i].dec_reset_flg = ResetFlag(flg, f)]

----------------------------------------------------------------------------
\* The decoder's reset flag says what its saved state says: it is at home.
FlagMeansHome ==
  \A i \in Instances : inst[i].open => (inst[i].dec_reset_flg <=> inst[i].save.dec = <<>>)

\* the same instances as independent codecs
AsCodec(i) == [open |-> inst[i].open, enc |-> inst[i].save.enc, dec |-> inst[i].save.dec]

Codec == INSTANCE HrCodecs WITH codec <- [i \in Instances |-> AsCodec(i)]
============================================================================
