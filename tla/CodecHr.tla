------------------------------ MODULE CodecHr -------------------------------
(* The Half Rate codec items of processing queues (codec_hr.c): each call of *)
(* libgsmhr is measured.  A client holds several items, runs them in any     *)
(* order, and may enable the benchmark at any time and more than once.       *)
EXTENDS GsmHr, Benchmark

CONSTANTS
  Costs,      \* cycles a call may take
  MaxCalls    \* bound: calls of encode and decode

ASSUME CodecHrAssumption == Costs \subseteq Nat /\ MaxCalls \in Nat

VARIABLE calls

vars == <<hrVars, benchVars, calls>>

Init == HrInit /\ BenchInit /\ calls = 0

Construct ==
  /\ \E i \in Instances : GsmhrInit(i) \/ GsmhrInitFails(i)
  /\ UNCHANGED <<benchVars, calls>>

Destruct ==
  /\ \E i \in Instances : GsmhrExit(i)
  /\ UNCHANGED <<benchVars, calls>>

\* codec_hr_encode, codec_hr_decode
Run ==
  /\ calls < MaxCalls /\ bench # "freed"
  /\ \E i \in Instances, c \in Costs :
       \/ \E f \in EncFrames : GsmhrEncode(i, f) /\ Measure("enc", c)
       \/ \E f \in DecFrames : GsmhrDecode(i, f) /\ Measure("dec", c)
  /\ calls' = calls + 1

BenchEnable ==
  /\ calls < MaxCalls /\ bench # "freed"
  /\ Enable
  /\ UNCHANGED <<hrVars, calls>>

\* the pointer is left set: nothing is run after this
BenchFree ==
  /\ bench = "live" /\ Free
  /\ UNCHANGED <<hrVars, used, cycles, measured, calls>>

Next == Construct \/ Destruct \/ Run \/ BenchEnable \/ BenchFree

Spec == Init /\ [][Next]_vars

----------------------------------------------------------------------------
(* Properties                                                                *)

BssSet == [enc : Seq(EncFrames \cup {"unset"}), dec : Seq(DecFrames \cup {"unset"})]

\* Every variable of the library, of its instances and of the benchmark has its type.
TypeOK ==
  /\ live \in BssSet
  /\ inst \in [Instances -> [open : BOOLEAN, dec_reset_flg : BOOLEAN, save : BssSet]]
  /\ bench \in {"null", "live", "freed"}
  /\ used \in [Ways -> 0..(NumAvg - 1)]
  /\ cycles \in [Ways -> [0..(NumAvg - 1) -> Nat]]
  /\ measured \in [Ways -> Seq(Nat)]
  /\ calls \in 0..MaxCalls

\* Two instances over one set of globals, created, run and destroyed in any order,
\* behave as independent codecs (gsmhr_encode, gsmhr_decode).
Independent == Codec!Spec
============================================================================
