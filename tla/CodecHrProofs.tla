--------------------------- MODULE CodecHrProofs ----------------------------
(* Proofs about CodecHr, for every set of instances, every ring size and any *)
(* number of calls: the type invariant, what the benchmark sums, and that    *)
(* instances over one set of globals implement independent codecs.           *)
EXTENDS CodecHr, TLAPS, SequenceTheorems

----------------------------------------------------------------------------
(* The ring of the benchmark                                                 *)

Slots == 0..(NumAvg - 1)

BenchTypeOK ==
  /\ bench \in {"null", "live", "freed"}
  /\ used \in [Ways -> Slots]
  /\ cycles \in [Ways -> [Slots -> Nat]]
  /\ measured \in [Ways -> Seq(Nat)]

\* Up to the slot written last, the ring holds the newest measurements in order, with
\* the zero of the allocation before the first.
RingHolds ==
  \A w \in Ways :
    /\ used[w] <= Len(measured[w])
    /\ \A k \in 0..used[w] : cycles[w][k] = Measured(w, Len(measured[w]) - used[w] + k)

\* The index after the last slot is the first.
LEMMA IndexNext ==
  ASSUME NEW u \in Slots
  PROVE  Index(u) = IF u = NumAvg - 1 THEN 0 ELSE u + 1
BY BenchAssumption DEF Index, Slots

\* osmo_gapk_bench_enable starts with an empty ring, whatever was there.
LEMMA ZeroedRing ==
  ASSUME Zeroed
  PROVE  /\ used' \in [Ways -> Slots] /\ cycles' \in [Ways -> [Slots -> Nat]]
         /\ measured' \in [Ways -> Seq(Nat)]
         /\ RingHolds'
<1>1. 0 \in Slots /\ <<>> \in Seq(Nat)
  BY BenchAssumption DEF Slots
<1>2. ASSUME NEW w \in Ways
      PROVE  used'[w] = 0 /\ measured'[w] = <<>> /\ cycles'[w][0] = 0
  BY <1>1 DEF Zeroed, Slots
<1> QED
  BY <1>1, <1>2 DEF Zeroed, RingHolds, Measured, Slots

\* A slot k is as far from the slot written last as its measurement from the newest one.
LEMMA CountedBack ==
  ASSUME NEW len \in Nat, NEW u \in Nat, u <= len, NEW k \in 0..u
  PROVE  len - u + k = len + 1 - (u + 1) + k /\ len - u + k \in 0..len
OBVIOUS

\* BENCHMARK_STOP keeps the ring's contents in order, when the index wraps too.
LEMMA MeasureRing ==
  ASSUME BenchTypeOK, RingHolds, NEW w \in Ways, NEW c \in Nat, Measure(w, c)
  PROVE  BenchTypeOK' /\ RingHolds'
<1>1. CASE UNCHANGED benchVars
  BY <1>1 DEF benchVars, BenchTypeOK, RingHolds, Measured
<1>2. CASE bench # "null"
  <2> DEFINE next == Index(used[w])
  <2>1. /\ used' = [used EXCEPT ![w] = next]
        /\ cycles' = [cycles EXCEPT ![w][next] = c]
        /\ measured' = [measured EXCEPT ![w] = Append(@, c)]
        /\ UNCHANGED bench
    BY <1>2 DEF Measure
  <2>2. used[w] \in Slots /\ NumAvg \in Nat \ {0}
    BY BenchAssumption DEF BenchTypeOK
  <2>3. next = IF used[w] = NumAvg - 1 THEN 0 ELSE used[w] + 1
    BY <2>2, IndexNext
  <2>4. next \in Slots
    BY <2>2, <2>3 DEF Slots
  <2> HIDE DEF next
  <2>5. measured[w] \in Seq(Nat) /\ cycles[w] \in [Slots -> Nat]
    BY DEF BenchTypeOK
  <2>6. /\ Append(measured[w], c) \in Seq(Nat)
        /\ Len(Append(measured[w], c)) = Len(measured[w]) + 1
        /\ \A i \in 1..Len(measured[w]) : Append(measured[w], c)[i] = measured[w][i]
        /\ Append(measured[w], c)[Len(measured[w]) + 1] = c
    BY <2>5, AppendProperties
  <2>7. BenchTypeOK'
    <3>1. used' \in [Ways -> Slots] /\ measured' \in [Ways -> Seq(Nat)]
      BY <2>1, <2>4, <2>6 DEF BenchTypeOK
    <3>2. cycles' \in [Ways -> [Slots -> Nat]]
      BY <2>1, <2>4, <2>5 DEF BenchTypeOK
    <3> QED
      BY <2>1, <3>1, <3>2 DEF BenchTypeOK
  <2>8. ASSUME NEW v \in Ways
        PROVE  /\ used'[v] <= Len(measured'[v])
               /\ \A k \in 0..used'[v] :
                    cycles'[v][k] = Measured(v, Len(measured[v]) - used[v] + k)'
    <3>1. CASE v # w
      BY <3>1, <2>1 DEF BenchTypeOK, RingHolds, Measured
    <3>2. CASE v = w
      <4> DEFINE new == Append(measured[w], c)
                 L == Len(measured[w])
      <4>1. /\ used'[w] = next
            /\ measured'[w] = new
            /\ cycles'[w] = [cycles[w] EXCEPT ![next] = c]
        BY <2>1 DEF BenchTypeOK
      <4>2. L \in Nat /\ used[w] <= L
        BY <2>5, LenProperties DEF RingHolds
      <4>3. next <= L + 1
        BY <2>2, <2>3, <4>2 DEF Slots
      <4>4. ASSUME NEW k \in 0..next
            PROVE  cycles'[w][k] = IF L + 1 - next + k = 0 THEN 0 ELSE new[L + 1 - next + k]
        <5>1. CASE k = next
          <6>1. cycles'[w][k] = c
            BY <5>1, <4>1, <2>4, <2>5
          <6>2. L + 1 - next + k = L + 1 /\ L + 1 # 0
            BY <5>1, <4>2, <2>4, <2>2 DEF Slots
          <6> QED
            BY <6>1, <6>2, <2>6
        <5>2. CASE k # next
          <6>1. next = used[w] + 1 /\ k \in 0..used[w] /\ k \in Slots
            BY <5>2, <2>2, <2>3 DEF Slots
          <6>2. cycles'[w][k] = cycles[w][k]
            BY <6>1, <5>2, <4>1, <2>4, <2>5
          <6>3. cycles[w][k] = IF L - used[w] + k = 0 THEN 0 ELSE measured[w][L - used[w] + k]
            BY <6>1 DEF RingHolds, Measured
          <6>4. PICK u \in Nat : u = used[w] /\ u <= L /\ next = u + 1 /\ k \in 0..u
            BY <6>1, <4>2, <2>2 DEF Slots
          <6>5. L - u + k = L + 1 - (u + 1) + k /\ L - u + k \in 0..L
            BY <6>4, <4>2, CountedBack
          <6>6. L - used[w] + k = L + 1 - next + k /\ L - used[w] + k \in 0..L
            BY <6>4, <6>5
          <6> QED
            BY <6>2, <6>3, <6>6, <4>2, <2>6
        <5> QED
          BY <5>1, <5>2
      <4>5. Len(new) = L + 1
        BY <2>6
      <4> HIDE DEF new, L
      <4> QED
        BY <3>2, <4>1, <4>2, <4>3, <4>4, <4>5, <2>2, <2>4 DEF Measured, Slots
    <3> QED
      BY <3>1, <3>2
  <2> QED
    BY <2>7, <2>8 DEF RingHolds
<1> QED
  BY <1>1, <1>2 DEF Measure

\* SumsConsecutive is what the ring says of the slots below the index.
LEMMA RingSums ==
  ASSUME BenchTypeOK, RingHolds
  PROVE  SumsConsecutive
<1>1. SUFFICES ASSUME NEW w \in Ways, NEW k \in Summed(w)
               PROVE  /\ Len(measured[w]) - used[w] >= 0
                      /\ cycles[w][k] = Measured(w, Len(measured[w]) - used[w] + k)
  BY DEF SumsConsecutive
<1>2. used[w] \in Nat /\ Len(measured[w]) \in Nat
  BY BenchAssumption, LenProperties DEF BenchTypeOK, Slots
<1>3. k \in 0..used[w]
  BY <1>2 DEF Summed
<1> QED
  BY <1>2, <1>3 DEF RingHolds

----------------------------------------------------------------------------
(* The instances                                                             *)

HrTypeOK ==
  /\ live \in BssSet
  /\ inst \in [Instances -> [open : BOOLEAN, dec_reset_flg : BOOLEAN, save : BssSet]]

HrInv == HrTypeOK /\ FlagMeansHome

\* The globals of a codec that has just been reset, and of no codec, are globals.
LEMMA GlobalsType ==
  /\ Globals(<<>>, <<>>) \in BssSet
  /\ Globals(<<"unset">>, <<"unset">>) \in BssSet
BY DEF Globals, BssSet

\* What one frame makes of the globals of the encoder and of the decoder.
LEMMA CodedType ==
  ASSUME NEW b \in BssSet
  PROVE  /\ \A f \in EncFrames :
              Globals(IF f = "homing" THEN <<>> ELSE Append(b.enc, f), b.dec) \in BssSet
         /\ \A f \in DecFrames, r \in BOOLEAN :
              /\ Globals(b.enc, IF r THEN <<>> ELSE Append(b.dec, f)) \in BssSet
              /\ Append(b.dec, f) # <<>>
<1>1. /\ b.enc \in Seq(EncFrames \cup {"unset"}) /\ b.dec \in Seq(DecFrames \cup {"unset"})
      /\ b = [enc |-> b.enc, dec |-> b.dec]
  BY DEF BssSet
<1>2. \A f \in EncFrames : Append(b.enc, f) \in Seq(EncFrames \cup {"unset"})
  BY <1>1, AppendProperties
<1>3. \A f \in DecFrames :
        Append(b.dec, f) \in Seq(DecFrames \cup {"unset"}) /\ Append(b.dec, f) # <<>>
  BY <1>1, AppendProperties
<1> QED
  BY <1>1, <1>2, <1>3 DEF Globals, BssSet

\* No instance is open at first.
LEMMA HrInitInv ==
  ASSUME HrInit
  PROVE  HrInv
BY GlobalsType DEF HrInit, HrInv, HrTypeOK, FlagMeansHome, NoInstance

\* Opening and closing an instance leaves the others as they are.
LEMMA HrOpenClose ==
  ASSUME HrInv, NEW i \in Instances, GsmhrInit(i) \/ GsmhrInitFails(i) \/ GsmhrExit(i)
  PROVE  HrInv'
<1>1. CASE GsmhrInit(i)
  <2>1. HrTypeOK'
    BY <1>1, GlobalsType DEF HrInv, HrTypeOK, GsmhrInit
  <2>2. FlagMeansHome'
    BY <1>1 DEF HrInv, HrTypeOK, FlagMeansHome, GsmhrInit, Globals
  <2> QED
    BY <2>1, <2>2 DEF HrInv
<1>2. CASE GsmhrInitFails(i)
  BY <1>2 DEF GsmhrInitFails, hrVars, HrInv, HrTypeOK, FlagMeansHome
<1>3. CASE GsmhrExit(i)
  <2>1. HrTypeOK'
    BY <1>3, GlobalsType DEF HrInv, HrTypeOK, GsmhrExit, NoInstance
  <2>2. FlagMeansHome'
    BY <1>3 DEF HrInv, HrTypeOK, FlagMeansHome, GsmhrExit, NoInstance
  <2> QED
    BY <2>1, <2>2 DEF HrInv
<1> QED
  BY <1>1, <1>2, <1>3

\* gsmhr_encode leaves the decoder's part of the globals, and its flag, alone.
LEMMA HrEncode ==
  ASSUME HrInv, NEW i \in Instances, NEW f \in EncFrames, GsmhrEncode(i, f)
  PROVE  HrInv'
<1> DEFINE b == inst[i].save
           new == Globals(IF f = "homing" THEN <<>> ELSE Append(b.enc, f), b.dec)
<1>1. b \in BssSet
  BY DEF HrInv, HrTypeOK
<1>2. new \in BssSet /\ new.dec = b.dec
  BY <1>1, CodedType DEF Globals
<1>3. live' = new /\ inst' = [inst EXCEPT ![i].save = new]
  BY DEF GsmhrEncode, Restored
<1> HIDE DEF new
<1>4. HrTypeOK'
  BY <1>2, <1>3 DEF HrInv, HrTypeOK
<1>5. FlagMeansHome'
  BY <1>2, <1>3 DEF HrInv, HrTypeOK, FlagMeansHome
<1> QED
  BY <1>4, <1>5 DEF HrInv

\* The flag is one of two values.
LEMMA ResetFlagType ==
  ASSUME NEW flg \in BOOLEAN, NEW f
  PROVE  ResetFlag(flg, f) \in BOOLEAN
<1>1. CASE flg
  BY <1>1 DEF ResetFlag, FirstSubframeTest
<1>2. CASE ~flg
  BY <1>2 DEF ResetFlag, WholeFrameTest
<1> QED
  BY <1>1, <1>2

\* gsmhr_decode resets the decoder exactly when it sets the flag.
LEMMA HrDecode ==
  ASSUME HrInv, NEW i \in Instances, NEW f \in DecFrames, GsmhrDecode(i, f)
  PROVE  HrInv'
<1> DEFINE b == inst[i].save
           r == ResetFlag(inst[i].dec_reset_flg, f)
           new == Globals(b.enc, IF r THEN <<>> ELSE Append(b.dec, f))
<1>1. b \in BssSet
  BY DEF HrInv, HrTypeOK
<1>2. r \in BOOLEAN
  BY ResetFlagType DEF HrInv, HrTypeOK
<1>3. new \in BssSet /\ (r <=> new.dec = <<>>)
  BY <1>1, <1>2, CodedType DEF Globals
<1>4. live' = new /\ inst' = [inst EXCEPT ![i].save = new, ![i].dec_reset_flg = r]
  BY DEF GsmhrDecode, Restored
<1> HIDE DEF new, r
<1>5. HrTypeOK'
  BY <1>2, <1>3, <1>4 DEF HrInv, HrTypeOK
<1>6. FlagMeansHome'
  BY <1>2, <1>3, <1>4 DEF HrInv, HrTypeOK, FlagMeansHome
<1> QED
  BY <1>5, <1>6 DEF HrInv

----------------------------------------------------------------------------
(* The invariant                                                             *)

IInv == HrInv /\ BenchTypeOK /\ RingHolds /\ calls \in 0..MaxCalls

\* IInv holds before the first instance is opened.
LEMMA InitInv == Init => IInv
<1>1. ASSUME BenchInit PROVE BenchTypeOK /\ RingHolds
  <2>1. 0 \in Slots /\ <<>> \in Seq(Nat)
    BY BenchAssumption DEF Slots
  <2> QED
    BY <1>1, <2>1 DEF BenchInit, BenchTypeOK, RingHolds, Measured, Slots
<1> QED
  BY <1>1, HrInitInv, CodecHrAssumption DEF Init, IInv

\* Every step of the client keeps IInv.
LEMMA StepInv == IInv /\ [Next]_vars => IInv'
<1>1. SUFFICES ASSUME IInv, [Next]_vars PROVE IInv'
  OBVIOUS
<1>2. ASSUME UNCHANGED benchVars PROVE BenchTypeOK' /\ RingHolds'
  BY <1>1, <1>2 DEF IInv, benchVars, BenchTypeOK, RingHolds, Measured
<1>3. ASSUME UNCHANGED hrVars PROVE HrInv'
  BY <1>1, <1>3 DEF IInv, hrVars, HrInv, HrTypeOK, FlagMeansHome
<1>4. CASE Construct
  BY <1>1, <1>2, <1>4, HrOpenClose DEF Construct, IInv
<1>5. CASE Destruct
  BY <1>1, <1>2, <1>5, HrOpenClose DEF Destruct, IInv
<1>6. CASE Run
  <2>1. PICK i \in Instances, c \in Costs :
          \/ \E f \in EncFrames : GsmhrEncode(i, f) /\ Measure("enc", c)
          \/ \E f \in DecFrames : GsmhrDecode(i, f) /\ Measure("dec", c)
    BY <1>6 DEF Run
  <2>2. c \in Nat /\ {"enc", "dec"} \subseteq Ways
    BY CodecHrAssumption DEF Ways
  <2>3. BenchTypeOK' /\ RingHolds'
    BY <1>1, <2>1, <2>2, MeasureRing DEF IInv
  <2>4. HrInv'
    BY <1>1, <2>1, HrEncode, HrDecode DEF IInv
  <2>5. calls' \in 0..MaxCalls
    BY <1>1, <1>6, CodecHrAssumption DEF Run, IInv
  <2> QED
    BY <2>3, <2>4, <2>5 DEF IInv
<1>7. CASE BenchEnable
  <2>1. BenchTypeOK' /\ RingHolds'
    BY <1>7, ZeroedRing DEF BenchEnable, Enable, BenchTypeOK
  <2> QED
    BY <1>1, <1>3, <1>7, <2>1 DEF BenchEnable, IInv
<1>8. CASE BenchFree
  <2>1. BenchTypeOK' /\ RingHolds'
    BY <1>1, <1>8 DEF BenchFree, Free, IInv, BenchTypeOK, RingHolds, Measured
  <2> QED
    BY <1>1, <1>3, <1>8, <2>1 DEF BenchFree, IInv
<1>9. CASE UNCHANGED vars
  BY <1>1, <1>2, <1>3, <1>9 DEF vars, IInv
<1> QED
  BY <1>1, <1>4, <1>5, <1>6, <1>7, <1>8, <1>9 DEF Next

\* Both halves of every instance and both rings are in order in every reachable state.
THEOREM Inductive == Spec => []IInv
BY InitInv, StepInv, PTL DEF Spec

----------------------------------------------------------------------------
(* The properties                                                            *)

\* The globals, the instances and the rings have their types, for any number of
\* instances and any ring.
THEOREM Typed == Spec => []TypeOK
<1>1. IInv => TypeOK
  BY DEF IInv, HrInv, HrTypeOK, BenchTypeOK, Slots, TypeOK
<1> QED
  BY <1>1, Inductive, PTL

\* For f frames benchmark_dump adds up f consecutive measurements, for a ring of any
\* size, after any number of calls and of calls of osmo_gapk_bench_enable.
THEOREM RingSumsConsecutive == Spec => []SumsConsecutive
<1>1. IInv => SumsConsecutive
  BY RingSums DEF IInv
<1> QED
  BY <1>1, Inductive, PTL

----------------------------------------------------------------------------
(* The refinement                                                            *)

\* Before the first call no codec exists.
LEMMA InitRefines == Init => Codec!Init
BY DEF Init, HrInit, Codec!Init, Codec!Closed, Codec!Nothing, Codec!Coded, AsCodec,
       NoInstance, Globals, Nothing, Coded

\* gsmhr_encode over the shared globals is a step of codec i alone.
LEMMA EncodeRefines ==
  ASSUME HrInv, NEW i \in Instances, NEW f \in EncFrames, GsmhrEncode(i, f)
  PROVE  Codec!Encode(i, f)
BY DEF HrInv, HrTypeOK, GsmhrEncode, Restored, Codec!Encode, Codec!Coded, Coded, AsCodec,
       Globals

\* So is gsmhr_decode, which is silent just when the decoder is at home.
LEMMA DecodeRefines ==
  ASSUME HrInv, NEW i \in Instances, NEW f \in DecFrames, GsmhrDecode(i, f)
  PROVE  Codec!StayHome(i, f) \/ Codec!Decode(i, f)
<1>1. inst[i].open /\ (inst[i].dec_reset_flg <=> inst[i].save.dec = <<>>)
  BY DEF GsmhrDecode, HrInv, FlagMeansHome
<1>2. CASE inst[i].dec_reset_flg /\ FirstSubframeTest(f)
  BY <1>1, <1>2 DEF HrInv, HrTypeOK, GsmhrDecode, Restored, ResetFlag, FirstSubframeTest,
    Codec!StayHome, Codec!Home, Codec!Coded, Home, Coded, AsCodec, Globals
<1>3. CASE ~(inst[i].dec_reset_flg /\ FirstSubframeTest(f))
  BY <1>1, <1>3 DEF HrInv, HrTypeOK, GsmhrDecode, Restored, ResetFlag, FirstSubframeTest,
    WholeFrameTest, DecFrames, Codec!Decode, Codec!Coded, Coded, AsCodec, Globals
<1> QED
  BY <1>2, <1>3

\* Every step is one of the abstract codecs', or none of theirs.
LEMMA StepRefines ==
  ASSUME IInv, [Next]_vars
  PROVE  [Codec!Next]_<<[i \in Instances |-> AsCodec(i)], out>>
<1>1. ASSUME UNCHANGED hrVars
      PROVE  UNCHANGED <<[i \in Instances |-> AsCodec(i)], out>>
  BY <1>1 DEF hrVars, AsCodec
<1>2. CASE Construct
  <2>1. PICK i \in Instances : GsmhrInit(i) \/ GsmhrInitFails(i)
    BY <1>2 DEF Construct
  <2>2. CASE GsmhrInit(i)
    <3>1. Codec!Open(i)
      BY <2>2 DEF IInv, HrInv, HrTypeOK, GsmhrInit, Codec!Open, Codec!Opened, AsCodec, Globals
    <3> QED
      BY <3>1 DEF Codec!Next
  <2>3. CASE GsmhrInitFails(i)
    BY <1>1, <2>3 DEF GsmhrInitFails
  <2> QED
    BY <2>1, <2>2, <2>3
<1>3. CASE Destruct
  <2>1. PICK i \in Instances : GsmhrExit(i)
    BY <1>3 DEF Destruct
  <2>2. Codec!Close(i)
    BY <2>1 DEF IInv, HrInv, HrTypeOK, GsmhrExit, Codec!Close, Codec!Closed, AsCodec,
      NoInstance, Globals
  <2> QED
    BY <2>2 DEF Codec!Next
<1>4. CASE Run
  <2>1. PICK i \in Instances :
          \/ \E f \in EncFrames : GsmhrEncode(i, f)
          \/ \E f \in DecFrames : GsmhrDecode(i, f)
    BY <1>4 DEF Run
  <2>2. CASE \E f \in EncFrames : GsmhrEncode(i, f)
    BY <2>2, EncodeRefines DEF IInv, Codec!Next, EncFrames, Codec!EncFrames
  <2>3. CASE \E f \in DecFrames : GsmhrDecode(i, f)
    BY <2>3, DecodeRefines DEF IInv, Codec!Next, DecFrames, Codec!DecFrames
  <2> QED
    BY <2>1, <2>2, <2>3
<1>5. CASE BenchEnable
  BY <1>1, <1>5 DEF BenchEnable
<1>6. CASE BenchFree
  BY <1>1, <1>6 DEF BenchFree
<1>7. CASE UNCHANGED vars
  BY <1>1, <1>7 DEF vars
<1> QED
  BY <1>2, <1>3, <1>4, <1>5, <1>6, <1>7 DEF Next

\* Any number of instances of libgsmhr, which all run in one set of globals, behave as
\* codecs that know nothing of one another.
THEOREM InstancesIndependent == Spec => Independent
BY InitRefines, StepRefines, Inductive, PTL DEF Spec, Independent, Codec!Spec
=============================================================================
