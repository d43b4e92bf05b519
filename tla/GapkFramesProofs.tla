-------------------------- MODULE GapkFramesProofs --------------------------
(* Proofs about the frames of osmo-gapk: their order, their number, and that *)
(* the unthrottled program implements FramePump.                             *)
EXTENDS GapkAppProofs

USE ProcQueueAssumption, AppAssumption

----------------------------------------------------------------------------
(* The frames: OrderInv, PrefixInv, CountInv                                 *)

\* The outcomes of a step of pq_execute in a chain that has passed the strict check.
Fetches == at = 1 /\ at' = 2 /\ rv' = 0 /\ taken' = taken + 1 /\ flight'.id = taken + 1 /\ UNCHANGED <<sunk, fault>>
Works   == at > 1 /\ at' = at + 1 /\ rv' = 0 /\ flight'.id = flight.id /\ UNCHANGED <<taken, sunk, fault>>
Sinks   == at > 1 /\ at' = 0 /\ rv' = 0 /\ sunk' = Append(sunk, flight) /\ UNCHANGED <<taken, fault>>
FailsAt == at' = 0 /\ rv' = -1 /\ (taken' = taken \/ (at = 1 /\ taken' = taken + 1)) /\ UNCHANGED <<sunk, fault>>
Crashes == fault' # "none" /\ UNCHANGED <<at, flight, rv, taken, sunk>>

LEMMA PassOutcome ==
  ASSUME OptionsInv, StagesInv, EndsInv, Pass
  PROVE  /\ UNCHANGED <<pc, appVars, items>> /\ at \in Nat \ {0}
         /\ Fetches \/ Works \/ Sinks \/ FailsAt \/ Crashes
<1>1. /\ PqTypeOK /\ fault = "none" /\ ExecStep /\ UNCHANGED <<pc, appVars>> /\ Checked
  BY DEF OptionsInv, TypeOK, Pass, At, StagesInv, ChainStages, AfterChain, Looping
<1>2. /\ UNCHANGED items /\ at \in DOMAIN items
      /\ ErrorStep \/ CrashStep \/ \E n \in Nat : ReturnStep(n)
  BY <1>1, ExecOutcome DEF listVars
<1>3. /\ items \in Seq(ItemSet) /\ Len(items) \in Nat /\ Len(items) >= 2
      /\ items[1].proc.op \in SourceOps \cup {"NULL"}
      /\ items[Len(items)].proc.op \in SinkOps
      /\ \A i \in DOMAIN items :
           /\ items[i].proc.op \in SourceOps => i = 1
           /\ items[i].proc.op \in SinkOps => i = Len(items)
  BY <1>1, Places
<1>4. /\ at \in 1..Len(items) /\ Cb = items[at].proc
      /\ Cb.op \in SourceOps => at = 1
      /\ Cb.op \in SinkOps => at = Len(items)
      /\ Cb.op \in ProcOps => at # 1 /\ at # Len(items)
  BY <1>2, <1>3 DEF Cb, ProcOps, SourceOps, SinkOps
<1>5. ErrorStep => FailsAt
  BY <1>2, <1>4 DEF ErrorStep, FailsAt
<1>6. CrashStep => Crashes
  BY <1>1 DEF CrashStep, Crashes
<1>7. ASSUME NEW n \in Nat, ReturnStep(n) PROVE Fetches \/ Works \/ Sinks
  <2>1. at' = NextItem /\ rv' = 0 /\ UNCHANGED fault
    BY <1>7 DEF ReturnStep
  <2>2. CASE Cb.op \in SourceOps
    BY <1>3, <1>4, <1>7, <2>1, <2>2 DEF ReturnStep, NextItem, Frame, Fetches, SourceOps, SinkOps, ProcOps
  <2>3. CASE Cb.op \in SinkOps
    BY <1>3, <1>4, <1>7, <2>1, <2>3 DEF ReturnStep, NextItem, Sinks, SourceOps, SinkOps, ProcOps
  <2>4. CASE Cb.op \in ProcOps
    BY <1>3, <1>4, <1>7, <2>1, <2>4 DEF ReturnStep, NextItem, Frame, Works, SourceOps, SinkOps, ProcOps
  <2> QED
    BY <1>7, <2>2, <2>3, <2>4 DEF ReturnStep
<1> QED
  BY <1>1, <1>2, <1>4, <1>5, <1>6, <1>7

\* Which steps change the frame in flight and those sunk.
LEMMA FramesSettled ==
  ASSUME Next, ~Pass
  PROVE  \/ UNCHANGED <<at, flight, rv, taken, sunk>>
         \/ (LoopHead \/ BurstPass) /\ ExecBegin
<1> USE DEF pqVars, execVars, ioVars
<1>1. CASE ParseArg \/ ParseEnds \/ CheckOptions \/ OpenFiles \/ HandleHeaders \/ CheckQueue
           \/ PassEnds \/ TimerReadable \/ BurstPassEnds \/ BurstEnds \/ WaitForSink
           \/ DrainSpins \/ DrainEnds \/ CloseIn \/ BenchFree \/ Tick \/ FirstSigint \/ Terminated
  BY <1>1 DEF ParseArg, ParseEnds, CheckOptions, OpenFiles, HandleHeaders, CheckQueue,
       PassEnds, TimerReadable, BurstPassEnds, BurstEnds, WaitForSink, DrainSpins, DrainEnds,
       CloseIn, BenchFree, Tick, FirstSigint, Terminated, vars
<1>2. CASE LoopHead \/ BurstPass
  BY <1>2 DEF LoopHead, BurstPass
<1>3. CASE CreateQueue \/ ChainItem \/ PrepareQueue
  BY <1>3 DEF CreateQueue, Create, ChainItem, Construct, AddItem, PrepareQueue, Prepare, PrepareFails
<1>4. CASE Play
  BY <1>4 DEF Play, DevPlay
<1>5. CASE CloseOut
  BY <1>5 DEF CloseOut, DestroyBegin
<1>6. CASE DestroyItems
  BY <1>6 DEF DestroyItems, DestroyStep, DestroyStale, Crash, DestroyBuf, DestroyExit, DestroyUnlink,
       DestroyQueue
<1>7. CASE NextSigint
  BY <1>7 DEF NextSigint, DestroyWhole
<1> QED
  BY <1>1, <1>2, <1>3, <1>4, <1>5, <1>6, <1>7 DEF Next, Main

LEMMA FramesTyped ==
  ASSUME OptionsInv
  PROVE  /\ sunk \in Seq(FrameSet) /\ taken \in Nat /\ at \in Nat /\ flight.id \in Nat
         /\ Len(sunk) \in Nat /\ rv \in {0, -1}
         /\ \A i \in DOMAIN sunk : sunk[i].id \in Nat
<1>1. /\ sunk \in Seq(FrameSet) /\ flight \in FrameSet /\ avail \in Nat /\ taken \in 0..avail
      /\ items \in Seq(ItemSet) /\ at \in 0..Len(items) /\ rv \in {0, -1}
  BY DEF OptionsInv, TypeOK, PqTypeOK
<1>2. \A i \in DOMAIN sunk : sunk[i] \in FrameSet
  BY <1>1
<1> QED
  BY <1>1, <1>2 DEF FrameSet

LEMMA OrderNext ==
  ASSUME OptionsInv, StagesInv, EndsInv, OrderInv, [Next]_vars PROVE OrderInv'
<1>1. sunk \in Seq(FrameSet) /\ taken \in Nat /\ at \in Nat /\ flight.id \in Nat /\ Len(sunk) \in Nat
      /\ \A i \in DOMAIN sunk : sunk[i].id \in Nat
  BY FramesTyped
<1>2. CASE UNCHANGED <<at, flight, rv, taken, sunk>>
  BY <1>2 DEF OrderInv
<1>3. CASE ExecBegin
  BY <1>3 DEF ExecBegin, ioVars, OrderInv
<1>4. CASE Pass
  <2>1. CASE Fetches
    BY <1>1, <2>1 DEF Fetches, OrderInv
  <2>2. CASE Works
    BY <1>1, <2>2 DEF Works, OrderInv
  <2>3. CASE Sinks
    <3>1. /\ DOMAIN sunk' = 1..(Len(sunk) + 1) /\ DOMAIN sunk = 1..Len(sunk)
          /\ \A i \in DOMAIN sunk : sunk'[i] = sunk[i]
          /\ sunk'[Len(sunk) + 1] = flight
      BY <1>1, <2>3 DEF Sinks
    <3>2. /\ flight.id <= taken /\ \A i \in DOMAIN sunk : sunk[i].id < flight.id
          /\ at' = 0 /\ taken' = taken
      BY <2>3 DEF Sinks, OrderInv
    <3>3. \A i \in DOMAIN sunk' : sunk'[i].id <= taken'
      BY <3>1, <3>2 DEF OrderInv
    <3>4. \A i, j \in DOMAIN sunk' : i < j => sunk'[i].id < sunk'[j].id
      BY <1>1, <3>1, <3>2 DEF OrderInv
    <3> QED
      BY <3>2, <3>3, <3>4 DEF OrderInv
  <2>4. CASE FailsAt
    BY <1>1, <2>4 DEF FailsAt, OrderInv
  <2>5. CASE Crashes
    BY <1>2, <2>5 DEF Crashes
  <2> QED
    BY <1>4, <2>1, <2>2, <2>3, <2>4, <2>5, PassOutcome
<1>5. CASE UNCHANGED vars
  BY <1>2, <1>5 DEF vars, pqVars, execVars, ioVars
<1> QED
  BY <1>2, <1>3, <1>4, <1>5, FramesSettled

LEMMA OrderAlways == Spec => []OrderInv
<1>1. Init => OrderInv
  BY DEF Init, PqInit, OrderInv
<1> QED
  BY <1>1, OrderNext, OptionsAlways, StagesAlways, EndsAlways, PTL DEF Spec

\* The sink gets frames of the input in their order, each at most once, whatever fails
\* and whether or not the program is throttled (osmo_gapk_pq_execute).
THEOREM FramesInOrder == Spec => []SunkInOrder
<1>1. OrderInv => SunkInOrder
  BY DEF OrderInv, SunkInOrder
<1> QED
  BY <1>1, OrderAlways, PTL

----------------------------------------------------------------------------
(* The unthrottled program: PrefixInv, CountInv                              *)

\* where main has not left the unthrottled loop, outside its passes
Continuing == Setup \cup {"prepare", "loop"}

\* The option -t stays; without it main enters the head of the loop from where it was
\* before the loop, or from a pass that succeeded.
LEMMA Unthrottled ==
  ASSUME OptionsInv, StagesInv, Next, ~opts'.throttle
  PROVE  /\ ~opts.throttle
         /\ ~TimerReadable /\ ~BurstPass /\ ~BurstPassEnds /\ ~BurstEnds /\ ~Tick
         /\ pc' \in Continuing => pc \in Continuing \/ (PassEnds /\ rv = 0)
<1>1. opts.throttle \in BOOLEAN /\ opts'.throttle \in BOOLEAN /\ ~opts.throttle
  <2>1. CASE FirstSigint \/ NextSigint
    BY <2>1 DEF FirstSigint, NextSigint, OptionsInv, TypeOK, OptionSet
  <2>2. OptionsInv'
    BY OptionsNext
  <2> QED
    BY <2>1, <2>2, SignalsSettled DEF OptionsInv, TypeOK, OptionSet
<1>2. pc \notin {"select", "burst"}
  BY <1>1 DEF StagesInv, CallStages
<1>3. ~TimerReadable /\ ~BurstPass /\ ~BurstPassEnds /\ ~BurstEnds /\ ~Tick
  BY <1>1, <1>2 DEF TimerReadable, BurstPass, BurstPassEnds, BurstEnds, Tick, At
<1> USE DEF Continuing, Setup, Looping, Closing, At, Goto, Bail
<1>4. CASE ParseArg \/ ParseEnds \/ CheckOptions \/ CreateQueue \/ OpenFiles \/ HandleHeaders
           \/ ChainItem \/ CheckQueue \/ PrepareQueue \/ LoopHead
  BY <1>1, <1>3, <1>4 DEF ParseArg, ParseEnds, CheckOptions, CreateQueue, OpenFiles, HandleHeaders,
       ChainItem, CheckQueue, PrepareQueue, LoopHead
<1>5. CASE PassEnds
  BY <1>1, <1>3, <1>5 DEF PassEnds
<1>6. CASE WaitForSink \/ DrainEnds \/ CloseIn \/ CloseOut \/ BenchFree \/ NextSigint
  BY <1>1, <1>3, <1>6 DEF WaitForSink, DrainEnds, CloseIn, CloseOut, BenchFree, NextSigint
<1>7. CASE Pass \/ DestroyItems \/ DrainSpins \/ Play \/ FirstSigint \/ Terminated
  BY <1>1, <1>2, <1>3, <1>7 DEF Pass, DestroyItems, DrainSpins, Play, FirstSigint, Terminated, vars
<1> QED
  BY <1>1, <1>3, <1>4, <1>5, <1>6, <1>7 DEF Next, Main

LEMMA PrefixNext ==
  ASSUME OptionsInv, StagesInv, EndsInv, PrefixInv, [Next]_vars PROVE PrefixInv'
<1>1. CASE UNCHANGED vars
  BY <1>1 DEF vars, pqVars, execVars, ioVars, appVars, PrefixInv
<1> SUFFICES ASSUME Next, ~opts'.throttle PROVE PrefixInv'
  BY <1>1 DEF PrefixInv
<1>2. /\ ~opts.throttle /\ ~BurstPass
      /\ pc' \in Continuing => pc \in Continuing \/ (PassEnds /\ rv = 0)
  BY Unthrottled
<1>3. /\ taken \in Nat /\ at \in Nat /\ flight.id \in Nat /\ Len(sunk) \in Nat /\ rv \in {0, -1}
      /\ sunk \in Seq(FrameSet)
  BY FramesTyped
<1>4. /\ \A i \in DOMAIN sunk : sunk[i].id = i
      /\ at > 1 => taken = Len(sunk) + 1 /\ flight.id = taken
      /\ at <= 1 /\ rv = 0 => taken = Len(sunk)
      /\ rv # 0 => at = 0 /\ taken \in {Len(sunk), Len(sunk) + 1}
      /\ rv # 0 => pc \notin Continuing
  BY <1>2 DEF PrefixInv, Continuing
<1> SUFFICES /\ \A i \in DOMAIN sunk' : sunk'[i].id = i
             /\ at' > 1 => taken' = Len(sunk') + 1 /\ flight'.id = taken'
             /\ at' <= 1 /\ rv' = 0 => taken' = Len(sunk')
             /\ rv' # 0 => at' = 0 /\ taken' \in {Len(sunk'), Len(sunk') + 1}
             /\ rv' # 0 => pc' \notin Continuing
  BY DEF PrefixInv, Continuing
<1>5. CASE UNCHANGED <<at, flight, rv, taken, sunk>> /\ ~Pass
  BY <1>2, <1>4, <1>5
<1>6. CASE LoopHead /\ ExecBegin
  <2>1. pc = "loop" /\ at = 0 /\ pc \in Continuing
    BY <1>6 DEF LoopHead, At, StagesInv, CallStages, Continuing
  <2> QED
    BY <1>3, <1>4, <1>6, <2>1 DEF ExecBegin, ioVars
<1>7. CASE Pass
  <2>1. /\ pc' = "pass" /\ pc = "pass" /\ pc' \notin Continuing /\ at \in Nat \ {0}
        /\ Fetches \/ Works \/ Sinks \/ FailsAt \/ Crashes
    BY <1>7, PassOutcome DEF Pass, At, Continuing, Setup
  <2>2. CASE Fetches
    BY <1>3, <1>4, <2>1, <2>2 DEF Fetches
  <2>3. CASE Works
    BY <1>3, <1>4, <2>1, <2>3 DEF Works
  <2>4. CASE Sinks
    <3>1. /\ DOMAIN sunk' = 1..(Len(sunk) + 1) /\ DOMAIN sunk = 1..Len(sunk)
          /\ \A i \in DOMAIN sunk : sunk'[i] = sunk[i]
          /\ sunk'[Len(sunk) + 1] = flight /\ Len(sunk') = Len(sunk) + 1
      BY <1>3, <2>4 DEF Sinks
    <3>2. /\ at' = 0 /\ rv' = 0 /\ taken' = taken /\ taken = Len(sunk) + 1 /\ flight.id = Len(sunk) + 1
      BY <1>4, <2>4 DEF Sinks
    <3>3. ASSUME NEW i \in DOMAIN sunk' PROVE sunk'[i].id = i
      <4>1. CASE i \in DOMAIN sunk
        BY <1>4, <3>1, <4>1
      <4>2. CASE i = Len(sunk) + 1
        BY <3>1, <3>2, <4>2
      <4> QED
        BY <1>3, <3>1, <3>3, <4>1, <4>2
    <3> QED
      BY <1>3, <3>1, <3>2, <3>3
  <2>5. CASE FailsAt
    BY <1>3, <1>4, <2>1, <2>5 DEF FailsAt
  <2>6. CASE Crashes
    BY <1>3, <1>4, <2>1, <2>6 DEF Crashes
  <2> QED
    BY <2>1, <2>2, <2>3, <2>4, <2>5, <2>6
<1> QED
  BY <1>2, <1>5, <1>6, <1>7, FramesSettled

\* Without -t, a frame taken is sunk before the next one is, or else it is the last (run).
THEOREM PrefixAlways == Spec => []PrefixInv
<1>1. Init => PrefixInv
  BY DEF Init, PqInit, PrefixInv
<1> QED
  BY <1>1, PrefixNext, OptionsAlways, StagesAlways, EndsAlways, PTL DEF Spec

\* Without -t no frame of the input is skipped: what the sink has is the beginning of the
\* input, since the first pass that fails is the last (run, osmo_gapk_pq_execute).
THEOREM FramesArePrefix == Spec => []SunkIsPrefix
<1>1. PrefixInv => SunkIsPrefix
  BY DEF PrefixInv, SunkIsPrefix
<1> QED
  BY <1>1, PrefixAlways, PTL

LEMMA CountNext ==
  ASSUME OptionsInv, StagesInv, EndsInv, CountInv, [Next]_vars PROVE CountInv'
<1>1. CASE UNCHANGED vars
  BY <1>1 DEF vars, pqVars, execVars, ioVars, appVars, CountInv
<1> SUFFICES ASSUME Next, ~opts'.throttle PROVE CountInv'
  BY <1>1 DEF CountInv
<1>2. ~opts.throttle /\ ~TimerReadable /\ ~BurstPass /\ ~BurstPassEnds /\ ~BurstEnds /\ ~Tick
  BY Unthrottled
<1>3. pc # "select" /\ Len(sunk) \in Nat /\ num_frames \in Nat /\ at \in Nat
  BY <1>2, FramesTyped DEF OptionsInv, TypeOK, StagesInv, CallStages
<1>4. /\ pc \in Setup \cup {"prepare"} => num_frames = 0 /\ sunk = <<>>
      /\ pc \in {"loop", "wait", "drain"} => num_frames = Len(sunk)
      /\ pc = "pass" => Len(sunk) = IF at = 0 /\ rv = 0 THEN num_frames + 1 ELSE num_frames
  BY <1>2 DEF CountInv
<1> SUFFICES /\ pc' \in Setup \cup {"prepare"} => num_frames' = 0 /\ sunk' = <<>>
             /\ pc' \in {"loop", "wait", "drain"} => num_frames' = Len(sunk')
             /\ pc' = "pass" =>
                  Len(sunk') = IF at' = 0 /\ rv' = 0 THEN num_frames' + 1 ELSE num_frames'
  BY DEF CountInv
<1>5. CASE Pass
  <2>1. /\ pc' = "pass" /\ pc = "pass" /\ num_frames' = num_frames /\ at # 0
        /\ Fetches \/ Works \/ Sinks \/ FailsAt \/ Crashes
    BY <1>5, PassOutcome DEF Pass, At, appVars
  <2>2. CASE Sinks
    <3>1. Len(sunk') = Len(sunk) + 1
      BY <2>2, FramesTyped DEF Sinks
    <3> QED
      BY <1>3, <1>4, <2>1, <2>2, <3>1 DEF Sinks, Setup
  <2> QED
    BY <1>3, <1>4, <2>1, <2>2 DEF Fetches, Works, FailsAt, Crashes, Setup
<1>6. CASE ~Pass /\ UNCHANGED <<at, flight, rv, taken, sunk>>
  <2> USE DEF Setup, Closing, At, Goto, Bail, appVars
  <2>1. CASE ParseArg \/ ParseEnds \/ CheckOptions \/ CreateQueue \/ OpenFiles \/ HandleHeaders
             \/ ChainItem \/ CheckQueue
    BY <1>4, <1>6, <2>1 DEF ParseArg, ParseEnds, CheckOptions, CreateQueue, OpenFiles,
         HandleHeaders, ChainItem, CheckQueue
  <2>2. CASE PrepareQueue
    <3>1. Len(<<>>) = 0
      OBVIOUS
    <3> QED
      BY <1>4, <1>6, <2>2, <3>1 DEF PrepareQueue
  <2>3. CASE PassEnds
    BY <1>3, <1>4, <1>6, <2>3 DEF PassEnds, Executing
  <2>4. CASE LoopHead
    <3>1. CASE exit > 0
      BY <1>4, <1>6, <2>4, <3>1 DEF LoopHead
    <3>2. CASE ~(exit > 0)
      <4>1. pc = "loop" /\ ExecBegin /\ pc' = "pass" /\ num_frames' = num_frames
        BY <1>2, <2>4, <3>2 DEF LoopHead
      <4>2. Checked
        BY <4>1 DEF StagesInv, ChainStages, AfterChain, Looping
      <4>3. items # <<>>
        BY <4>2, CheckedQueue
      <4> QED
        BY <1>4, <1>6, <4>1, <4>3 DEF ExecBegin
    <3> QED
      BY <3>1, <3>2
  <2>5. CASE WaitForSink \/ DrainEnds \/ CloseIn \/ CloseOut \/ BenchFree \/ NextSigint
    BY <1>4, <1>6, <2>5 DEF WaitForSink, DrainEnds, CloseIn, CloseOut, BenchFree, NextSigint
  <2>6. CASE DestroyItems
    BY <1>4, <1>6, <2>6 DEF DestroyItems
  <2>7. CASE DrainSpins \/ Play \/ FirstSigint \/ Terminated
    BY <1>3, <1>4, <1>6, <2>7 DEF DrainSpins, Play, FirstSigint, Terminated, vars
  <2> QED
    BY <1>2, <1>6, <2>1, <2>2, <2>3, <2>4, <2>5, <2>6, <2>7 DEF Next, Main
<1>7. CASE LoopHead /\ ExecBegin /\ ~Pass
  <2>1. pc = "loop" /\ num_frames' = num_frames /\ sunk' = sunk
    BY <1>7 DEF LoopHead, At, appVars, ExecBegin, ioVars
  <2>2. items # <<>>
    <3>1. Checked
      BY <2>1 DEF StagesInv, ChainStages, AfterChain, Looping
    <3> QED
      BY <3>1, CheckedQueue
  <2>3. pc' \in {"pass", "wait"} /\ at' = 1
    BY <1>2, <1>7, <2>2 DEF LoopHead, At, Goto, ExecBegin
  <2> QED
    BY <1>4, <2>1, <2>3 DEF Setup
<1> QED
  BY <1>2, <1>5, <1>6, <1>7, FramesSettled

\* Without -t, num_frames is counted up once a pass has succeeded (run).
THEOREM CountAlways == Spec => []CountInv
<1>1. Init => CountInv
  BY DEF Init, PqInit, CountInv, Setup
<1> QED
  BY <1>1, CountNext, OptionsAlways, StagesAlways, EndsAlways, PTL DEF Spec

\* The number run reports as processed is, without -t, the number of frames the sink has:
\* a pass that failed is not counted (run).
THEOREM FramesAreCounted == Spec => []UnthrottledFramesCounted
<1>1. CountInv => UnthrottledFramesCounted
  BY DEF CountInv, UnthrottledFramesCounted, FramesCounted
<1> QED
  BY <1>1, CountAlways, PTL

----------------------------------------------------------------------------
(* The unthrottled program implements FramePump                              *)

\* the numbers of the frames sunk, delivered of FramePump
Ids(s) == [i \in DOMAIN s |-> s[i].id]

LEMMA IdsAppend ==
  ASSUME NEW s \in Seq(FrameSet), NEW f \in FrameSet
  PROVE  Len(Ids(s)) = Len(s) /\ Ids(Append(s, f)) = Append(Ids(s), f.id)
<1>1. Ids(s) \in [1..Len(s) -> Nat] /\ Len(s) \in Nat
  <2>1. \A i \in DOMAIN s : s[i].id \in Nat
    <3>1. \A i \in DOMAIN s : s[i] \in FrameSet
      OBVIOUS
    <3> QED
      BY <3>1 DEF FrameSet
  <2> QED
    BY <2>1 DEF Ids
<1>2. Ids(s) \in Seq(Nat) /\ Len(Ids(s)) = Len(s)
  BY <1>1
<1>3. f.id \in Nat
  BY DEF FrameSet
<1>4. /\ DOMAIN Append(s, f) = 1..(Len(s) + 1) /\ DOMAIN Ids(Append(s, f)) = 1..(Len(s) + 1)
      /\ \A i \in 1..Len(s) : Ids(Append(s, f))[i] = s[i].id
      /\ Ids(Append(s, f))[Len(s) + 1] = f.id
  BY <1>1 DEF Ids
<1>5. /\ Append(Ids(s), f.id) \in Seq(Nat) /\ Len(Append(Ids(s), f.id)) = Len(s) + 1
      /\ \A i \in 1..Len(s) : Append(Ids(s), f.id)[i] = s[i].id
      /\ Append(Ids(s), f.id)[Len(s) + 1] = f.id
  BY <1>1, <1>2, <1>3 DEF Ids
<1>6. Ids(Append(s, f)) \in Seq(Nat) /\ Len(Ids(Append(s, f))) = Len(s) + 1
  <2>1. \A i \in 1..(Len(s) + 1) : Ids(Append(s, f))[i] \in Nat
    BY <1>1, <1>3, <1>4 DEF Ids
  <2>2. Ids(Append(s, f)) \in [1..(Len(s) + 1) -> Nat]
    BY <1>4, <2>1 DEF Ids
  <2> QED
    BY <1>1, <2>2
<1>7. \A i \in 1..(Len(s) + 1) : Ids(Append(s, f))[i] = Append(Ids(s), f.id)[i]
  BY <1>1, <1>4, <1>5
<1> QED
  BY <1>2, <1>5, <1>6, <1>7, SeqEqual

\* A step pumps a frame from the input, or the frame in flight to the output, or stops the
\* pump, or does nothing the pump sees.
LEMMA PumpCases ==
  ASSUME OptionsInv, StagesInv, EndsInv, PrefixInv, Next, ~opts'.throttle
  PROVE  \/ Pumping /\ Pumping' /\ taken = Len(sunk) /\ taken' = taken + 1 /\ sunk' = sunk
         \/ /\ Pumping /\ Pumping' /\ taken = Len(sunk) + 1 /\ flight.id = taken
            /\ taken' = taken /\ sunk' = Append(sunk, flight)
         \/ /\ Pumping /\ ~Pumping' /\ taken' \in {taken, taken + 1} /\ taken' <= Len(sunk) + 1
            /\ sunk' = sunk
         \/ UNCHANGED <<taken, sunk>> /\ (Pumping' <=> Pumping)
<1>1. /\ ~opts.throttle
      /\ ~TimerReadable /\ ~BurstPass /\ ~BurstPassEnds /\ ~BurstEnds /\ ~Tick
      /\ pc' \in Continuing => pc \in Continuing \/ (PassEnds /\ rv = 0)
  BY Unthrottled
<1>2. /\ taken \in Nat /\ at \in Nat /\ Len(sunk) \in Nat /\ rv \in {0, -1}
  BY FramesTyped
<1>3. /\ at > 1 => taken = Len(sunk) + 1 /\ flight.id = taken
      /\ at <= 1 /\ rv = 0 => taken = Len(sunk)
      /\ rv # 0 => at = 0 /\ taken \in {Len(sunk), Len(sunk) + 1}
      /\ rv # 0 => pc \notin Continuing
      /\ taken <= Len(sunk) + 1
  BY <1>1, <1>2 DEF PrefixInv, Continuing
<1>4. Pumping <=> pc \in Continuing \cup {"pass"} /\ rv = 0 /\ fault = "none"
  BY DEF Pumping, Continuing
<1>5. Pumping' <=> pc' \in Continuing \cup {"pass"} /\ rv' = 0 /\ fault' = "none"
  BY DEF Pumping, Continuing
<1>6. CASE Pass
  <2>1. /\ pc' = "pass" /\ pc = "pass" /\ fault = "none" /\ at \in Nat \ {0}
        /\ Fetches \/ Works \/ Sinks \/ FailsAt \/ Crashes
    BY <1>6, PassOutcome DEF Pass, At
  <2>2. Pumping
    BY <1>3, <1>4, <2>1
  <2>3. CASE Fetches
    BY <1>2, <1>3, <1>5, <2>1, <2>2, <2>3 DEF Fetches
  <2>4. CASE Works
    BY <1>5, <2>1, <2>2, <2>4 DEF Works
  <2>5. CASE Sinks
    BY <1>3, <1>5, <2>1, <2>2, <2>5 DEF Sinks
  <2>6. CASE FailsAt
    BY <1>2, <1>3, <1>5, <2>1, <2>2, <2>6 DEF FailsAt
  <2>7. CASE Crashes
    BY <1>2, <1>3, <1>5, <2>1, <2>2, <2>7 DEF Crashes
  <2> QED
    BY <2>1, <2>3, <2>4, <2>5, <2>6, <2>7
<1>7. CASE ~Pass /\ UNCHANGED <<at, flight, rv, taken, sunk>>
  <2>1. ASSUME pc' \in Continuing \cup {"pass"} PROVE pc \in Continuing \cup {"pass"} /\ fault' = fault
    <3>1. ~CloseOut /\ ~DestroyItems /\ ~NextSigint
      BY <2>1 DEF CloseOut, DestroyItems, NextSigint, At, Goto, Continuing, Setup
    <3>2. fault' = fault
      BY <1>7, <3>1, FaultSettled
    <3>3. CASE pc' = "pass"
      <4> USE DEF At, Goto, Bail
      <4>1. CASE ParseArg \/ ParseEnds \/ CheckOptions \/ CreateQueue \/ OpenFiles \/ HandleHeaders
                 \/ ChainItem \/ CheckQueue \/ PrepareQueue
        BY <3>3, <4>1 DEF ParseArg, ParseEnds, CheckOptions, CreateQueue, OpenFiles, HandleHeaders,
             ChainItem, CheckQueue, PrepareQueue
      <4>2. CASE LoopHead \/ PassEnds
        BY <3>2, <4>2 DEF LoopHead, PassEnds, Continuing
      <4>3. CASE WaitForSink \/ DrainEnds \/ CloseIn \/ BenchFree
        BY <3>3, <4>3 DEF WaitForSink, DrainEnds, CloseIn, BenchFree
      <4>4. CASE DrainSpins \/ Play \/ FirstSigint \/ Terminated
        BY <3>2, <3>3, <4>4 DEF DrainSpins, Play, FirstSigint, Terminated, vars
      <4> QED
        BY <1>1, <1>7, <3>1, <4>1, <4>2, <4>3, <4>4 DEF Next, Main
    <3>4. CASE pc' \in Continuing
      BY <1>1, <3>2, <3>4 DEF PassEnds, At
    <3> QED
      BY <2>1, <3>2, <3>3, <3>4
  <2>2. Pumping' => Pumping
    BY <1>4, <1>5, <1>7, <2>1
  <2> QED
    BY <1>2, <1>3, <1>7, <2>2
<1>8. CASE LoopHead /\ ExecBegin
  <2>1. pc = "loop" /\ pc \in Continuing /\ fault = "none" /\ rv = 0
    BY <1>3, <1>8 DEF LoopHead, At, Continuing
  <2>2. UNCHANGED <<taken, sunk, fault>>
    BY <1>8 DEF ExecBegin, ioVars
  <2> QED
    BY <1>2, <1>3, <1>4, <2>1, <2>2
<1> QED
  BY <1>1, <1>6, <1>7, <1>8, FramesSettled

LEMMA PumpNext ==
  ASSUME OptionsInv, StagesInv, EndsInv, PrefixInv, [Next]_vars, ~opts'.throttle
  PROVE  [P!Take \/ P!Put \/ P!Stop]_(P!pumpVars)
<1> USE DEF P!Take, P!Put, P!Stop, P!pumpVars, P!InFlight
<1>1. /\ sunk \in Seq(FrameSet) /\ flight \in FrameSet /\ taken \in Nat /\ Len(sunk) \in Nat
  BY FramesTyped DEF OptionsInv, TypeOK, PqTypeOK
<1>2. /\ Len(Ids(sunk)) = Len(sunk)
      /\ Ids(Append(sunk, flight)) = Append(Ids(sunk), flight.id)
  BY <1>1, IdsAppend
<1>3. Ids(sunk) = [i \in DOMAIN sunk |-> sunk[i].id] /\ Ids(sunk)' = [i \in DOMAIN sunk' |-> sunk'[i].id]
  BY DEF Ids
<1>4. Pumping \in BOOLEAN /\ Pumping' \in BOOLEAN
  BY DEF Pumping
<1>5. CASE UNCHANGED vars
  BY <1>5 DEF vars, pqVars, execVars, ioVars, Pumping
<1>6. CASE Next
  <2>1. CASE Pumping /\ Pumping' /\ taken = Len(sunk) /\ taken' = taken + 1 /\ sunk' = sunk
    BY <1>1, <1>2, <1>3, <1>4, <2>1
  <2>2. CASE /\ Pumping /\ Pumping' /\ taken = Len(sunk) + 1 /\ flight.id = taken
             /\ taken' = taken /\ sunk' = Append(sunk, flight)
    <3>1. Ids(sunk') = Append(Ids(sunk), taken)
      BY <1>2, <2>2
    <3>2. P!InFlight = 1 /\ UNCHANGED <<taken, Pumping>>
      BY <1>1, <1>2, <1>3, <1>4, <2>2
    <3>3. P!Put
      BY <1>3, <2>2, <3>1, <3>2
    <3> QED
      BY <3>3
  <2>3. CASE /\ Pumping /\ ~Pumping' /\ taken' \in {taken, taken + 1} /\ taken' <= Len(sunk) + 1
             /\ sunk' = sunk
    BY <1>1, <1>2, <1>3, <1>4, <2>3
  <2>4. CASE UNCHANGED <<taken, sunk>> /\ (Pumping' <=> Pumping)
    BY <1>3, <1>4, <2>4
  <2> QED
    BY <1>6, <2>1, <2>2, <2>3, <2>4, PumpCases
<1> QED
  BY <1>5, <1>6

\* osmo-gapk without -t implements FramePump: it takes one frame of the input at a time and
\* puts it to the output before it takes the next, until it stops for good (run,
\* osmo_gapk_pq_execute).
THEOREM UnthrottledPumps == Spec /\ [](~opts.throttle) => PumpsFrames
<1>1. Init => P!PumpInit
  BY DEF Init, PqInit, P!PumpInit, Pumping, Setup
<1>2. Spec => [](OptionsInv /\ StagesInv /\ EndsInv /\ PrefixInv)
  BY OptionsAlways, StagesAlways, EndsAlways, PrefixAlways, PTL
<1>3. /\ OptionsInv /\ StagesInv /\ EndsInv /\ PrefixInv /\ [Next]_vars /\ (~opts.throttle)'
      => [P!Take \/ P!Put \/ P!Stop]_(P!pumpVars)
  BY PumpNext
<1> QED
  BY <1>1, <1>2, <1>3, PTL DEF Spec, PumpsFrames, P!Pump
=============================================================================
