--------------------------- MODULE PqClientProofs ---------------------------
(* Proofs about PqClient, for every set of constructor calls, every set of   *)
(* libraries and failures and every bound: the type invariant, the length    *)
(* contract of pq_check, pq_prepare and pq_execute, and what pq_destroy      *)
(* releases.                                                                 *)
EXTENDS PqClient, PqItemsProofs

----------------------------------------------------------------------------
(* The inductive invariant                                                   *)

USE ProcQueueAssumption, ClientAssumption

LEMMA InitInv == Init => IInv
<1> SUFFICES ASSUME Init PROVE IInv
  OBVIOUS
<1>1. /\ queue = "none" /\ items = <<>> /\ n_items = 0 /\ head = 1 /\ at = 0
      /\ flight = NoFrame /\ rv = 0 /\ dpc = "idle" /\ taken = 0 /\ sunk = <<>> /\ dev = 0
      /\ fault = "none" /\ avail \in Nat /\ phase = "start" /\ checked = "no"
  BY DEF Init, PqInit
<1>2. TypeOK
  BY <1>1 DEF TypeOK, PqTypeOK, NoFrame, Frame, FrameSet, DataKinds, Faults, Phases
<1>3. DOMAIN items = {}
  BY <1>1
<1> QED
  BY <1>1, <1>2, <1>3 DEF IInv, AllWellMade, Protocol, FlightFits, LengthContract, DestroyProgress,
       Executing, ReleasedOnce

\* A step that changes neither the items nor the frame in flight.
LEMMA SameItems ==
  ASSUME AllWellMade, UNCHANGED items
  PROVE  AllWellMade' /\ ExactSources' = ExactSources
BY DEF AllWellMade, ExactSources

\* Steps that only move the client on.
LEMMA ClientStep ==
  ASSUME IInv,
         UNCHANGED <<pqVars, checked>>,
         \/ phase = "start" /\ phase' = "failed"
         \/ phase = "destroy" /\ phase' = "done"
         \/ UNCHANGED phase
  PROVE  IInv'
<1> USE DEF pqVars, listVars, execVars, ioVars
<1>1. TypeOK'
  BY DEF IInv, TypeOK, PqTypeOK, Phases
<1>2. AllWellMade' /\ ExactSources' = ExactSources
  BY SameItems DEF IInv
<1>3. Protocol'
  BY DEF IInv, Protocol, Executing, LengthsMatch, MatchesPrevious, SourceToSink
<1>4. FlightFits' /\ LengthContract'
  BY <1>2 DEF IInv, FlightFits, LengthContract, Executing
<1>5. DestroyProgress'
  BY DEF IInv, DestroyProgress, ReleasedOnce
<1> QED
  BY <1>1, <1>2, <1>3, <1>4, <1>5 DEF IInv

LEMMA CheckStep ==
  ASSUME IInv, NEW strict \in BOOLEAN, Check(strict) PROVE IInv'
<1> USE DEF pqVars, listVars, execVars, ioVars, Check
<1>1. TypeOK'
  BY DEF IInv, TypeOK, PqTypeOK, Phases
<1>2. AllWellMade' /\ ExactSources' = ExactSources
  BY SameItems DEF IInv
<1>3. checked' = "strict" => LengthsMatch(items) /\ SourceToSink(items)
  BY DEF CheckRet, EINVAL
<1>4. Protocol'
  BY <1>3 DEF IInv, Protocol, Executing, LengthsMatch, MatchesPrevious, SourceToSink
<1>5. ~Executing
  BY DEF IInv, Protocol
<1>6. FlightFits' /\ LengthContract'
  BY <1>2, <1>5 DEF FlightFits, LengthContract, Executing, Running
<1>7. DestroyProgress'
  BY DEF IInv, DestroyProgress, ReleasedOnce
<1> QED
  BY <1>1, <1>2, <1>4, <1>6, <1>7 DEF IInv

LEMMA CreateStep ==
  ASSUME IInv, phase = "start", Create, phase' = "build", UNCHANGED checked PROVE IInv'
<1> USE DEF execVars, ioVars, Create
<1>1. TypeOK'
  BY DEF IInv, TypeOK, PqTypeOK, Phases
<1>2. AllWellMade' /\ ExactSources' = ExactSources
  BY SameItems DEF IInv
<1>3. ~Executing
  BY DEF IInv, Protocol
<1>4. Protocol'
  BY <1>3 DEF IInv, Protocol, Executing, LengthsMatch, MatchesPrevious, SourceToSink
<1>5. FlightFits' /\ LengthContract'
  BY <1>2, <1>3 DEF IInv, FlightFits, LengthContract, Executing
<1>6. DestroyProgress'
  BY DEF IInv, DestroyProgress, ReleasedOnce
<1> QED
  BY <1>1, <1>2, <1>4, <1>5, <1>6 DEF IInv

LEMMA AddStep ==
  ASSUME IInv, NEW call \in ClientCalls, Add(call) PROVE IInv'
<1> USE DEF execVars, ioVars
<1>1. PICK r \in Results(call) : r.add # <<>> /\ Construct(r)
  BY DEF Add
<1> DEFINE item == r.add[1]
<1>2. Fresh(item)
  BY <1>1, ResultsFresh
<1> HIDE DEF item
<1>3. AddItem(item)
  BY <1>1 DEF Construct, item
<1>4. item \in ItemSet /\ WellMade(item) /\ ("ecu_state" \notin Failures => item.mem = "live")
  BY <1>2 DEF Fresh
<1>5. items \in Seq(ItemSet) /\ head \in 1..(Len(items) + 1)
  BY DEF IInv, TypeOK, PqTypeOK
<1>6. /\ items' = Append(items, item) /\ items' \in Seq(ItemSet)
      /\ Len(items') = Len(items) + 1
      /\ \A i \in DOMAIN items : i \in DOMAIN items' /\ items'[i] = items[i]
      /\ \A i \in DOMAIN items' : i \in DOMAIN items \/ (i = Len(items) + 1 /\ items'[i] = item)
  BY <1>3, <1>4, <1>5 DEF AddItem
<1>7. /\ queue = "live" /\ queue' = "live" /\ phase = "build" /\ phase' = "build"
      /\ checked' = "no" /\ fault' = "none"
      /\ UNCHANGED <<head, execVars, dpc, ioVars, fault>>
  BY <1>3 DEF AddItem, Add, Running
<1>8. ~Executing /\ dpc = "idle" /\ head = 1
  BY <1>5, <1>7 DEF IInv, Protocol, DestroyProgress
<1>9. TypeOK'
  BY <1>3, <1>5, <1>6, <1>7, <1>8 DEF IInv, TypeOK, PqTypeOK, AddItem
<1>10. AllWellMade'
  BY <1>4, <1>6 DEF IInv, AllWellMade
<1>11. Protocol' /\ FlightFits' /\ LengthContract'
  BY <1>7, <1>8 DEF Protocol, FlightFits, LengthContract, Executing
<1>12. DestroyProgress'
  BY <1>4, <1>5, <1>6, <1>7, <1>8 DEF IInv, DestroyProgress, ReleasedOnce
<1> QED
  BY <1>9, <1>10, <1>11, <1>12 DEF IInv

LEMMA PrepareStep ==
  ASSUME IInv, DoPrepare PROVE IInv'
<1> USE DEF execVars, ioVars
<1>1. /\ phase = "build" /\ phase' \in {"ready", "failed"} /\ fault = "none"
      /\ UNCHANGED <<queue, n_items, head, execVars, dpc, ioVars, fault, checked>>
  BY DEF DoPrepare, Prepare, PrepareFails, Running
<1>2. items \in Seq(ItemSet) /\ head \in 1..(Len(items) + 1)
  BY DEF IInv, TypeOK, PqTypeOK
<1>3. ~Executing /\ dpc = "idle" /\ head = 1 /\ queue # "freed"
  BY <1>1, <1>2 DEF IInv, Protocol, DestroyProgress
<1>4. /\ DOMAIN items' = DOMAIN items /\ Len(items') = Len(items)
      /\ items' = [i \in DOMAIN items |-> items'[i]]
      /\ \A i \in DOMAIN items : items'[i] \in {items[i], WithBuf(items[i])}
      /\ phase' = "ready" => \A i \in DOMAIN items : items'[i] = WithBuf(items[i])
  <2>1. CASE Prepare /\ phase' = "ready"
    BY <1>2, <2>1 DEF Prepare
  <2>2. CASE (\E k \in DOMAIN items : PrepareFails(k)) /\ phase' = "failed"
    BY <1>2, <2>2 DEF PrepareFails
  <2> QED
    BY <2>1, <2>2 DEF DoPrepare
<1>5. \A i \in DOMAIN items :
        items'[i] \in ItemSet /\ SameMake(items[i], items'[i]) /\ items'[i].mem = items[i].mem
  BY <1>2, <1>4, WithBufType DEF SameMake
<1>6. items' \in Seq(ItemSet)
  BY <1>2, <1>4, <1>5
<1>7. TypeOK'
  BY <1>1, <1>2, <1>3, <1>4, <1>6 DEF IInv, TypeOK, PqTypeOK, Phases
<1>8. AllWellMade' /\ (LengthsMatch(items) => LengthsMatch(items'))
      /\ (SourceToSink(items) => SourceToSink(items'))
  BY <1>2, <1>4, <1>5, SameMakeKeeps DEF IInv
<1>9. phase' = "ready" =>
        \A i \in DOMAIN items' : items'[i].type # "SINK" => items'[i].buf = BufSize(items'[i])
  BY <1>2, <1>4, <1>5, WithBufType DEF SameMake
<1>10. Protocol'
  BY <1>1, <1>3, <1>8, <1>9 DEF IInv, Protocol, Executing
<1>11. FlightFits' /\ LengthContract'
  BY <1>1, <1>3 DEF FlightFits, LengthContract, Executing
<1>12. DestroyProgress'
  BY <1>1, <1>2, <1>3, <1>4, <1>5 DEF IInv, DestroyProgress, ReleasedOnce
<1> QED
  BY <1>7, <1>8, <1>10, <1>11, <1>12 DEF IInv

LEMMA ExecBeginStep ==
  ASSUME IInv, DoExecute PROVE IInv'
<1> USE DEF listVars, ioVars
<1>1. /\ phase = "ready" /\ phase' = "ready" /\ fault = "none"
      /\ UNCHANGED <<listVars, head, dpc, ioVars, fault, checked>>
      /\ at' = (IF items = <<>> THEN 0 ELSE 1) /\ flight' = NoFrame /\ rv' = 0
  BY DEF DoExecute, ExecBegin, Running
<1>2. items \in Seq(ItemSet)
  BY DEF IInv, TypeOK, PqTypeOK
<1>3. at' \in 0..Len(items) /\ NoFrame \in FrameSet
  BY <1>1, <1>2 DEF NoFrame, Frame, FrameSet, DataKinds
<1>4. TypeOK'
  BY <1>1, <1>3 DEF IInv, TypeOK, PqTypeOK
<1>5. AllWellMade' /\ ExactSources' = ExactSources
  BY <1>1, SameItems DEF IInv
<1>6. Protocol'
  BY <1>1 DEF IInv, Protocol, LengthsMatch, MatchesPrevious, SourceToSink
<1>7. FlightFits'
  <2>1. SUFFICES ASSUME checked = "strict", items # <<>> PROVE items[1].len_in = 0
    BY <1>1 DEF FlightFits, Executing
  <2>2. items[1].type = "SOURCE" /\ 1 \in DOMAIN items
    BY <1>2, <2>1 DEF IInv, Protocol, SourceToSink
  <2> QED
    BY <2>2 DEF IInv, AllWellMade, WellMade
<1>8. LengthContract' /\ DestroyProgress'
  BY <1>1 DEF IInv, LengthContract, DestroyProgress, ReleasedOnce
<1> QED
  BY <1>4, <1>5, <1>6, <1>7, <1>8 DEF IInv

LEMMA PlayStep ==
  ASSUME IInv, Play PROVE IInv'
<1> USE DEF listVars, execVars
<1>1. /\ UNCHANGED <<listVars, head, execVars, dpc, avail, taken, sunk, fault, phase, checked>>
      /\ dev > 0 /\ dev' = dev - 1
  BY DEF Play, DevPlay
<1>2. TypeOK'
  BY <1>1 DEF IInv, TypeOK, PqTypeOK
<1>3. AllWellMade' /\ ExactSources' = ExactSources
  BY <1>1, SameItems DEF IInv
<1>4. Protocol'
  BY <1>1 DEF IInv, Protocol, Executing, LengthsMatch, MatchesPrevious, SourceToSink
<1>5. FlightFits' /\ LengthContract'
  BY <1>1, <1>3 DEF IInv, FlightFits, LengthContract, Executing
<1>6. DestroyProgress'
  BY <1>1 DEF IInv, DestroyProgress, ReleasedOnce
<1> QED
  BY <1>2, <1>3, <1>4, <1>5, <1>6 DEF IInv

\* In a strictly checked queue with exact sources, the call at hand returns what its
\* item declares, unless it declares nothing.
LEMMA ReturnsDeclared ==
  ASSUME IInv, checked = "strict", ExactSources, fault = "none",
         at \in DOMAIN items, NEW n \in Nat, ReturnStep(n)
  PROVE  items[at].len_out \in {0, n}
<1>1. /\ items[at] \in ItemSet /\ flight \in FrameSet /\ WellMade(items[at])
  BY DEF IInv, TypeOK, PqTypeOK, AllWellMade
<1>2. items[at].len_in \in Nat /\ items[at].len_out \in Nat /\ flight.len \in Nat
  BY <1>1 DEF ItemSet, FrameSet
<1>3. CASE Cb.op \in SourceOps /\ n \in Deliveries(Cb)
  BY <1>3 DEF ExactSources, Cb
<1>4. CASE Cb.op \in SinkOps
  BY <1>1, <1>4 DEF WellMade, Cb
<1>5. ASSUME Cb.op \in ProcOps, NEW r \in Returns(Cb, flight.len), r.rv = n,
             items[at].len_out # 0
      PROVE  n = items[at].len_out
  <2>1. FitsOutput(ConvOf(Cb), items[at].len_in, items[at].len_out)
    BY <1>1, <1>5 DEF WellMade, Cb
  <2>2. Executing
    BY DEF ReturnStep, Callable
  <2>3. items[at].len_in \in {0, flight.len}
    BY <2>2 DEF IInv, FlightFits
  <2> QED
    BY <1>2, <1>5, <2>1, <2>3, ReturnsFit
<1> QED
  BY <1>3, <1>4, <1>5 DEF ReturnStep

\* In such a queue a call that crashes had no callback, or one without a declared
\* output length.
LEMMA CrashDeclared ==
  ASSUME IInv, checked = "strict", ExactSources, fault = "none",
         at \in DOMAIN items, CrashStep
  PROVE  fault' # "assert" /\ (fault' = "overrun" => items[at].len_out = 0)
<1>1. /\ items[at] \in ItemSet /\ flight \in FrameSet /\ WellMade(items[at])
  BY DEF IInv, TypeOK, PqTypeOK, AllWellMade
<1>2. items[at].len_in \in Nat /\ items[at].len_out \in Nat /\ flight.len \in Nat
  BY <1>1 DEF ItemSet, FrameSet
<1>3. items[at].len_in \in {0, flight.len}
  BY DEF IInv, FlightFits, CrashStep
<1>4. fault' # "assert"
  BY <1>1, <1>3 DEF CrashStep, WellMade, Cb
<1>5. ASSUME fault' = "overrun", items[at].len_out # 0 PROVE FALSE
  <2>1. /\ Cb # NULL /\ Cb.op \notin SinkOps
        /\ \E n \in Stored : n > items[at].buf
    BY <1>5 DEF CrashStep, Callable
  <2>2. items[at].buf = items[at].len_out
    BY <1>1, <1>5, <2>1 DEF IInv, Protocol, WellMade, BufSize, Cb, CrashStep
  <2>3. CASE Cb.op \in SourceOps
    <3>1. Stored \subseteq {items[at].len_out}
      BY <2>3 DEF Stored, ExactSources, Cb
    <3> QED
      BY <1>2, <2>1, <2>2, <3>1
  <2>4. CASE Cb.op \in ProcOps
    <3>1. FitsOutput(ConvOf(Cb), items[at].len_in, items[at].len_out)
      BY <1>1, <1>5, <2>4 DEF WellMade, Cb
    <3>2. \A r \in Returns(Cb, flight.len) : r.wrote <= items[at].len_out
      BY <1>2, <1>3, <3>1, ReturnsFit
    <3>3. Cb.op \notin SourceOps
      BY <2>4 DEF SourceOps, ProcOps
    <3>4. PICK r \in Returns(Cb, flight.len) : r.wrote > items[at].buf
      BY <2>1, <3>3 DEF Stored
    <3>5. r.wrote \in Nat
      BY <1>2, <3>4, ReturnsType
    <3> QED
      BY <1>2, <2>2, <3>2, <3>4, <3>5
  <2> QED
    BY <1>1, <2>1, <2>3, <2>4 DEF WellMade, Cb
<1> QED
  BY <1>4, <1>5

LEMMA ExecStepInv ==
  ASSUME IInv, DoExecStep PROVE IInv'
<1> USE DEF listVars
<1>1. /\ UNCHANGED <<listVars, head, dpc, avail, phase, checked>>
      /\ fault = "none" /\ Executing /\ at \in DOMAIN items /\ PqTypeOK'
      /\ ErrorStep \/ CrashStep \/ \E n \in Nat : ReturnStep(n)
  BY ExecOutcome DEF DoExecStep, Running, IInv, TypeOK
<1>2. items \in Seq(ItemSet) /\ at \in 1..Len(items) /\ flight \in FrameSet
  BY <1>1 DEF IInv, TypeOK, PqTypeOK
<1>3. phase = "ready" /\ phase' = "ready"
  BY <1>1 DEF IInv, Protocol
<1>4. /\ at' \in 0..Len(items) /\ flight' \in FrameSet /\ rv' \in {0, -1}
      /\ fault' \in {"none", "null_proc", "assert", "overrun"}
  BY <1>1, <1>2 DEF ErrorStep, CrashStep, ReturnStep, NextItem, IInv, TypeOK, PqTypeOK
<1>5. TypeOK'
  BY <1>1 DEF IInv, TypeOK
<1>6. AllWellMade' /\ ExactSources' = ExactSources
  BY <1>1, SameItems DEF IInv
<1>7. Protocol'
  BY <1>1, <1>3 DEF IInv, Protocol, LengthsMatch, MatchesPrevious, SourceToSink
<1>8. FlightFits'
  <2>1. SUFFICES ASSUME checked = "strict", ExactSources, at' # 0, fault' = "none"
                 PROVE  items[at'].len_in \in {0, flight'.len}
    BY <1>1, <1>6 DEF FlightFits, Executing
  <2>2. PICK n \in Nat : ReturnStep(n)
    BY <1>1, <2>1 DEF ErrorStep, CrashStep
  <2>3. at' = at + 1 /\ at' \in 2..Len(items) /\ flight'.len = n
    BY <1>2, <2>1, <2>2 DEF ReturnStep, NextItem, Frame, NoFrame
  <2>4. items[at].len_out \in {0, n}
    BY <1>1, <2>1, <2>2, ReturnsDeclared
  <2>5. items[at'].len_in \in {0, items[at' - 1].len_out}
    BY <2>1, <2>3 DEF IInv, Protocol, LengthsMatch, MatchesPrevious
  <2>6. at' - 1 = at
    BY <1>2, <2>3
  <2> QED
    BY <2>3, <2>4, <2>5, <2>6
<1>9. LengthContract'
  <2>1. CASE CrashStep
    BY <1>1, <1>6, <2>1, CrashDeclared DEF LengthContract, CrashStep
  <2>2. CASE ErrorStep \/ \E n \in Nat : ReturnStep(n)
    BY <1>1, <2>2 DEF LengthContract, ErrorStep, ReturnStep
  <2> QED
    BY <1>1, <2>1, <2>2
<1>10. DestroyProgress'
  BY <1>1, <1>4 DEF IInv, DestroyProgress, ReleasedOnce
<1> QED
  BY <1>5, <1>6, <1>7, <1>8, <1>9, <1>10 DEF IInv

LEMMA DestroyBeginStep ==
  ASSUME IInv, DoDestroy PROVE IInv'
<1> USE DEF listVars, execVars, ioVars
<1>1. /\ phase \in {"build", "ready", "failed"} /\ phase' = "destroy" /\ fault = "none" /\ ~Executing
      /\ UNCHANGED <<listVars, head, execVars, ioVars, checked>>
      /\ dpc' \in {"idle", "buf"}
  BY DEF DoDestroy, DestroyBegin, Running
<1>2. dpc = "idle" /\ head \in 1..(Len(items) + 1) /\ ~(head > 1) /\ queue # "freed"
  BY <1>1 DEF IInv, TypeOK, PqTypeOK, DestroyProgress
<1>3. fault' = "none"
  BY <1>1, <1>2 DEF DoDestroy, DestroyBegin
<1>4. TypeOK'
  BY <1>1, <1>3 DEF IInv, TypeOK, PqTypeOK, Phases
<1>5. AllWellMade' /\ ExactSources' = ExactSources
  BY <1>1, SameItems DEF IInv
<1>6. Protocol'
  BY <1>1 DEF IInv, Protocol, Executing, LengthsMatch, MatchesPrevious, SourceToSink
<1>7. FlightFits' /\ LengthContract'
  BY <1>1, <1>3 DEF FlightFits, LengthContract, Executing
<1>8. DestroyProgress'
  BY <1>1, <1>2, <1>3 DEF IInv, DestroyProgress, ReleasedOnce
<1> QED
  BY <1>4, <1>5, <1>6, <1>7, <1>8 DEF IInv

\* A step of pq_destroy that changes the entry at the head of the list, or none.
LEMMA DestroyItemStep ==
  ASSUME IInv, phase = "destroy", fault = "none", UNCHANGED <<phase, checked>>,
         DestroyBuf \/ DestroyExit \/ DestroyUnlink
  PROVE  IInv'
<1> USE DEF execVars, ioVars
<1>1. /\ items \in Seq(ItemSet) /\ head \in 1..(Len(items) + 1) /\ AllWellMade
      /\ dpc \in {"buf", "exit", "unlink"} /\ head \in DOMAIN items /\ dev \in 0..DevCap
  BY DEF IInv, TypeOK, PqTypeOK, DestroyBuf, DestroyExit, DestroyUnlink
<1>2. items[head] \in ItemSet /\ WellMade(items[head])
  BY <1>1 DEF AllWellMade
<1>3. ~Executing /\ queue # "freed"
  BY <1>1 DEF IInv, Protocol, DestroyProgress
<1>4. /\ UNCHANGED <<queue, n_items, execVars, avail, taken, sunk, fault>>
      /\ dev' \in {0, dev}
      /\ dpc' \in {"buf", "exit", "unlink"}
      /\ items' = [items EXCEPT ![head] = items'[head]]
      /\ items'[head] \in ItemSet /\ SameMake(items[head], items'[head])
      /\ head' = (IF dpc = "unlink" THEN head + 1 ELSE head)
      /\ dpc' \in {"exit", "unlink"} => head' = head
  <2>1. CASE DestroyBuf
    BY <1>1, <1>2, <2>1 DEF DestroyBuf, SameMake, ItemSet
  <2>2. CASE DestroyExit
    BY <1>1, <1>2, <2>2 DEF DestroyExit, SameMake, ItemSet, ReleasedState, Entry
  <2>3. CASE DestroyUnlink
    BY <1>1, <1>2, <2>3 DEF DestroyUnlink, SameMake, ItemSet
  <2> QED
    BY <2>1, <2>2, <2>3
<1>5. /\ items' \in Seq(ItemSet) /\ DOMAIN items' = DOMAIN items /\ Len(items') = Len(items)
      /\ \A i \in DOMAIN items : i # head => items'[i] = items[i]
  BY <1>1, <1>4
<1>6. TypeOK'
  BY <1>1, <1>4, <1>5 DEF IInv, TypeOK, PqTypeOK
<1>7. \A i \in DOMAIN items : SameMake(items[i], items'[i])
  BY <1>4, <1>5 DEF SameMake
<1>8. /\ AllWellMade' /\ (LengthsMatch(items) => LengthsMatch(items'))
      /\ (SourceToSink(items) => SourceToSink(items'))
  BY <1>1, <1>5, <1>7, SameMakeKeeps
<1>9. Protocol'
  BY <1>3, <1>4, <1>8 DEF IInv, Protocol, Executing
<1>10. FlightFits' /\ LengthContract'
  BY <1>3, <1>4 DEF FlightFits, LengthContract, Executing
<1>11. DestroyProgress'
  <2>1. CASE DestroyBuf
    <3>1. /\ items'[head].buf \in {0, -1} /\ items'[head].mem = items[head].mem
          /\ items'[head].state = items[head].state
          /\ head' = head /\ dpc' = "exit"
      <4>1. items[head].buf \in Nat \cup {-1}
        BY <1>2 DEF ItemSet
      <4>2. items'[head] = [items[head] EXCEPT !.buf = IF @ > 0 THEN -1 ELSE @]
        BY <1>1, <2>1 DEF DestroyBuf
      <4>3. items'[head].buf = IF items[head].buf > 0 THEN -1 ELSE items[head].buf
        BY <1>2, <4>2 DEF ItemSet
      <4> QED
        BY <1>2, <2>1, <4>1, <4>2, <4>3 DEF DestroyBuf, ItemSet
    <3> QED
      BY <1>1, <1>3, <1>4, <1>5, <3>1 DEF IInv, DestroyProgress, ReleasedOnce
  <2>2. CASE DestroyExit
    <3>1. /\ items'[head].buf = items[head].buf /\ items'[head].mem = items[head].mem
          /\ items'[head].state # "held"
          /\ head' = head /\ dpc = "exit" /\ dpc' = "unlink"
      BY <1>1, <1>2, <2>2 DEF DestroyExit, ItemSet, ReleasedState, Entry, WellMade
    <3> QED
      BY <1>1, <1>3, <1>4, <1>5, <3>1 DEF IInv, DestroyProgress, ReleasedOnce
  <2>3. CASE DestroyUnlink
    <3>1. /\ items'[head].buf = items[head].buf /\ items'[head].mem = "freed"
          /\ items'[head].state = items[head].state
          /\ head' = head + 1 /\ dpc = "unlink" /\ dpc' = "buf"
      BY <1>1, <1>2, <2>3 DEF DestroyUnlink, ItemSet
    <3> QED
      BY <1>1, <1>3, <1>4, <1>5, <3>1 DEF IInv, DestroyProgress, ReleasedOnce
  <2> QED
    BY <2>1, <2>2, <2>3
<1> QED
  BY <1>6, <1>8, <1>9, <1>10, <1>11 DEF IInv

\* The end of pq_destroy, and its step on an entry that was freed while linked.
LEMMA DestroyEndStep ==
  ASSUME IInv, phase = "destroy", fault = "none", UNCHANGED <<phase, checked>>,
         DestroyStale \/ DestroyQueue
  PROVE  IInv'
<1> USE DEF listVars, execVars, ioVars
<1>1. /\ items \in Seq(ItemSet) /\ head \in 1..(Len(items) + 1)
      /\ UNCHANGED <<items, n_items, head, execVars, ioVars>>
  BY DEF IInv, TypeOK, PqTypeOK, DestroyStale, DestroyQueue, Crash
<1>2. /\ \/ queue' = "freed" /\ dpc' = "idle" /\ fault' = "none" /\ head = Len(items) + 1
         \/ UNCHANGED <<queue, dpc>> /\ fault' = "use_after_free" /\ head \in DOMAIN items
            /\ items[head].mem = "freed"
  BY <1>1 DEF DestroyStale, DestroyQueue, Crash, Released
<1>3. TypeOK'
  BY <1>1, <1>2 DEF IInv, TypeOK, PqTypeOK, Faults
<1>4. AllWellMade' /\ ExactSources' = ExactSources
  BY <1>1, SameItems DEF IInv
<1>5. ~Executing
  BY DEF IInv, Protocol
<1>6. Protocol'
  BY <1>1, <1>5 DEF IInv, Protocol, Executing, LengthsMatch, MatchesPrevious, SourceToSink
<1>7. FlightFits' /\ LengthContract'
  BY <1>1, <1>2, <1>5 DEF FlightFits, LengthContract, Executing
<1>8. DestroyProgress'
  BY <1>1, <1>2 DEF IInv, DestroyProgress, ReleasedOnce
<1> QED
  BY <1>3, <1>4, <1>6, <1>7, <1>8 DEF IInv

LEMMA StepInv == IInv /\ [Next]_vars => IInv'
<1> SUFFICES ASSUME IInv, [Next]_vars PROVE IInv'
  OBVIOUS
<1>1. CASE NewQueue
  BY <1>1, CreateStep, ClientStep DEF NewQueue
<1>2. ASSUME NEW call \in ClientCalls, Add(call) PROVE IInv'
  BY <1>2, AddStep
<1>3. ASSUME NEW strict \in BOOLEAN, Check(strict) PROVE IInv'
  BY <1>3, CheckStep
<1>4. CASE DoPrepare
  BY <1>4, PrepareStep
<1>5. CASE DoExecute
  BY <1>5, ExecBeginStep
<1>6. CASE DoExecStep
  BY <1>6, ExecStepInv
<1>7. CASE Play
  BY <1>7, PlayStep
<1>8. CASE DoDestroy
  BY <1>8, DestroyBeginStep
<1>9. CASE DoDestroyStep
  <2>1. phase = "destroy" /\ fault = "none"
    BY <1>9 DEF DoDestroyStep, Running
  <2>2. CASE DestroyStep /\ UNCHANGED <<phase, checked>>
    BY <2>1, <2>2, DestroyItemStep, DestroyEndStep DEF DestroyStep
  <2>3. CASE phase' = "done" /\ UNCHANGED <<pqVars, checked>>
    BY <2>1, <2>3, ClientStep
  <2> QED
    BY <1>9, <2>2, <2>3 DEF DoDestroyStep
<1>10. CASE UNCHANGED vars
  BY <1>10, ClientStep DEF vars
<1> QED
  BY <1>1, <1>2, <1>3, <1>4, <1>5, <1>6, <1>7, <1>8, <1>9, <1>10 DEF Next

\* The conjunction of what constructors establish, what the client's protocol keeps and
\* what pq_destroy has released holds in every reachable state.
THEOREM Inductive == Spec => []IInv
BY InitInv, StepInv, PTL DEF Spec

----------------------------------------------------------------------------
(* The properties                                                            *)

\* Every variable of the queue and of its client has its type, for every input.
THEOREM Typed == Spec => []TypeOK
<1>1. IInv => TypeOK
  BY DEF IInv
<1> QED
  BY <1>1, Inductive, PTL

\* pq_check's length comparison and pq_prepare's buffer sizes are enough: in a strictly
\* checked queue with exact sources no callback's length assertion fails in pq_execute,
\* and none with a declared output length stores beyond its buffer.
THEOREM LengthsSafe == Spec => []LengthContract
<1>1. IInv => LengthContract
  BY DEF IInv
<1> QED
  BY <1>1, Inductive, PTL

\* pq_destroy leaves nothing allocated, whatever failed before it.
THEOREM AllReleased == Spec => []NothingLeft
<1>1. IInv => NothingLeft
  <2>1. SUFFICES ASSUME IInv, queue = "freed", NEW i \in DOMAIN items
                 PROVE  /\ items[i].mem = "freed" /\ items[i].buf \in {0, -1}
                        /\ items[i].state # "held"
    BY DEF NothingLeft
  <2>2. items \in Seq(ItemSet) /\ head = Len(items) + 1
    BY <2>1 DEF IInv, TypeOK, PqTypeOK, DestroyProgress
  <2>3. i < head
    BY <2>2
  <2> QED
    BY <2>1, <2>3 DEF IInv, DestroyProgress
<1> QED
  BY <1>1, Inductive, PTL

\* When concealment's state can be allocated (the one failure that leaves a freed item
\* in the list), pq_destroy reads and frees nothing that it has freed.
THEOREM ReleasedAtMostOnce ==
  ASSUME "ecu_state" \notin Failures PROVE Spec => []ReleasedOnce
<1>1. IInv => ReleasedOnce
  BY DEF IInv, DestroyProgress
<1> QED
  BY <1>1, Inductive, PTL
============================================================================
