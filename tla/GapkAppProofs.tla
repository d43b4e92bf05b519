--------------------------- MODULE GapkAppProofs ----------------------------
(* Proofs about osmo-gapk, for every set of command lines, libraries and     *)
(* failures and every bound: the types and options, the stages of main, the  *)
(* ends of the chain, and what is released.                                  *)
EXTENDS GapkAppInv, PqItemsProofs, FiniteSetTheorems, SequenceTheorems

USE ProcQueueAssumption, AppAssumption

----------------------------------------------------------------------------
(* parse_options and check_options                                           *)

\* One more argument is the last of its letter, and leaves the last of the others.
LEMMA IsLastNext ==
  ASSUME NEW args, NEW n \in Nat, NEW c, NEW k
  PROVE  IsLast(args, c, k, n + 1) <=>
           \/ k = n + 1 /\ args[n + 1].c = c
           \/ IsLast(args, c, k, n) /\ args[n + 1].c # c
BY DEF IsLast

\* A format named so far is still, if the next argument names none, and is the one
\* it names otherwise.
LEMMA NamesNext ==
  ASSUME NEW args, NEW n \in Nat, NEW c, NEW fmt, Names(args, fmt, c, n)
  PROVE  /\ args[n + 1].c # c => Names(args, fmt, c, n + 1)
         /\ args[n + 1].c = c => Names(args, args[n + 1].name, c, n + 1)
<1>1. 1..(n + 1) = 1..n \cup {n + 1}
  OBVIOUS
<1> QED
  BY <1>1, IsLastNext DEF Names

\* One more option: what it adds is what the command line as far as it has.
LEMMA ReflectsNext ==
  ASSUME NEW args, NEW n \in Nat, NEW o \in OptionSet, Reflects(args, o, n)
  PROVE  Reflects(args, WithArg(o, args[n + 1]), n + 1)
<1> DEFINE a == args[n + 1]
           p == WithArg(o, a)
<1>1. 1..(n + 1) = 1..n \cup {n + 1}
  OBVIOUS
<1>2. /\ p.fmt_in = IF a.c = "f" THEN a.name ELSE o.fmt_in
      /\ p.fmt_out = IF a.c = "g" THEN a.name ELSE o.fmt_out
      /\ "file" \in p.in <=> "file" \in o.in \/ a.c = "i"
      /\ "alsa" \in p.in <=> "alsa" \in o.in \/ a.c = "a"
      /\ "rtp" \in p.in <=> IF a.c = "I" THEN a.num # 0 ELSE "rtp" \in o.in
      /\ "file" \in p.out <=> "file" \in o.out \/ a.c = "o"
      /\ "alsa" \in p.out <=> "alsa" \in o.out \/ a.c = "A"
      /\ "rtp" \in p.out <=> IF a.c = "O" THEN a.num # 0 ELSE "rtp" \in o.out
  BY DEF WithArg, OptionSet, Given
<1> HIDE DEF p
<1>3. Names(args, p.fmt_in, "f", n + 1) /\ Names(args, p.fmt_out, "g", n + 1)
  BY <1>2, NamesNext DEF Reflects
<1>4. \A c : (\E k \in 1..(n + 1) : args[k].c = c) <=> (\E k \in 1..n : args[k].c = c) \/ a.c = c
  BY <1>1
<1>5. \A c : (\E k \in 1..(n + 1) : IsLast(args, c, k, n + 1) /\ args[k].num # 0) <=>
         IF a.c = c THEN a.num # 0 ELSE \E k \in 1..n : IsLast(args, c, k, n) /\ args[k].num # 0
  <2> SUFFICES ASSUME NEW c
               PROVE  (\E k \in 1..(n + 1) : IsLast(args, c, k, n + 1) /\ args[k].num # 0) <=>
                        IF a.c = c THEN a.num # 0
                        ELSE \E k \in 1..n : IsLast(args, c, k, n) /\ args[k].num # 0
    OBVIOUS
  <2>1. \A k : IsLast(args, c, k, n + 1) <=>
                 (k = n + 1 /\ a.c = c) \/ (IsLast(args, c, k, n) /\ a.c # c)
    BY IsLastNext
  <2>2. CASE a.c = c
    BY <1>1, <2>1, <2>2
  <2>3. CASE a.c # c
    BY <1>1, <2>1, <2>3 DEF IsLast
  <2> QED
    BY <2>2, <2>3
<1>6. \A k \in 1..(n + 1) : \E j \in 1..(n + 1) : IsLast(args, args[k].c, j, n + 1)
  <2> SUFFICES ASSUME NEW k \in 1..(n + 1)
               PROVE  \E j \in 1..(n + 1) : IsLast(args, args[k].c, j, n + 1)
    OBVIOUS
  <2>1. CASE args[k].c = a.c
    <3>1. IsLast(args, args[k].c, n + 1, n + 1)
      BY <2>1 DEF IsLast
    <3> QED
      BY <1>1, <3>1
  <2>2. CASE args[k].c # a.c
    <3>1. k \in 1..n
      BY <1>1, <2>2
    <3>2. PICK j \in 1..n : IsLast(args, args[k].c, j, n)
      BY <3>1 DEF Reflects
    <3>3. IsLast(args, args[k].c, j, n + 1)
      BY <2>2, <3>2, IsLastNext
    <3> QED
      BY <1>1, <3>3
  <2> QED
    BY <2>1, <2>2
<1> QED
  BY <1>2, <1>3, <1>4, <1>5, <1>6 DEF Reflects, p

LEMMA WithArgType ==
  ASSUME NEW o \in OptionSet, NEW a \in Args PROVE WithArg(o, a) \in OptionSet
<1>1. \A set \in SUBSET Sources : Given(set, "rtp", a.num) \in SUBSET Sources
  BY DEF Given, Sources
<1>2. "file" \in Sources /\ "alsa" \in Sources
  BY DEF Sources
<1>3. a.name \in Formats \cup {"missing"}
  BY DEF Args
<1> QED
  BY <1>1, <1>2, <1>3 DEF WithArg, OptionSet

\* Options that check_options accepts name two formats, a library for each codec they
\* need, and at most one input and one output.
LEMMA AcceptedOptions ==
  ASSUME NEW o \in OptionSet, OptionsRet(o) = 0
  PROVE  /\ o.fmt_in \in Formats /\ o.fmt_out \in Formats
         /\ NeedDec(o) => HasLib(CodecIn(o)) /\ CodecIn(o) \in Codecs \ {"PCM"}
         /\ NeedEnc(o) => HasLib(CodecOut(o)) /\ CodecOut(o) \in Codecs \ {"PCM"}
         /\ \A x, y \in o.in : x = y
         /\ \A x, y \in o.out : x = y
<1>1. /\ o.fmt_in # "missing" /\ o.fmt_out # "missing"
      /\ NeedDec(o) => HasLib(CodecIn(o))
      /\ NeedEnc(o) => HasLib(CodecOut(o))
      /\ ~(Cardinality(o.in) > 1) /\ ~(Cardinality(o.out) > 1)
  BY DEF OptionsRet, EINVAL, ENOTSUP
<1>2. ASSUME NEW io \in SUBSET Sources, ~(Cardinality(io) > 1), NEW x \in io, NEW y \in io, x # y
      PROVE  FALSE
  <2>1. IsFiniteSet(Sources)
    <3>1. IsFiniteSet({"file"})
      BY FS_Singleton
    <3>2. IsFiniteSet({"file"} \cup {"rtp"})
      BY <3>1, FS_AddElement
    <3>3. IsFiniteSet(({"file"} \cup {"rtp"}) \cup {"alsa"})
      BY <3>2, FS_AddElement
    <3>4. Sources = ({"file"} \cup {"rtp"}) \cup {"alsa"}
      BY DEF Sources
    <3> QED
      BY <3>3, <3>4
  <2>2. IsFiniteSet(io)
    BY <2>1, FS_Subset
  <2>3. Cardinality({x, y}) = 2 /\ IsFiniteSet({x, y})
    <3>1. IsFiniteSet({x}) /\ Cardinality({x}) = 1
      BY FS_Singleton
    <3>2. y \notin {x}
      BY <1>2
    <3>3. Cardinality({x} \cup {y}) = Cardinality({x}) + 1 /\ IsFiniteSet({x} \cup {y})
      BY <3>1, <3>2, FS_AddElement
    <3>4. {x, y} = {x} \cup {y}
      OBVIOUS
    <3>5. Cardinality({x} \cup {y}) = 2
      BY <3>1, <3>3
    <3> QED
      BY <3>3, <3>4, <3>5, Zenon
  <2>4. {x, y} \subseteq io
    BY <1>2
  <2>5. Cardinality({x, y}) <= Cardinality(io)
    BY <2>2, <2>4, FS_Subset
  <2>6. Cardinality(io) \in Nat
    BY <2>2, FS_CardinalityType
  <2> QED
    BY <1>2, <2>3, <2>5, <2>6
<1>3. o.in \in SUBSET Sources /\ o.out \in SUBSET Sources
      /\ o.fmt_in \in Formats \cup {"missing"} /\ o.fmt_out \in Formats \cup {"missing"}
  BY DEF OptionSet
<1>4. CodecIn(o) \in Codecs /\ CodecOut(o) \in Codecs
  BY FormatType DEF CodecIn, CodecOut
<1> QED
  BY <1>1, <1>2, <1>3, <1>4 DEF NeedDec, NeedEnc

\* What make_processing_chain calls between the source and the sink.
MidCalls == {call \in FmtCalls \cup CodecCalls : call \in CodecCalls => HasLib(call.arg)}

LEMMA CodecFormats ==
  ASSUME NEW c \in Codecs \ {"PCM"}
  PROVE  CodecDesc(c).dec_fmt \in Formats /\ CodecDesc(c).enc_fmt \in Formats
BY DEF Codecs, CodecDesc, Codec, CodecHr, CodecFr, CodecEfr, CodecAmr, Formats

LEMMA ConvertMid ==
  ASSUME NEW op \in {"to_canon", "from_canon"}, NEW f \in Formats
  PROVE  Call(op, f) \in MidCalls
BY DEF MidCalls, FmtCalls, CodecCalls, Call

LEMMA ConvertCalls ==
  ASSUME NEW f \in Formats, NEW g \in Formats PROVE Convert(f, g) \in Seq(MidCalls)
BY ConvertMid DEF Convert

\* The calls of an accepted command line: a source, conversions and codecs that have
\* their library, a sink.
LEMMA ChainShape ==
  ASSUME NEW o \in OptionSet, OptionsRet(o) = 0
  PROVE  LET calls == ChainCalls(o) IN
         /\ calls \in Seq(Calls) /\ Len(calls) >= 2
         /\ calls[1] = Call(ReadOp(o), o.fmt_in)
         /\ calls[Len(calls)] = Call(WriteOp(o), o.fmt_out)
         /\ \A k \in 2..(Len(calls) - 1) : calls[k] \in MidCalls
<1>1. /\ o.fmt_in \in Formats /\ o.fmt_out \in Formats
      /\ NeedDec(o) => HasLib(CodecIn(o)) /\ CodecIn(o) \in Codecs \ {"PCM"}
      /\ NeedEnc(o) => HasLib(CodecOut(o)) /\ CodecOut(o) \in Codecs \ {"PCM"}
  BY AcceptedOptions
<1>2. ASSUME NEW op \in {"encode", "decode"}, NEW c \in Codecs \ {"PCM"}, HasLib(c)
      PROVE  Call(op, c) \in MidCalls
  BY <1>2 DEF MidCalls, CodecCalls, Call
<1>3. ASSUME NEW op \in {"to_canon", "from_canon"}, NEW f \in Formats
      PROVE  Call(op, f) \in MidCalls
  BY ConvertMid
<1>4. DecodeCalls(o) \in Seq(MidCalls)
  <2>1. CASE NeedDec(o)
    <3>1. Convert(o.fmt_in, CodecDesc(CodecIn(o)).dec_fmt) \in Seq(MidCalls)
      BY <1>1, <2>1, CodecFormats, ConvertCalls
    <3>2. <<Call("decode", CodecIn(o))>> \in Seq(MidCalls)
      BY <1>1, <1>2, <2>1
    <3> QED
      BY <2>1, <3>1, <3>2, ConcatProperties DEF DecodeCalls
  <2>2. CASE ~NeedDec(o)
    BY <1>1, <1>3, <2>2 DEF DecodeCalls
  <2> QED
    BY <2>1, <2>2
<1>5. EncodeCalls(o) \in Seq(MidCalls)
  <2>1. CASE NeedEnc(o)
    <3>1. Convert(CodecDesc(CodecOut(o)).enc_fmt, o.fmt_out) \in Seq(MidCalls)
      BY <1>1, <2>1, CodecFormats, ConvertCalls
    <3>2. <<Call("encode", CodecOut(o))>> \in Seq(MidCalls)
      BY <1>1, <1>2, <2>1
    <3> QED
      BY <2>1, <3>1, <3>2, ConcatProperties DEF EncodeCalls
  <2>2. CASE ~NeedEnc(o)
    BY <1>1, <1>3, <2>2 DEF EncodeCalls
  <2> QED
    BY <2>1, <2>2
<1> DEFINE read == Call(ReadOp(o), o.fmt_in)
           write == Call(WriteOp(o), o.fmt_out)
<1>6. read \in Calls /\ write \in Calls /\ MidCalls \subseteq Calls
  <2>1. read \in SourceCalls
    BY <1>1 DEF SourceCalls, ReadOp, SourceOps
  <2>2. write \in SinkCalls
    BY <1>1 DEF SinkCalls, WriteOp, SinkOps
  <2> QED
    BY <2>1, <2>2 DEF Calls, MidCalls
<1> HIDE DEF read, write
<1> DEFINE mid == DecodeCalls(o) \o EncodeCalls(o)
<1>7. mid \in Seq(MidCalls)
  BY <1>4, <1>5, ConcatProperties
<1>8. ChainCalls(o) = (<<read>> \o mid) \o <<write>>
  <2>1. /\ <<read>> \in Seq(Calls) /\ <<write>> \in Seq(Calls)
        /\ DecodeCalls(o) \in Seq(Calls) /\ EncodeCalls(o) \in Seq(Calls)
    BY <1>4, <1>5, <1>6
  <2>2. (<<read>> \o DecodeCalls(o)) \o EncodeCalls(o) = <<read>> \o mid
    BY <2>1, ConcatAssociative
  <2> QED
    BY <2>2 DEF ChainCalls, read, write
<1> HIDE DEF mid
<1>9. mid \in Seq(Calls)
  BY <1>6, <1>7
<1>10. ASSUME NEW s \in Seq(Calls), s = (<<read>> \o mid) \o <<write>>
       PROVE  /\ Len(s) = Len(mid) + 2 /\ s[1] = read /\ s[Len(s)] = write
              /\ \A k \in 2..(Len(s) - 1) : s[k] = mid[k - 1]
  BY <1>6, <1>9, <1>10
<1>11. ChainCalls(o) \in Seq(Calls)
  BY <1>6, <1>8, <1>9, ConcatProperties
<1>12. /\ Len(ChainCalls(o)) = Len(mid) + 2 /\ ChainCalls(o)[1] = read
       /\ ChainCalls(o)[Len(ChainCalls(o))] = write
       /\ \A k \in 2..(Len(ChainCalls(o)) - 1) : ChainCalls(o)[k] = mid[k - 1]
  BY <1>8, <1>10, <1>11
<1>13. \A k \in 1..Len(mid) : mid[k] \in MidCalls
  BY <1>7
<1> QED
  BY <1>9, <1>11, <1>12, <1>13 DEF read, write

----------------------------------------------------------------------------
(* The types: OptionsInv                                                     *)

LEMMA SameItems ==
  ASSUME AllWellMade, UNCHANGED items PROVE AllWellMade' /\ KeepsItems
BY DEF AllWellMade, KeepsItems, SameMake

LEMMA SameQueue ==
  ASSUME PqTypeOK, AllWellMade, UNCHANGED pqVars PROVE PqTypeOK' /\ AllWellMade' /\ KeepsItems
BY SameItems DEF PqTypeOK, pqVars, listVars, execVars, ioVars

\* What one constructor call adds: at most one item, fresh from its constructor.
LEMMA ConstructOutcome ==
  ASSUME PqTypeOK, NEW call \in Calls, NEW r \in Results(call), Construct(r)
  PROVE  \/ r.add = <<>> /\ UNCHANGED pqVars
         \/ /\ r.add # <<>> /\ Fresh(r.add[1]) /\ AddItem(r.add[1])
            /\ PqTypeOK' /\ queue = "live"
            /\ items' = Append(items, r.add[1]) /\ Len(items') = Len(items) + 1
            /\ DOMAIN items' = 1..(Len(items) + 1) /\ DOMAIN items = 1..Len(items)
            /\ \A i \in DOMAIN items : items'[i] = items[i]
            /\ items'[Len(items) + 1] = r.add[1]
            /\ UNCHANGED <<queue, head, execVars, dpc, ioVars, fault>>
<1>1. CASE r.add = <<>>
  BY <1>1 DEF Construct
<1>2. CASE r.add # <<>>
  <2>1. Fresh(r.add[1]) /\ AddItem(r.add[1])
    BY <1>2, ResultsFresh DEF Construct
  <2>2. r.add[1] \in ItemSet
    BY <2>1 DEF Fresh
  <2> QED
    BY <1>2, <2>1, <2>2, AddOutcome
<1> QED
  BY <1>1, <1>2

\* Every step keeps the queue typed and its items as they were made, and only a
\* constructor adds one.
LEMMA QueueTyped ==
  ASSUME PqTypeOK, AllWellMade, todo \in Seq(Calls), Next
  PROVE  PqTypeOK' /\ AllWellMade' /\ (ChainItem \/ KeepsItems)
<1> USE DEF At
<1>1. items \in Seq(ItemSet)
  BY DEF PqTypeOK
<1>2. KeepsItems => AllWellMade'
  BY <1>1, SameMakeKeeps DEF KeepsItems
<1>3. UNCHANGED items => AllWellMade' /\ KeepsItems
  BY SameItems
<1>4. ASSUME \/ ParseArg \/ ParseEnds \/ CheckOptions \/ OpenFiles \/ HandleHeaders \/ CheckQueue
             \/ PassEnds \/ TimerReadable \/ BurstPassEnds \/ BurstEnds \/ WaitForSink
             \/ DrainSpins \/ DrainEnds \/ CloseIn \/ BenchFree \/ Tick \/ FirstSigint \/ Terminated
      PROVE  UNCHANGED pqVars
  BY <1>4 DEF ParseArg, ParseEnds, CheckOptions, OpenFiles, HandleHeaders, CheckQueue,
       PassEnds, TimerReadable, BurstPassEnds, BurstEnds, WaitForSink, DrainSpins, DrainEnds,
       CloseIn, BenchFree, Tick, FirstSigint, Terminated, vars
<1>5. CASE CreateQueue
  <2>1. CASE Create
    BY <1>3, <2>1, CreateType DEF Create
  <2>2. CASE UNCHANGED pqVars
    BY <2>2, SameQueue
  <2> QED
    BY <1>5, <2>1, <2>2 DEF CreateQueue
<1>6. CASE ChainItem
  <2>1. Head(todo) \in Calls
    BY <1>6 DEF ChainItem
  <2>2. PICK r \in Results(Head(todo)) : Construct(r)
    BY <1>6 DEF ChainItem
  <2>3. CASE UNCHANGED pqVars
    BY <2>3, SameQueue
  <2>4. CASE ~UNCHANGED pqVars
    BY <1>6, <2>1, <2>2, <2>4, ConstructOutcome DEF AllWellMade, Fresh
  <2> QED
    BY <2>3, <2>4
<1>7. CASE PrepareQueue
  BY <1>2, <1>7, PrepareOutcome DEF PrepareQueue
<1>8. CASE LoopHead
  <2>1. CASE ExecBegin
    BY <1>3, <2>1, ExecBeginType DEF ExecBegin, listVars
  <2>2. CASE UNCHANGED pqVars
    BY <2>2, SameQueue
  <2> QED
    BY <1>8, <2>1, <2>2 DEF LoopHead
<1>9. CASE Pass
  BY <1>3, <1>9, ExecOutcome DEF Pass, listVars
<1>10. CASE BurstPass
  BY <1>3, <1>10, ExecBeginType DEF BurstPass, ExecBegin, listVars
<1>11. CASE CloseOut
  BY <1>3, <1>11, DestroyBeginType DEF CloseOut, DestroyBegin, listVars
<1>12. CASE DestroyItems
  <2>1. CASE UNCHANGED pqVars
    BY <2>1, SameQueue
  <2>2. CASE DestroyBuf \/ DestroyExit \/ DestroyUnlink
    BY <1>2, <2>2, DestroyEntry
  <2>3. CASE DestroyStale \/ DestroyQueue
    BY <1>3, <2>3, DestroyEnd
  <2> QED
    BY <1>12, <2>1, <2>2, <2>3 DEF DestroyItems, DestroyStep
<1>13. CASE Play
  BY <1>3, <1>13, PlayType DEF Play, DevPlay, listVars
<1>14. CASE NextSigint
  <2> DEFINE f == IF "closed" \in {in, out} THEN "use_after_free" ELSE "none"
  <2>1. f \in Faults /\ DestroyWhole(f)
    BY <1>14 DEF NextSigint, Faults
  <2> QED
    BY <1>2, <2>1, DestroyWholeOutcome
<1> QED
  BY <1>4, <1>5, <1>6, <1>7, <1>8, <1>9, <1>10, <1>11, <1>12, <1>13, <1>14, SameQueue
     DEF Next, Main

LEMMA OptionsInit == ASSUME Init PROVE OptionsInv
<1>1. argv \in Seq(Args) /\ optind = 1 /\ Len(argv) \in Nat
  BY DEF Init
<1>2. PqTypeOK
  <2>1. NoFrame \in FrameSet
    BY DEF NoFrame, Frame, FrameSet, DataKinds
  <2> QED
    BY <2>1 DEF Init, PqInit, PqTypeOK, Faults
<1>3. AllWellMade
  BY DEF Init, PqInit, AllWellMade
<1>4. opts \in OptionSet /\ Reflects(argv, opts, 0)
  BY DEF Init, NoOptions, OptionSet, Reflects, Names, IsLast
<1>5. TypeOK
  BY <1>1, <1>2, <1>4 DEF Init, TypeOK, PcSet, Setup
<1> QED
  BY <1>1, <1>3, <1>4, <1>5 DEF Init, OptionsInv, Parsed

\* The options keep what was parsed, whatever else a step does.
LEMMA OptionsKept ==
  ASSUME UNCHANGED <<argv, optind, opts>>
  PROVE  /\ Reflects(argv, opts, optind - 1) => Reflects(argv, opts, optind - 1)'
         /\ OptionsRet(opts)' = OptionsRet(opts)
<1>1. Reflects(argv, opts, optind - 1)' <=> Reflects(argv, opts, optind - 1)
  BY DEF Reflects, Names, IsLast
<1>2. OptionsRet(opts)' = OptionsRet(opts)
  BY DEF OptionsRet, NeedDec, NeedEnc, CodecIn, CodecOut, Transcodes
<1> QED
  BY <1>1, <1>2

LEMMA OptionsNext ==
  ASSUME OptionsInv, [Next]_vars PROVE OptionsInv'
<1>1. CASE UNCHANGED vars
  <2>1. UNCHANGED pqVars /\ UNCHANGED pc /\ UNCHANGED appVars
    BY <1>1 DEF vars
  <2>2. PqTypeOK' /\ AllWellMade'
    BY <2>1, SameQueue DEF OptionsInv, TypeOK
  <2> QED
    BY <2>1, <2>2, OptionsKept DEF OptionsInv, Parsed, TypeOK, appVars, cmdVars
<1>2. CASE Next
  <2> USE DEF At, Goto, Bail, appVars, cmdVars
  <2>1. PqTypeOK' /\ AllWellMade'
    BY <1>2, QueueTyped DEF OptionsInv, TypeOK
  <2>2. /\ argv \in CommandLines /\ argv \in Seq(Args) /\ Len(argv) \in Nat
        /\ optind \in 1..(Len(argv) + 1)
        /\ opts \in OptionSet /\ pc \in PcSet /\ todo \in Seq(Calls)
        /\ in \in {"none", "std", "file", "sock", "closed", "shut"}
        /\ out \in {"none", "std", "file", "sock", "closed", "shut"}
        /\ exit \in 0..(MaxSigint + 1) /\ sigints \in 0..MaxSigint /\ exit <= sigints + 1
        /\ ticks \in 0..MaxBurst /\ burst \in 0..MaxBurst
        /\ num_frames \in Nat /\ status \in Int /\ rv \in Int
        /\ bench \in {"none", "live", "freed"}
    BY DEF OptionsInv, TypeOK, PqTypeOK
  <2>3. Parsed
    BY DEF OptionsInv
  <2>4. /\ UNCHANGED <<argv, optind, opts>>
        /\ \/ pc' \in {pc, "done"}
           \/ pc \notin {"parse", "check", "done"} /\ pc' # "parse"
           \/ pc = "parse" /\ pc' = "check" /\ optind = Len(argv) + 1
           \/ pc = "check" /\ OptionsRet(opts) = 0 /\ pc' # "parse"
        => Parsed'
    BY <2>3, OptionsKept DEF Parsed
  <2> DEFINE Rest ==
        /\ argv \in CommandLines /\ optind \in 1..(Len(argv) + 1)
        /\ opts \in OptionSet /\ pc \in PcSet /\ todo \in Seq(Calls)
        /\ {in, out} \subseteq {"none", "std", "file", "sock", "closed", "shut"}
        /\ exit \in 0..(MaxSigint + 1) /\ sigints \in 0..MaxSigint /\ exit <= sigints + 1
        /\ ticks \in 0..MaxBurst /\ burst \in 0..MaxBurst
        /\ num_frames \in Nat /\ status \in Int
        /\ bench \in {"none", "live", "freed"}
        /\ Parsed
  <2>5. {Closed(in), Closed(out)} \subseteq {"none", "std", "file", "sock", "closed", "shut"}
    BY <2>2 DEF Closed
  <2>6. Rest'
    <3> USE DEF PcSet, Setup, Looping, Closing
    <3>1. CASE ParseArg
      <4> DEFINE a == argv[optind]
                 n == optind - 1
      <4>1. a \in Args /\ n \in Nat /\ optind = n + 1 /\ optind' = optind + 1 /\ optind <= Len(argv)
        <5>1. optind' = optind + 1 /\ optind <= Len(argv)
          BY <3>1 DEF ParseArg
        <5>2. argv \in Seq(Args) /\ Len(argv) \in Nat /\ optind \in 1..(Len(argv) + 1)
          BY <2>2
        <5>3. a \in Args
          BY <5>1, <5>2
        <5> QED
          BY <5>1, <5>2, <5>3
      <4>2. optind' \in 1..(Len(argv) + 1) /\ argv' = argv
        BY <2>2, <3>1, <4>1 DEF ParseArg
      <4>3. CASE pc' = "done"
        <5>1. opts' = opts /\ status' \in Int
          BY <3>1, <4>3 DEF ParseArg, EINVAL
        <5>2. Parsed'
          BY <4>3 DEF Parsed
        <5> QED
          BY <2>2, <3>1, <4>2, <4>3, <5>1, <5>2 DEF ParseArg
      <4>4. CASE pc' # "done"
        <5>1. opts' = WithArg(opts, a) /\ pc = "parse" /\ pc' = "parse" /\ status' = status
          BY <3>1, <4>4 DEF ParseArg
        <5>2. opts' \in OptionSet
          BY <2>2, <4>1, <5>1, WithArgType
        <5>3. Reflects(argv, opts, n)
          BY <2>3, <5>1 DEF Parsed
        <5>4. Reflects(argv, WithArg(opts, argv[n + 1]), n + 1)
          BY <2>2, <4>1, <5>3, ReflectsNext
        <5>5. Reflects(argv, opts', optind)
          BY <4>1, <5>1, <5>4
        <5>6. optind' - 1 = optind
          BY <4>1
        <5>7. Reflects(argv, opts, optind - 1)' <=> Reflects(argv', opts', optind' - 1)
          BY DEF Reflects, Names, IsLast
        <5>8. Parsed'
          BY <4>2, <5>1, <5>5, <5>6, <5>7 DEF Parsed
        <5> QED
          BY <2>2, <3>1, <4>2, <5>1, <5>2, <5>8 DEF ParseArg
      <4> QED
        BY <4>3, <4>4
    <3>2. CASE ParseEnds
      BY <2>2, <2>4, <3>2 DEF ParseEnds
    <3>3. CASE CheckOptions
      <4>1. OptionsRet(opts) \in Int
        BY DEF OptionsRet, EINVAL, ENOTSUP
      <4> QED
        BY <2>2, <2>4, <3>3, <4>1 DEF CheckOptions
    <3>4. CASE CreateQueue
      BY <2>2, <2>4, <3>4 DEF CreateQueue, ENOMEM
    <3>5. CASE OpenFiles
      BY <2>2, <2>4, <3>5 DEF OpenFiles, Handle
    <3>6. CASE HandleHeaders
      <4>1. OptionsRet(opts) = 0
        BY <2>3, <3>6 DEF Parsed, HandleHeaders
      <4>2. ChainCalls(opts) \in Seq(Calls)
        BY <2>2, <4>1, ChainShape
      <4> QED
        BY <2>2, <2>4, <3>6, <4>2 DEF HandleHeaders, EINVAL
    <3>7. CASE ChainItem
      BY <2>2, <2>4, <3>7 DEF ChainItem, BenchEnable
    <3>8. CASE CheckQueue
      <4>1. pc = "chain" /\ pc' \in {"prepare", "close_in"} /\ status' \in Int
        BY <2>2, <3>8 DEF CheckQueue, CheckRet, EINVAL
      <4> QED
        BY <2>2, <2>4, <3>8, <4>1 DEF CheckQueue
    <3>9. CASE PrepareQueue
      BY <2>2, <2>4, <3>9 DEF PrepareQueue, ENOMEM
    <3>10. CASE LoopHead \/ Pass \/ BurstEnds \/ DrainSpins \/ DrainEnds \/ DestroyItems \/ Play
      <4>1. /\ UNCHANGED appVars /\ pc \notin {"parse", "check", "done"}
            /\ pc' \in {pc, "pass", "select", "wait", "loop", "close_in", "bench"}
        BY <3>10 DEF LoopHead, Pass, BurstEnds, DrainSpins, DrainEnds, DestroyItems, Play, vars
      <4> QED
        BY <2>2, <2>4, <4>1
    <3>11. CASE PassEnds
      BY <2>2, <2>4, <3>11 DEF PassEnds
    <3>12. CASE TimerReadable
      BY <2>2, <2>4, <3>12 DEF TimerReadable
    <3>13. CASE BurstPass
      BY <2>2, <2>4, <3>13 DEF BurstPass
    <3>14. CASE BurstPassEnds
      BY <2>2, <2>4, <3>14 DEF BurstPassEnds
    <3>15. CASE WaitForSink
      BY <2>2, <2>4, <3>15 DEF WaitForSink
    <3>16. CASE CloseIn \/ CloseOut \/ BenchFree
      BY <2>2, <2>4, <2>5, <3>16 DEF CloseIn, CloseOut, BenchFree, Freed
    <3>17. CASE Tick
      BY <2>2, <2>4, <3>17 DEF Tick
    <3>18. CASE FirstSigint
      BY <2>2, <2>4, <3>18 DEF FirstSigint, CanInterrupt, HandlerInstalled
    <3>19. CASE NextSigint
      BY <2>2, <2>4, <2>5, <3>19 DEF NextSigint, CanInterrupt, Freed
    <3>20. CASE Terminated
      BY <2>2, <2>4, <3>20 DEF Terminated, vars
    <3> QED
      BY <1>2, <3>1, <3>2, <3>3, <3>4, <3>5, <3>6, <3>7, <3>8, <3>9, <3>10, <3>11, <3>12,
         <3>13, <3>14, <3>15, <3>16, <3>17, <3>18, <3>19, <3>20 DEF Next, Main
  <2> QED
    BY <2>1, <2>6 DEF OptionsInv, TypeOK
<1> QED
  BY <1>1, <1>2

\* The options are those given, they and every variable have their types, and each
\* item is as its constructor made it, in every state the program reaches.
THEOREM OptionsAlways == Spec => []OptionsInv
<1> QED
  BY OptionsInit, OptionsNext, PTL DEF Spec

\* Every variable of the program, the queue's among them, always has its type.
THEOREM TypesHold == Spec => []TypeOK
<1>1. OptionsInv => TypeOK
  BY DEF OptionsInv
<1> QED
  BY <1>1, OptionsAlways, PTL

----------------------------------------------------------------------------
(* The stages of main: StagesInv                                             *)

LEMMA StagesInit == ASSUME Init PROVE StagesInv
BY DEF Init, PqInit, NoOptions, StagesInv, QueueStages, ChainStages, CallStages,
       Setup, Looping, AfterChain, AfterDestroy

\* A queue that has passed the strict check has a source.
LEMMA CheckedQueue == ASSUME StagesInv, Checked PROVE items # <<>> /\ queue # "none"
BY DEF StagesInv, QueueStages, Checked, CheckRet, SourceToSink, EINVAL

LEMMA StagesKept ==
  /\ UNCHANGED items => (Checked' <=> Checked) /\ (Prepared' <=> Prepared)
  /\ PqTypeOK /\ AllWellMade /\ KeepsItems => (Checked => Checked')
<1>1. UNCHANGED items => (Checked' <=> Checked) /\ (Prepared' <=> Prepared)
  BY DEF Checked, CheckRet, LengthsMatch, SourceToSink, MatchesPrevious, Prepared, BufSize
<1>2. ASSUME PqTypeOK, AllWellMade, KeepsItems, Checked PROVE Checked'
  <2>1. LengthsMatch(items) /\ SourceToSink(items)
    BY <1>2 DEF Checked, CheckRet, EINVAL
  <2>2. items \in Seq(ItemSet)
    BY <1>2 DEF PqTypeOK
  <2>3. LengthsMatch(items') /\ SourceToSink(items')
    BY <1>2, <2>1, <2>2, SameMakeKeeps DEF KeepsItems
  <2> QED
    BY <2>3 DEF Checked, CheckRet
<1> QED
  BY <1>1, <1>2

LEMMA StagesNext == ASSUME OptionsInv, StagesInv, [Next]_vars PROVE StagesInv'
<1> USE DEF StagesInv, QueueStages, ChainStages, CallStages, At, Goto, Bail,
            Setup, Looping, Closing, AfterChain, AfterDestroy,
            vars, pqVars, listVars, execVars, ioVars, appVars, cmdVars
<1>1. /\ PqTypeOK /\ AllWellMade /\ todo \in Seq(Calls) /\ Len(items) \in Nat
      /\ items \in Seq(ItemSet) /\ head \in 1..(Len(items) + 1)
      /\ opts.throttle \in BOOLEAN
  BY DEF OptionsInv, TypeOK, PqTypeOK, OptionSet
<1>2. UNCHANGED items => (Checked' <=> Checked) /\ (Prepared' <=> Prepared)
  BY StagesKept
<1>3. CASE UNCHANGED vars
  BY <1>2, <1>3
<1>4. CASE ParseArg \/ ParseEnds \/ CheckOptions
  BY <1>2, <1>4 DEF ParseArg, ParseEnds, CheckOptions
<1>5. CASE CreateQueue
  BY <1>1, <1>2, <1>5 DEF CreateQueue, Create
<1>6. CASE OpenFiles \/ HandleHeaders
  BY <1>2, <1>6 DEF OpenFiles, HandleHeaders
<1>7. CASE ChainItem
  <2>1. PICK r \in Results(Head(todo)) : Construct(r)
    BY <1>7 DEF ChainItem
  <2>2. Head(todo) \in Calls /\ Tail(todo) \in Seq(Calls)
    BY <1>1, <1>7 DEF ChainItem
  <2>3. UNCHANGED <<queue, head, at, dpc>>
    BY <1>1, <2>1, <2>2, ConstructOutcome
  <2> QED
    BY <1>7, <2>3 DEF ChainItem
<1>8. CASE CheckQueue
  BY <1>2, <1>8 DEF CheckQueue, Checked
<1>9. CASE PrepareQueue
  <2>1. Prepare \/ \E k \in DOMAIN items : PrepareFails(k)
    BY <1>9 DEF PrepareQueue
  <2>2. KeepsItems /\ UNCHANGED <<queue, head, at, dpc>> /\ (Prepare => Prepared')
    BY <1>1, <2>1, PrepareOutcome DEF Prepared
  <2>3. Checked => Checked'
    BY <1>1, <2>2, StagesKept
  <2> QED
    BY <1>9, <2>2, <2>3 DEF PrepareQueue
<1>10. CASE LoopHead \/ BurstPass
  BY <1>2, <1>10 DEF LoopHead, BurstPass, ExecBegin
<1>11. CASE Pass
  <2>1. UNCHANGED <<queue, items, head, dpc>>
    BY <1>1, <1>11, ExecOutcome DEF Pass
  <2> QED
    BY <1>2, <1>11, <2>1 DEF Pass
<1>12. CASE PassEnds \/ BurstPassEnds
  BY <1>1, <1>2, <1>12 DEF PassEnds, BurstPassEnds, Executing
<1>13. CASE TimerReadable \/ BurstEnds \/ WaitForSink \/ DrainSpins \/ DrainEnds
  BY <1>2, <1>13 DEF TimerReadable, BurstEnds, WaitForSink, DrainSpins, DrainEnds
<1>14. CASE CloseIn \/ BenchFree
  BY <1>2, <1>14 DEF CloseIn, BenchFree
<1>15. CASE CloseOut
  BY <1>1, <1>2, <1>15 DEF CloseOut, DestroyBegin
<1>16. CASE DestroyItems
  <2>1. CASE dpc = "idle"
    BY <1>2, <1>16, <2>1 DEF DestroyItems
  <2>2. CASE DestroyBuf \/ DestroyExit \/ DestroyUnlink
    <3>1. Len(items') = Len(items) /\ head \in DOMAIN items /\ UNCHANGED <<queue, at>> /\ dpc' # "idle"
      BY <1>1, <2>2, DestroyEntry DEF KeepsItems
    <3>2. items # <<>> /\ head # Len(items) + 1
      BY <1>1, <3>1
    <3> QED
      BY <1>16, <2>2, <3>1, <3>2 DEF DestroyItems
  <2>3. CASE DestroyStale \/ DestroyQueue
    <3>1. /\ UNCHANGED <<items, head, at>> /\ dpc # "idle"
          /\ \/ queue' = "freed" /\ dpc' = "idle" /\ head = Len(items) + 1
             \/ UNCHANGED <<queue, dpc>>
      BY <1>1, <2>3, DestroyEnd
    <3> QED
      BY <1>2, <1>16, <3>1 DEF DestroyItems
  <2> QED
    BY <1>16, <2>1, <2>2, <2>3 DEF DestroyItems, DestroyStep
<1>17. CASE Tick
  BY <1>2, <1>17 DEF Tick
<1>18. CASE Play
  BY <1>2, <1>18 DEF Play, DevPlay
<1>19. CASE FirstSigint
  BY <1>2, <1>19 DEF FirstSigint
<1>20. CASE NextSigint
  <2> DEFINE f == IF "closed" \in {in, out} THEN "use_after_free" ELSE "none"
  <2>1. f \in Faults /\ DestroyWhole(f) /\ Checked /\ pc # "chain"
    BY <1>20 DEF NextSigint, Faults, CanInterrupt, HandlerInstalled, Checked
  <2>2. /\ head' = Len(items') + 1 /\ dpc' = "idle" /\ at' = at /\ Len(items') = Len(items)
        /\ queue' = IF queue = "live" THEN "freed" ELSE queue
    BY <1>1, <2>1, DestroyWholeOutcome DEF KeepsItems
  <2>3. queue' = "freed"
    BY <1>1, <2>1, <2>2, CheckedQueue DEF PqTypeOK
  <2> QED
    BY <1>20, <2>1, <2>2, <2>3 DEF NextSigint
<1>21. CASE Terminated
  BY <1>2, <1>21 DEF Terminated
<1> QED
  BY <1>3, <1>4, <1>5, <1>6, <1>7, <1>8, <1>9, <1>10, <1>11, <1>12, <1>13, <1>14, <1>15,
     <1>16, <1>17, <1>18, <1>19, <1>20, <1>21 DEF Next, Main

\* What main has done to the queue is what its place says, in every reachable state.
THEOREM StagesAlways == Spec => []StagesInv
<1> QED
  BY StagesInit, StagesNext, OptionsAlways, PTL DEF Spec

----------------------------------------------------------------------------
(* The ends of the chain: EndsInv                                            *)

\* The options change only while the queue has no items and no calls are left, and the
\* calls only in HandleHeaders and ChainItem.
LEMMA OptionsSettled ==
  ASSUME OptionsInv, StagesInv, [Next]_vars
  PROVE  /\ opts' = opts \/ (items' = <<>> /\ todo' = <<>>)
         /\ todo' = todo \/ HandleHeaders \/ ChainItem
<1> USE DEF At, Goto, Bail, vars, pqVars, listVars, appVars, cmdVars
<1>1. CASE ParseArg
  BY <1>1 DEF ParseArg, StagesInv, QueueStages, Setup
<1>2. CASE ParseEnds \/ CheckOptions \/ CreateQueue \/ OpenFiles \/ HandleHeaders \/ ChainItem
           \/ CheckQueue \/ PrepareQueue
  BY <1>2 DEF ParseEnds, CheckOptions, CreateQueue, OpenFiles, HandleHeaders, ChainItem,
       CheckQueue, PrepareQueue
<1>3. CASE LoopHead \/ Pass \/ PassEnds \/ TimerReadable \/ BurstPass \/ BurstPassEnds \/ BurstEnds
           \/ WaitForSink \/ DrainSpins \/ DrainEnds
  BY <1>3 DEF LoopHead, Pass, PassEnds, TimerReadable, BurstPass, BurstPassEnds, BurstEnds,
       WaitForSink, DrainSpins, DrainEnds
<1>4. CASE CloseIn \/ CloseOut \/ DestroyItems \/ BenchFree
  BY <1>4 DEF CloseIn, CloseOut, DestroyItems, BenchFree
<1>5. CASE Tick \/ Play \/ FirstSigint \/ NextSigint \/ Terminated
  BY <1>5 DEF Tick, Play, FirstSigint, NextSigint, Terminated
<1>6. CASE UNCHANGED vars
  BY <1>6
<1> QED
  BY <1>1, <1>2, <1>3, <1>4, <1>5, <1>6 DEF Next, Main

LEMMA ChainEnds ==
  ASSUME NEW o \in OptionSet, OptionsRet(o) = 0
  PROVE  LET calls == ChainCalls(o) IN
         \A k \in DOMAIN calls :
           /\ calls[k].fn \in SourceOps => k = 1 /\ calls[k] = Call(ReadOp(o), o.fmt_in)
           /\ calls[k].fn \in SinkOps => k = Len(calls) /\ calls[k] = Call(WriteOp(o), o.fmt_out)
           /\ calls[k].fn # "ecu"
<1> DEFINE calls == ChainCalls(o)
<1>1. /\ calls \in Seq(Calls) /\ Len(calls) >= 2 /\ Len(calls) \in Nat
      /\ calls[1] = Call(ReadOp(o), o.fmt_in) /\ calls[Len(calls)] = Call(WriteOp(o), o.fmt_out)
      /\ \A k \in 2..(Len(calls) - 1) : calls[k] \in MidCalls
  BY ChainShape
<1> HIDE DEF calls
<1>2. calls[1].fn \in SourceOps /\ calls[Len(calls)].fn \in SinkOps
  BY <1>1 DEF Call, ReadOp, WriteOp, SourceOps, SinkOps
<1>3. \A call \in MidCalls : call.fn \notin SourceOps \cup SinkOps \cup {"ecu"}
  BY DEF MidCalls, FmtCalls, CodecCalls, Call, SourceOps, SinkOps
<1>4. SourceOps \cap SinkOps = {} /\ "ecu" \notin SourceOps \cup SinkOps
  BY DEF SourceOps, SinkOps
<1>5. \A k \in DOMAIN calls : k = 1 \/ k = Len(calls) \/ k \in 2..(Len(calls) - 1)
  BY <1>1
<1>6. \A k \in DOMAIN calls :
        /\ calls[k].fn \in SourceOps => k = 1
        /\ calls[k].fn \in SinkOps => k = Len(calls)
        /\ calls[k].fn # "ecu"
  BY <1>1, <1>2, <1>3, <1>4, <1>5
<1> QED
  BY <1>1, <1>6 DEF calls

LEMMA EndsNext == ASSUME OptionsInv, StagesInv, EndsInv, [Next]_vars PROVE EndsInv'
<1>1. /\ PqTypeOK /\ AllWellMade /\ todo \in Seq(Calls) /\ items \in Seq(ItemSet)
      /\ opts \in OptionSet
  BY DEF OptionsInv, TypeOK, PqTypeOK
<1>2. CASE ChainItem
  <2> DEFINE call == Head(todo)
  <2>1. todo # <<>> /\ todo' = Tail(todo) /\ opts' = opts /\ call \in Calls
    BY <1>1, <1>2 DEF ChainItem, At
  <2>2. PICK r \in Results(call) : Construct(r)
    BY <1>2 DEF ChainItem
  <2>3. /\ todo' \in Seq(Calls) /\ Len(todo') = Len(todo) - 1 /\ Len(todo) \in Nat /\ Len(todo) >= 1
        /\ todo[1] = call /\ \A k \in DOMAIN todo' : todo'[k] = todo[k + 1] /\ k + 1 \in DOMAIN todo
    BY <1>1, <2>1
  <2>4. \A k \in DOMAIN todo' :
          /\ todo'[k].fn \notin SourceOps
          /\ todo'[k].fn \in SinkOps => k = Len(todo') /\ todo'[k] = Call(WriteOp(opts), opts.fmt_out)
          /\ todo'[k].fn # "ecu"
    BY <1>1, <2>3 DEF EndsInv
  <2>5. \A i \in DOMAIN items :
          /\ items[i].proc.op \in SourceOps =>
               i = 1 /\ items[i].proc.op = ReadOp(opts) /\ items[i].proc.what = opts.fmt_in
          /\ items[i].proc.op \notin SinkOps
    BY <2>1 DEF EndsInv
  <2>6. CASE r.add = <<>>
    <3>1. items' = items
      BY <2>2, <2>6 DEF Construct, pqVars, listVars
    <3> QED
      BY <2>1, <2>4, <2>5, <3>1 DEF EndsInv
  <2>7. CASE r.add # <<>>
    <3> DEFINE item == r.add[1]
    <3>1. /\ Len(items') = Len(items) + 1 /\ DOMAIN items' = 1..(Len(items) + 1)
          /\ DOMAIN items = 1..Len(items) /\ \A i \in DOMAIN items : items'[i] = items[i]
          /\ items'[Len(items) + 1] = item
      BY <1>1, <2>1, <2>2, <2>7, ConstructOutcome
    <3>2. item.proc = NULL \/ (item.proc.op = call.fn /\ item.proc.what = call.arg)
      BY <2>1, <2>2, <2>7, ResultsOf
    <3>3. item.proc.op \in SourceOps =>
            Len(items) + 1 = 1 /\ item.proc.op = ReadOp(opts) /\ item.proc.what = opts.fmt_in
      <4>1. CASE item.proc.op \in SourceOps
        <5>1. item.proc.op = call.fn /\ item.proc.what = call.arg
          BY <3>2, <4>1 DEF NULL, Callback, SourceOps
        <5>2. items = <<>> /\ call = Call(ReadOp(opts), opts.fmt_in)
          BY <2>3, <4>1, <5>1 DEF EndsInv
        <5> QED
          BY <5>1, <5>2 DEF Call
      <4> QED
        BY <4>1
    <3>4. item.proc.op \in SinkOps =>
            todo' = <<>> /\ item.proc.op = WriteOp(opts) /\ item.proc.what = opts.fmt_out
      <4>1. CASE item.proc.op \in SinkOps
        <5>1. item.proc.op = call.fn /\ item.proc.what = call.arg
          BY <3>2, <4>1 DEF NULL, Callback, SinkOps
        <5>2. Len(todo) = 1 /\ call = Call(WriteOp(opts), opts.fmt_out)
          BY <2>3, <4>1, <5>1 DEF EndsInv
        <5> QED
          BY <2>3, <5>1, <5>2 DEF Call
      <4> QED
        BY <4>1
    <3> HIDE DEF item
    <3> QED
      BY <1>1, <2>1, <2>4, <2>5, <3>1, <3>3, <3>4 DEF EndsInv
  <2> QED
    BY <2>6, <2>7
<1>3. CASE HandleHeaders
  <2>1. items' = items /\ items = <<>> /\ opts' = opts
    BY <1>3 DEF HandleHeaders, At, pqVars, listVars, StagesInv, QueueStages, Setup
  <2>2. todo' = ChainCalls(opts) \/ todo' = todo
    BY <1>3 DEF HandleHeaders
  <2>3. OptionsRet(opts) = 0
    BY <1>3 DEF HandleHeaders, At, OptionsInv, Parsed
  <2>4. CASE todo' = ChainCalls(opts)
    BY <1>1, <2>1, <2>3, <2>4, ChainEnds DEF EndsInv
  <2>5. CASE todo' = todo
    BY <2>1, <2>5 DEF EndsInv
  <2> QED
    BY <2>2, <2>4, <2>5
<1>4. CASE ~ChainItem /\ ~HandleHeaders
  <2>1. KeepsItems
    <3>1. CASE Next
      BY <1>1, <1>4, <3>1, QueueTyped
    <3>2. CASE UNCHANGED vars
      BY <1>1, <3>2, SameQueue DEF vars
    <3> QED
      BY <3>1, <3>2
  <2>2. todo' = todo
    BY <1>4, OptionsSettled
  <2>3. CASE opts' = opts
    BY <2>1, <2>2, <2>3 DEF EndsInv, KeepsItems, SameMake
  <2>4. CASE items' = <<>> /\ todo' = <<>>
    BY <2>4 DEF EndsInv
  <2> QED
    BY <2>3, <2>4, OptionsSettled
<1> QED
  BY <1>2, <1>3, <1>4

\* Whatever fails, only the first item of the chain may be a source and only the last
\* a sink, and these are the ones asked for, in every reachable state.
THEOREM EndsAlways == Spec => []EndsInv
<1>1. Init => EndsInv
  BY DEF Init, PqInit, EndsInv
<1> QED
  BY <1>1, EndsNext, OptionsAlways, StagesAlways, PTL DEF Spec

\* In a chain that has passed the strict check only the first item has the callback of a
\* source and only the last, another one, that of a sink.
LEMMA Places ==
  ASSUME OptionsInv, EndsInv, Checked
  PROVE  /\ items \in Seq(ItemSet) /\ Len(items) \in Nat /\ Len(items) >= 2
         /\ items[1].proc.op \in SourceOps \cup {"NULL"}
         /\ items[Len(items)].proc.op \in SinkOps
         /\ \A i \in DOMAIN items :
              /\ items[i].proc.op \in SourceOps => i = 1
              /\ items[i].proc.op \in SinkOps => i = Len(items)
<1>1. /\ items \in Seq(ItemSet) /\ Len(items) \in Nat /\ items # <<>>
      /\ items[1].type = "SOURCE" /\ items[Len(items)].type = "SINK"
  BY DEF OptionsInv, TypeOK, PqTypeOK, Checked, CheckRet, SourceToSink, EINVAL
<1>2. 1 \in DOMAIN items /\ Len(items) \in DOMAIN items /\ Len(items) # 1
  BY <1>1
<1>3. /\ items[1].proc.op \in SourceOps \cup {"NULL"}
      /\ items[Len(items)].proc.op \in SinkOps
  BY <1>1, <1>2 DEF OptionsInv, AllWellMade, WellMade
<1> QED
  BY <1>1, <1>2, <1>3 DEF EndsInv

\* The last option of the command line with a letter.
LEMMA LastGiven ==
  ASSUME OptionsInv, NEW c, NEW k, IsLast(argv, c, k, Len(argv))
  PROVE  LastArg(c) = argv[k] /\ IsGiven(c)
<1> DEFINE Last(i) == argv[i].c = c /\ \A j \in DOMAIN argv : argv[j].c = c => j <= i
<1>1. argv \in Seq(Args) /\ Len(argv) \in Nat /\ DOMAIN argv = 1..Len(argv)
  BY DEF OptionsInv, TypeOK
<1>2. k \in DOMAIN argv /\ Last(k) /\ \A i \in DOMAIN argv : Last(i) => i = k
  BY <1>1 DEF IsLast
<1>3. (CHOOSE i \in DOMAIN argv : Last(i)) = k
  BY <1>1, <1>2
<1> QED
  BY <1>1, <1>2, <1>3 DEF LastArg, IsGiven

\* A flag was given, a port other than 0 was given last, a format was named last.
LEMMA GivenOptions ==
  ASSUME OptionsInv, pc \notin {"parse", "check", "done"}
  PROVE  /\ "file" \in opts.in <=> IsGiven("i")
         /\ "alsa" \in opts.in <=> IsGiven("a")
         /\ "rtp" \in opts.in <=> IsGiven("I") /\ LastArg("I").num # 0
         /\ "file" \in opts.out <=> IsGiven("o")
         /\ "alsa" \in opts.out <=> IsGiven("A")
         /\ "rtp" \in opts.out <=> IsGiven("O") /\ LastArg("O").num # 0
         /\ opts.fmt_in = LastArg("f").name /\ opts.fmt_out = LastArg("g").name
<1>1. argv \in Seq(Args) /\ Len(argv) \in Nat /\ DOMAIN argv = 1..Len(argv) /\ opts \in OptionSet
  BY DEF OptionsInv, TypeOK
<1>2. Reflects(argv, opts, Len(argv)) /\ OptionsRet(opts) = 0
  <2>1. optind = Len(argv) + 1 /\ Reflects(argv, opts, optind - 1)
    BY DEF OptionsInv, Parsed
  <2>2. optind - 1 = Len(argv)
    BY <1>1, <2>1
  <2> QED
    BY <2>1, <2>2 DEF OptionsInv, Parsed
<1>3. \A c : IsGiven(c) <=> \E k \in 1..Len(argv) : argv[k].c = c
  BY <1>1 DEF IsGiven
<1>4. \A c : IsGiven(c) => \E k \in 1..Len(argv) : IsLast(argv, c, k, Len(argv))
  BY <1>2, <1>3 DEF Reflects
<1>5. \A c, k : IsLast(argv, c, k, Len(argv)) => LastArg(c) = argv[k] /\ IsGiven(c)
  BY LastGiven
<1>6. \A c : (\E k \in 1..Len(argv) : IsLast(argv, c, k, Len(argv)) /\ argv[k].num # 0)
              <=> (IsGiven(c) /\ LastArg(c).num # 0)
  BY <1>4, <1>5
<1>7. opts.fmt_in # "missing" /\ opts.fmt_out # "missing"
  BY <1>2 DEF OptionsRet, EINVAL
<1>8. opts.fmt_in = LastArg("f").name /\ opts.fmt_out = LastArg("g").name
  <2>1. PICK k \in 1..Len(argv) : IsLast(argv, "f", k, Len(argv)) /\ opts.fmt_in = argv[k].name
    BY <1>2, <1>7 DEF Reflects, Names
  <2>2. PICK j \in 1..Len(argv) : IsLast(argv, "g", j, Len(argv)) /\ opts.fmt_out = argv[j].name
    BY <1>2, <1>7 DEF Reflects, Names
  <2> QED
    BY <1>5, <2>1, <2>2
<1> QED
  BY <1>2, <1>3, <1>6, <1>8 DEF Reflects

\* Whether the command line asks for the option and item p.
IsAsked(p) == IsGiven(p[1]) /\ (p[1] \in {"I", "O"} => LastArg(p[1]).num # 0)

\* It asks for the item of the only option given, or else for the standard one.
LEMMA AskedOne ==
  ASSUME NEW ops, NEW standard
  PROVE  /\ (\A p \in ops : ~IsAsked(p)) => Asked(ops, standard) = {standard}
         /\ \A p \in ops : {q \in ops : IsAsked(q)} = {p} => Asked(ops, standard) = {p[2]}
<1> DEFINE given == {p \in ops : IsAsked(p)}
<1>1. Asked(ops, standard) = IF given = {} THEN {standard} ELSE {p[2] : p \in given}
  BY DEF Asked, IsAsked
<1> QED
  BY <1>1

\* A chain begins with the one input and ends with the one output the command line asks
\* for, in the formats it names last, however the constructors fail (parse_options,
\* check_options, make_processing_chain, osmo_gapk_pq_check).
THEOREM ChainIsAsAsked == Spec => []ChainAsAsked
<1>1. OptionsInv /\ StagesInv /\ EndsInv => ChainAsAsked
  <2> SUFFICES ASSUME OptionsInv, StagesInv, EndsInv, pc = "prepare", items[1].proc # NULL
               PROVE  LET first == items[1].proc
                          last  == items[Len(items)].proc
                      IN  /\ {first.op} = Asked({<<"i", "file_in">>, <<"I", "rtp_in">>, <<"a", "alsa_in">>}, "file_in")
                          /\ {last.op} = Asked({<<"o", "file_out">>, <<"O", "rtp_out">>, <<"A", "alsa_out">>}, "file_out")
                          /\ first.what = LastArg("f").name /\ last.what = LastArg("g").name
    BY DEF ChainAsAsked
  <2>1. Checked /\ OptionsRet(opts) = 0 /\ opts \in OptionSet
    BY DEF StagesInv, ChainStages, AfterChain, OptionsInv, TypeOK, Parsed
  <2>2. /\ items \in Seq(ItemSet) /\ Len(items) \in Nat /\ Len(items) >= 2
        /\ items[1].proc.op \in SourceOps \cup {"NULL"}
        /\ items[Len(items)].proc.op \in SinkOps
    BY <2>1, Places
  <2>3. 1 \in DOMAIN items /\ Len(items) \in DOMAIN items
    BY <2>2
  <2>4. items[1].proc.op \in SourceOps
    BY <2>2, <2>3 DEF OptionsInv, AllWellMade, WellMade, SourceOps, SinkOps, ProcOps
  <2>5. /\ items[1].proc.op = ReadOp(opts) /\ items[1].proc.what = opts.fmt_in
        /\ items[Len(items)].proc.op = WriteOp(opts) /\ items[Len(items)].proc.what = opts.fmt_out
    BY <2>2, <2>3, <2>4 DEF EndsInv
  <2>6. /\ opts.in \in SUBSET Sources /\ opts.out \in SUBSET Sources
        /\ \A x, y \in opts.in : x = y
        /\ \A x, y \in opts.out : x = y
    BY <2>1, AcceptedOptions DEF OptionSet
  <2>8. /\ ReadOp(opts) = IF opts.in = {} \/ opts.in = {"file"} THEN "file_in"
                          ELSE IF opts.in = {"rtp"} THEN "rtp_in" ELSE "alsa_in"
        /\ WriteOp(opts) = IF opts.out = {} \/ opts.out = {"file"} THEN "file_out"
                           ELSE IF opts.out = {"rtp"} THEN "rtp_out" ELSE "alsa_out"
    BY DEF ReadOp, WriteOp, Handle, IsFile
  <2>7. /\ "file" \in opts.in <=> IsGiven("i")
        /\ "alsa" \in opts.in <=> IsGiven("a")
        /\ "rtp" \in opts.in <=> IsGiven("I") /\ LastArg("I").num # 0
        /\ "file" \in opts.out <=> IsGiven("o")
        /\ "alsa" \in opts.out <=> IsGiven("A")
        /\ "rtp" \in opts.out <=> IsGiven("O") /\ LastArg("O").num # 0
        /\ opts.fmt_in = LastArg("f").name /\ opts.fmt_out = LastArg("g").name
    BY GivenOptions
  <2>9. {ReadOp(opts)} = Asked({<<"i", "file_in">>, <<"I", "rtp_in">>, <<"a", "alsa_in">>}, "file_in")
    <3> DEFINE ops == {<<"i", "file_in">>, <<"I", "rtp_in">>, <<"a", "alsa_in">>}
    <3>1. opts.in \in {{}, {"file"}, {"rtp"}, {"alsa"}}
      BY <2>6 DEF Sources
    <3>2. /\ IsAsked(<<"i", "file_in">>) <=> "file" \in opts.in
          /\ IsAsked(<<"I", "rtp_in">>) <=> "rtp" \in opts.in
          /\ IsAsked(<<"a", "alsa_in">>) <=> "alsa" \in opts.in
      BY <2>7 DEF IsAsked
    <3>3. /\ opts.in = {} => \A p \in ops : ~IsAsked(p)
          /\ opts.in = {"file"} => {p \in ops : IsAsked(p)} = {<<"i", "file_in">>}
          /\ opts.in = {"rtp"} => {p \in ops : IsAsked(p)} = {<<"I", "rtp_in">>}
          /\ opts.in = {"alsa"} => {p \in ops : IsAsked(p)} = {<<"a", "alsa_in">>}
      BY <3>2
    <3>4. /\ opts.in = {} => Asked(ops, "file_in") = {"file_in"}
          /\ opts.in = {"file"} => Asked(ops, "file_in") = {"file_in"}
          /\ opts.in = {"rtp"} => Asked(ops, "file_in") = {"rtp_in"}
          /\ opts.in = {"alsa"} => Asked(ops, "file_in") = {"alsa_in"}
      BY <3>3, AskedOne
    <3> HIDE DEF ops
    <3>5. /\ opts.in = {} => ReadOp(opts) = "file_in"
          /\ opts.in = {"file"} => ReadOp(opts) = "file_in"
          /\ opts.in = {"rtp"} => ReadOp(opts) = "rtp_in"
          /\ opts.in = {"alsa"} => ReadOp(opts) = "alsa_in"
      BY <2>8
    <3> QED
      BY <3>1, <3>4, <3>5 DEF ops
  <2>10. {WriteOp(opts)} = Asked({<<"o", "file_out">>, <<"O", "rtp_out">>, <<"A", "alsa_out">>}, "file_out")
    <3> DEFINE ops == {<<"o", "file_out">>, <<"O", "rtp_out">>, <<"A", "alsa_out">>}
    <3>1. opts.out \in {{}, {"file"}, {"rtp"}, {"alsa"}}
      BY <2>6 DEF Sources
    <3>2. /\ IsAsked(<<"o", "file_out">>) <=> "file" \in opts.out
          /\ IsAsked(<<"O", "rtp_out">>) <=> "rtp" \in opts.out
          /\ IsAsked(<<"A", "alsa_out">>) <=> "alsa" \in opts.out
      BY <2>7 DEF IsAsked
    <3>3. /\ opts.out = {} => \A p \in ops : ~IsAsked(p)
          /\ opts.out = {"file"} => {p \in ops : IsAsked(p)} = {<<"o", "file_out">>}
          /\ opts.out = {"rtp"} => {p \in ops : IsAsked(p)} = {<<"O", "rtp_out">>}
          /\ opts.out = {"alsa"} => {p \in ops : IsAsked(p)} = {<<"A", "alsa_out">>}
      BY <3>2
    <3>4. /\ opts.out = {} => Asked(ops, "file_out") = {"file_out"}
          /\ opts.out = {"file"} => Asked(ops, "file_out") = {"file_out"}
          /\ opts.out = {"rtp"} => Asked(ops, "file_out") = {"rtp_out"}
          /\ opts.out = {"alsa"} => Asked(ops, "file_out") = {"alsa_out"}
      BY <3>3, AskedOne
    <3> HIDE DEF ops
    <3>5. /\ opts.out = {} => WriteOp(opts) = "file_out"
          /\ opts.out = {"file"} => WriteOp(opts) = "file_out"
          /\ opts.out = {"rtp"} => WriteOp(opts) = "rtp_out"
          /\ opts.out = {"alsa"} => WriteOp(opts) = "alsa_out"
      BY <2>8
    <3> QED
      BY <3>1, <3>4, <3>5 DEF ops
  <2> QED
    BY <2>5, <2>7, <2>9, <2>10
<1> QED
  BY <1>1, OptionsAlways, StagesAlways, EndsAlways, PTL

----------------------------------------------------------------------------
(* What is released: ReleaseInv                                              *)

\* Which steps change what pq_destroy works on.
LEMMA ItemsSettled ==
  ASSUME OptionsInv, Next,
         ~ChainItem, ~PrepareQueue, ~CloseOut, ~DestroyItems, ~NextSigint
  PROVE  UNCHANGED <<items, head, dpc>>
<1> USE DEF pqVars, listVars
<1>1. ASSUME \/ ParseArg \/ ParseEnds \/ CheckOptions \/ OpenFiles \/ HandleHeaders \/ CheckQueue
             \/ PassEnds \/ TimerReadable \/ BurstPassEnds \/ BurstEnds \/ WaitForSink
             \/ DrainSpins \/ DrainEnds \/ CloseIn \/ BenchFree \/ Tick \/ FirstSigint \/ Terminated
      PROVE  UNCHANGED <<items, head, dpc>>
  BY <1>1 DEF ParseArg, ParseEnds, CheckOptions, OpenFiles, HandleHeaders, CheckQueue,
       PassEnds, TimerReadable, BurstPassEnds, BurstEnds, WaitForSink, DrainSpins, DrainEnds,
       CloseIn, BenchFree, Tick, FirstSigint, Terminated, vars
<1>2. CASE CreateQueue \/ LoopHead \/ BurstPass \/ Play
  BY <1>2 DEF CreateQueue, Create, LoopHead, BurstPass, ExecBegin, Play, DevPlay
<1>3. CASE Pass
  BY <1>3, ExecOutcome DEF Pass, At, OptionsInv, TypeOK
<1> QED
  BY <1>1, <1>2, <1>3 DEF Next, Main

LEMMA ReleasedNext ==
  ASSUME OptionsInv, StagesInv, EndsInv, ItemsReleased, [Next]_vars
  PROVE  ItemsReleased'
<1>1. /\ PqTypeOK /\ AllWellMade /\ todo \in Seq(Calls)
      /\ items \in Seq(ItemSet) /\ head \in 1..(Len(items) + 1) /\ Len(items) \in Nat
  BY DEF OptionsInv, TypeOK, PqTypeOK
<1>2. CASE UNCHANGED <<items, head, dpc>>
  BY <1>2 DEF ItemsReleased
<1>3. CASE ChainItem
  <2>1. /\ todo # <<>> /\ Head(todo) \in Calls /\ Head(todo).fn # "ecu"
    BY <1>1, <1>3 DEF ChainItem, EndsInv
  <2>2. PICK r \in Results(Head(todo)) : Construct(r)
    BY <1>3 DEF ChainItem
  <2>3. head = 1 /\ dpc = "idle"
    BY <1>1, <1>3 DEF ChainItem, At, StagesInv, CallStages, AfterDestroy
  <2>4. CASE UNCHANGED pqVars
    BY <1>2, <2>4 DEF pqVars, listVars
  <2>5. CASE ~UNCHANGED pqVars
    <3>1. /\ r.add # <<>>
          /\ Len(items') = Len(items) + 1 /\ DOMAIN items' = 1..(Len(items) + 1)
          /\ DOMAIN items = 1..Len(items) /\ \A i \in DOMAIN items : items'[i] = items[i]
          /\ items'[Len(items) + 1] = r.add[1] /\ UNCHANGED <<head, dpc>>
      BY <1>1, <2>1, <2>2, <2>5, ConstructOutcome
    <3>2. r.add[1].mem = "live"
      BY <2>1, <2>2, <3>1, ResultsOf
    <3> QED
      BY <1>1, <2>3, <3>1, <3>2 DEF ItemsReleased
  <2> QED
    BY <2>4, <2>5
<1>4. CASE PrepareQueue
  BY <1>1, <1>4, PrepareOutcome DEF PrepareQueue, KeepsItems, ItemsReleased
<1>5. CASE CloseOut
  BY <1>5 DEF CloseOut, At, DestroyBegin, listVars, ItemsReleased
<1>6. CASE DestroyItems
  <2>1. CASE UNCHANGED pqVars
    BY <1>2, <2>1 DEF pqVars, listVars
  <2>2. CASE DestroyBuf \/ DestroyExit \/ DestroyUnlink
    <3>1. /\ DOMAIN items' = DOMAIN items /\ head \in DOMAIN items
          /\ \A i \in DOMAIN items : i # head => items'[i] = items[i]
          /\ dpc' = "unlink" => dpc = "exit"
          /\ IF dpc = "unlink"
             THEN /\ items'[head].mem = "freed" /\ items'[head].state = items[head].state
                  /\ head' = head + 1
             ELSE items'[head].mem = items[head].mem /\ head' = head
          /\ dpc = "exit" => items'[head].state # "held"
      BY <1>1, <2>2, DestroyEntry DEF KeepsItems
    <3>2. DOMAIN items \subseteq Nat
      BY <1>1
    <3>3. CASE dpc = "unlink"
      <4>1. dpc' # "unlink" /\ head' = head + 1 /\ items[head].state # "held"
        BY <3>1, <3>3 DEF ItemsReleased
      <4> QED
        BY <1>1, <3>1, <3>2, <3>3, <4>1 DEF ItemsReleased
    <3>4. CASE dpc # "unlink"
      BY <1>1, <3>1, <3>2, <3>4 DEF ItemsReleased
    <3> QED
      BY <3>3, <3>4
  <2>3. CASE DestroyStale \/ DestroyQueue
    <3>1. UNCHANGED <<items, head>> /\ dpc' # "unlink"
      BY <2>3 DEF DestroyStale, DestroyQueue, Crash, listVars
    <3> QED
      BY <3>1 DEF ItemsReleased
  <2> QED
    BY <1>6, <2>1, <2>2, <2>3 DEF DestroyItems, DestroyStep
<1>7. CASE NextSigint
  <2> DEFINE f == IF "closed" \in {in, out} THEN "use_after_free" ELSE "none"
  <2>1. f \in Faults /\ DestroyWhole(f)
    BY <1>7 DEF NextSigint, Faults
  <2>2. /\ head' = Len(items) + 1 /\ dpc' = "idle" /\ DOMAIN items' = DOMAIN items
        /\ \A i \in DOMAIN items :
             IF i < head THEN items'[i] = items[i]
             ELSE items'[i].mem = "freed" /\ items'[i].state # "held"
    BY <1>1, <2>1, DestroyWholeOutcome DEF KeepsItems
  <2>3. \A i \in DOMAIN items : i \in Nat /\ i < Len(items) + 1
    BY <1>1
  <2> QED
    BY <1>1, <2>2, <2>3 DEF ItemsReleased
<1>8. CASE UNCHANGED vars
  BY <1>2, <1>8 DEF vars, pqVars, listVars
<1> QED
  BY <1>2, <1>3, <1>4, <1>5, <1>6, <1>7, <1>8, ItemsSettled

LEMMA UntouchedNext ==
  ASSUME OptionsInv, StagesInv, Untouched, [Next]_vars
  PROVE  Untouched'
<1>1. /\ PqTypeOK /\ AllWellMade /\ todo \in Seq(Calls)
      /\ items \in Seq(ItemSet) /\ head \in 1..(Len(items) + 1) /\ Len(items) \in Nat
  BY DEF OptionsInv, TypeOK, PqTypeOK
<1>2. CASE UNCHANGED <<items, head, dpc>>
  BY <1>2 DEF Untouched
<1>3. CASE ChainItem
  <2>1. todo # <<>> /\ Head(todo) \in Calls
    BY <1>1, <1>3 DEF ChainItem
  <2>2. PICK r \in Results(Head(todo)) : Construct(r)
    BY <1>3 DEF ChainItem
  <2>3. CASE UNCHANGED pqVars
    BY <1>2, <2>3 DEF pqVars, listVars
  <2>4. CASE ~UNCHANGED pqVars
    <3>1. /\ Fresh(r.add[1]) /\ DOMAIN items' = 1..(Len(items) + 1)
          /\ DOMAIN items = 1..Len(items) /\ \A i \in DOMAIN items : items'[i] = items[i]
          /\ items'[Len(items) + 1] = r.add[1] /\ UNCHANGED <<head, dpc>>
      BY <1>1, <2>1, <2>2, <2>4, ConstructOutcome
    <3>2. r.add[1].buf # -1 /\ r.add[1].state # "released"
      BY <3>1 DEF Fresh
    <3> QED
      BY <1>1, <3>1, <3>2 DEF Untouched
  <2> QED
    BY <2>3, <2>4
<1>4. CASE PrepareQueue
  BY <1>1, <1>4, PrepareOutcome DEF PrepareQueue, KeepsItems, Untouched
<1>5. CASE CloseOut
  BY <1>5 DEF CloseOut, DestroyBegin, listVars, Untouched
<1>6. CASE DestroyItems
  <2>1. CASE UNCHANGED pqVars
    BY <1>2, <2>1 DEF pqVars, listVars
  <2>2. CASE DestroyBuf \/ DestroyExit \/ DestroyUnlink
    BY <1>1, <2>2, DestroyEntry DEF Untouched
  <2>3. CASE DestroyStale \/ DestroyQueue
    <3>1. UNCHANGED <<items, head>> /\ (dpc' = dpc \/ head = Len(items) + 1) /\ dpc # "idle"
      BY <1>1, <2>3, DestroyEnd
    <3>2. CASE head = 1 /\ head = Len(items) + 1
      <4>1. DOMAIN items' = {}
        BY <1>1, <3>1, <3>2
      <4> QED
        BY <4>1 DEF Untouched
    <3> QED
      BY <3>1, <3>2 DEF Untouched
  <2> QED
    BY <1>6, <2>1, <2>2, <2>3 DEF DestroyItems, DestroyStep
<1>7. CASE NextSigint
  <2> DEFINE f == IF "closed" \in {in, out} THEN "use_after_free" ELSE "none"
  <2>1. f \in Faults /\ DestroyWhole(f)
    BY <1>7 DEF NextSigint, Faults
  <2>2. head' = Len(items) + 1 /\ DOMAIN items' = DOMAIN items
    BY <1>1, <2>1, DestroyWholeOutcome DEF KeepsItems
  <2>3. CASE head' = 1
    <3>1. DOMAIN items' = {}
      BY <1>1, <2>2, <2>3
    <3> QED
      BY <3>1 DEF Untouched
  <2> QED
    BY <2>3 DEF Untouched
<1>8. CASE UNCHANGED vars
  BY <1>2, <1>8 DEF vars, pqVars, listVars
<1> QED
  BY <1>2, <1>3, <1>4, <1>5, <1>6, <1>7, <1>8, ItemsSettled

LEMMA HandlesNext ==
  ASSUME OptionsInv, HandlesClosed, [Next]_vars PROVE HandlesClosed'
<1> USE DEF HandlesClosed, At, Goto, Bail, Setup, Looping, Closing, AfterChain, AfterDestroy,
            vars, appVars, cmdVars
<1>1. CASE ParseArg \/ ParseEnds \/ CheckOptions \/ CreateQueue
  BY <1>1 DEF ParseArg, ParseEnds, CheckOptions, CreateQueue
<1>2. CASE OpenFiles
  BY <1>2 DEF OpenFiles, Handle
<1>3. CASE HandleHeaders \/ ChainItem
  BY <1>3 DEF HandleHeaders, ChainItem, BenchEnable
<1>4. CASE CheckQueue
  BY <1>4 DEF CheckQueue, CheckRet
<1>5. CASE PrepareQueue \/ LoopHead \/ Pass \/ PassEnds
  BY <1>5 DEF PrepareQueue, LoopHead, Pass, PassEnds
<1>6. CASE TimerReadable \/ BurstPass \/ BurstPassEnds \/ BurstEnds
  BY <1>6 DEF TimerReadable, BurstPass, BurstPassEnds, BurstEnds
<1>7. CASE WaitForSink \/ DrainSpins \/ DrainEnds
  BY <1>7 DEF WaitForSink, DrainSpins, DrainEnds
<1>8. CASE CloseIn \/ CloseOut \/ DestroyItems \/ BenchFree
  BY <1>8 DEF CloseIn, CloseOut, DestroyItems, BenchFree, Closed, Freed
<1>9. CASE Tick \/ Play \/ FirstSigint \/ Terminated
  BY <1>9 DEF Tick, Play, FirstSigint, Terminated
<1>10. CASE NextSigint
  BY <1>10 DEF NextSigint, Closed, Freed
<1>11. CASE UNCHANGED vars
  BY <1>11
<1> QED
  BY <1>1, <1>2, <1>3, <1>4, <1>5, <1>6, <1>7, <1>8, <1>9, <1>10, <1>11 DEF Next, Main

\* Which steps may crash.
LEMMA FaultSettled ==
  ASSUME OptionsInv, Next, ~Pass, ~CloseOut, ~DestroyItems, ~NextSigint
  PROVE  UNCHANGED fault
<1> USE DEF pqVars
<1>1. CASE ParseArg \/ ParseEnds \/ CheckOptions \/ OpenFiles \/ HandleHeaders \/ CheckQueue
           \/ PassEnds \/ TimerReadable \/ BurstPassEnds \/ BurstEnds \/ WaitForSink
           \/ DrainSpins \/ DrainEnds \/ CloseIn \/ BenchFree \/ Tick \/ FirstSigint \/ Terminated
  BY <1>1 DEF ParseArg, ParseEnds, CheckOptions, OpenFiles, HandleHeaders, CheckQueue,
       PassEnds, TimerReadable, BurstPassEnds, BurstEnds, WaitForSink, DrainSpins, DrainEnds,
       CloseIn, BenchFree, Tick, FirstSigint, Terminated, vars
<1>2. CASE CreateQueue \/ LoopHead \/ BurstPass \/ Play
  BY <1>2 DEF CreateQueue, Create, LoopHead, BurstPass, ExecBegin, Play, DevPlay
<1>3. CASE ChainItem
  BY <1>3 DEF ChainItem, Construct, AddItem
<1>4. CASE PrepareQueue
  BY <1>4 DEF PrepareQueue, Prepare, PrepareFails
<1> QED
  BY <1>1, <1>2, <1>3, <1>4 DEF Next, Main

\* Which steps change the options, gs->exit and the signals counted.
LEMMA SignalsSettled ==
  ASSUME OptionsInv, Next, ~FirstSigint, ~NextSigint
  PROVE  /\ sigints' = sigints
         /\ exit' = exit \/ opts.throttle
         /\ opts'.throttle = opts.throttle \/ opts'.throttle
<1> USE DEF appVars, cmdVars
<1>1. CASE ParseArg
  BY <1>1 DEF ParseArg, WithArg, OptionsInv, TypeOK, OptionSet
<1>2. CASE ParseEnds \/ CheckOptions \/ CreateQueue \/ OpenFiles \/ HandleHeaders \/ ChainItem
           \/ CheckQueue \/ PrepareQueue
  BY <1>2 DEF ParseEnds, CheckOptions, CreateQueue, OpenFiles, HandleHeaders, ChainItem,
       CheckQueue, PrepareQueue
<1>3. CASE LoopHead \/ Pass \/ PassEnds \/ TimerReadable \/ BurstPass \/ BurstPassEnds \/ BurstEnds
           \/ WaitForSink \/ DrainSpins \/ DrainEnds
  BY <1>3 DEF LoopHead, Pass, PassEnds, TimerReadable, BurstPass, BurstPassEnds, BurstEnds,
       WaitForSink, DrainSpins, DrainEnds, vars
<1>4. CASE CloseIn \/ CloseOut \/ DestroyItems \/ BenchFree
  BY <1>4 DEF CloseIn, CloseOut, DestroyItems, BenchFree
<1>5. CASE Tick \/ Play \/ Terminated
  BY <1>5 DEF Tick, Play, Terminated, vars
<1> QED
  BY <1>1, <1>2, <1>3, <1>4, <1>5 DEF Next, Main

\* Main itself releases nothing twice.
LEMMA MainReleasesOnce ==
  ASSUME OptionsInv, StagesInv, ItemsReleased, ReleasedOnce, Next, ~NextSigint
  PROVE  ReleasedOnce'
<1>0. PqTypeOK /\ AllWellMade
  BY DEF OptionsInv, TypeOK
<1>1. CASE Pass
  <2>1. fault = "none" /\ (ErrorStep \/ CrashStep \/ \E n \in Nat : ReturnStep(n))
    BY <1>0, <1>1, ExecOutcome DEF Pass, At
  <2>2. fault' \in {"none", "null_proc", "assert", "overrun"}
    BY <2>1 DEF ErrorStep, CrashStep, ReturnStep
  <2> QED
    BY <2>2 DEF ReleasedOnce
<1>2. CASE CloseOut
  BY <1>2 DEF CloseOut, At, DestroyBegin, ReleasedOnce, StagesInv, QueueStages, AfterDestroy
<1>3. CASE DestroyItems
  <2>1. CASE UNCHANGED fault
    BY <2>1 DEF ReleasedOnce
  <2>2. CASE DestroyStale
    BY <1>0, <2>2 DEF DestroyStale, Released, ItemsReleased, PqTypeOK
  <2> QED
    BY <1>3, <2>1, <2>2 DEF DestroyItems, DestroyStep, DestroyBuf, DestroyExit, DestroyUnlink,
       DestroyQueue, pqVars
<1>4. CASE UNCHANGED fault
  BY <1>4 DEF ReleasedOnce
<1> QED
  BY <1>1, <1>2, <1>3, <1>4, FaultSettled

\* Nor does the handler, unless it interrupts app_shutdown.
LEMMA HandlerReleasesOnce ==
  ASSUME OptionsInv, StagesInv, ReleaseInv, NextSigint, pc \notin Closing \ {"close_in"}
  PROVE  ReleasedOnce'
<1>1. /\ items \in Seq(ItemSet) /\ Len(items) \in Nat /\ pc \in PcSet
      /\ head \in 1..(Len(items) + 1)
  BY DEF OptionsInv, TypeOK, PqTypeOK
<1>2. pc \in AfterChain \cup {"close_in"} /\ Checked
  BY <1>1 DEF NextSigint, CanInterrupt, HandlerInstalled, Checked, PcSet, AfterChain, Closing
<1>3. pc \notin {"close_out", "destroy"} \cup AfterDestroy
  BY <1>2 DEF AfterChain, Looping, AfterDestroy
<1>4. "closed" \notin {in, out}
  BY <1>3 DEF ReleaseInv, HandlesClosed
<1>5. head = 1 /\ dpc = "idle"
  BY <1>1, <1>3 DEF StagesInv, CallStages
<1>6. items # <<>> /\ queue # "freed"
  BY <1>1, <1>2, <1>3, <1>5, CheckedQueue DEF StagesInv, QueueStages
<1>7. \A i \in head..Len(items) :
        /\ i \in DOMAIN items /\ items[i].mem = "live"
        /\ items[i].buf # -1 /\ items[i].state # "released"
  BY <1>1, <1>5 DEF ReleaseInv, ItemsReleased, Untouched
<1>8. DestroyFault = "none"
  BY <1>6, <1>7 DEF DestroyFault, Released
<1> QED
  BY <1>4, <1>8 DEF NextSigint, DestroyWhole, ReleasedOnce

LEMMA SignalsNext ==
  ASSUME OptionsInv, StagesInv, ItemsReleased, SignalsCounted, [Next]_vars
  PROVE  SignalsCounted'
<1>1. /\ exit \in Nat /\ sigints \in Nat /\ fault \in Faults /\ PqTypeOK /\ AllWellMade
      /\ exit \in Int /\ sigints \in Int /\ head \in 1..(Len(items) + 1) /\ opts.throttle \in BOOLEAN
  BY DEF OptionsInv, TypeOK, PqTypeOK, OptionSet
<1>2. CASE FirstSigint
  BY <1>1, <1>2 DEF FirstSigint, SignalsCounted, ReleasedOnce, pqVars
<1>3. CASE NextSigint
  <2>1. exit > 0 /\ exit' = exit + 1 /\ sigints' = sigints + 1 /\ opts' = opts
    BY <1>3 DEF NextSigint
  <2> QED
    BY <1>1, <2>1 DEF SignalsCounted
<1>4. CASE Next /\ ~FirstSigint /\ ~NextSigint
  <2>1. /\ sigints' = sigints /\ (exit' = exit \/ opts.throttle)
        /\ opts'.throttle = opts.throttle \/ opts'.throttle
    BY <1>4, SignalsSettled
  <2>2. ReleasedOnce => ReleasedOnce'
    BY <1>4, MainReleasesOnce
  <2> QED
    BY <1>1, <2>1, <2>2 DEF SignalsCounted
<1>5. CASE UNCHANGED vars
  BY <1>5 DEF vars, pqVars, appVars, SignalsCounted, ReleasedOnce
<1> QED
  BY <1>2, <1>3, <1>4, <1>5

\* What has been released and closed follows the program counters of app_shutdown and
\* pq_destroy, and without -t gs->exit counts the signals.
THEOREM ReleaseAlways == Spec => []ReleaseInv
<1>1. Init => ReleaseInv
  BY DEF Init, PqInit, NoOptions, ReleaseInv, ItemsReleased, Untouched, HandlesClosed, SignalsCounted,
         ReleasedOnce
<1>2. OptionsInv /\ StagesInv /\ EndsInv /\ ReleaseInv /\ [Next]_vars => ReleaseInv'
  BY ReleasedNext, UntouchedNext, HandlesNext, SignalsNext DEF ReleaseInv
<1> QED
  BY <1>1, <1>2, OptionsAlways, StagesAlways, EndsAlways, PTL DEF Spec

\* When the program ends, whatever failed before and whichever signals came, every file
\* and socket it opened is closed, every item of the queue and its state are released, the queue
\* and the benchmark memory are freed (app_shutdown, osmo_gapk_pq_destroy).
THEOREM NothingIsLeft == Spec => []NothingLeft
<1>1. OptionsInv /\ StagesInv /\ ReleaseInv => NothingLeft
  <2> SUFFICES ASSUME OptionsInv, StagesInv, ReleaseInv, pc = "done"
               PROVE  /\ {in, out} \cap {"file", "sock"} = {} /\ bench # "live" /\ queue # "live"
                      /\ \A i \in DOMAIN items : items[i].mem = "freed" /\ items[i].state # "held"
    BY DEF NothingLeft
  <2>1. {in, out} \cap {"file", "sock"} = {} /\ bench # "live"
    BY DEF ReleaseInv, HandlesClosed, AfterChain, Looping, Closing
  <2>2. queue \in {"none", "freed"} /\ items \in Seq(ItemSet)
    BY DEF OptionsInv, TypeOK, PqTypeOK, StagesInv, QueueStages, AfterDestroy
  <2>3. \A i \in DOMAIN items : i < head
    BY <2>2 DEF StagesInv, QueueStages
  <2> QED
    BY <2>1, <2>2, <2>3 DEF ReleaseInv, ItemsReleased
<1> QED
  BY <1>1, OptionsAlways, StagesAlways, ReleaseAlways, PTL

\* Whatever the environment and whenever it comes, one SIGINT makes the unthrottled
\* program release nothing twice and use nothing it has released (signal_handler,
\* app_shutdown, osmo_gapk_pq_destroy).
THEOREM OneSigintDoesNoHarm == Spec => []OneSigintIsSafe
<1>1. ReleaseInv => OneSigintIsSafe
  BY DEF ReleaseInv, SignalsCounted, OneSigintIsSafe
<1> QED
  BY <1>1, ReleaseAlways, PTL

\* Whatever the environment, with -t or without and however many signals come: nothing is
\* closed or released twice but by a signal that interrupts app_shutdown when gs->exit
\* was set before it (signal_handler, app_shutdown, osmo_gapk_pq_destroy).
THEOREM OnlyShutdownIsHarmed == Spec => HarmOnlyInShutdown
<1> DEFINE Harm == ReleasedOnce /\ ~ReleasedOnce' =>
                     pc \in Closing \ {"close_in"} /\ exit > 0 /\ sigints' = sigints + 1
<1>1. OptionsInv /\ StagesInv /\ ReleaseInv /\ [Next]_vars => [Harm]_vars
  <2> SUFFICES ASSUME OptionsInv, StagesInv, ReleaseInv, Next, ReleasedOnce, ~ReleasedOnce'
               PROVE  pc \in Closing \ {"close_in"} /\ exit > 0 /\ sigints' = sigints + 1
    OBVIOUS
  <2>1. NextSigint
    BY MainReleasesOnce DEF ReleaseInv
  <2>2. pc \in Closing \ {"close_in"}
    BY <2>1, HandlerReleasesOnce
  <2> QED
    BY <2>1, <2>2 DEF NextSigint
<1> QED
  BY <1>1, OptionsAlways, StagesAlways, ReleaseAlways, PTL DEF Spec, HarmOnlyInShutdown
=============================================================================
