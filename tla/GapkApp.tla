------------------------------ MODULE GapkApp ------------------------------
(* The osmo-gapk program (app_osmo_gapk.c) on top of the processing queue:   *)
(* options, files, headers, the processing chain, the unthrottled loop and   *)
(* the 20 ms timer loop, the wait for the sink, the shutdown, and the SIGINT *)
(* handler that may run between any two steps once it is installed.          *)
EXTENDS PqItems, FiniteSets

CONSTANTS
  CommandLines,  \* the command lines to consider: sequences of Args
  MaxFrames,   \* bound: frames the input holds
  MaxSigint,   \* bound: SIGINT signals sent
  MaxBurst     \* bound: timer expirations that accumulate before they are read

\* An option as getopt_long returns it: its letter, "?" for one it does not know, with
\* the name or the number its argument gives: a format, a port, a payload type.
Letters == {"i", "I", "a", "o", "O", "A", "f", "g", "p", "P", "b", "t", "v", "h", "?"}
Arg(c, name, num) == [c |-> c, name |-> name, num |-> num]
Args == [c : Letters, name : Formats \cup {"missing"}, num : Int]

ASSUME AppAssumption ==
  /\ CommandLines \subseteq Seq(Args)
  /\ MaxFrames \in Nat /\ MaxSigint \in Nat /\ MaxBurst \in Nat \ {0}

Sources == {"file", "rtp", "alsa"}

\* What is read of struct gapk_options.  A format that was not given is missing, and
\* in and out are the inputs and outputs given; of RTP that is a port other than 0.
OptionSet ==
  [fmt_in : Formats \cup {"missing"}, fmt_out : Formats \cup {"missing"},
   in : SUBSET Sources, out : SUBSET Sources, throttle : BOOLEAN, benchmark : BOOLEAN]
NoOptions ==
  [fmt_in |-> "missing", fmt_out |-> "missing", in |-> {}, out |-> {},
   throttle |-> FALSE, benchmark |-> FALSE]

VARIABLES
  argv,         \* the command line
  optind,       \* the option getopt_long returns next
  opts,         \* gs->opts
  pc,           \* where main is
  todo,         \* calls of make_processing_chain still to be made
  in, out,      \* gs->in and gs->out: the handle of the input and of the output
  exit,         \* gs->exit
  num_frames,   \* gs->num_frames
  ticks,        \* expirations of the timer not yet read
  burst,        \* timerfd_cb: what is left of expire_count
  bench,        \* osmo_gapk_bench_codec[]
  sigints,      \* SIGINT signals delivered
  status        \* the rv main returns, or the value given to exit()

cmdVars == <<argv, optind>>
appVars == <<cmdVars, opts, todo, in, out, exit, num_frames, ticks, burst, bench, sigints, status>>
vars == <<pqVars, pc, appVars>>

Setup     == {"parse", "check", "create", "open", "headers", "chain"}
Looping   == {"loop", "pass", "select", "burst"}
Closing   == {"close_in", "close_out", "destroy", "bench"}
PcSet == Setup \cup {"prepare"} \cup Looping \cup {"wait", "drain"} \cup Closing \cup {"done"}

Init ==
  /\ PqInit
  /\ avail \in 0..MaxFrames
  /\ argv \in CommandLines /\ optind = 1 /\ opts = NoOptions
  /\ pc = "parse" /\ todo = <<>>
  /\ in = "none" /\ out = "none" /\ bench = "none"
  /\ exit = 0 /\ num_frames = 0 /\ ticks = 0 /\ burst = 0 /\ sigints = 0 /\ status = 0

At(label) == pc = label /\ fault = "none"
Goto(label) == pc' = label
\* goto error with rv
Bail(ret) == Goto("close_in") /\ status' = ret

----------------------------------------------------------------------------
(* parse_options                                                             *)

\* Mutant: a port, once given, stays.
GivenOnce(set, io, num) == IF num = 0 THEN set ELSE set \cup {io}

Given(set, io, num) == IF num = 0 THEN set \ {io} ELSE set \cup {io}

\* what an option adds to those before it
WithArg(o, a) ==
  CASE a.c = "i" -> [o EXCEPT !.in = @ \cup {"file"}]
    [] a.c = "a" -> [o EXCEPT !.in = @ \cup {"alsa"}]
    [] a.c = "I" -> [o EXCEPT !.in = Given(@, "rtp", a.num)]
    [] a.c = "o" -> [o EXCEPT !.out = @ \cup {"file"}]
    [] a.c = "A" -> [o EXCEPT !.out = @ \cup {"alsa"}]
    [] a.c = "O" -> [o EXCEPT !.out = Given(@, "rtp", a.num)]
    [] a.c = "f" -> [o EXCEPT !.fmt_in = a.name]
    [] a.c = "g" -> [o EXCEPT !.fmt_out = a.name]
    [] a.c = "t" -> [o EXCEPT !.throttle = TRUE]
    [] a.c = "b" -> [o EXCEPT !.benchmark = TRUE]
    [] OTHER -> o

\* a port, a payload type, a format or an option that is not one; parse_host_port
\* gives a negative port for an argument without a slash
InvalidArg(a) ==
  \/ a.c \in {"I", "O"} /\ a.num \notin 0..65535
  \/ a.c \in {"p", "P"} /\ a.num \notin 0..255
  \/ a.c \in {"f", "g"} /\ a.name = "missing"
  \/ a.c = "?"

ParseArg ==
  /\ At("parse") /\ optind <= Len(argv)
  /\ IF InvalidArg(argv[optind]) THEN status' = EINVAL /\ Goto("done") /\ UNCHANGED opts
     ELSE IF argv[optind].c = "h" THEN status' = 0 /\ Goto("done") /\ UNCHANGED opts
     ELSE opts' = WithArg(opts, argv[optind]) /\ UNCHANGED <<pc, status>>
  /\ optind' = optind + 1
  /\ UNCHANGED <<pqVars, argv, todo, in, out, exit, num_frames, ticks, burst, bench, sigints>>

ParseEnds ==
  /\ At("parse") /\ optind > Len(argv)
  /\ Goto("check")
  /\ UNCHANGED <<pqVars, appVars>>

----------------------------------------------------------------------------
(* check_options                                                             *)

CodecIn(o) == Format(o.fmt_in).codec
CodecOut(o) == Format(o.fmt_out).codec
Transcodes(o) == CodecIn(o) # CodecOut(o)
NeedDec(o) == CodecIn(o) # "PCM" /\ Transcodes(o)
NeedEnc(o) == CodecOut(o) # "PCM" /\ Transcodes(o)

OptionsRet(o) ==
  IF "missing" \in {o.fmt_in, o.fmt_out} THEN EINVAL
  ELSE IF \/ NeedDec(o) /\ ~HasLib(CodecIn(o))
          \/ NeedEnc(o) /\ ~HasLib(CodecOut(o)) THEN ENOTSUP
  ELSE IF Cardinality(o.in) > 1 \/ Cardinality(o.out) > 1 THEN EINVAL
  ELSE 0

\* a command line that is refused ends main at once
CheckOptions ==
  /\ At("check")
  /\ status' = OptionsRet(opts)
  /\ IF status' = 0 THEN Goto("create") ELSE Goto("done")
  /\ UNCHANGED <<pqVars, cmdVars, opts, todo, in, out, exit, num_frames, ticks, burst, bench, sigints>>

CreateQueue ==
  /\ At("create")
  /\ \/ Create /\ Goto("open") /\ UNCHANGED status
     \/ "alloc" \in Failures /\ Bail(ENOMEM) /\ UNCHANGED pqVars
  /\ UNCHANGED <<cmdVars, opts, todo, in, out, exit, num_frames, ticks, burst, bench, sigints>>

----------------------------------------------------------------------------
(* files_open, handle_headers.  A handle is "none", "std" for stdin and      *)
(* stdout, "file" or "sock" while open, and then "closed" and "shut": to close *)
(* a FILE again uses freed memory, to close a descriptor again does nothing.  *)

Handle(io) == IF io = {} THEN "std" ELSE IF io = {"file"} THEN "file"
              ELSE IF io = {"rtp"} THEN "sock" ELSE "none"

CanFail(io) == "open" \in Failures /\ Handle(io) \in {"file", "sock"}
IsFile(h) == h \in {"std", "file"}

OpenFiles ==
  /\ At("open")
  /\ \/ in' = Handle(opts.in) /\ out' = Handle(opts.out) /\ Goto("headers") /\ UNCHANGED status
     \/ CanFail(opts.in) /\ Bail(-2) /\ UNCHANGED <<in, out>>
     \/ CanFail(opts.out) /\ Bail(-2) /\ in' = Handle(opts.in) /\ UNCHANGED out
  /\ UNCHANGED <<pqVars, cmdVars, opts, todo, exit, num_frames, ticks, burst, bench, sigints>>

----------------------------------------------------------------------------
(* make_processing_chain: the constructor calls it makes, in order           *)

ReadOp(o) == IF IsFile(Handle(o.in)) THEN "file_in"
             ELSE IF Handle(o.in) = "sock" THEN "rtp_in" ELSE "alsa_in"
WriteOp(o) == IF IsFile(Handle(o.out)) THEN "file_out"
              ELSE IF Handle(o.out) = "sock" THEN "rtp_out" ELSE "alsa_out"

\* Mutant: converts to the canonical frame only.
ConvertHalf(f, g) == IF f = g THEN <<>> ELSE <<Call("to_canon", f)>>
\* Mutant: takes formats of one length to be the same.
ConvertIfLengthsDiffer(f, g) ==
  IF Format(f).frame_len = Format(g).frame_len THEN <<>>
  ELSE <<Call("to_canon", f), Call("from_canon", g)>>

Convert(f, g) == IF f = g THEN <<>> ELSE <<Call("to_canon", f), Call("from_canon", g)>>

DecodeCalls(o) ==
  IF NeedDec(o) THEN Convert(o.fmt_in, CodecDesc(CodecIn(o)).dec_fmt) \o <<Call("decode", CodecIn(o))>>
  ELSE IF o.fmt_in # o.fmt_out THEN <<Call("to_canon", o.fmt_in)>>
  ELSE <<>>

EncodeCalls(o) ==
  IF NeedEnc(o) THEN <<Call("encode", CodecOut(o))>> \o Convert(CodecDesc(CodecOut(o)).enc_fmt, o.fmt_out)
  ELSE IF o.fmt_in # o.fmt_out THEN <<Call("from_canon", o.fmt_out)>>
  ELSE <<>>

ChainCalls(o) ==
  <<Call(ReadOp(o), o.fmt_in)>> \o DecodeCalls(o) \o EncodeCalls(o)
  \o <<Call(WriteOp(o), o.fmt_out)>>

\* an input header that is short or another, an output that takes no header
HandleHeaders ==
  /\ At("headers")
  /\ \/ Goto("chain") /\ todo' = ChainCalls(opts) /\ UNCHANGED status
     \/ /\ "header" \in Failures
        /\ \/ HasHeader(opts.fmt_in) /\ IsFile(in) /\ Bail(EINVAL)
           \/ HasHeader(opts.fmt_out) /\ IsFile(out) /\ Bail(-28)
        /\ UNCHANGED todo
  /\ UNCHANGED <<pqVars, cmdVars, opts, in, out, exit, num_frames, ticks, burst, bench, sigints>>

\* osmo_gapk_bench_enable follows each codec
BenchEnable(call) ==
  IF opts.benchmark /\ call.fn \in {"encode", "decode"} THEN bench' = "live" ELSE UNCHANGED bench

\* one constructor call; what it returns is not looked at
ChainItem ==
  /\ At("chain") /\ todo # <<>>
  /\ \E r \in Results(Head(todo)) : Construct(r)
  /\ BenchEnable(Head(todo))
  /\ todo' = Tail(todo)
  /\ UNCHANGED <<pc, cmdVars, opts, in, out, exit, num_frames, ticks, burst, sigints, status>>

\* the strict check that ends make_processing_chain
CheckQueue ==
  /\ At("chain") /\ todo = <<>>
  /\ IF CheckRet(items, TRUE) = 0 THEN Goto("prepare") /\ UNCHANGED status
     ELSE Bail(EINVAL)
  /\ UNCHANGED <<pqVars, cmdVars, opts, todo, in, out, exit, num_frames, ticks, burst, bench, sigints>>

----------------------------------------------------------------------------
(* run                                                                       *)

PrepareQueue ==
  /\ At("prepare")
  /\ \/ Prepare /\ Goto("loop") /\ UNCHANGED status
     \/ (\E k \in DOMAIN items : PrepareFails(k)) /\ Bail(ENOMEM)
  /\ UNCHANGED <<cmdVars, opts, todo, in, out, exit, num_frames, ticks, burst, bench, sigints>>

\* the head of either loop: leave it once gs->exit is set
LoopHead ==
  /\ At("loop")
  /\ IF exit > 0 THEN Goto("wait") /\ UNCHANGED pqVars
     ELSE IF opts.throttle THEN Goto("select") /\ UNCHANGED pqVars
     ELSE Goto("pass") /\ ExecBegin
  /\ UNCHANGED appVars

\* a step of pq_execute, for either loop
Pass ==
  /\ At("pass") /\ Executing
  /\ ExecStep
  /\ UNCHANGED <<pc, appVars>>

\* Mutant: counts a pass that failed.
PassEndsCounted ==
  /\ At("pass") /\ ~Executing /\ ~opts.throttle
  /\ num_frames' = num_frames + 1
  /\ IF rv = 0 THEN Goto("loop") ELSE Goto("wait")
  /\ UNCHANGED <<pqVars, cmdVars, opts, todo, in, out, exit, ticks, burst, bench, sigints, status>>
\* Mutant: goes on after a pass that failed, until the input is exhausted.
PassEndsAnyway ==
  /\ At("pass") /\ ~Executing /\ ~opts.throttle
  /\ IF rv = 0 \/ taken < avail THEN Goto("loop") ELSE Goto("wait")
  /\ num_frames' = IF rv = 0 THEN num_frames + 1 ELSE num_frames
  /\ UNCHANGED <<pqVars, cmdVars, opts, todo, in, out, exit, ticks, burst, bench, sigints, status>>

\* unthrottled: a pass that succeeded is counted, one that failed ends the loop
PassEnds ==
  /\ At("pass") /\ ~Executing /\ ~opts.throttle
  /\ IF rv = 0 THEN num_frames' = num_frames + 1 /\ Goto("loop")
     ELSE UNCHANGED num_frames /\ Goto("wait")
  /\ UNCHANGED <<pqVars, cmdVars, opts, todo, in, out, exit, ticks, burst, bench, sigints, status>>

\* Mutant: a timer scheduled without an interval.
TickOnce ==
  /\ pc \in Looping /\ fault = "none" /\ opts.throttle /\ ticks = 0 /\ num_frames = 0
  /\ ticks' = ticks + 1
  /\ UNCHANGED <<pqVars, pc, cmdVars, opts, todo, in, out, exit, num_frames, burst, bench, sigints, status>>

Tick ==
  /\ pc \in Looping /\ fault = "none" /\ opts.throttle /\ ticks < MaxBurst
  /\ ticks' = ticks + 1
  /\ UNCHANGED <<pqVars, pc, cmdVars, opts, todo, in, out, exit, num_frames, burst, bench, sigints, status>>

\* Mutant: while (--expire_count).
TimerReadableLess ==
  /\ At("select") /\ ticks > 0
  /\ burst' = ticks - 1 /\ ticks' = 0
  /\ Goto("burst")
  /\ UNCHANGED <<pqVars, cmdVars, opts, todo, in, out, exit, num_frames, bench, sigints, status>>

\* osmo_select_main finds the timer readable; timerfd_cb reads expire_count
TimerReadable ==
  /\ At("select") /\ ticks > 0
  /\ burst' = ticks /\ ticks' = 0
  /\ Goto("burst")
  /\ UNCHANGED <<pqVars, cmdVars, opts, todo, in, out, exit, num_frames, bench, sigints, status>>

\* while (expire_count--): the frame is counted before it is processed
BurstPass ==
  /\ At("burst") /\ burst > 0
  /\ burst' = burst - 1
  /\ num_frames' = num_frames + 1
  /\ ExecBegin /\ Goto("pass")
  /\ UNCHANGED <<cmdVars, opts, todo, in, out, exit, ticks, bench, sigints, status>>

BurstPassEnds ==
  /\ At("pass") /\ ~Executing /\ opts.throttle
  /\ exit' = IF rv < 0 THEN 1 ELSE exit
  /\ Goto("burst")
  /\ UNCHANGED <<pqVars, cmdVars, opts, todo, in, out, num_frames, ticks, burst, bench, sigints, status>>

BurstEnds ==
  /\ At("burst") /\ burst = 0
  /\ Goto("loop")
  /\ UNCHANGED <<pqVars, appVars>>

\* whether the last item has a wait callback
SinkWaits == items[Len(items)].proc.op = "alsa_out"

\* Mutant: waits whether or not the user asked to exit.
WaitForSinkAlways ==
  /\ At("wait")
  /\ IF SinkWaits THEN Goto("drain") ELSE Goto("close_in")
  /\ status' = IF num_frames > 0 THEN 0 ELSE rv
  /\ UNCHANGED <<pqVars, cmdVars, opts, todo, in, out, exit, num_frames, ticks, burst, bench, sigints>>

WaitForSink ==
  /\ At("wait")
  /\ IF SinkWaits /\ exit = 0 THEN Goto("drain") ELSE Goto("close_in")
  /\ status' = IF num_frames > 0 THEN 0 ELSE rv
  /\ UNCHANGED <<pqVars, cmdVars, opts, todo, in, out, exit, num_frames, ticks, burst, bench, sigints>>

\* pq_cb_alsa_wait: snd_pcm_avail_update > 0.  It is 0 when the ring buffer is
\* full, an error once a started device has played everything, and the whole
\* buffer on a device that was never given a frame.
StillWaiting == IF dev = 0 THEN sunk = <<>> ELSE dev < DevCap

DrainSpins == At("drain") /\ StillWaiting /\ UNCHANGED vars

DrainEnds ==
  /\ At("drain") /\ ~StillWaiting
  /\ Goto("close_in")
  /\ UNCHANGED <<pqVars, appVars>>

Play ==
  /\ pc \notin Setup \cup {"bench", "done"} /\ fault = "none" /\ queue = "live"
  /\ DevPlay
  /\ UNCHANGED <<pc, appVars>>

----------------------------------------------------------------------------
(* app_shutdown: files_close, pq_destroy, benchmark_dump and bench_free      *)

\* Mutant: closes files only.
ClosedFile(h) == IF h = "file" THEN "closed" ELSE h

Closed(h) ==
  CASE h = "file" -> "closed"
    [] h = "sock" -> "shut"
    [] OTHER -> h

CloseIn ==
  /\ At("close_in")
  /\ in' = Closed(in) /\ Goto("close_out")
  /\ UNCHANGED <<pqVars, cmdVars, opts, todo, out, exit, num_frames, ticks, burst, bench, sigints, status>>

CloseOut ==
  /\ At("close_out")
  /\ out' = Closed(out) /\ Goto("destroy")
  /\ DestroyBegin
  /\ UNCHANGED <<cmdVars, opts, todo, in, exit, num_frames, ticks, burst, bench, sigints, status>>

DestroyItems ==
  /\ At("destroy")
  /\ IF dpc = "idle" THEN Goto("bench") /\ UNCHANGED pqVars
     ELSE DestroyStep /\ UNCHANGED pc
  /\ UNCHANGED appVars

Freed(b) == IF b = "live" THEN "freed" ELSE b

BenchFree ==
  /\ At("bench")
  /\ bench' = Freed(bench) /\ Goto("done")
  /\ UNCHANGED <<pqVars, cmdVars, opts, todo, in, out, exit, num_frames, ticks, burst, sigints, status>>

----------------------------------------------------------------------------
(* signal_handler for SIGINT, installed before run                           *)

\* It is installed once make_processing_chain has succeeded, as its strict check has.
HandlerInstalled == pc \notin Setup \cup {"done"} /\ CheckRet(items, TRUE) = 0
CanInterrupt == HandlerInstalled /\ fault = "none" /\ sigints < MaxSigint

\* gs->exit was 0.  A select that already waits is interrupted; one that is
\* about to start is not.
FirstSigint ==
  /\ CanInterrupt /\ exit = 0
  /\ exit' = 1 /\ sigints' = sigints + 1
  /\ IF pc = "select" THEN Goto("select") \/ Goto("loop") ELSE UNCHANGED pc
  /\ UNCHANGED <<pqVars, cmdVars, opts, todo, in, out, num_frames, ticks, burst, bench, status>>

\* Mutant: shuts down on the first signal.
NextSigintAtOnce ==
  /\ CanInterrupt
  /\ exit' = exit + 1 /\ sigints' = sigints + 1
  /\ DestroyWhole(IF "closed" \in {in, out} THEN "use_after_free" ELSE "none")
  /\ in' = Closed(in) /\ out' = Closed(out) /\ bench' = Freed(bench)
  /\ status' = 0 /\ Goto("done")
  /\ UNCHANGED <<cmdVars, opts, todo, num_frames, ticks, burst>>

\* gs->exit was set: app_shutdown from the handler, whatever main was doing, and exit(0)
NextSigint ==
  /\ CanInterrupt /\ exit > 0
  /\ exit' = exit + 1 /\ sigints' = sigints + 1
  /\ DestroyWhole(IF "closed" \in {in, out} THEN "use_after_free" ELSE "none")
  /\ in' = Closed(in) /\ out' = Closed(out) /\ bench' = Freed(bench)
  /\ status' = 0 /\ Goto("done")
  /\ UNCHANGED <<cmdVars, opts, todo, num_frames, ticks, burst>>

----------------------------------------------------------------------------
\* the program has ended, or has crashed
Ended == pc = "done" \/ fault # "none"
Terminated == Ended /\ UNCHANGED vars

Main ==
  \/ ParseArg \/ ParseEnds \/ CheckOptions \/ CreateQueue \/ OpenFiles \/ HandleHeaders \/ ChainItem \/ CheckQueue
  \/ PrepareQueue \/ LoopHead \/ Pass \/ PassEnds
  \/ TimerReadable \/ BurstPass \/ BurstPassEnds \/ BurstEnds
  \/ WaitForSink \/ DrainSpins \/ DrainEnds
  \/ CloseIn \/ CloseOut \/ DestroyItems \/ BenchFree

Next == Main \/ Tick \/ Play \/ FirstSigint \/ NextSigint \/ Terminated

Spec == Init /\ [][Next]_vars

\* The process is scheduled while it can run, the kernel's timer fires every
\* 20 ms and a device that has frames plays them.  Nothing makes a signal or,
\* on a live source, a packet arrive.
Reading == At("pass") /\ Executing /\ Cb.op \in {"rtp_in", "alsa_in"}

Fairness ==
  /\ WF_vars(Main /\ ~Reading)
  /\ WF_vars(Tick)
  /\ WF_vars(Play)

FairSpec == Spec /\ Fairness

----------------------------------------------------------------------------
(* Properties                                                                *)

\* Every variable of the program has its type.
TypeOK ==
  /\ PqTypeOK
  /\ argv \in CommandLines /\ optind \in 1..(Len(argv) + 1)
  /\ opts \in OptionSet /\ pc \in PcSet
  /\ todo \in Seq(Calls)
  /\ {in, out} \subseteq {"none", "std", "file", "sock", "closed", "shut"}
  /\ exit \in 0..(MaxSigint + 1) /\ sigints \in 0..MaxSigint
  /\ ticks \in 0..MaxBurst /\ burst \in 0..MaxBurst
  /\ num_frames \in Nat /\ status \in Int
  /\ bench \in {"none", "live", "freed"}

\* The chain make_processing_chain builds for a command line that check_options
\* accepted passes the strict check, when every constructor succeeds.
ChainPassesCheck == pc = "chain" /\ todo = <<>> => CheckRet(items, TRUE) = 0

\* the last option of the command line with this letter
IsGiven(c) == \E k \in DOMAIN argv : argv[k].c = c
LastArg(c) ==
  argv[CHOOSE k \in DOMAIN argv :
         argv[k].c = c /\ \A j \in DOMAIN argv : argv[j].c = c => j <= k]

\* the items asked for by options with these letters, or else the standard one
Asked(ops, standard) ==
  LET given == {p \in ops : IsGiven(p[1]) /\ (p[1] \in {"I", "O"} => LastArg(p[1]).num # 0)}
  IN  IF given = {} THEN {standard} ELSE {p[2] : p \in given}

\* A chain begins with the one input and ends with the one output the command line
\* asks for, in the last formats it names; stdin and stdout serve if it names none,
\* and also for an RTP port of 0 (parse_options, check_options, make_processing_chain).
\* Not so if the input's constructor failed and a codec's did, and left in its place an
\* item without a callback, which the strict check takes for a source.
ChainAsAsked ==
  pc = "prepare" /\ items[1].proc # NULL =>
    LET first == items[1].proc
        last  == items[Len(items)].proc
    IN  /\ {first.op} = Asked({<<"i", "file_in">>, <<"I", "rtp_in">>, <<"a", "alsa_in">>}, "file_in")
        /\ {last.op} = Asked({<<"o", "file_out">>, <<"O", "rtp_out">>, <<"A", "alsa_out">>}, "file_out")
        /\ first.what = LastArg("f").name /\ last.what = LastArg("g").name

\* pq_execute never calls a NULL callback, fails a length assertion of a codec or
\* conversion, or stores beyond an item's buffer.
NoCrash == fault \notin {"null_proc", "assert", "overrun"}

\* What reaches the sink is in the output format, with its frame length: the
\* conversions of the chain fit together, whatever pair of formats was asked for.
SunkInOutputFormat ==
  \A i \in DOMAIN sunk :
    /\ sunk[i].data = opts.fmt_out
    /\ Format(opts.fmt_out).frame_len \in {0, sunk[i].len}

\* The frames sunk are frames of the input in their order, each at most once.
SunkInOrder == \A i, j \in DOMAIN sunk : i < j => sunk[i].id < sunk[j].id

\* Without throttling, the frames sunk are a prefix of the input: a frame that is
\* lost to an error ends the run.
SunkIsPrefix == ~opts.throttle => \A i \in DOMAIN sunk : sunk[i].id = i

\* Outside a pass, num_frames is the number of frames that reached the sink, the
\* number run reports as processed.
FramesCounted == pc \in {"loop", "wait", "drain"} => num_frames = Len(sunk)

\* The same for the unthrottled loop alone.
UnthrottledFramesCounted == ~opts.throttle => FramesCounted

\* Each FILE is closed once, and each buffer, item state and item of the queue is
\* released once, also when signals arrive during the shutdown.
ReleasedOnce == fault \notin {"use_after_free", "double_free"}

\* One SIGINT does no harm to the unthrottled program, whenever it comes.  With -t the
\* end of the input sets gs->exit, and one signal finds it set (signal_handler).
OneSigintIsSafe == sigints <= 1 /\ ~opts.throttle => ReleasedOnce

\* Nothing is closed or released twice but by a SIGINT that comes when app_shutdown has
\* closed the input and finds gs->exit set, by a signal before it or, with -t, by a
\* failed pass and so by the end of the input (signal_handler, timerfd_cb).
HarmOnlyInShutdown ==
  [][ReleasedOnce /\ ~ReleasedOnce' =>
       pc \in Closing \ {"close_in"} /\ exit > 0 /\ sigints' = sigints + 1]_vars

\* When the program ends, no file or socket is left open, the queue and all its items are
\* released and so is the benchmark memory, whatever failed before.
NothingLeft ==
  pc = "done" /\ fault = "none" =>
    /\ {in, out} \cap {"file", "sock"} = {} /\ bench # "live" /\ queue # "live"
    /\ \A i \in DOMAIN items : items[i].mem = "freed" /\ items[i].state # "held"

\* Unless the user interrupts it, the program closes the sink only after the device
\* has played what it was given ("Wait for sink to process buffers", run).
SinkFinished == pc = "close_in" /\ sigints = 0 => dev = 0

\* A program that reads a file ends, but for one that waits for a device to which it
\* never gave a frame (run, pq_cb_alsa_wait).
EndsAfterInput == <>(Ended \/ (pc = "drain" /\ sunk = <<>>))

\* Once gs->exit is set, by a signal or a failed pass, a program that does not yet
\* wait for its sink ends; the loop of the wait does not look at gs->exit.
ExitIsObeyed == exit > 0 /\ pc # "drain" ~> Ended

----------------------------------------------------------------------------
\* The unthrottled program implements FramePump: it pumps from its start until a
\* pass fails, the loop is left or the program ends.
Pumping == pc \in Setup \cup {"prepare", "loop", "pass"} /\ rv = 0 /\ fault = "none"

P == INSTANCE FramePump WITH
       delivered <- [i \in DOMAIN sunk |-> sunk[i].id], running <- Pumping

\* Every step of the unthrottled program is a step of the pump, or none.
PumpsFrames == P!Pump
============================================================================
