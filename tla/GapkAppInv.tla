----------------------------- MODULE GapkAppInv -----------------------------
(* The inductive invariants behind the properties of GapkApp, one for each   *)
(* matter: the options, the stages of main, the ends of the chain, its       *)
(* formats, the frames, and what is released.  Each uses those before it.    *)
EXTENDS GapkApp

\* where main is once signals are handled, and in the loops before the sink is waited for
AfterChain == {"prepare"} \cup Looping \cup {"wait", "drain"}
\* where main is once pq_destroy has returned
AfterDestroy == {"bench", "done"}

----------------------------------------------------------------------------
(* The options                                                               *)

\* the option with this letter that is the last of the first n
IsLast(args, c, k, n) ==
  k \in 1..n /\ args[k].c = c /\ \A j \in (k + 1)..n : args[j].c # c

Names(args, fmt, c, n) ==
  \/ fmt = "missing" /\ \A k \in 1..n : args[k].c # c
  \/ \E k \in 1..n : IsLast(args, c, k, n) /\ fmt = args[k].name

\* The options o are those of the first n arguments: a flag stays, a port is that of the
\* last option, and so is a format.
Reflects(args, o, n) ==
  /\ "file" \in o.in <=> \E k \in 1..n : args[k].c = "i"
  /\ "alsa" \in o.in <=> \E k \in 1..n : args[k].c = "a"
  /\ "rtp" \in o.in <=> \E k \in 1..n : IsLast(args, "I", k, n) /\ args[k].num # 0
  /\ "file" \in o.out <=> \E k \in 1..n : args[k].c = "o"
  /\ "alsa" \in o.out <=> \E k \in 1..n : args[k].c = "A"
  /\ "rtp" \in o.out <=> \E k \in 1..n : IsLast(args, "O", k, n) /\ args[k].num # 0
  /\ Names(args, o.fmt_in, "f", n) /\ Names(args, o.fmt_out, "g", n)
  /\ \A k \in 1..n : \E j \in 1..n : IsLast(args, args[k].c, j, n)

Parsed ==
  /\ pc # "done" => Reflects(argv, opts, optind - 1)
  /\ pc \notin {"parse", "done"} => optind = Len(argv) + 1
  /\ pc \notin {"parse", "check", "done"} => OptionsRet(opts) = 0

\* The types, the items as their constructors made them, the options parsed and
\* accepted, and a bound of gs->exit.
OptionsInv ==
  /\ TypeOK /\ AllWellMade
  /\ Parsed
  /\ exit <= sigints + 1

----------------------------------------------------------------------------
(* The stages of main                                                        *)

Checked == CheckRet(items, TRUE) = 0
Prepared == \A i \in DOMAIN items : items[i].type # "SINK" => items[i].buf = BufSize(items[i])

\* The queue exists from its creation to its destruction, and has no items until
\* make_processing_chain.
QueueStages ==
  /\ pc \in {"parse", "check", "create"} => queue = "none"
  /\ pc \in {"open", "headers", "chain"} \cup AfterChain => queue = "live"
  /\ queue = "freed" => pc \in {"destroy"} \cup AfterDestroy /\ head = Len(items) + 1
  /\ pc \in AfterDestroy => queue # "live"
  /\ queue = "none" \/ pc \in Setup \ {"chain"} => items = <<>>
  /\ todo # <<>> => pc = "chain"

\* It has passed the strict check before it is prepared and been prepared before it is
\* executed.
ChainStages ==
  /\ pc \in AfterChain => Checked
  /\ pc \in Looping => Prepared

\* pq_execute and pq_destroy run only where they are called; the timer only with -t.
CallStages ==
  /\ at # 0 => pc \in {"pass", "done"}
  /\ dpc # "idle" => pc = "destroy"
  /\ pc = "destroy" /\ queue = "live" => dpc # "idle"
  /\ head > 1 => pc \in {"destroy"} \cup AfterDestroy
  /\ ~opts.throttle => pc \notin {"select", "burst"}

\* What main has done when it is at pc.
StagesInv == QueueStages /\ ChainStages /\ CallStages

----------------------------------------------------------------------------
(* The ends of the chain                                                     *)

\* Among the items and the calls still to be made only the first may be a source and
\* only the last a sink, and these are the ones asked for.
EndsInv ==
  /\ \A k \in DOMAIN todo :
       /\ todo[k].fn \in SourceOps =>
            k = 1 /\ items = <<>> /\ todo[k] = Call(ReadOp(opts), opts.fmt_in)
       /\ todo[k].fn \in SinkOps =>
            k = Len(todo) /\ todo[k] = Call(WriteOp(opts), opts.fmt_out)
       /\ todo[k].fn # "ecu"
  /\ \A i \in DOMAIN items :
       /\ items[i].proc.op \in SourceOps =>
            i = 1 /\ items[i].proc.op = ReadOp(opts) /\ items[i].proc.what = opts.fmt_in
       /\ items[i].proc.op \in SinkOps =>
            /\ i = Len(items) /\ todo = <<>>
            /\ items[i].proc.op = WriteOp(opts) /\ items[i].proc.what = opts.fmt_out

----------------------------------------------------------------------------
(* The formats of the chain                                                  *)

\* no constructor of the chain fails
ConstructorsWork == Failures \cap {"alloc", "alsa_open", "codec_init"} = {}

\* the item a constructor leaves when it succeeds
MadeItem(call) ==
  CASE call.fn \in SourceOps -> SourceItem(call.fn, call.arg)
    [] call.fn \in SinkOps -> SinkItem(call.fn, call.arg)
    [] call.fn \in {"to_canon", "from_canon"} -> FmtItem(call.fn, call.arg)
    [] call.fn \in {"encode", "decode"} -> CodecItem(call.fn, call.arg)
    [] OTHER -> EcuItem(call.arg)

\* The items are those of the calls made, and the calls still to be made the rest.
Built ==
  LET calls == ChainCalls(opts) IN
  /\ Len(calls) = Len(items) + Len(todo)
  /\ \A i \in DOMAIN items : SameMake(MadeItem(calls[i]), items[i])
  /\ \A k \in DOMAIN todo : todo[k] = calls[Len(items) + k]

BuiltInv ==
  ConstructorsWork =>
    /\ items # <<>> \/ todo # <<>> => Built
    /\ pc = "chain" => items # <<>> \/ todo # <<>>

\* the length of a frame in a format or in the canonical form of a codec, 0 if variable
KindLen(kind) == IF kind \in Formats THEN Format(kind).frame_len ELSE CanonLen(kind)

\* A frame of that length fits the format, and the buffers of its conversions.
LenFits(n, kind) ==
  IF KindLen(kind) # 0 THEN n = KindLen(kind)
  ELSE IF kind = "rtp-amr" THEN n \in 1..VAR_BUF_SIZE
  ELSE n \in 0..(VAR_BUF_SIZE - 1)

\* Every source delivers frames of lengths its format has.
SourcesFit ==
  \A i \in DOMAIN items :
    items[i].proc.op \in SourceOps =>
      \A n \in Deliveries(items[i].proc) : LenFits(n, items[i].proc.what)

\* Each callback is given a frame in the format it takes, and nothing crashes.
FormatsInv ==
  ConstructorsWork /\ SourcesFit =>
    /\ NoCrash
    /\ at > 1 => flight.data = Takes(items[at].proc) /\ LenFits(flight.len, flight.data)
    /\ \A i \in DOMAIN sunk : sunk[i].data = opts.fmt_out /\ LenFits(sunk[i].len, opts.fmt_out)
    /\ sunk # <<>> => items # <<>> /\ opts.fmt_out \in Formats

----------------------------------------------------------------------------
(* The frames                                                                *)

\* The frame in flight is newer than those sunk and none is newer than those taken.
OrderInv ==
  /\ \A i, j \in DOMAIN sunk : i < j => sunk[i].id < sunk[j].id
  /\ \A i \in DOMAIN sunk : sunk[i].id <= taken
  /\ at > 1 => flight.id <= taken /\ \A i \in DOMAIN sunk : sunk[i].id < flight.id

\* Without -t, every frame taken but the one in flight has been sunk, until a pass fails,
\* and after that there is no other pass.
PrefixInv ==
  ~opts.throttle =>
    /\ \A i \in DOMAIN sunk : sunk[i].id = i
    /\ at > 1 => taken = Len(sunk) + 1 /\ flight.id = taken
    /\ at <= 1 /\ rv = 0 => taken = Len(sunk)
    /\ rv # 0 => at = 0 /\ taken \in {Len(sunk), Len(sunk) + 1}
    /\ rv # 0 => pc \notin Setup \cup {"prepare", "loop"}

\* Without -t, num_frames counts the frames sunk, but for one sunk in this pass.
CountInv ==
  ~opts.throttle =>
    /\ pc \in Setup \cup {"prepare"} => num_frames = 0 /\ sunk = <<>>
    /\ pc \in {"loop", "wait", "drain"} => num_frames = Len(sunk)
    /\ pc = "pass" =>
         Len(sunk) = IF at = 0 /\ rv = 0 THEN num_frames + 1 ELSE num_frames

----------------------------------------------------------------------------
(* What is released                                                          *)

\* pq_destroy has released what is before the head of the list, and of its head what its
\* program counter has passed.
ItemsReleased ==
  \A i \in DOMAIN items :
    /\ i < head => items[i].mem = "freed"
    /\ i < head \/ (i = head /\ dpc = "unlink") => items[i].state # "held"
    /\ i >= head => items[i].mem = "live"

\* Until pq_destroy is called no buffer and no state of an item has been given back.
Untouched ==
  dpc = "idle" /\ head = 1 =>
    \A i \in DOMAIN items : items[i].buf # -1 /\ items[i].state # "released"

\* The files, the sockets and the benchmark are open at most until main closes them.
HandlesClosed ==
  /\ in \in {"file", "sock"} => pc \in {"headers", "chain", "close_in"} \cup AfterChain
  /\ out \in {"file", "sock"} => pc \in {"headers", "chain", "close_in", "close_out"} \cup AfterChain
  /\ "closed" \in {in, out} => pc \in {"close_out", "destroy"} \cup AfterDestroy
  /\ bench = "live" => pc \in {"chain"} \cup AfterChain \cup Closing

\* Without -t, gs->exit counts the signals, of which the first does no harm.
SignalsCounted ==
  ~opts.throttle =>
    /\ exit = sigints
    /\ sigints <= 1 => ReleasedOnce

ReleaseInv == ItemsReleased /\ Untouched /\ HandlesClosed /\ SignalsCounted

\* All of them together.
IInv ==
  /\ OptionsInv /\ StagesInv /\ EndsInv /\ BuiltInv /\ FormatsInv
  /\ OrderInv /\ PrefixInv /\ CountInv /\ ReleaseInv
============================================================================
