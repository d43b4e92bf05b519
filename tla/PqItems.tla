------------------------------ MODULE PqItems ------------------------------
(* The constructors of processing queue items: pq_file.c, pq_rtp.c,          *)
(* pq_alsa.c, pq_format.c, pq_codec.c and pq_ecu.c.  Each is given by the    *)
(* set of results it may have: the item it leaves linked in the queue, if    *)
(* any, and the value it returns.  A failed constructor may leave an item.   *)
EXTENDS ProcQueue

\* A call of a constructor: its name and the format or codec it is given.
Call(fn, arg) == [fn |-> fn, arg |-> arg]

SourceCalls == {Call(op, f) : op \in SourceOps, f \in Formats}
SinkCalls   == {Call(op, f) : op \in SinkOps, f \in Formats}
FmtCalls    == {Call(op, f) : op \in {"to_canon", "from_canon"}, f \in Formats}
CodecCalls  == {Call(op, c) : op \in {"encode", "decode"}, c \in Codecs \ {"PCM"}}
\* queue_ecu dereferences the decoder's format: it is called when there is one
EcuCalls    == {Call("ecu", c) : c \in {x \in Codecs : HasEcu(x) => HasLib(x)}}
Calls == SourceCalls \cup SinkCalls \cup FmtCalls \cup CodecCalls \cup EcuCalls

Links(item, ret) == [add |-> <<item>>, ret |-> ret]
LinksNothing(ret) == [add |-> <<>>, ret |-> ret]

\* the outcomes when an allocation fails before an item is linked
IfFails(kind, result) == IF kind \in Failures THEN {result} ELSE {}
NoMemory == IfFails("alloc", LinksNothing(ENOMEM))

----------------------------------------------------------------------------
SourceItem(op, f) ==
  LET blk == Format(f).frame_len IN
  Item("SOURCE", 0, blk, Callback(op, f, blk), TRUE, "held")

SinkItem(op, f) ==
  LET blk == Format(f).frame_len IN
  Item("SINK", blk, 0, Callback(op, f, blk), TRUE, "held")

\* pq_queue_file_op, pq_queue_rtp_op
QueueFile(op, f) ==
  {Links(IF op \in SourceOps THEN SourceItem(op, f) ELSE SinkItem(op, f), 0)} \cup NoMemory

QueueRtp(op, f) == QueueFile(op, f)

\* pq_queue_alsa_op: once the device is open every error closes it and frees its state;
\* the state of a device that cannot be opened stays a child of the queue and goes with it
QueueAlsa(op, f) ==
  QueueFile(op, f) \cup IfFails("alsa_open", LinksNothing(-1))

----------------------------------------------------------------------------
FmtItem(op, f) ==
  LET canon == CanonLen(Format(f).codec)
      len == Format(f).frame_len
      cb == Callback(op, f, 0) IN
  IF op = "from_canon" THEN Item("PROC", canon, len, cb, FALSE, "null")
                       ELSE Item("PROC", len, canon, cb, FALSE, "null")

\* osmo_gapk_pq_queue_fmt_convert
QueueFmt(op, f) == {Links(FmtItem(op, f), 0)} \cup NoMemory

CodecItem(op, c) ==
  LET cb == Callback(op, c, 0) IN
  IF op = "encode"
  THEN Item("PROC", CanonLen("PCM"), Format(CodecDesc(c).enc_fmt).frame_len, cb, TRUE, "held")
  ELSE Item("PROC", Format(CodecDesc(c).dec_fmt).frame_len, CanonLen("PCM"), cb, TRUE, "held")

\* osmo_gapk_pq_queue_codec: without the library the codec has no format and no
\* functions; a codec_init that fails leaves the item as add_item made it
QueueCodec(op, c) ==
  IF HasLib(c)
  THEN {Links(CodecItem(op, c), 0)} \cup NoMemory
       \cup IfFails("codec_init", Links(ZeroItem, EINVAL))
  ELSE {Links(ZeroItem, EINVAL)} \cup NoMemory

EcuItem(c) ==
  LET len == Format(CodecDesc(c).dec_fmt).frame_len IN
  Item("PROC", len, len, Callback("ecu", c, 0), TRUE, "held")

\* osmo_gapk_pq_queue_ecu: without memory for the state the item is freed, and
\* stays linked and counted
QueueEcu(c) ==
  IF ~HasEcu(c) THEN {LinksNothing(ENOTSUP)}
  ELSE {Links(EcuItem(c), 0)} \cup NoMemory
       \cup IfFails("ecu_state", Links([ZeroItem EXCEPT !.mem = "freed"], ENOMEM))

Results(call) ==
  CASE call.fn \in {"file_in", "file_out"} -> QueueFile(call.fn, call.arg)
    [] call.fn \in {"rtp_in", "rtp_out"} -> QueueRtp(call.fn, call.arg)
    [] call.fn \in {"alsa_in", "alsa_out"} -> QueueAlsa(call.fn, call.arg)
    [] call.fn \in {"to_canon", "from_canon"} -> QueueFmt(call.fn, call.arg)
    [] call.fn \in {"encode", "decode"} -> QueueCodec(call.fn, call.arg)
    [] OTHER -> QueueEcu(call.arg)

\* one call that ends with result r
Construct(r) ==
  IF r.add = <<>> THEN UNCHANGED pqVars ELSE AddItem(r.add[1])

----------------------------------------------------------------------------
(* What the constructors promise of their items                              *)

\* Whether a conversion of an item with these lengths leaves len_out bytes.
FitsOutput(conv, len_in, len_out) ==
  \/ conv.kind \in {"fixed", "fixed_or_error"} /\ conv.gives = len_out
  \/ conv.kind = "clear_if_short" /\ len_in = 15 /\ len_out = 14

\* What every constructor establishes of the item it leaves in the queue, and no
\* later step changes.
WellMade(item) ==
  /\ item.type = "SOURCE" => item.len_in = 0
  /\ item.type = "SOURCE" <=> item.proc.op \in SourceOps \cup {"NULL"}
  /\ item.type = "SINK" <=> item.proc.op \in SinkOps
  /\ item.type = "SINK" => item.len_out = 0
  /\ AssertedLen(item.proc) \in {0, item.len_in}
  /\ item.proc.op \in ProcOps =>
       item.len_out = 0 \/ FitsOutput(ConvOf(item.proc), item.len_in, item.len_out)
  /\ item.proc.op \in SourceOps \cup SinkOps \cup ProcOps \/ item.proc = NULL
  /\ item.state = "held" => item.exit

AllWellMade == \A i \in DOMAIN items : WellMade(items[i])

\* Every source delivers blocks of the length it declared.
ExactSources ==
  \A i \in DOMAIN items :
    items[i].proc.op \in SourceOps => Deliveries(items[i].proc) \subseteq {items[i].len_out}

\* A step that leaves every item as it was made, but for its buffer and its release.
SameMake(a, b) ==
  /\ b.type = a.type /\ b.len_in = a.len_in /\ b.len_out = a.len_out
  /\ b.proc = a.proc /\ b.exit = a.exit /\ b.state \in {a.state, "released"}
============================================================================
