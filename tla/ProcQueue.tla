----------------------------- MODULE ProcQueue -----------------------------
(* The processing queue of libosmogapk (procqueue.c): a list of items, each  *)
(* with a processing callback, run in order on one frame at a time.  The     *)
(* module gives the queue's state and one action per step of its operations; *)
(* PqClient and GapkApp say in which order a program takes them.             *)
EXTENDS GapkFormats

CONSTANTS
  ShortReads,   \* lengths other than a block that a live source may deliver
  DevCap,       \* frames the playback device's ring buffer holds
  Failures      \* failures of the environment that may happen, of AllFailures

AllFailures == {"alloc", "buffer", "codec_init", "alsa_open", "ecu_state",
                "read", "write", "convert", "open", "header"}

ASSUME ProcQueueAssumption ==
  /\ ShortReads \subseteq Nat
  /\ DevCap \in Nat \ {0}
  /\ Failures \subseteq AllFailures

VARIABLES
  queue,     \* the struct osmo_gapk_pq: "none", "live" or "freed"
  items,     \* every item ever linked, oldest first
  n_items,   \* pq->n_items
  head,      \* index in items of the list's first entry: pq_destroy unlinks from the front
  at,        \* pq_execute: index of the item whose callback is next, 0 when it is not running
  flight,    \* pq_execute: what buf_prev and len_prev hold
  rv,        \* what the last pq_execute returned
  dpc,       \* pq_destroy: the step next in its loop body, "idle" when it is not running
  avail,     \* frames the input holds
  taken,     \* frames the source has read from it
  sunk,      \* frames the sink has accepted, oldest first
  dev,       \* frames queued in the playback device
  fault      \* the first undefined or aborting step taken, "none" so far

listVars == <<queue, items, n_items>>
execVars == <<at, flight, rv>>
ioVars   == <<avail, taken, sunk, dev>>
pqVars   == <<listVars, head, execVars, dpc, ioVars, fault>>

Types == {"SOURCE", "SINK", "PROC"}
ENOMEM  == -12
EINVAL  == -22
ENOTSUP == -95
VAR_BUF_SIZE == 320

\* struct osmo_gapk_pq_item.  state is a resource only exit() releases; buf is 0
\* for NULL, else the size of the allocation, -1 once freed.
Item(type, len_in, len_out, proc, exit, state) ==
  [type |-> type, len_in |-> len_in, len_out |-> len_out, proc |-> proc,
   exit |-> exit, state |-> state, buf |-> 0, mem |-> "live"]

\* what talloc_zero makes of a new item: type 0 is a source
ZeroItem == Item("SOURCE", 0, 0, NULL, FALSE, "null")

Frame(len, data, id) == [len |-> len, data |-> data, id |-> id]
NoFrame == Frame(0, "none", 0)

PqInit ==
  /\ queue = "none" /\ items = <<>> /\ n_items = 0 /\ head = 1
  /\ at = 0 /\ flight = NoFrame /\ rv = 0
  /\ dpc = "idle"
  /\ taken = 0 /\ sunk = <<>> /\ dev = 0
  /\ fault = "none"

----------------------------------------------------------------------------
(* osmo_gapk_pq_create and osmo_gapk_pq_add_item                             *)

Create ==
  /\ queue = "none"
  /\ queue' = "live"
  /\ UNCHANGED <<items, n_items, head, execVars, dpc, ioVars, fault>>

\* add_item, then the constructor's assignments to the item it got
AddItem(item) ==
  /\ queue = "live"
  /\ items' = Append(items, item)
  /\ n_items' = n_items + 1
  /\ UNCHANGED <<queue, head, execVars, dpc, ioVars, fault>>

----------------------------------------------------------------------------
(* osmo_gapk_pq_check                                                        *)

\* Mutant: refuses only an item that takes less than the previous one leaves.
MatchesOrExceeds(s, i) == s[i].len_in = 0 \/ s[i].len_in >= s[i-1].len_out

MatchesPrevious(s, i) == s[i].len_in \in {0, s[i-1].len_out}

LengthsMatch(s) == \A i \in 2..Len(s) : MatchesPrevious(s, i)

\* The entry read from an empty list overlays the queue itself, and finds n_items,
\* 0, in the place of type: a source, and no sink.
SourceToSink(s) == s # <<>> /\ s[1].type = "SOURCE" /\ s[Len(s)].type = "SINK"

CheckRet(s, strict) ==
  IF LengthsMatch(s) /\ (strict => SourceToSink(s)) THEN 0 ELSE EINVAL

----------------------------------------------------------------------------
(* osmo_gapk_pq_prepare                                                      *)

\* Mutant: sizes the buffer by the item's input.
BufSizeOfInput(item) == IF item.len_in = 0 THEN VAR_BUF_SIZE ELSE item.len_in

BufSize(item) == IF item.len_out = 0 THEN VAR_BUF_SIZE ELSE item.len_out

WithBuf(item) ==
  IF item.type = "SINK" THEN item ELSE [item EXCEPT !.buf = BufSize(item)]

Prepare ==
  /\ queue = "live"
  /\ items' = [i \in DOMAIN items |-> WithBuf(items[i])]
  /\ UNCHANGED <<queue, n_items, head, execVars, dpc, ioVars, fault>>

\* no memory for item k's buffer: those before it keep theirs
PrepareFails(k) ==
  /\ queue = "live" /\ "buffer" \in Failures
  /\ k \in DOMAIN items /\ items[k].type # "SINK"
  /\ items' = [i \in DOMAIN items |-> IF i < k THEN WithBuf(items[i]) ELSE items[i]]
  /\ UNCHANGED <<queue, n_items, head, execVars, dpc, ioVars, fault>>

----------------------------------------------------------------------------
(* osmo_gapk_pq_execute: the loop calls items[at].proc on the frame in flight *)

Executing == at # 0

ExecBegin ==
  /\ at' = IF items = <<>> THEN 0 ELSE 1
  /\ flight' = NoFrame
  /\ rv' = 0
  /\ UNCHANGED <<listVars, head, dpc, ioVars, fault>>

\* Mutant: does not stop at the end of the list.
NextItemBeyond == at + 1

NextItem == IF at = Len(items) THEN 0 ELSE at + 1

\* the callback returned n >= 0 and left a frame of that length in the item's buffer
Returned(n, data, id) ==
  /\ at' = NextItem
  /\ flight' = Frame(n, data, id)
  /\ rv' = 0
  /\ UNCHANGED <<listVars, head, dpc, fault>>

\* the callback returned an error: the pass is aborted and its frame dropped
Aborted ==
  /\ at' = 0
  /\ rv' = -1
  /\ UNCHANGED <<listVars, head, flight, dpc, fault>>

Crash(f) ==
  /\ fault' = f
  /\ UNCHANGED <<listVars, head, execVars, dpc, ioVars>>

Cb == items[at].proc

\* the call cannot return: no function, a failed assertion
CallCrashes ==
  /\ Executing
  /\ \/ Cb = NULL /\ Crash("null_proc")
     \/ Cb # NULL /\ AssertedLen(Cb) \notin {0, flight.len} /\ Crash("assert")

Callable == Executing /\ Cb # NULL /\ AssertedLen(Cb) \in {0, flight.len}

\* lengths one read of a source delivers: whole blocks from a file, whole samples
\* of 2 bytes from a capture device, any payload from a packet
Deliveries(cb) ==
  CASE cb.op = "file_in" -> {cb.blk} \ {0}
    [] cb.op = "alsa_in" ->
         {2 * (n \div 2) : n \in {cb.blk} \cup {k \in ShortReads : k < cb.blk}} \ {0}
    [] OTHER -> ({cb.blk} \ {0}) \cup {n \in ShortReads : cb.blk = 0 \/ n < cb.blk}

\* Mutant: reads the same frame again.
SourceRereads ==
  /\ Callable /\ Cb.op \in SourceOps
  /\ taken < avail
  /\ \E n \in Deliveries(Cb) : n <= items[at].buf /\ Returned(n, Cb.what, taken + 1)
  /\ UNCHANGED ioVars

\* pq_cb_file_input, pq_cb_rtp_input, pq_cb_alsa_input on a frame
SourceDelivers ==
  /\ Callable /\ Cb.op \in SourceOps
  /\ taken < avail
  /\ taken' = taken + 1
  /\ \E n \in Deliveries(Cb) : n <= items[at].buf /\ Returned(n, Cb.what, taken + 1)
  /\ UNCHANGED <<avail, sunk, dev>>

\* a file at its end, or with blocks of no length; a live source that has nothing
\* to deliver blocks instead
SourceEnds ==
  /\ Callable
  /\ \/ Cb.op = "file_in" /\ taken >= avail
     \/ Cb.op \in {"file_in", "alsa_in"} /\ Deliveries(Cb) = {}
  /\ Aborted
  /\ UNCHANGED ioVars

\* a failing device, a packet that is not RTP: what was read is lost
SourceFails ==
  /\ Callable /\ Cb.op \in SourceOps /\ "read" \in Failures
  /\ taken < avail
  /\ taken' = taken + 1
  /\ Aborted
  /\ UNCHANGED <<avail, sunk, dev>>

\* pq_cb_file_output, pq_cb_rtp_output, pq_cb_alsa_output; snd_pcm_writei blocks
\* while the ring buffer is full
SinkAccepts ==
  /\ Callable /\ Cb.op \in SinkOps
  /\ Cb.op = "file_out" => flight.len > 0
  /\ Cb.op = "alsa_out" => dev < DevCap
  /\ sunk' = Append(sunk, flight)
  /\ dev' = IF Cb.op = "alsa_out" THEN dev + 1 ELSE dev
  /\ Returned(0, "none", 0)
  /\ UNCHANGED <<avail, taken>>

SinkFails ==
  /\ Callable /\ Cb.op \in SinkOps
  /\ "write" \in Failures \/ (Cb.op = "file_out" /\ flight.len = 0)
  /\ Aborted
  /\ UNCHANGED ioVars

\* a conversion, codec or concealment callback that returns a length
Processed ==
  /\ Callable /\ Cb.op \in ProcOps
  /\ \E r \in Returns(Cb, flight.len) :
       /\ r.rv >= 0
       /\ r.wrote <= items[at].buf
       /\ Returned(r.rv, Converted(Cb, flight.data), flight.id)
  /\ UNCHANGED ioVars

ProcessingFails ==
  /\ Callable /\ Cb.op \in ProcOps /\ "convert" \in Failures
  /\ \E r \in Returns(Cb, flight.len) : r.rv < 0 /\ r.wrote <= items[at].buf
  /\ Aborted
  /\ UNCHANGED ioVars

\* the callback stores more than the item's buffer holds
Stored == IF Cb.op \in SourceOps THEN Deliveries(Cb)
          ELSE {r.wrote : r \in Returns(Cb, flight.len)}

Overruns ==
  /\ Callable /\ Cb.op \notin SinkOps
  /\ \E n \in Stored : n > items[at].buf
  /\ Crash("overrun")

ExecStep ==
  \/ CallCrashes
  \/ SourceDelivers \/ SourceEnds \/ SourceFails
  \/ SinkAccepts \/ SinkFails
  \/ Processed \/ ProcessingFails \/ Overruns

\* the device plays a queued frame
DevPlay ==
  /\ dev > 0
  /\ dev' = dev - 1
  /\ UNCHANGED <<listVars, head, execVars, dpc, avail, taken, sunk, fault>>

----------------------------------------------------------------------------
(* osmo_gapk_pq_destroy, statement by statement for the entry at head        *)

Entry == items[head]
Released(i) == items[i].mem = "freed"

DestroyBegin ==
  /\ dpc = "idle"
  /\ IF queue = "live" THEN dpc' = "buf" /\ UNCHANGED fault
     ELSE /\ dpc' = "idle"
          /\ fault' = IF queue = "freed" THEN "use_after_free" ELSE "none"
  /\ UNCHANGED <<listVars, head, execVars, ioVars>>

\* reading an entry that was freed while linked
DestroyStale ==
  /\ dpc = "buf" /\ head <= Len(items) /\ Released(head)
  /\ Crash("use_after_free")

DestroyBuf ==
  /\ dpc = "buf" /\ head <= Len(items) /\ ~Released(head)
  /\ items' = [items EXCEPT ![head].buf = IF @ > 0 THEN -1 ELSE @]
  /\ dpc' = "exit"
  /\ UNCHANGED <<queue, n_items, head, execVars, ioVars, fault>>

\* Mutant: calls the exit handler of processing items only.
ReleasedStateOfProc(item) ==
  IF item.type = "PROC" /\ item.exit /\ item.state = "held" THEN "released" ELSE item.state

ReleasedState(item) == IF item.exit /\ item.state = "held" THEN "released" ELSE item.state

DestroyExit ==
  /\ dpc = "exit"
  /\ items' = [items EXCEPT ![head].state = ReleasedState(Entry)]
  /\ dev' = IF Entry.proc.op = "alsa_out" THEN 0 ELSE dev  \* snd_pcm_close drops what is queued
  /\ dpc' = "unlink"
  /\ UNCHANGED <<queue, n_items, head, execVars, avail, taken, sunk, fault>>

\* Mutant: frees the item without taking it from the list.
DestroyUnlinkKeeps ==
  /\ dpc = "unlink"
  /\ items' = [items EXCEPT ![head].mem = "freed"]
  /\ dpc' = "buf"
  /\ UNCHANGED <<queue, n_items, head, execVars, ioVars, fault>>

DestroyUnlink ==
  /\ dpc = "unlink"
  /\ items' = [items EXCEPT ![head].mem = "freed"]
  /\ head' = head + 1
  /\ dpc' = "buf"
  /\ UNCHANGED <<queue, n_items, execVars, ioVars, fault>>

DestroyQueue ==
  /\ dpc = "buf" /\ head > Len(items)
  /\ queue' = "freed"
  /\ dpc' = "idle"
  /\ UNCHANGED <<items, n_items, head, execVars, ioVars, fault>>

DestroyStep ==
  DestroyStale \/ DestroyBuf \/ DestroyExit \/ DestroyUnlink \/ DestroyQueue

\* pq_destroy run from start to end in one step, by a signal handler that may
\* have interrupted another pq_destroy; f is the fault of what it did before
DestroyFault ==
  LET linked == head..Len(items) IN
  IF queue = "freed" \/ \E i \in linked : Released(i) THEN "use_after_free"
  ELSE IF \E i \in linked : items[i].buf = -1
                            \/ (items[i].exit /\ items[i].state = "released")
  THEN "double_free" ELSE "none"

Destroyed(item) ==
  [item EXCEPT !.buf = IF @ > 0 THEN -1 ELSE @, !.state = ReleasedState(item), !.mem = "freed"]

DestroyWhole(f) ==
  /\ items' = [i \in DOMAIN items |-> IF i < head THEN items[i] ELSE Destroyed(items[i])]
  /\ head' = Len(items) + 1
  /\ queue' = IF queue = "live" THEN "freed" ELSE queue
  /\ fault' = IF f = "none" THEN DestroyFault ELSE f
  /\ dpc' = "idle" /\ dev' = 0
  /\ UNCHANGED <<n_items, execVars, avail, taken, sunk>>

----------------------------------------------------------------------------
ItemSet ==
  [type : Types, len_in : Nat, len_out : Nat,
   proc : [op : SourceOps \cup SinkOps \cup ProcOps \cup {"NULL"}, what : Formats \cup Codecs \cup {"none"}, blk : Nat],
   exit : BOOLEAN, state : {"null", "held", "released"}, buf : Nat \cup {-1},
   mem : {"live", "freed"}]
FrameSet == [len : Nat, data : DataKinds, id : Nat]
Faults == {"none", "null_proc", "assert", "overrun", "use_after_free", "double_free"}

\* The type invariant of the queue and of the locals of its operations.
PqTypeOK ==
  /\ queue \in {"none", "live", "freed"}
  /\ items \in Seq(ItemSet)
  /\ n_items \in Nat
  /\ head \in 1..(Len(items) + 1)
  /\ at \in 0..Len(items)
  /\ flight \in FrameSet
  /\ rv \in {0, -1}
  /\ dpc \in {"idle", "buf", "exit", "unlink"}
  /\ dpc \in {"exit", "unlink"} => head <= Len(items)
  /\ avail \in Nat /\ taken \in 0..avail
  /\ sunk \in Seq(FrameSet)
  /\ dev \in 0..DevCap
  /\ fault \in Faults
============================================================================
