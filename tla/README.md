# A TLA+ model of osmo-gapk

`osmo-gapk` converts streams of GSM speech frames between formats and codecs. It is built on
`libosmogapk`, whose core is a *processing queue*: a list of items, each with a callback, that
one frame at a time is passed through. This directory holds models of the queue, of the
constructors of its items, of the contracts of all formats and codecs and of the program on top
of them; of the RTP items with the network between them and error concealment behind it; of the
Half Rate codec's library and the benchmark; and of the conversions bit by bit. TLC
configurations check them on small instances, and TLAPS proofs show every safety property that
the runs check for every value of the constants: for all command lines, failures, libraries,
frames, tables, and bounds.

Paths below are relative to the repository; `src/x.c` is the library's and the program's source.

## Inventory

| part | source | state | operations | what makes it correct |
|---|---|---|---|---|
| processing queue | `src/procqueue.c` | list of items, `n_items`; per item lengths, callback, state, buffer | create, add_item, check, prepare, execute, destroy, describe | a checked queue never breaks a callback's length assertion or overruns a buffer; destroy releases everything once, whatever failed before |
| file, RTP, ALSA items | `src/pq_file.c`, `src/pq_rtp.c`, `src/pq_alsa.c` | handle, block length; RTP counters; PCM handle | constructor, input, output, wait, exit | frames in order, errors end the pass, resources given back on every path, with the queue at the latest |
| conversion, codec, ECU items | `src/pq_format.c`, `src/pq_codec.c`, `src/pq_ecu.c` | codec or ECU state | constructor, callback, exit | declared lengths agree with the callback; a failed constructor leaves a queue that can be destroyed |
| formats | `src/formats.c`, `src/fmt_*.c` | none | to and from canonical frames | each pair of conversions agrees on the canonical frame |
| codecs, concealment | `src/codecs.c`, `src/codec_*.c`, `src/ecu_fr.c` | library states, backup frame | init, exit, encode, decode, conceal | lengths; one result per frame |
| program | `src/app_osmo_gapk.c` | `struct gapk_state` | options, files, headers, chain, unthrottled loop, timer loop, wait, shutdown, signals | the right chain for each pair of formats; frames in order; ends; releases everything once under signals |
| benchmark | `src/benchmark.c`, `include/osmocom/gapk/bench.h` | one ring of cycle counts per codec | enable, start/stop, get, free | sums what was measured |
| libgsmhr | `libgsmhr/libgsmhr.c` | a saved copy of the reference code's globals | init, exit, encode, decode | each call sees its own instance's state |

The parts interact by calls only: `main` builds the queue with the constructors, a loop calls
`pq_execute`, which calls the items' callbacks in order with the previous item's buffer. There
are no threads. Concurrency comes from outside: the SIGINT handler runs between any two steps
of `main` and shares `gs`; the 20 ms timer accumulates expirations while a pass runs; the
playback device drains its ring buffer while `main` waits for it. Hard behaviours are thus the
signal during a shutdown, bursts of the timer, the end of a stream on a device, failures of one
step of several (constructors, whose results the program ignores, and buffers), and variable
lengths, where 0 stands for any length. `PROJECT.json` lists the hazards line by line.

## Modules

* `GapkFormats`: the tables of formats and codecs. Each conversion, coder and concealment
  callback is given by its contract: the length it asserts of its input, the lengths it may
  return and the bytes it stores at its output. Payload bits are reduced to a *data kind*, the
  name of the format or codec a frame is in; a callback applied to another kind yields
  `"garbage"`. `Libs` is what configure found; codecs without their library have no functions.
* `ProcQueue`: the queue, one action per step of its operations. `pq_execute` is a loop over
  `at`, with one step per callback (`SourceDelivers`, `SinkAccepts`, `Processed` and their
  failures); undefined or aborting steps (a NULL callback, a failed `assert`, an overrun, a read
  of freed memory, a double release) set `fault`, after which nothing happens. `pq_destroy` is
  taken statement by statement (`DestroyBuf`, `DestroyExit`, `DestroyUnlink`, `DestroyQueue`),
  because a signal may come between; `DestroyWhole` is all of it in one step, for the handler.
* `PqItems`: the constructors. Each is the set of results it may have: the item it leaves in
  the queue, if any, and its return value. A failed one may leave an item (`ZeroItem`). It also
  says what an item promises (`WellMade`).
* `PqClient`: any client of the library, in the shape of `tests/procqueue/pq_test.c`: it calls
  constructors in any order, may check the queue or not, prepares and executes it, and may
  destroy it at any point between two calls. Its inductive invariant is `IInv`.
* `GapkApp`: `main` from `parse_options` on. A command line is a sequence of `Arg`s that `optind`
  walks through; an argument has what the code distinguishes of it, the format's name, the port,
  the payload type. `pc` names the program point; constructors are
  called in the order `make_processing_chain` computes from the pair of formats. The loops of
  `run`, the wait, `app_shutdown` step by step, and the handler (`FirstSigint` sets `gs->exit`,
  `NextSigint` shuts down from the handler and exits). `in` and `out` tell files from sockets, because
  `files_close` clears neither: a FILE closed again is freed memory used (`"closed"`), a descriptor
  closed again an error that is ignored (`"shut"`).
* `GapkAppInv`: the inductive invariant of `GapkApp`, in nine parts.
* `FramePump`: the abstract promise of the unthrottled program: one frame at a time is taken
  and put, in order, and the first one lost stops it. `GapkApp` implements it with
  `delivered` = the numbers of the frames sunk and `running` = not yet past the loop.
* `PqRtp`: `pq_cb_rtp_output` and `pq_cb_rtp_input` over a network. A packet is the header
  fields the source looks at, the numbers the sink gave it, and where in it the payload is;
  parsing is arithmetic on lengths (`Refused`, `Returned`, `PayloadAt`), with every check of the
  code and none more. `seq` and `ts` wrap at `SeqMod` and `TsMod`.
* `EcuFr`: `ecu_proc_fr` over `backup` and `lost`, one action per branch. A frame is the number
  of the frame its contents come from and an amplitude.
* `RtpEcu`: the composition. One queue offers frames to the RTP sink; the network is `Transport`;
  a pass of the other queue is `Receive`: the source refuses a datagram, returns a payload of
  another length than a block (`Crash`: the ECU asserts it), or gives a block to the ECU.
* `HrCodecs`: the abstract promise of `gsmhr.h`: independent codecs, each half given by the
  frames since its last reset. `GsmHr`: `libgsmhr.c`, which has one set of globals (`live`), a
  copy per instance (`save`), and `dec_reset_flg`. `GsmHr` implements `HrCodecs` with
  `codec[i]` = what is saved for `i`.
* `Benchmark`: the ring of cycle counts per direction, with the history of what was `measured`.
  `CodecHr` composes it with `GsmHr`: `codec_hr_encode` and `codec_hr_decode` measure each call.
* `BitOrder`: source, `from_canon`, `to_canon`, sink for eleven formats. A bit is the frame and
  place it comes from, so that a permutation is seen without enumerating contents; a conversion
  is its loop (`Copied`, `CanonAt`, `WrittenAt`, `ReadAt`) and the bytes it stores besides
  (`FormatSet`, `CanonSet`). Both buffers are those of the items and keep what nothing overwrites.
* `PqItemsProofs`: lemmas about formats, codecs, constructors, a step of the queue and its
  destruction, used for the client and for the program. `PqClientProofs`, `RtpEcuProofs`,
  `CodecHrProofs`, `BitOrderProofs`: theorems about the modules they name. Those about the program
  are in `GapkAppProofs` (options, stages, ends of the chain, release), `GapkFramesProofs` (the frames
  and `FramePump`) and `GapkChainProofs` (formats), each of which extends the one before.
* `MCPqClient`, `MCGapkApp`, `MCRtpEcu`, `MCBitOrder`: values of the constants for the `.cfg`
  files; `CodecHr` needs none.

Definitions named as "Mutant" in a comment are plausible wrong versions of the definition that
follows them; they are used to see that a property notices them and by nothing else.

## Runs

| run | instance | shows |
|---|---|---|
| `client` | chains of up to 4 items from 9 calls in every order, checked or not, with short reads, libraries missing and every failure but that of the ECU's state | `LengthContract`, `ReleasedOnce`, `NothingLeft`, `TypeOK`, `IInv` |
| `app_pairs` | all 256 pairs of formats, 2 frames, all libraries | `ChainPassesCheck`, `NoCrash`, `SunkInOutputFormat`, `IInv` |
| `app_io` | command lines with every combination of inputs and outputs for seven pairs, and with options repeated, contradicted or invalid; every failure, libraries missing, one SIGINT | `ChainAsAsked`, `PumpsFrames`, `SunkIsPrefix`, `UnthrottledFramesCounted`, `NothingLeft`, `TypeOK`, `IInv` |
| `app_signals` | up to two SIGINT anywhere: a file to a file, stdin to a device, and the timer loop with bursts of 2; 3 frames; failed conversions and writes | `SunkInOrder`, `OneSigintIsSafe`, `HarmOnlyInShutdown`, `EndsAfterInput`, `ExitIsObeyed`, `IInv` |
| `rtp_ecu` | 2 frames offered, 4 passes, 2 packets on their way; failed writes; packets lost, repeated, reordered, rewritten by 4 translators; 7 strays | `NumberedByFrame`, `FramesIntact`, `FadesFromLastGood`, `TypeOK` |
| `hr_codec` | 2 instances, 4 calls and any number of openings, a ring of 2 | `Independent`, `SumsConsecutive`, `TypeOK` |
| `bit_order` | ten formats, two frames of five contents through the same buffers | `RoundTrip`, `NoStaleBits` |

Five runs show where the code does not do what its comments or messages say; `PROJECT.json`
quotes them:

* `double_sigint`: a second SIGINT shuts down while `main` does: double release.
* `full_device`: `pq_cb_alsa_wait` asks whether the ring has room, not whether frames are left.
* `short_frame`: the substitute of a short IETF HR payload is 15 bytes in a 14 byte buffer.
* `ti_efr`: the loops of `ti_efr_*` stop before the last 16 entries of the table, bits of the
  frame, which come back as zeros; the frame of the run has ones there and only there.
* `bench_sum`: the ring is written from entry 1 on and summed from entry 0: the cycles reported
  for *f* frames are not those of *f* frames until the ring has wrapped.

Met while modelling, without a run of their own:

* With `-t` the end of the input sets `gs->exit`, and the sink is not waited for. For the same
  reason one SIGINT during the shutdown of a throttled run already releases twice:
  `OneSigintIsSafe` is about the other loop. `HarmOnlyInShutdown` is about both and says that there
  is no other way to it.
* A device that was never given a frame has room for ever, so an empty input makes the wait
  endless; `EndsAfterInput` leaves that case out.
* An ignored failure of `codec_init` leaves an item without a callback that the strict check
  takes for a source. If the input's constructor fails as well, and so leaves nothing, this item is
  first, and a chain whose lengths are variable passes the check without the input that was asked
  for. The search for an inductive invariant brought this up; `ChainAsAsked` leaves the case out, and
  a run of `rawpcm-s16le` to `amr-opencore` reaches it.
* `osmo_gapk_pq_queue_ecu` frees its item on an allocation failure while the item is linked;
  `ReleasedOnce` is checked and proved without the failure `"ecu_state"`.
* `timerfd_cb` counts a frame before it processes it and so one too many at the end of the
  input; `UnthrottledFramesCounted` is about the other loop.
* `-I host/0` is accepted and means stdin; `long_options` has no terminating entry.

### Bounds

* `MaxItems` (4): a length mismatch needs two adjacent items, one hidden behind a variable-length
  item needs three, and a strict chain adds a source and a sink; the proof removes the bound.
  `ShortReads`: lengths below a block, chosen to collide with another item's (14) or to be empty.
  `Failures` names the failures of the environment that may happen in a run, each at any call;
  `NoMemory` is taken before an item is linked and "buffer" at any item of `pq_prepare`.
* `MaxFrames` (1 to 3): two frames show order and reuse of buffers, the third the input after a
  burst. `MaxBurst` (2): a burst in which the first pass fails and another follows. `MaxSigint`
  (1, 2 in `app_signals` and `double_sigint`): the handler does something else on the second. `DevCap` (2):
  empty, partly filled and full.
* `MaxOffered` (2), `MaxNet` (2), `MaxTaken` (4): two packets can change places, and a good frame
  and three losses fade through every amplitude (`MaxLevel` 1) to silence. `SeqMod` (3) and `TsMod`
  (400) make both counters wrap within the run. `BlkLen` is the 33 of Full Rate. The relays and strays stand on each side of
  each check of `pq_cb_rtp_input`. The proofs remove all of these.
* `NumAvg` (2, 3 in `bench_sum`) and `MaxCalls` (4): the ring wraps twice, and each of two
  instances is called after the other. `Costs` {1, 2}: two measurements differ. The proofs remove these.
* `MaxFrames` (2) and `Contents` in `bit_order`: a frame after another of other voicing, one with
  ones in its last bits, and one of zeros; in `ti_efr` one with ones in the
  bits that are lost. Every position of every format is there at its full width.

Deadlock is checked in `app_pairs`, `app_signals`, `double_sigint` and `full_device`. It is not
checked where the system may rightly stop: a client that is done, a program that reads a live
source from which nothing more arrives (`app_io`, `short_frame`), and instances whose bound on
calls or frames is used up.

### Fairness

Liveness is checked under `FairSpec`: the process is scheduled while it can run (weak fairness
of `Main`, except of a read that waits for a packet or for a capture device), the kernel's
interval timer fires (`Tick`), and a device with frames plays them (`Play`). Nothing makes a
signal arrive, or a live source deliver. `EndsAfterInput` is therefore stated for instances
that read files. The network of `PqRtp` promises nothing, so nothing is said there of what must arrive.

### Environment

* ALSA is external: a ring of `DevCap` frames; writing blocks while it is full; the space
  available is 0 when it is full, an error (an underrun) when a started device has drained, and the
  whole buffer on one that was never given a frame; closing drops what is queued.
* In `ProcQueue` an RTP payload is never longer than the block of its item, and a datagram is its
  payload's length or an error; `PqRtp` shows which datagrams give which lengths. `memcpy` of a
  longer payload is a crash there (`RtpEcu!Crash`).
* Network elements between sink and source are those of RFC 3550: they change contributing
  sources, extension and padding, and no payload. A stray is any datagram of another program.
  The source reads at most the block and 256 bytes; the byte it takes for the padding's length is
  then some byte of the frame.
* libosmocore is external: `osmo_ecu_fr_reset` and `osmo_ecu_fr_conceal` as
  `tests/ecu/ecu_fr_test.ok` shows them, and the tables of bit positions, constants of `BitOrder`
  of which only what `BitOrderAssumption` says is used: they are permutations, and those of HR
  leave the voicing bits at entries 93 and 94. The tables of `MCBitOrder` are others with these
  properties; its EFR table has the skipped entries where the reference recordings show them.
* The 3GPP reference code behind `libgsmhr` is external: its globals are given by the frames
  since the reset.
* The handler runs in one step, as SIGINT is blocked in its own handler; that it calls functions
  that are not async-signal-safe is not modelled. Before it is installed, and so before `run`, a SIGINT
  ends the process at once, without a shutdown. Blocking reads are restarted after a signal; `select` may be interrupted,
  or, when the signal comes just before it, not.
* Strict check of an empty queue: the entry `llist_first_entry` makes of the list head overlays
  the queue and finds `n_items` = 0 where `type` is, a source and not a sink: `-EINVAL`.
* `osmo_gapk_pq_queue_ecu` dereferences the decoder's format, which is there if the codec's
  library is (`EcuCalls`). The "Cannot determine decoder/encoder format" returns of
  `make_processing_chain` cannot be reached after `check_options`.

## Proofs

Seven modules hold theorems and an eighth the lemmas two of them share. Each takes from the named
assumptions of the modules it extends only the types of the constants (and, for `BitOrder`, what it says
of the tables), and proves an inductive invariant `IInv` from which the rest follows.

### PqClientProofs

For every set of constructor calls, libraries, failures, short reads and every bound:

* `Inductive`: `Spec => []IInv`;
* `Typed`: `Spec => []TypeOK`;
* `LengthsSafe`: `Spec => []LengthContract`: for chains of any length, `pq_check` in strict mode
  and the buffers of `pq_prepare` exclude failed length assertions and overruns of declared
  lengths, if sources deliver what they declare;
* `AllReleased`: `Spec => []NothingLeft`;
* `ReleasedAtMostOnce`: `Spec => []ReleasedOnce`, if the ECU's state can be allocated.

None of these is inductive by itself. `LengthContract` speaks of a crash that has happened; to
exclude it one must know what is in flight. `IInv` adds four parts: every item is
`WellMade` (its callback asserts nothing or its declared input length, and given that gives its
declared output length); `Protocol` (execution only on a prepared queue, and what the last
strict check established still holds); `FlightFits` (the frame in flight has the length the
next item declares, if it declares one); and `DestroyProgress` (what is before the head of the
list is released, and of the entry at the head what the program counter has passed).

The argument, in part in `PqItemsProofs`, goes: `FormatContract` and `CodecContract` go through the tables and show that
conversions agree with declared lengths; `ResultsFresh` lifts this to the items of all
constructors and their failures; `ReturnsFit` and `ReturnsDeclared` show that a callback given
a fitting frame returns its declared length, so that with `MatchesPrevious` the next item's
input fits (`ExecStepInv`); `CrashDeclared` that no call on a fitting frame fails its
assertion or overruns a declared buffer. `DestroyItemStep` follows `pq_destroy` through an
entry. `StepInv` puts the actions together.

### RtpEcuProofs

For blocks of any length, counters of any width, any translators and strays, any number of
amplitudes, frames, passes and packets:

* `Inductive`, `Typed`;
* `PacketsNumberedByFrame`: `Spec => []NumberedByFrame`;
* `OfferedFramesArrive`: `Spec => []FramesIntact`;
* `LostFramesFade`: `Spec => []FadesFromLastGood`.

`IInv` has three parts. `SinkCounts`: the counters are those of the next frame; a step needs that
counting on from a remainder is counting on from the number (`CountOn`, from
`RemainderUnique`), for any modulus. `Sent`: a packet of the sink has its own or a translator's
header and its payload where that says; from this `PayloadFound` computes that the source returns
exactly a block, if the datagram fits its buffer. `BackupIsLastGood`: the backup is the last good
frame in the log, faded by the number of bad ones since; `LowerFaded` is one step of fading and
`ConcealedIsFaded` what concealment puts out; `EcuProcInv` follows the branches of `ecu_proc_fr`.

### CodecHrProofs

For any number of instances, any ring and any number of calls:

* `Inductive`, `Typed`;
* `RingSumsConsecutive`: `Spec => []SumsConsecutive`;
* `InstancesIndependent`: `Spec => Independent`, the refinement of `HrCodecs` by `GsmHr`:
  initial states map to initial states, and each step to a step of one codec or to a stutter.

`SumsConsecutive` is about the slots below the index and is not inductive: the next measurement
shifts them. `RingHolds` says of the slots up to the index, the one written last included, which
measurement they hold, and `MeasureRing` shows that this survives a wrap. The refinement needs
`FlagMeansHome`: the decoder's flag is set exactly when its saved globals are those of a reset, so
that the silent branch of `gsmhr_decode` is taken exactly when the abstract decoder is at home
(`DecodeRefines`).

### GapkAppProofs, GapkFramesProofs, GapkChainProofs

For every set of command lines, libraries, failures and short reads, any number of frames,
expirations and signals:

* `TypesHold`, `InductiveInvariant`;
* `ChainIsAsAsked`: `Spec => []ChainAsAsked`;
* `NothingIsLeft`, `OneSigintDoesNoHarm`: `Spec => []NothingLeft`, `Spec => []OneSigintIsSafe`;
* `OnlyShutdownIsHarmed`: `Spec => HarmOnlyInShutdown`, with `-t` or without and for any number of signals;
* `FramesInOrder`, `FramesArePrefix`, `FramesAreCounted`: `Spec => []` of `SunkInOrder`,
  `SunkIsPrefix`, `UnthrottledFramesCounted`;
* `UnthrottledPumps`: `Spec /\ [](~opts.throttle) => PumpsFrames`, the refinement of `FramePump`;
* `ChainsPass`: `Spec => []ChainPassesCheck`, if no constructor fails;
* `FittingFramesDoNotCrash`, `FittingFramesAreConverted`: `NoCrash` and `SunkInOutputFormat`, if
  no constructor fails, wherever sources deliver lengths their format has (`SourcesFit`);
* `FilesAreConverted`: of a program that reads a file or stdin, without the last condition.

That no constructor fails (`ConstructorsWork`) is a condition on `Failures` alone and holds in
`app_pairs` and `app_signals`; reads, writes, conversions and buffers may fail. It is needed, as the
program ignores the constructors' results; `SourcesFit` is needed, as `short_frame` shows; and without
`[](~opts.throttle)`, which holds of a command line without `-t`, a frame that fails is skipped.

`IInv` is the conjunction of nine parts (`GapkAppInv`), proved one after the other; each step uses the
parts before it.

* `OptionsInv`: types, `WellMade` items, and that `opts` is what the first `optind - 1` arguments say
  (`Reflects`): a property of the whole command line has to be one of each prefix of it
  (`ReflectsNext`). Past `check_options` the options are accepted ones, which leaves at most one input
  and one output (`AcceptedOptions`).
* `StagesInv`: what main has done when it is at `pc`: where the queue exists, is checked and prepared,
  and where the counters of `pq_execute` and `pq_destroy` may stand. The handler can destroy everything
  from any of these places.
* `EndsInv`: among the items and the calls still to be made only the first is a source and only the
  last a sink. `ChainAsAsked` is about the chain when it is complete, and this is what it was before,
  failed constructors included; the strict check then tells that both are there.
* `BuiltInv`: if constructors work, the items are those of the calls made, and the calls left the rest.
* `FormatsInv`: the frame in flight is of the kind the next callback takes and of a length that fits it.
  Kinds chain through `ChainCalls` for every pair of formats: `Leads` says that a sequence of calls turns
  one kind into another, `LeadsConcat` composes, `ChainJoins` is the whole of `make_processing_chain`;
  `PassFormats` takes a frame one callback further, where variable lengths need that no conversion lets
  a frame outgrow its buffer (`ReturnsFitKind`).
* `OrderInv`, `PrefixInv`, `CountInv`: the number of the frame in flight between those sunk and the
  last one taken; without `-t` nothing is missing in between, and `num_frames` follows. `PumpCases`
  maps each step to one of `FramePump` or to a stutter.
* `ReleaseInv`: what is before the head of the list is released, and of its head what `dpc` has
  passed (`DestroyEntry`); files and sockets are open only where they are yet to be closed; and
  without `-t` the exit flag counts signals, so that the first one only sets it. Until the input is
  closed and `pq_destroy` called nothing has been given back (`HandlesClosed`, `Untouched`), so a handler
  that comes before finds everything as it was allocated (`HandlerReleasesOnce`), and main alone never
  releases twice (`MainReleasesOnce`): `OnlyShutdownIsHarmed` follows.

### BitOrderProofs

For any tables that satisfy `BitOrderAssumption`, any frames and any number of them:

* `Inductive`;
* `FramesComeBack`: `Spec => []RoundTrip`, for every format but `ti-efr`, which does not have it (`ti_efr`);
* `NothingIsStale`: `Spec => []NoStaleBits`, `ti-efr` included.

The run uses tables of its own; the theorems hold of libosmocore's. `RoundTrip` speaks of the buffer
of the second conversion; `IInv` says what is in that of the first (`FormatHolds`): each bit where
`from_canon` puts it and what it sets everywhere else. `WritesOnceEach` shows that each place is
written once or set (`LsbTwice` for the reversed bytes, `ParamAt` for the 18 words of the reference code),
`EveryTableCopiesEachOnce` that each bit of the frame is copied once, and `VoicingFound` that the
second conversion chooses the table the first one chose. `Restores` puts these together.

### Only model-checked

Liveness (`EndsAfterInput`, `ExitIsObeyed`), which is out of the prover's reach; of the safety
properties, none that holds. The invariants were checked before they were proved: those of `PqClient` and
`GapkApp` are properties of the runs, and those of `RtpEcu`, `CodecHr` and `BitOrder` hold on the
instances of `rtp_ecu`, `hr_codec` and `bit_order`. That a crash needs a failed constructor or a short payload
(`NoCrash` in general) and that a second signal does harm is shown by violations only.

## Not modelled

* `print_help`, `pq_describe`, logging, the printing of `benchmark_dump`, the SIGABRT and SIGUSR
  handlers: they make text.
* The contents of rtp-amr, amr-opencore, rtp-hr-etsi, rtp-hr-ietf and rawpcm frames: these
  conversions copy bytes, and their lengths are in `GapkFormats`.
* Speech coding, in external libraries; `get_cycles.h`, which reads a counter of the processor.
* SSRC and payload type, which are written and never compared.
* Recovery of a device from an underrun within one write: it is part of an accepted or failed write.
* Build files and packaging; what configure found is `Libs`.

## Plan

Done: all components above; proofs of every safety property of the runs and of both refinements.

Left:

1. The two queues of `RtpEcu` as items of `GapkApp`, so that `FramesIntact` becomes a statement about
   two programs.
