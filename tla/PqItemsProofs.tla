--------------------------- MODULE PqItemsProofs ----------------------------
(* Lemmas about the tables of formats and codecs, the constructors and the   *)
(* queue, for the proofs about the programs that use them.                   *)
EXTENDS PqItems, TLAPS

----------------------------------------------------------------------------
(* The tables of formats and codecs                                          *)

ConvKinds == {"fixed", "fixed_or_error", "copy", "add_header", "drop_header", "clear_if_short"}
ConvSet == [kind : ConvKinds, asserts : Nat, gives : Nat]

\* Every row of supported_formats[] has a frame length and two conversions.
LEMMA FormatType ==
  ASSUME NEW f
  PROVE  /\ Format(f).frame_len \in Nat
         /\ Format(f).codec \in Codecs
         /\ Format(f).to_canon \in ConvSet
         /\ Format(f).from_canon \in ConvSet
BY DEF Format, Fmt, Conv, Codecs, ConvSet, ConvKinds, FmtAmrEfr, FmtAmrOpencore, FmtGsm,
       FmtHrRefDec, FmtHrRefEnc, FmtRacalHr, FmtRacalFr, FmtRacalEfr, FmtRawPcm, FmtTiHr,
       FmtTiFr, FmtTiEfr, FmtRtpAmr, FmtRtpEfr, FmtRtpHrEtsi, FmtRtpHrIetf

\* Every codec description has a canonical length, formats of its own and functions.
LEMMA CodecType ==
  ASSUME NEW c
  PROVE  /\ CodecDesc(c).canon \in Nat
         /\ CodecDesc(c).enc_fmt \in Formats \cup {"none"}
         /\ CodecDesc(c).dec_fmt \in Formats \cup {"none"}
         /\ CodecDesc(c).encode \in ConvSet
         /\ CodecDesc(c).decode \in ConvSet
BY DEF CodecDesc, Codec, Conv, NoConv, ConvSet, ConvKinds, Formats,
       CodecPcm, CodecHr, CodecFr, CodecEfr, CodecAmr

\* A conversion asserts nothing or the length its format declares for its input, and
\* gives the length declared for its output unless that is variable.
LEMMA FormatContract ==
  ASSUME NEW f
  PROVE  LET len == Format(f).frame_len
             canon == CanonLen(Format(f).codec)
         IN /\ Format(f).to_canon.asserts \in {0, len}
            /\ Format(f).from_canon.asserts \in {0, canon}
            /\ canon = 0 \/ FitsOutput(Format(f).to_canon, len, canon)
            /\ len = 0 \/ FitsOutput(Format(f).from_canon, canon, len)
<1> DEFINE Agrees(d) ==
      /\ d.to_canon.asserts \in {0, d.frame_len}
      /\ d.from_canon.asserts \in {0, CanonLen(d.codec)}
      /\ CanonLen(d.codec) = 0 \/ FitsOutput(d.to_canon, d.frame_len, CanonLen(d.codec))
      /\ d.frame_len = 0 \/ FitsOutput(d.from_canon, CanonLen(d.codec), d.frame_len)
<1>1. /\ CanonLen("PCM") = 320 /\ CanonLen("HR") = 14 /\ CanonLen("FR") = 33
      /\ CanonLen("EFR") = 31 /\ CanonLen("AMR") = 0
  BY DEF CanonLen, CodecDesc, Codec, CodecPcm, CodecHr, CodecFr, CodecEfr, CodecAmr
<1>2. Agrees(FmtAmrEfr) /\ Agrees(FmtRacalEfr) /\ Agrees(FmtTiEfr) /\ Agrees(FmtRtpEfr)
  BY <1>1 DEF FitsOutput, Fmt, Conv, FmtAmrEfr, FmtRacalEfr, FmtTiEfr, FmtRtpEfr
<1>3. Agrees(FmtGsm) /\ Agrees(FmtRacalFr) /\ Agrees(FmtTiFr) /\ Agrees(FmtRawPcm)
  BY <1>1 DEF FitsOutput, Fmt, Conv, FmtGsm, FmtRacalFr, FmtTiFr, FmtRawPcm
<1>4. Agrees(FmtHrRefDec) /\ Agrees(FmtHrRefEnc) /\ Agrees(FmtRacalHr)
  BY <1>1 DEF FitsOutput, Fmt, Conv, FmtHrRefDec, FmtHrRefEnc, FmtRacalHr
<1>5. Agrees(FmtTiHr) /\ Agrees(FmtRtpHrEtsi) /\ Agrees(FmtRtpHrIetf)
  BY <1>1 DEF FitsOutput, Fmt, Conv, FmtTiHr, FmtRtpHrEtsi, FmtRtpHrIetf
<1>6. Agrees(FmtAmrOpencore) /\ Agrees(FmtRtpAmr)
  BY <1>1 DEF FitsOutput, Fmt, Conv, FmtAmrOpencore, FmtRtpAmr
<1>7. Format(f) \in {FmtAmrEfr, FmtGsm, FmtHrRefDec, FmtHrRefEnc, FmtRacalHr, FmtRacalFr,
        FmtRacalEfr, FmtRawPcm, FmtTiHr, FmtTiFr, FmtTiEfr, FmtAmrOpencore, FmtRtpAmr,
        FmtRtpEfr, FmtRtpHrEtsi, FmtRtpHrIetf}
  BY DEF Format
<1> HIDE DEF Agrees
<1>8. Agrees(Format(f))
  BY <1>2, <1>3, <1>4, <1>5, <1>6, <1>7
<1> QED
  BY <1>8 DEF Agrees

\* The same for the encoder, the decoder and the concealment of a codec.
LEMMA CodecContract ==
  ASSUME NEW c \in Codecs \ {"PCM"}
  PROVE  LET enc_len == Format(CodecDesc(c).enc_fmt).frame_len
             dec_len == Format(CodecDesc(c).dec_fmt).frame_len
         IN /\ CodecDesc(c).encode.asserts \in {0, CanonLen("PCM")}
            /\ CodecDesc(c).decode.asserts \in {0, dec_len}
            /\ enc_len = 0 \/ FitsOutput(CodecDesc(c).encode, CanonLen("PCM"), enc_len)
            /\ FitsOutput(CodecDesc(c).decode, dec_len, CanonLen("PCM"))
            /\ HasEcu(c) => dec_len = 33
BY DEF Codecs, CanonLen, FitsOutput, HasEcu,
       CodecDesc, Codec, CodecPcm, CodecHr, CodecFr, CodecEfr, CodecAmr,
       Format, Fmt, Conv, FmtAmrEfr, FmtAmrOpencore, FmtGsm, FmtHrRefDec, FmtHrRefEnc

LEMMA ConvOfType == ASSUME NEW cb PROVE ConvOf(cb) \in ConvSet
BY FormatType, CodecType DEF ConvOf, EcuFr, Conv, ConvSet, ConvKinds

\* What a callback may return and store, for an input of any length.
LEMMA ReturnsType ==
  ASSUME NEW cb, NEW n \in Nat, NEW r \in Returns(cb, n)
  PROVE  r.rv \in Int /\ r.wrote \in Nat
<1> DEFINE conv == ConvOf(cb)
<1>1. conv \in ConvSet
  BY ConvOfType
<1>2. conv.kind \in ConvKinds /\ conv.gives \in Nat
  BY <1>1 DEF ConvSet
<1>3. r \in Outcomes(conv, n)
  BY DEF Returns
<1> HIDE DEF conv
<1> QED
  BY <1>2, <1>3 DEF Outcomes, Stores, Fails, DropHeader, ClearIfShort, Huge, ConvKinds

\* A callback given an input of the declared length, or any input if none is declared,
\* stores and returns its declared output length, unless that is variable.
LEMMA ReturnsFit ==
  ASSUME NEW cb, NEW n \in Nat, NEW len_in \in Nat, NEW len_out \in Nat,
         FitsOutput(ConvOf(cb), len_in, len_out), len_in \in {0, n},
         NEW r \in Returns(cb, n)
  PROVE  r.wrote <= len_out /\ (r.rv >= 0 => r.rv = len_out)
BY DEF FitsOutput, Returns, Outcomes, Stores, Fails, ClearIfShort

----------------------------------------------------------------------------
(* The items constructors leave in the queue                                 *)

\* An item straight from its constructor.
Fresh(item) ==
  /\ item \in ItemSet
  /\ WellMade(item)
  /\ item.buf = 0 /\ item.state # "released"
  /\ "ecu_state" \notin Failures => item.mem = "live"

LEMMA SourceFresh ==
  ASSUME NEW op \in SourceOps, NEW f \in Formats PROVE Fresh(SourceItem(op, f))
<1>1. Format(f).frame_len \in Nat
  BY FormatType
<1> QED
  BY <1>1 DEF Fresh, SourceItem, Item, Callback, ItemSet, WellMade, Types, AssertedLen,
       SourceOps, SinkOps, ProcOps

LEMMA SinkFresh ==
  ASSUME NEW op \in SinkOps, NEW f \in Formats PROVE Fresh(SinkItem(op, f))
<1>1. Format(f).frame_len \in Nat
  BY FormatType
<1> QED
  BY <1>1 DEF Fresh, SinkItem, Item, Callback, ItemSet, WellMade, Types, AssertedLen,
       SourceOps, SinkOps, ProcOps

\* A processing item whose callback keeps to the item's lengths is fresh.
LEMMA ProcFresh ==
  ASSUME NEW op \in ProcOps, NEW what \in Formats \cup Codecs,
         NEW len_in \in Nat, NEW len_out \in Nat, NEW exit \in BOOLEAN,
         NEW state \in {"null", "held"}, state = "held" => exit,
         ConvOf(Callback(op, what, 0)).asserts \in {0, len_in},
         len_out = 0 \/ FitsOutput(ConvOf(Callback(op, what, 0)), len_in, len_out)
  PROVE  Fresh(Item("PROC", len_in, len_out, Callback(op, what, 0), exit, state))
<1> DEFINE cb == Callback(op, what, 0)
           item == Item("PROC", len_in, len_out, cb, exit, state)
<1>1. cb.op = op /\ cb.what = what /\ cb.blk = 0
  BY DEF Callback
<1>2. item \in ItemSet
  BY DEF Item, ItemSet, Types, Callback
<1>3. /\ item.type = "PROC" /\ item.len_in = len_in /\ item.len_out = len_out
      /\ item.proc = cb /\ item.exit = exit /\ item.state = state /\ item.mem = "live"
      /\ item.buf = 0
  BY DEF Item
<1>4. op \notin SinkOps /\ op \notin SourceOps \cup {"NULL"}
  BY DEF ProcOps, SinkOps, SourceOps
<1>5. AssertedLen(cb) = ConvOf(cb).asserts
  BY <1>1 DEF AssertedLen
<1> HIDE DEF cb, item
<1>6. WellMade(item)
  BY <1>1, <1>3, <1>4, <1>5 DEF WellMade, cb
<1> QED
  BY <1>2, <1>3, <1>6 DEF Fresh, item, cb

LEMMA FmtFresh ==
  ASSUME NEW op \in {"to_canon", "from_canon"}, NEW f \in Formats PROVE Fresh(FmtItem(op, f))
<1> DEFINE len == Format(f).frame_len
           canon == CanonLen(Format(f).codec)
<1>1. len \in Nat /\ canon \in Nat
  BY FormatType, CodecType DEF CanonLen
<1>2. /\ Format(f).to_canon.asserts \in {0, len}
      /\ Format(f).from_canon.asserts \in {0, canon}
      /\ canon = 0 \/ FitsOutput(Format(f).to_canon, len, canon)
      /\ len = 0 \/ FitsOutput(Format(f).from_canon, canon, len)
  BY FormatContract
<1> HIDE DEF len, canon
<1>3. CASE op = "to_canon"
  <2>1. FmtItem(op, f) = Item("PROC", len, canon, Callback(op, f, 0), FALSE, "null")
    BY <1>3 DEF FmtItem, len, canon
  <2>2. ConvOf(Callback(op, f, 0)) = Format(f).to_canon
    BY <1>3 DEF ConvOf, Callback
  <2> QED
    BY <1>1, <1>2, <1>3, <2>1, <2>2, ProcFresh DEF ProcOps
<1>4. CASE op = "from_canon"
  <2>1. FmtItem(op, f) = Item("PROC", canon, len, Callback(op, f, 0), FALSE, "null")
    BY <1>4 DEF FmtItem, len, canon
  <2>2. ConvOf(Callback(op, f, 0)) = Format(f).from_canon
    BY <1>4 DEF ConvOf, Callback
  <2> QED
    BY <1>1, <1>2, <1>4, <2>1, <2>2, ProcFresh DEF ProcOps
<1> QED
  BY <1>3, <1>4

LEMMA CodecFresh ==
  ASSUME NEW op \in {"encode", "decode"}, NEW c \in Codecs \ {"PCM"} PROVE Fresh(CodecItem(op, c))
<1> DEFINE enc_len == Format(CodecDesc(c).enc_fmt).frame_len
           dec_len == Format(CodecDesc(c).dec_fmt).frame_len
           pcm == CanonLen("PCM")
<1>1. enc_len \in Nat /\ dec_len \in Nat /\ pcm \in Nat
  BY FormatType, CodecType DEF CanonLen
<1>2. /\ CodecDesc(c).encode.asserts \in {0, pcm}
      /\ CodecDesc(c).decode.asserts \in {0, dec_len}
      /\ enc_len = 0 \/ FitsOutput(CodecDesc(c).encode, pcm, enc_len)
      /\ FitsOutput(CodecDesc(c).decode, dec_len, pcm)
  BY CodecContract
<1> HIDE DEF enc_len, dec_len, pcm
<1>3. CASE op = "encode"
  <2>1. CodecItem(op, c) = Item("PROC", pcm, enc_len, Callback(op, c, 0), TRUE, "held")
    BY <1>3 DEF CodecItem, enc_len, pcm
  <2>2. ConvOf(Callback(op, c, 0)) = CodecDesc(c).encode
    BY <1>3 DEF ConvOf, Callback
  <2> QED
    BY <1>1, <1>2, <1>3, <2>1, <2>2, ProcFresh DEF ProcOps
<1>4. CASE op = "decode"
  <2>1. CodecItem(op, c) = Item("PROC", dec_len, pcm, Callback(op, c, 0), TRUE, "held")
    BY <1>4 DEF CodecItem, dec_len, pcm
  <2>2. ConvOf(Callback(op, c, 0)) = CodecDesc(c).decode
    BY <1>4 DEF ConvOf, Callback
  <2> QED
    BY <1>1, <1>2, <1>4, <2>1, <2>2, ProcFresh DEF ProcOps
<1> QED
  BY <1>3, <1>4

LEMMA EcuFresh == ASSUME NEW c \in Codecs, HasEcu(c) PROVE Fresh(EcuItem(c))
<1>1. c \in Codecs \ {"PCM"}
  BY DEF HasEcu
<1>2. Format(CodecDesc(c).dec_fmt).frame_len = 33
  BY <1>1, CodecContract
<1> QED
  BY <1>2 DEF Fresh, EcuItem, Item, Callback, ItemSet, WellMade, Types, AssertedLen,
       ConvOf, EcuFr, Conv, FitsOutput, SourceOps, SinkOps, ProcOps

\* add_item's item, that a failed constructor leaves: its callback is NULL.
LEMMA ZeroFresh ==
  /\ Fresh(ZeroItem)
  /\ "ecu_state" \in Failures => Fresh([ZeroItem EXCEPT !.mem = "freed"])
BY DEF Fresh, ZeroItem, Item, NULL, Callback, ItemSet, WellMade, Types, AssertedLen,
     SourceOps, SinkOps, ProcOps

\* Whatever a constructor is called for and however it ends, the item it links is fresh.
LEMMA ResultsFresh ==
  ASSUME NEW call \in Calls, NEW r \in Results(call), r.add # <<>>
  PROVE  Fresh(r.add[1])
<1> USE DEF Links, LinksNothing, IfFails, NoMemory
<1>1. CASE call \in SourceCalls
  <2>1. PICK op \in SourceOps, f \in Formats : call = Call(op, f)
    BY <1>1 DEF SourceCalls
  <2>2. call.fn = op /\ call.arg = f
    BY <2>1 DEF Call
  <2>3. r = Links(SourceItem(op, f), 0)
    BY <2>2 DEF Results, QueueFile, QueueRtp, QueueAlsa, SourceOps
  <2> QED
    BY <2>3, SourceFresh
<1>2. CASE call \in SinkCalls
  <2>1. PICK op \in SinkOps, f \in Formats : call = Call(op, f)
    BY <1>2 DEF SinkCalls
  <2>2. call.fn = op /\ call.arg = f
    BY <2>1 DEF Call
  <2>3. r = Links(SinkItem(op, f), 0)
    BY <2>2 DEF Results, QueueFile, QueueRtp, QueueAlsa, SinkOps, SourceOps
  <2> QED
    BY <2>3, SinkFresh
<1>3. CASE call \in FmtCalls
  <2>1. PICK op \in {"to_canon", "from_canon"}, f \in Formats : call = Call(op, f)
    BY <1>3 DEF FmtCalls
  <2>2. call.fn = op /\ call.arg = f
    BY <2>1 DEF Call
  <2>3. r = Links(FmtItem(op, f), 0)
    BY <2>2 DEF Results, QueueFmt
  <2> QED
    BY <2>3, FmtFresh
<1>4. CASE call \in CodecCalls
  <2>1. PICK op \in {"encode", "decode"}, c \in Codecs \ {"PCM"} : call = Call(op, c)
    BY <1>4 DEF CodecCalls
  <2>2. call.fn = op /\ call.arg = c
    BY <2>1 DEF Call
  <2>3. r = Links(CodecItem(op, c), 0) \/ r = Links(ZeroItem, EINVAL)
    BY <2>2 DEF Results, QueueCodec
  <2> QED
    BY <2>3, CodecFresh, ZeroFresh
<1>5. CASE call \in EcuCalls
  <2>1. PICK c \in Codecs : call = Call("ecu", c)
    BY <1>5 DEF EcuCalls
  <2>2. call.fn = "ecu" /\ call.arg = c
    BY <2>1 DEF Call
  <2>3. HasEcu(c)
    BY <2>2 DEF Results, QueueEcu
  <2>4. \/ r = Links(EcuItem(c), 0)
        \/ "ecu_state" \in Failures /\ r = Links([ZeroItem EXCEPT !.mem = "freed"], ENOMEM)
    BY <2>2, <2>3 DEF Results, QueueEcu
  <2> QED
    BY <2>3, <2>4, EcuFresh, ZeroFresh
<1> QED
  BY <1>1, <1>2, <1>3, <1>4, <1>5 DEF Calls

\* An item linked for a call does what was called for, or has no callback; only a
\* failed ecu constructor frees it.
LEMMA ResultsOf ==
  ASSUME NEW call \in Calls, NEW r \in Results(call), r.add # <<>>
  PROVE  /\ \/ r.add[1].proc = NULL
            \/ r.add[1].proc.op = call.fn /\ r.add[1].proc.what = call.arg
         /\ call.fn # "ecu" => r.add[1].mem = "live"
<1> USE DEF Links, LinksNothing, IfFails, NoMemory, Item, Callback
<1>1. CASE call \in SourceCalls \cup SinkCalls
  <2>1. PICK op \in SourceOps \cup SinkOps, f \in Formats : call = Call(op, f)
    BY <1>1 DEF SourceCalls, SinkCalls
  <2>2. call.fn = op /\ call.arg = f
    BY <2>1 DEF Call
  <2>3. r \in {Links(SourceItem(op, f), 0), Links(SinkItem(op, f), 0)}
    BY <2>2 DEF Results, QueueFile, QueueRtp, QueueAlsa, SourceOps, SinkOps
  <2> QED
    BY <2>2, <2>3 DEF SourceItem, SinkItem
<1>2. CASE call \in FmtCalls
  <2>1. PICK op \in {"to_canon", "from_canon"}, f \in Formats : call = Call(op, f)
    BY <1>2 DEF FmtCalls
  <2>2. call.fn = op /\ call.arg = f
    BY <2>1 DEF Call
  <2>3. r = Links(FmtItem(op, f), 0)
    BY <2>2 DEF Results, QueueFmt
  <2> QED
    BY <2>2, <2>3 DEF FmtItem
<1>3. CASE call \in CodecCalls
  <2>1. PICK op \in {"encode", "decode"}, c \in Codecs \ {"PCM"} : call = Call(op, c)
    BY <1>3 DEF CodecCalls
  <2>2. call.fn = op /\ call.arg = c
    BY <2>1 DEF Call
  <2>3. r = Links(CodecItem(op, c), 0) \/ r = Links(ZeroItem, EINVAL)
    BY <2>2 DEF Results, QueueCodec
  <2> QED
    BY <2>2, <2>3 DEF CodecItem, ZeroItem
<1>4. CASE call \in EcuCalls
  <2>1. PICK c \in Codecs : call = Call("ecu", c)
    BY <1>4 DEF EcuCalls
  <2>2. call.fn = "ecu" /\ call.arg = c
    BY <2>1 DEF Call
  <2>3. r \in {Links(EcuItem(c), 0), Links([ZeroItem EXCEPT !.mem = "freed"], ENOMEM)}
    BY <2>2 DEF Results, QueueEcu
  <2> QED
    BY <2>2, <2>3 DEF EcuItem, ZeroItem
<1> QED
  BY <1>1, <1>2, <1>3, <1>4 DEF Calls

----------------------------------------------------------------------------
(* Items after their construction                                            *)

LEMMA SameMakeKeeps ==
  ASSUME AllWellMade, DOMAIN items' = DOMAIN items, Len(items') = Len(items),
         items \in Seq(ItemSet),
         \A i \in DOMAIN items : SameMake(items[i], items'[i])
  PROVE  /\ AllWellMade'
         /\ ExactSources' = ExactSources
         /\ LengthsMatch(items) => LengthsMatch(items')
         /\ SourceToSink(items) => SourceToSink(items')
<1>1. \A i \in 1..Len(items) : i \in DOMAIN items
  OBVIOUS
<1>2. AllWellMade'
  BY DEF AllWellMade, WellMade, SameMake
<1>3. ExactSources' = ExactSources
  BY DEF ExactSources, SameMake
<1>4. LengthsMatch(items) => LengthsMatch(items')
  BY <1>1 DEF LengthsMatch, MatchesPrevious, SameMake
<1>5. SourceToSink(items) => SourceToSink(items')
  BY <1>1 DEF SourceToSink, SameMake
<1> QED
  BY <1>2, <1>3, <1>4, <1>5


LEMMA WithBufType ==
  ASSUME NEW item \in ItemSet
  PROVE  /\ WithBuf(item) \in ItemSet /\ SameMake(item, WithBuf(item))
         /\ WithBuf(item).mem = item.mem /\ WithBuf(item).state = item.state
         /\ item.type # "SINK" => WithBuf(item).buf = BufSize(WithBuf(item))
         /\ item.buf # -1 => WithBuf(item).buf # -1
BY DEF WithBuf, BufSize, VAR_BUF_SIZE, ItemSet, SameMake

LEMMA DeliveriesType ==
  ASSUME NEW cb, cb.blk \in Nat PROVE Deliveries(cb) \subseteq Nat
<1>1. \A n \in Nat : 2 * (n \div 2) \in Nat
  OBVIOUS
<1> QED
  BY <1>1, ProcQueueAssumption DEF Deliveries

LEMMA ConvertedType ==
  ASSUME NEW item \in ItemSet, NEW data PROVE Converted(item.proc, data) \in DataKinds
<1> DEFINE cb == item.proc
<1>1. cb.what \in Formats \cup Codecs \cup {"none"}
  BY DEF ItemSet
<1>2. "PCM" \in Codecs /\ "gsm" \in Formats
  BY DEF Codecs, Formats
<1> HIDE DEF cb
<1>3. Gives(cb) \in DataKinds
  BY <1>1, <1>2, FormatType, CodecType DEF Gives, DataKinds
<1> QED
  BY <1>3 DEF Converted, DataKinds, cb

----------------------------------------------------------------------------
(* The steps of pq_execute                                                   *)

USE ProcQueueAssumption

\* A callback that returned n >= 0: what becomes of its frame.
ReturnStep(n) ==
  /\ Callable /\ UNCHANGED fault
  /\ n \in Nat /\ at' = NextItem /\ rv' = 0
  /\ \/ /\ Cb.op \in SourceOps /\ n \in Deliveries(Cb)
        /\ flight' = Frame(n, Cb.what, taken + 1)
        /\ taken' = taken + 1 /\ UNCHANGED sunk
     \/ /\ Cb.op \in SinkOps /\ n = 0
        /\ flight' = NoFrame
        /\ sunk' = Append(sunk, flight) /\ UNCHANGED taken
     \/ /\ Cb.op \in ProcOps /\ \E r \in Returns(Cb, flight.len) : r.rv = n
        /\ flight' = Frame(n, Converted(Cb, flight.data), flight.id)
        /\ UNCHANGED <<taken, sunk>>

\* A callback that returned an error.
ErrorStep ==
  /\ at' = 0 /\ rv' = -1
  /\ taken' = taken \/ (Cb.op \in SourceOps /\ taken' = taken + 1)
  /\ UNCHANGED <<flight, sunk, fault>>

\* A call that did not return.
CrashStep ==
  /\ Executing /\ UNCHANGED <<at, flight, rv, taken, sunk>>
  /\ \/ fault' = "null_proc" /\ Cb = NULL
     \/ fault' = "assert" /\ AssertedLen(Cb) \notin {0, flight.len}
     \/ /\ fault' = "overrun"
        /\ Callable /\ Cb.op \notin SinkOps
        /\ \E n \in Stored : n > items[at].buf

\* Every step of pq_execute is one of these, and keeps its variables typed.
LEMMA ExecOutcome ==
  ASSUME PqTypeOK, fault = "none", ExecStep
  PROVE  /\ UNCHANGED <<listVars, head, dpc, avail>>
         /\ Executing /\ at \in DOMAIN items
         /\ PqTypeOK'
         /\ ErrorStep \/ CrashStep \/ \E n \in Nat : ReturnStep(n)
<1> USE DEF execVars, ioVars
<1>1. /\ items \in Seq(ItemSet) /\ at \in 0..Len(items) /\ flight \in FrameSet
      /\ avail \in Nat /\ taken \in 0..avail /\ sunk \in Seq(FrameSet) /\ dev \in 0..DevCap
  BY DEF PqTypeOK
<1>2. Executing
  BY DEF ExecStep, CallCrashes, Callable, SourceDelivers, SourceEnds, SourceFails,
       SinkAccepts, SinkFails, Processed, ProcessingFails, Overruns
<1>3. at \in DOMAIN items /\ items[at] \in ItemSet
  BY <1>1, <1>2 DEF Executing
<1>4. Cb.blk \in Nat /\ flight.len \in Nat /\ flight.data \in DataKinds /\ flight.id \in Nat
  BY <1>1, <1>3 DEF Cb, ItemSet, FrameSet
<1> DEFINE Goal ==
      /\ UNCHANGED <<listVars, head, dpc, avail>>
      /\ taken' \in 0..avail /\ sunk' \in Seq(FrameSet) /\ dev' \in 0..DevCap
      /\ flight' \in FrameSet
      /\ ErrorStep \/ CrashStep \/ \E n \in Nat : ReturnStep(n)
<1>5. ASSUME CallCrashes PROVE Goal
  BY <1>1, <1>2, <1>5 DEF CallCrashes, Crash, CrashStep
<1>6. ASSUME SourceDelivers PROVE Goal
  <2>1. PICK n \in Deliveries(Cb) : n <= items[at].buf /\ Returned(n, Cb.what, taken + 1)
    BY <1>6 DEF SourceDelivers
  <2>2. n \in Nat
    BY <1>4, DeliveriesType
  <2>3. Cb.what \in DataKinds
    BY <1>3 DEF Cb, ItemSet, DataKinds
  <2>4. flight' \in FrameSet /\ taken' \in 0..avail
    BY <1>1, <1>6, <2>1, <2>2, <2>3 DEF Returned, Frame, FrameSet, SourceDelivers
  <2>5. ReturnStep(n)
    BY <1>6, <2>1, <2>2 DEF ReturnStep, Returned, SourceDelivers
  <2> QED
    BY <1>1, <1>6, <2>1, <2>2, <2>4, <2>5 DEF Returned, SourceDelivers
<1>7. ASSUME SourceEnds \/ SourceFails PROVE Goal
  BY <1>1, <1>7 DEF SourceEnds, SourceFails, Aborted, ErrorStep
<1>8. ASSUME SinkAccepts PROVE Goal
  <2>1. Returned(0, "none", 0) /\ Callable /\ Cb.op \in SinkOps
    BY <1>8 DEF SinkAccepts
  <2>2. flight' \in FrameSet
    BY <2>1 DEF Returned, Frame, FrameSet, DataKinds
  <2>3. ReturnStep(0)
    BY <1>8, <2>1 DEF ReturnStep, Returned, SinkAccepts, NoFrame
  <2>4. sunk' \in Seq(FrameSet) /\ dev' \in 0..DevCap
    BY <1>1, <1>8 DEF SinkAccepts
  <2> QED
    BY <1>1, <1>8, <2>1, <2>2, <2>3, <2>4 DEF Returned, SinkAccepts
<1>9. ASSUME SinkFails \/ ProcessingFails PROVE Goal
  BY <1>1, <1>9 DEF SinkFails, ProcessingFails, Aborted, ErrorStep
<1>10. ASSUME Processed PROVE Goal
  <2>1. PICK r \in Returns(Cb, flight.len) :
          r.rv >= 0 /\ Returned(r.rv, Converted(Cb, flight.data), flight.id)
    BY <1>10 DEF Processed
  <2>2. r.rv \in Nat
    BY <1>4, <2>1, ReturnsType
  <2>3. Converted(Cb, flight.data) \in DataKinds
    BY <1>3, ConvertedType DEF Cb
  <2>4. flight' \in FrameSet
    BY <1>4, <2>1, <2>2, <2>3 DEF Returned, Frame, FrameSet
  <2>5. ReturnStep(r.rv)
    BY <1>10, <2>1, <2>2 DEF ReturnStep, Returned, Processed
  <2> QED
    BY <1>1, <1>10, <2>1, <2>2, <2>4, <2>5 DEF Returned, Processed
<1>11. ASSUME Overruns PROVE Goal
  BY <1>1, <1>2, <1>11 DEF Overruns, Crash, CrashStep, Callable
<1>12. Goal
  BY <1>5, <1>6, <1>7, <1>8, <1>9, <1>10, <1>11 DEF ExecStep
<1> HIDE DEF Goal
<1>13. at' \in 0..Len(items) /\ rv' \in {0, -1} /\ fault' \in Faults
  BY <1>1, <1>3, <1>12 DEF Goal, ErrorStep, CrashStep, ReturnStep, NextItem, PqTypeOK, Faults
<1>14. PqTypeOK'
  BY <1>12, <1>13 DEF Goal, PqTypeOK, listVars
<1> QED
  BY <1>2, <1>3, <1>12, <1>14 DEF Goal

----------------------------------------------------------------------------
(* The other operations of the queue: what each keeps of the items, and that *)
(* it keeps the queue's variables typed                                      *)

\* The items after the step are those before, but for buffers and releases.
KeepsItems ==
  /\ DOMAIN items' = DOMAIN items /\ Len(items') = Len(items)
  /\ \A i \in DOMAIN items : SameMake(items[i], items'[i])

LEMMA CreateType ==
  ASSUME PqTypeOK, Create PROVE PqTypeOK'
BY DEF PqTypeOK, Create, execVars, ioVars

LEMMA AddOutcome ==
  ASSUME PqTypeOK, NEW item \in ItemSet, AddItem(item)
  PROVE  /\ PqTypeOK' /\ queue = "live"
         /\ items' = Append(items, item) /\ Len(items') = Len(items) + 1
         /\ DOMAIN items' = 1..(Len(items) + 1) /\ DOMAIN items = 1..Len(items)
         /\ \A i \in DOMAIN items : items'[i] = items[i]
         /\ items'[Len(items) + 1] = item
         /\ UNCHANGED <<queue, head, execVars, dpc, ioVars, fault>>
<1>1. items \in Seq(ItemSet) /\ head \in 1..(Len(items) + 1) /\ at \in 0..Len(items)
  BY DEF PqTypeOK
<1>2. items' = Append(items, item) /\ items' \in Seq(ItemSet) /\ Len(items') = Len(items) + 1
  BY <1>1 DEF AddItem
<1>3. PqTypeOK'
  BY <1>1, <1>2 DEF PqTypeOK, AddItem, execVars, ioVars
<1> QED
  BY <1>1, <1>2, <1>3 DEF AddItem

LEMMA PrepareOutcome ==
  ASSUME PqTypeOK, Prepare \/ \E k \in DOMAIN items : PrepareFails(k)
  PROVE  /\ PqTypeOK' /\ KeepsItems /\ queue = "live"
         /\ UNCHANGED <<queue, n_items, head, execVars, dpc, ioVars, fault>>
         /\ \A i \in DOMAIN items : items'[i].mem = items[i].mem /\ items'[i].state = items[i].state
         /\ \A i \in DOMAIN items : items[i].buf # -1 => items'[i].buf # -1
         /\ Prepare =>
              \A i \in DOMAIN items' : items'[i].type # "SINK" => items'[i].buf = BufSize(items'[i])
<1>1. items \in Seq(ItemSet)
  BY DEF PqTypeOK
<1>2. /\ items' = [i \in DOMAIN items |-> items'[i]]
      /\ \A i \in DOMAIN items : items'[i] \in {items[i], WithBuf(items[i])}
      /\ Prepare => \A i \in DOMAIN items : items'[i] = WithBuf(items[i])
  BY <1>1 DEF Prepare, PrepareFails
<1>3. \A i \in DOMAIN items :
        /\ items'[i] \in ItemSet /\ SameMake(items[i], items'[i])
        /\ items'[i].mem = items[i].mem /\ items'[i].state = items[i].state
  BY <1>1, <1>2, WithBufType DEF SameMake
<1>4. items' \in Seq(ItemSet) /\ DOMAIN items' = DOMAIN items /\ Len(items') = Len(items)
  BY <1>1, <1>2, <1>3
<1>5. UNCHANGED <<queue, n_items, head, execVars, dpc, ioVars, fault>> /\ queue = "live"
  BY DEF Prepare, PrepareFails
<1>6. PqTypeOK'
  BY <1>4, <1>5 DEF PqTypeOK, execVars, ioVars
<1>7. Prepare =>
        \A i \in DOMAIN items' : items'[i].type # "SINK" => items'[i].buf = BufSize(items'[i])
  BY <1>1, <1>2, <1>3, <1>4, WithBufType DEF SameMake
<1>8. \A i \in DOMAIN items : items[i].buf # -1 => items'[i].buf # -1
  BY <1>1, <1>2, WithBufType
<1> QED
  BY <1>3, <1>4, <1>5, <1>6, <1>7, <1>8 DEF KeepsItems

LEMMA ExecBeginType ==
  ASSUME PqTypeOK, ExecBegin PROVE PqTypeOK'
<1>1. at' \in 0..Len(items) /\ flight' \in FrameSet /\ rv' \in {0, -1}
  BY DEF PqTypeOK, ExecBegin, NoFrame, Frame, FrameSet, DataKinds
<1> QED
  BY <1>1 DEF PqTypeOK, ExecBegin, listVars, ioVars

LEMMA PlayType ==
  ASSUME PqTypeOK, DevPlay PROVE PqTypeOK'
BY DEF PqTypeOK, DevPlay, listVars, execVars

LEMMA DestroyBeginType ==
  ASSUME PqTypeOK, DestroyBegin PROVE PqTypeOK'
BY DEF PqTypeOK, DestroyBegin, listVars, execVars, ioVars, Faults

\* A step of pq_destroy on the entry at the head of the list.
LEMMA DestroyEntry ==
  ASSUME PqTypeOK, AllWellMade, DestroyBuf \/ DestroyExit \/ DestroyUnlink
  PROVE  /\ PqTypeOK' /\ KeepsItems /\ head \in DOMAIN items
         /\ \A i \in DOMAIN items : i # head => items'[i] = items[i]
         /\ UNCHANGED <<queue, n_items, execVars, avail, taken, sunk, fault>>
         /\ dpc # "idle" /\ dpc' # "idle"
         /\ dpc' = "unlink" => dpc = "exit"
         /\ IF dpc = "unlink"
            THEN /\ items'[head].mem = "freed" /\ items'[head].state = items[head].state
                 /\ head' = head + 1
            ELSE items'[head].mem = items[head].mem /\ head' = head
         /\ dpc = "exit" => items'[head].state # "held"
<1> USE DEF execVars, ioVars
<1>1. /\ items \in Seq(ItemSet) /\ head \in 1..(Len(items) + 1)
      /\ dpc \in {"buf", "exit", "unlink"} /\ head \in DOMAIN items /\ dev \in 0..DevCap
  BY DEF PqTypeOK, DestroyBuf, DestroyExit, DestroyUnlink
<1>2. items[head] \in ItemSet /\ WellMade(items[head])
  BY <1>1 DEF AllWellMade
<1>3. /\ UNCHANGED <<queue, n_items, execVars, avail, taken, sunk, fault>>
      /\ dev' \in {0, dev}
      /\ dpc' \in {"buf", "exit", "unlink"}
      /\ items' = [items EXCEPT ![head] = items'[head]]
      /\ items'[head] \in ItemSet /\ SameMake(items[head], items'[head])
      /\ dpc' \in {"exit", "unlink"} => head' = head
      /\ dpc' = "unlink" => dpc = "exit"
      /\ IF dpc = "unlink"
         THEN /\ items'[head].mem = "freed" /\ items'[head].state = items[head].state
              /\ head' = head + 1
         ELSE items'[head].mem = items[head].mem /\ head' = head
      /\ dpc = "exit" => items'[head].state # "held"
  <2>1. CASE DestroyBuf
    BY <1>1, <1>2, <2>1 DEF DestroyBuf, SameMake, ItemSet
  <2>2. CASE DestroyExit
    BY <1>1, <1>2, <2>2 DEF DestroyExit, SameMake, ItemSet, ReleasedState, Entry, WellMade
  <2>3. CASE DestroyUnlink
    BY <1>1, <1>2, <2>3 DEF DestroyUnlink, SameMake, ItemSet
  <2> QED
    BY <2>1, <2>2, <2>3
<1>4. /\ items' \in Seq(ItemSet) /\ DOMAIN items' = DOMAIN items /\ Len(items') = Len(items)
      /\ \A i \in DOMAIN items : i # head => items'[i] = items[i]
  BY <1>1, <1>3
<1>5. PqTypeOK'
  BY <1>1, <1>3, <1>4 DEF PqTypeOK
<1>6. KeepsItems
  BY <1>3, <1>4 DEF KeepsItems, SameMake
<1> QED
  BY <1>1, <1>3, <1>4, <1>5, <1>6

\* Its end, and its step on an entry that was freed while linked.
LEMMA DestroyEnd ==
  ASSUME PqTypeOK, DestroyStale \/ DestroyQueue
  PROVE  /\ PqTypeOK'
         /\ UNCHANGED <<items, n_items, head, execVars, ioVars>> /\ dpc # "idle"
         /\ \/ queue' = "freed" /\ dpc' = "idle" /\ UNCHANGED fault /\ head = Len(items) + 1
            \/ /\ UNCHANGED <<queue, dpc>> /\ fault' = "use_after_free"
               /\ head \in DOMAIN items /\ items[head].mem = "freed"
<1> USE DEF listVars, execVars, ioVars
<1>1. /\ items \in Seq(ItemSet) /\ head \in 1..(Len(items) + 1) /\ dpc = "buf"
      /\ UNCHANGED <<items, n_items, head, execVars, ioVars>>
  BY DEF PqTypeOK, DestroyStale, DestroyQueue, Crash
<1>2. \/ queue' = "freed" /\ dpc' = "idle" /\ UNCHANGED fault /\ head = Len(items) + 1
      \/ /\ UNCHANGED <<queue, dpc>> /\ fault' = "use_after_free"
         /\ head \in DOMAIN items /\ items[head].mem = "freed"
  BY <1>1 DEF DestroyStale, DestroyQueue, Crash, Released
<1>3. PqTypeOK'
  BY <1>1, <1>2 DEF PqTypeOK, Faults
<1> QED
  BY <1>1, <1>2, <1>3

LEMMA DestroyedType ==
  ASSUME NEW item \in ItemSet
  PROVE  /\ Destroyed(item) \in ItemSet /\ SameMake(item, Destroyed(item))
         /\ Destroyed(item).mem = "freed"
         /\ WellMade(item) => Destroyed(item).state # "held"
<1> DEFINE buf == IF item.buf > 0 THEN -1 ELSE item.buf
<1>1. item.buf \in Nat \cup {-1}
  BY DEF ItemSet
<1>2. buf \in Nat \cup {-1} /\ ReleasedState(item) \in {item.state, "released"}
  BY <1>1 DEF ReleasedState
<1>3. Destroyed(item) = [item EXCEPT !.buf = buf, !.state = ReleasedState(item), !.mem = "freed"]
  BY DEF Destroyed
<1> HIDE DEF buf
<1>4. WellMade(item) => ReleasedState(item) # "held"
  BY DEF WellMade, ReleasedState
<1> QED
  BY <1>2, <1>3, <1>4 DEF ItemSet, SameMake

\* The whole of pq_destroy in one step.
LEMMA DestroyWholeOutcome ==
  ASSUME PqTypeOK, AllWellMade, NEW f \in Faults, DestroyWhole(f)
  PROVE  /\ PqTypeOK' /\ KeepsItems
         /\ UNCHANGED <<n_items, execVars, avail, taken, sunk>>
         /\ head' = Len(items) + 1 /\ dpc' = "idle"
         /\ queue' = IF queue = "live" THEN "freed" ELSE queue
         /\ fault' \in {f, "use_after_free", "double_free", "none"}
         /\ \A i \in DOMAIN items :
              IF i < head THEN items'[i] = items[i]
              ELSE items'[i].mem = "freed" /\ items'[i].state # "held"
<1>1. /\ items \in Seq(ItemSet) /\ head \in 1..(Len(items) + 1)
  BY DEF PqTypeOK
<1>2. items' = [i \in DOMAIN items |-> IF i < head THEN items[i] ELSE Destroyed(items[i])]
  BY DEF DestroyWhole
<1>3. \A i \in DOMAIN items : items[i] \in ItemSet /\ WellMade(items[i])
  BY <1>1 DEF AllWellMade
<1>4. \A i \in DOMAIN items :
        /\ items'[i] \in ItemSet /\ SameMake(items[i], items'[i])
        /\ IF i < head THEN items'[i] = items[i]
           ELSE items'[i].mem = "freed" /\ items'[i].state # "held"
  BY <1>2, <1>3, DestroyedType DEF SameMake
<1>5. items' \in Seq(ItemSet) /\ DOMAIN items' = DOMAIN items /\ Len(items') = Len(items)
  BY <1>1, <1>2, <1>4
<1>6. fault' \in {f, "use_after_free", "double_free", "none"}
  BY DEF DestroyWhole, DestroyFault
<1>7. /\ UNCHANGED <<n_items, execVars, avail, taken, sunk>> /\ dev' = 0
      /\ head' = Len(items) + 1 /\ dpc' = "idle"
      /\ queue' = IF queue = "live" THEN "freed" ELSE queue
  BY DEF DestroyWhole
<1>8. PqTypeOK'
  BY <1>1, <1>5, <1>6, <1>7 DEF PqTypeOK, execVars, Faults
<1> QED
  BY <1>4, <1>5, <1>6, <1>7, <1>8 DEF KeepsItems
============================================================================
