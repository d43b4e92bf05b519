-------------------------- MODULE GapkChainProofs ---------------------------
(* Proofs about the processing chain of osmo-gapk: the conversions that      *)
(* make_processing_chain puts together for any pair of formats fit together, *)
(* in their lengths and in what they convert.                                *)
EXTENDS GapkFramesProofs

USE ProcQueueAssumption, AppAssumption

----------------------------------------------------------------------------
(* The calls of the chain                                                    *)

\* the kinds of frame that the callback of a call takes and gives
KindIn(call) == Takes(Callback(call.fn, call.arg, 0))
KindOut(call) == Gives(Callback(call.fn, call.arg, 0))

\* The calls s turn frames of kind a into frames of kind b.
Leads(s, a, b) ==
  IF s = <<>> THEN a = b
  ELSE /\ KindIn(s[1]) = a /\ KindOut(s[Len(s)]) = b
       /\ \A k \in 2..Len(s) : KindOut(s[k - 1]) = KindIn(s[k])

LEMMA LeadsOne == ASSUME NEW call PROVE Leads(<<call>>, KindIn(call), KindOut(call))
BY DEF Leads

LEMMA LeadsConcat ==
  ASSUME NEW S, NEW s \in Seq(S), NEW t \in Seq(S), NEW a, NEW b, NEW c,
         Leads(s, a, b), Leads(t, b, c)
  PROVE  Leads(s \o t, a, c)
<1>1. CASE s = <<>>
  BY <1>1, ConcatEmptySeq DEF Leads
<1>2. CASE t = <<>>
  BY <1>2, ConcatEmptySeq DEF Leads
<1>3. CASE s # <<>> /\ t # <<>>
  <2> DEFINE u == s \o t
  <2>1. /\ Len(s) \in Nat \ {0} /\ Len(t) \in Nat \ {0}
        /\ Len(u) = Len(s) + Len(t) /\ u # <<>>
        /\ \A k \in 1..Len(s) : u[k] = s[k]
        /\ \A k \in 1..Len(t) : u[Len(s) + k] = t[k]
    BY <1>3
  <2> HIDE DEF u
  <2>2. u[1] = s[1] /\ u[Len(s)] = s[Len(s)] /\ u[Len(s) + 1] = t[1] /\ u[Len(u)] = t[Len(t)]
    BY <2>1
  <2>3. ASSUME NEW k \in 2..Len(u) PROVE KindOut(u[k - 1]) = KindIn(u[k])
    <3>1. CASE k <= Len(s)
      BY <1>3, <2>1, <2>3, <3>1 DEF Leads
    <3>2. CASE k = Len(s) + 1
      BY <1>3, <2>1, <2>2, <3>2 DEF Leads
    <3>3. CASE k > Len(s) + 1
      <4> DEFINE j == k - Len(s)
      <4>1. j \in 2..Len(t) /\ k = Len(s) + j /\ k - 1 = Len(s) + (j - 1) /\ j - 1 \in 1..Len(t)
        BY <2>1, <2>3, <3>3
      <4> HIDE DEF j
      <4>2. u[k] = t[j] /\ u[k - 1] = t[j - 1]
        BY <2>1, <4>1
      <4> QED
        BY <1>3, <4>1, <4>2 DEF Leads
    <3>4. k \in Int /\ Len(s) \in Int
      BY <2>1, <2>3
    <3> QED
      BY <3>1, <3>2, <3>3, <3>4
  <2>4. Leads(u, a, c)
    BY <1>3, <2>1, <2>2, <2>3 DEF Leads
  <2> QED
    BY <2>4 DEF u
<1> QED
  BY <1>1, <1>2, <1>3

\* A codec's encoder and decoder work on formats of this codec.
LEMMA OwnFormats ==
  ASSUME NEW c \in Codecs \ {"PCM"}
  PROVE  Format(CodecDesc(c).dec_fmt).codec = c /\ Format(CodecDesc(c).enc_fmt).codec = c
<1>1. /\ CodecDesc("HR").dec_fmt = "hr-ref-dec" /\ CodecDesc("HR").enc_fmt = "hr-ref-enc"
      /\ CodecDesc("FR").dec_fmt = "gsm" /\ CodecDesc("FR").enc_fmt = "gsm"
      /\ CodecDesc("EFR").dec_fmt = "amr-efr" /\ CodecDesc("EFR").enc_fmt = "amr-efr"
      /\ CodecDesc("AMR").dec_fmt = "amr-opencore" /\ CodecDesc("AMR").enc_fmt = "amr-opencore"
  BY DEF CodecDesc, Codec, CodecPcm, CodecHr, CodecFr, CodecEfr, CodecAmr
<1>2. /\ Format("hr-ref-dec").codec = "HR" /\ Format("hr-ref-enc").codec = "HR"
      /\ Format("gsm").codec = "FR" /\ Format("amr-efr").codec = "EFR"
      /\ Format("amr-opencore").codec = "AMR"
  BY DEF Format, Fmt, FmtHrRefDec, FmtHrRefEnc, FmtGsm, FmtAmrEfr, FmtAmrOpencore
<1>3. c \in {"HR", "FR", "EFR", "AMR"}
  BY DEF Codecs
<1> QED
  BY <1>1, <1>2, <1>3

LEMMA ConvertLeads ==
  ASSUME NEW f \in Formats, NEW g \in Formats, Format(f).codec = Format(g).codec
  PROVE  Leads(Convert(f, g), f, g)
<1>1. /\ KindIn(Call("to_canon", f)) = f /\ KindOut(Call("to_canon", f)) = Format(f).codec
      /\ KindIn(Call("from_canon", g)) = Format(g).codec /\ KindOut(Call("from_canon", g)) = g
  BY DEF KindIn, KindOut, Call, Callback, Takes, Gives
<1> QED
  BY <1>1 DEF Leads, Convert

\* what a chain has between its decoding and its encoding half
Middle(o) ==
  IF NeedDec(o) THEN "PCM" ELSE IF o.fmt_in # o.fmt_out THEN CodecIn(o) ELSE o.fmt_in

LEMMA DecodeLeads ==
  ASSUME NEW o \in OptionSet, OptionsRet(o) = 0
  PROVE  Leads(DecodeCalls(o), o.fmt_in, Middle(o)) /\ DecodeCalls(o) \in Seq(MidCalls)
<1>1. /\ o.fmt_in \in Formats
      /\ NeedDec(o) => HasLib(CodecIn(o)) /\ CodecIn(o) \in Codecs \ {"PCM"}
  BY AcceptedOptions
<1>2. CASE NeedDec(o)
  <2> DEFINE f == CodecDesc(CodecIn(o)).dec_fmt
             decode == Call("decode", CodecIn(o))
  <2>1. f \in Formats /\ Format(f).codec = CodecIn(o)
    BY <1>1, <1>2, CodecFormats, OwnFormats
  <2>2. KindIn(decode) = f /\ KindOut(decode) = "PCM"
    BY DEF KindIn, KindOut, Call, Callback, Takes, Gives
  <2>3. decode \in MidCalls
    BY <1>1, <1>2 DEF MidCalls, CodecCalls, Call
  <2>4. DecodeCalls(o) = Convert(o.fmt_in, f) \o <<decode>>
    BY <1>2 DEF DecodeCalls
  <2> HIDE DEF f, decode
  <2>5. Leads(Convert(o.fmt_in, f), o.fmt_in, f) /\ Convert(o.fmt_in, f) \in Seq(MidCalls)
    BY <1>1, <2>1, ConvertLeads, ConvertCalls DEF CodecIn
  <2>6. Leads(<<decode>>, f, "PCM") /\ <<decode>> \in Seq(MidCalls)
    BY <2>2, <2>3, LeadsOne
  <2> QED
    BY <1>2, <2>4, <2>5, <2>6, LeadsConcat, ConcatProperties DEF Middle
<1>3. CASE ~NeedDec(o) /\ o.fmt_in # o.fmt_out
  <2> DEFINE call == Call("to_canon", o.fmt_in)
  <2>1. KindIn(call) = o.fmt_in /\ KindOut(call) = CodecIn(o)
    BY DEF KindIn, KindOut, Call, Callback, Takes, Gives, CodecIn
  <2>2. DecodeCalls(o) = <<call>> /\ Middle(o) = CodecIn(o) /\ call \in MidCalls
    BY <1>1, <1>3, ConvertMid DEF DecodeCalls, Middle
  <2> HIDE DEF call
  <2> QED
    BY <2>1, <2>2, LeadsOne
<1>4. CASE ~NeedDec(o) /\ o.fmt_in = o.fmt_out
  BY <1>4 DEF DecodeCalls, Middle, Leads
<1> QED
  BY <1>2, <1>3, <1>4

LEMMA EncodeLeads ==
  ASSUME NEW o \in OptionSet, OptionsRet(o) = 0
  PROVE  Leads(EncodeCalls(o), Middle(o), o.fmt_out) /\ EncodeCalls(o) \in Seq(MidCalls)
<1>1. /\ o.fmt_out \in Formats
      /\ NeedEnc(o) => HasLib(CodecOut(o)) /\ CodecOut(o) \in Codecs \ {"PCM"}
  BY AcceptedOptions
<1>2. CASE NeedEnc(o)
  <2> DEFINE f == CodecDesc(CodecOut(o)).enc_fmt
             encode == Call("encode", CodecOut(o))
  <2>1. f \in Formats /\ Format(f).codec = CodecOut(o)
    BY <1>1, <1>2, CodecFormats, OwnFormats
  <2>2. KindIn(encode) = "PCM" /\ KindOut(encode) = f
    BY DEF KindIn, KindOut, Call, Callback, Takes, Gives
  <2>3. encode \in MidCalls
    BY <1>1, <1>2 DEF MidCalls, CodecCalls, Call
  <2>4. EncodeCalls(o) = <<encode>> \o Convert(f, o.fmt_out)
    BY <1>2 DEF EncodeCalls
  <2>5. Middle(o) = "PCM"
    BY <1>2 DEF Middle, NeedDec, NeedEnc, Transcodes, CodecIn, CodecOut
  <2> HIDE DEF f, encode
  <2>6. Leads(Convert(f, o.fmt_out), f, o.fmt_out) /\ Convert(f, o.fmt_out) \in Seq(MidCalls)
    BY <1>1, <2>1, ConvertLeads, ConvertCalls DEF CodecOut
  <2>7. Leads(<<encode>>, "PCM", f) /\ <<encode>> \in Seq(MidCalls)
    BY <2>2, <2>3, LeadsOne
  <2>8. Leads(<<encode>> \o Convert(f, o.fmt_out), "PCM", o.fmt_out)
    BY <2>6, <2>7, LeadsConcat
  <2>9. <<encode>> \o Convert(f, o.fmt_out) \in Seq(MidCalls)
    BY <2>6, <2>7, ConcatProperties
  <2> QED
    BY <2>4, <2>5, <2>8, <2>9
<1>3. CASE ~NeedEnc(o) /\ o.fmt_in # o.fmt_out
  <2> DEFINE call == Call("from_canon", o.fmt_out)
  <2>1. KindIn(call) = CodecOut(o) /\ KindOut(call) = o.fmt_out
    BY DEF KindIn, KindOut, Call, Callback, Takes, Gives, CodecOut
  <2>2. EncodeCalls(o) = <<call>> /\ call \in MidCalls
    BY <1>1, <1>3, ConvertMid DEF EncodeCalls
  <2>3. Middle(o) = CodecOut(o)
    BY <1>3 DEF Middle, NeedDec, NeedEnc, Transcodes
  <2> HIDE DEF call
  <2> QED
    BY <2>1, <2>2, <2>3, LeadsOne
<1>4. CASE ~NeedEnc(o) /\ o.fmt_in = o.fmt_out
  BY <1>4 DEF EncodeCalls, Middle, Leads, NeedDec, Transcodes, CodecIn, CodecOut
<1> QED
  BY <1>2, <1>3, <1>4

\* Each call of a chain takes what the call before it gives.
LEMMA ChainJoins ==
  ASSUME NEW o \in OptionSet, OptionsRet(o) = 0
  PROVE  LET calls == ChainCalls(o) IN
         \A k \in 2..Len(calls) : KindOut(calls[k - 1]) = KindIn(calls[k])
<1> DEFINE read == Call(ReadOp(o), o.fmt_in)
           write == Call(WriteOp(o), o.fmt_out)
<1>1. /\ Leads(<<read>>, o.fmt_in, o.fmt_in) /\ Leads(<<write>>, o.fmt_out, o.fmt_out)
  <2>1. KindIn(read) = o.fmt_in /\ KindOut(read) = o.fmt_in
    BY DEF KindIn, KindOut, Call, Callback, Takes, Gives, ReadOp
  <2>2. KindIn(write) = o.fmt_out /\ KindOut(write) = o.fmt_out
    BY DEF KindIn, KindOut, Call, Callback, Takes, Gives, WriteOp
  <2> QED
    BY <2>1, <2>2, LeadsOne
<1>2. /\ <<read>> \in Seq(MidCalls \cup {read, write}) /\ <<write>> \in Seq(MidCalls \cup {read, write})
      /\ DecodeCalls(o) \in Seq(MidCalls \cup {read, write})
      /\ EncodeCalls(o) \in Seq(MidCalls \cup {read, write})
  BY DecodeLeads, EncodeLeads
<1> HIDE DEF read, write
<1> DEFINE decoded == <<read>> \o DecodeCalls(o)
           encoded == decoded \o EncodeCalls(o)
<1>3. Leads(decoded, o.fmt_in, Middle(o)) /\ decoded \in Seq(MidCalls \cup {read, write})
  BY <1>1, <1>2, DecodeLeads, LeadsConcat, ConcatProperties
<1> HIDE DEF decoded
<1>4. Leads(encoded, o.fmt_in, o.fmt_out) /\ encoded \in Seq(MidCalls \cup {read, write})
  BY <1>2, <1>3, EncodeLeads, LeadsConcat, ConcatProperties
<1> HIDE DEF encoded
<1>5. Leads(encoded \o <<write>>, o.fmt_in, o.fmt_out)
  BY <1>1, <1>2, <1>4, LeadsConcat
<1>6. Leads(ChainCalls(o), o.fmt_in, o.fmt_out)
  BY <1>5 DEF ChainCalls, decoded, encoded, read, write
<1>7. ChainCalls(o) # <<>>
  BY ChainShape
<1> QED
  BY <1>6, <1>7 DEF Leads

----------------------------------------------------------------------------
(* The items of the chain                                                    *)

\* what make_processing_chain may call
ChainCallSet == SourceCalls \cup SinkCalls \cup MidCalls

LEMMA KindLens ==
  /\ \A f \in Formats : KindLen(f) = Format(f).frame_len
  /\ \A c \in Codecs : KindLen(c) = CanonLen(c)
<1>1. \A c \in Codecs : c \notin Formats
  BY DEF Codecs, Formats
<1> QED
  BY <1>1 DEF KindLen

\* The item a constructor makes has the callback the call asks for, and the lengths of the
\* kinds of frame the callback takes and gives.
LEMMA MadeItems ==
  ASSUME NEW call \in ChainCallSet
  PROVE  LET item == MadeItem(call) IN
         /\ item.proc.op = call.fn /\ item.proc.what = call.arg
         /\ Takes(item.proc) = KindIn(call) /\ Gives(item.proc) = KindOut(call)
         /\ call \in SourceCalls => item.type = "SOURCE" /\ item.len_in = 0
         /\ call \in SinkCalls => item.type = "SINK"
         /\ call \notin SourceCalls => item.len_in = KindLen(KindIn(call))
         /\ call \notin SinkCalls => item.len_out = KindLen(KindOut(call))
<1> USE DEF Item, KindIn, KindOut, Callback, Takes, Gives
<1>1. CASE call \in SourceCalls
  <2>1. PICK op \in SourceOps, f \in Formats : call = Call(op, f)
    BY <1>1 DEF SourceCalls
  <2>2. call.fn = op /\ call.arg = f
    BY <2>1 DEF Call
  <2>3. MadeItem(call) = SourceItem(op, f)
    BY <2>2 DEF MadeItem, SourceOps, SinkOps
  <2>4. call \notin SinkCalls
    BY <2>2 DEF SinkCalls, Call, SourceOps, SinkOps
  <2> QED
    BY <1>1, <2>2, <2>3, <2>4, KindLens DEF SourceItem, SourceOps
<1>2. CASE call \in SinkCalls
  <2>1. PICK op \in SinkOps, f \in Formats : call = Call(op, f)
    BY <1>2 DEF SinkCalls
  <2>2. call.fn = op /\ call.arg = f
    BY <2>1 DEF Call
  <2>3. MadeItem(call) = SinkItem(op, f)
    BY <2>2 DEF MadeItem, SourceOps, SinkOps
  <2>4. call \notin SourceCalls
    BY <2>2 DEF SourceCalls, Call, SourceOps, SinkOps
  <2> QED
    BY <1>2, <2>2, <2>3, <2>4, KindLens DEF SinkItem, SinkOps
<1>3. CASE call \in FmtCalls
  <2>1. PICK op \in {"to_canon", "from_canon"}, f \in Formats : call = Call(op, f)
    BY <1>3 DEF FmtCalls
  <2>2. call.fn = op /\ call.arg = f
    BY <2>1 DEF Call
  <2>3. MadeItem(call) = FmtItem(op, f)
    BY <2>2 DEF MadeItem, SourceOps, SinkOps
  <2>4. call \notin SourceCalls /\ call \notin SinkCalls
    BY <2>2 DEF SourceCalls, SinkCalls, Call, SourceOps, SinkOps
  <2>5. Format(f).codec \in Codecs
    BY FormatType
  <2> QED
    BY <2>2, <2>3, <2>4, <2>5, KindLens DEF FmtItem
<1>4. CASE call \in CodecCalls
  <2>1. PICK op \in {"encode", "decode"}, c \in Codecs \ {"PCM"} : call = Call(op, c)
    BY <1>4 DEF CodecCalls
  <2>2. call.fn = op /\ call.arg = c
    BY <2>1 DEF Call
  <2>3. MadeItem(call) = CodecItem(op, c)
    BY <2>2 DEF MadeItem, SourceOps, SinkOps
  <2>4. call \notin SourceCalls /\ call \notin SinkCalls
    BY <2>2 DEF SourceCalls, SinkCalls, Call, SourceOps, SinkOps
  <2>5. CodecDesc(c).dec_fmt \in Formats /\ CodecDesc(c).enc_fmt \in Formats /\ "PCM" \in Codecs
    BY CodecFormats DEF Codecs
  <2> QED
    BY <2>2, <2>3, <2>4, <2>5, KindLens DEF CodecItem
<1> QED
  BY <1>1, <1>2, <1>3, <1>4 DEF ChainCallSet, MidCalls

\* A constructor that cannot fail makes its item.
LEMMA ResultsMade ==
  ASSUME ConstructorsWork, NEW call \in ChainCallSet, NEW r \in Results(call)
  PROVE  r.add # <<>> /\ r.add[1] = MadeItem(call)
<1>1. /\ NoMemory = {} /\ "alsa_open" \notin Failures /\ "codec_init" \notin Failures
  BY DEF ConstructorsWork, NoMemory, IfFails
<1> USE DEF Links, LinksNothing, IfFails
<1>2. CASE call \in SourceCalls \cup SinkCalls
  <2>1. PICK op \in SourceOps \cup SinkOps, f \in Formats : call = Call(op, f)
    BY <1>2 DEF SourceCalls, SinkCalls
  <2>2. call.fn = op /\ call.arg = f
    BY <2>1 DEF Call
  <2>3. r \in QueueFile(op, f)
    BY <1>1, <2>2 DEF Results, QueueAlsa, QueueRtp, SourceOps, SinkOps
  <2> QED
    BY <1>1, <2>2, <2>3 DEF QueueFile, MadeItem, SourceOps, SinkOps
<1>3. CASE call \in FmtCalls
  <2>1. PICK op \in {"to_canon", "from_canon"}, f \in Formats : call = Call(op, f)
    BY <1>3 DEF FmtCalls
  <2>2. call.fn = op /\ call.arg = f
    BY <2>1 DEF Call
  <2> QED
    BY <1>1, <2>2 DEF Results, QueueFmt, MadeItem, SourceOps, SinkOps
<1>4. CASE call \in CodecCalls /\ HasLib(call.arg)
  <2>1. PICK op \in {"encode", "decode"}, c \in Codecs \ {"PCM"} : call = Call(op, c)
    BY <1>4 DEF CodecCalls
  <2>2. call.fn = op /\ call.arg = c
    BY <2>1 DEF Call
  <2>3. r \in QueueCodec(op, c)
    BY <2>2 DEF Results
  <2> QED
    BY <1>1, <1>4, <2>2, <2>3 DEF QueueCodec, MadeItem, SourceOps, SinkOps
<1> QED
  BY <1>2, <1>3, <1>4 DEF ChainCallSet, MidCalls

\* The calls of an accepted command line, by where they are in the chain.
LEMMA ChainCallTypes ==
  ASSUME NEW o \in OptionSet, OptionsRet(o) = 0
  PROVE  LET calls == ChainCalls(o) IN
         /\ Len(calls) \in Nat /\ Len(calls) >= 2 /\ DOMAIN calls = 1..Len(calls)
         /\ calls[1] \in SourceCalls /\ calls[Len(calls)] \in SinkCalls
         /\ \A k \in 2..(Len(calls) - 1) : calls[k] \in MidCalls
         /\ \A k \in DOMAIN calls :
              /\ calls[k] \in ChainCallSet
              /\ k # 1 => calls[k] \notin SourceCalls
              /\ k # Len(calls) => calls[k] \notin SinkCalls
<1> DEFINE calls == ChainCalls(o)
<1>1. /\ calls \in Seq(Calls) /\ Len(calls) >= 2
      /\ calls[1] = Call(ReadOp(o), o.fmt_in)
      /\ calls[Len(calls)] = Call(WriteOp(o), o.fmt_out)
      /\ \A k \in 2..(Len(calls) - 1) : calls[k] \in MidCalls
  BY ChainShape
<1>2. o.fmt_in \in Formats /\ o.fmt_out \in Formats
  BY AcceptedOptions
<1>3. calls[1] \in SourceCalls /\ calls[Len(calls)] \in SinkCalls
  BY <1>1, <1>2 DEF SourceCalls, SinkCalls, ReadOp, WriteOp, SourceOps, SinkOps
<1>4. /\ \A call \in MidCalls : call \notin SourceCalls /\ call \notin SinkCalls
      /\ \A call \in SinkCalls : call \notin SourceCalls
  BY DEF MidCalls, FmtCalls, CodecCalls, SourceCalls, SinkCalls, Call, SourceOps, SinkOps
<1> HIDE DEF calls
<1>5. \A k \in DOMAIN calls : k = 1 \/ k = Len(calls) \/ k \in 2..(Len(calls) - 1)
  BY <1>1
<1>6. Len(calls) \in Nat /\ DOMAIN calls = 1..Len(calls)
  BY <1>1
<1>7. \A k \in DOMAIN calls :
              /\ calls[k] \in ChainCallSet
              /\ k # 1 => calls[k] \notin SourceCalls
              /\ k # Len(calls) => calls[k] \notin SinkCalls
  BY <1>1, <1>3, <1>4, <1>5, <1>6 DEF ChainCallSet
<1> QED
  BY <1>1, <1>3, <1>6, <1>7 DEF calls

----------------------------------------------------------------------------
(* The chain as built: BuiltInv                                              *)

LEMMA BuiltNext == ASSUME OptionsInv, StagesInv, BuiltInv, [Next]_vars PROVE BuiltInv'
<1> SUFFICES ASSUME ConstructorsWork
             PROVE  /\ items' # <<>> \/ todo' # <<>> => Built'
                    /\ pc' = "chain" => items' # <<>> \/ todo' # <<>>
  BY DEF BuiltInv
<1>1. /\ items # <<>> \/ todo # <<>> => Built
      /\ pc = "chain" => items # <<>> \/ todo # <<>>
  BY DEF BuiltInv
<1>2. /\ PqTypeOK /\ AllWellMade /\ todo \in Seq(Calls) /\ items \in Seq(ItemSet)
      /\ opts \in OptionSet
  BY DEF OptionsInv, TypeOK, PqTypeOK
<1>3. CASE ChainItem
  <2> DEFINE call == Head(todo)
             calls == ChainCalls(opts)
  <2>1. /\ todo # <<>> /\ todo' = Tail(todo) /\ opts' = opts /\ pc = "chain" /\ call \in Calls
    BY <1>2, <1>3 DEF ChainItem, At
  <2>2. OptionsRet(opts) = 0
    BY <2>1 DEF OptionsInv, Parsed
  <2>3. PICK r \in Results(call) : Construct(r)
    BY <1>3 DEF ChainItem
  <2>4. /\ Len(todo') = Len(todo) - 1 /\ Len(todo) \in Nat /\ Len(todo) >= 1 /\ Len(items) \in Nat
        /\ DOMAIN todo' = 1..(Len(todo) - 1) /\ DOMAIN todo = 1..Len(todo)
        /\ todo[1] = call /\ \A k \in DOMAIN todo' : todo'[k] = todo[k + 1]
    BY <1>2, <2>1
  <2>5. /\ Len(calls) = Len(items) + Len(todo)
        /\ \A i \in DOMAIN items : SameMake(MadeItem(calls[i]), items[i])
        /\ \A k \in DOMAIN todo : todo[k] = calls[Len(items) + k]
    BY <1>1, <2>1 DEF Built
  <2>6. call = calls[Len(items) + 1] /\ call \in ChainCallSet
    <3>1. call = calls[Len(items) + 1]
      BY <2>4, <2>5
    <3>2. Len(items) + 1 \in DOMAIN calls
      BY <1>2, <2>2, <2>4, <2>5, ChainCallTypes
    <3> QED
      BY <1>2, <2>2, <3>1, <3>2, ChainCallTypes
  <2>7. r.add # <<>> /\ r.add[1] = MadeItem(call)
    BY <2>3, <2>6, ResultsMade
  <2>8. /\ Len(items') = Len(items) + 1 /\ DOMAIN items' = 1..(Len(items) + 1)
        /\ DOMAIN items = 1..Len(items) /\ \A i \in DOMAIN items : items'[i] = items[i]
        /\ items'[Len(items) + 1] = MadeItem(call)
    BY <1>2, <2>1, <2>3, <2>7, ConstructOutcome
  <2> HIDE DEF call, calls
  <2>9. \A i \in DOMAIN items' : SameMake(MadeItem(calls[i]), items'[i])
    <3>1. SameMake(MadeItem(calls[Len(items) + 1]), items'[Len(items) + 1])
      BY <2>6, <2>8 DEF SameMake
    <3> QED
      BY <2>4, <2>5, <2>8, <3>1
  <2>10. ASSUME NEW k \in DOMAIN todo'
         PROVE  todo'[k] = calls[Len(items') + k]
    <3>1. k \in Int /\ k + 1 \in DOMAIN todo /\ todo'[k] = todo[k + 1]
      BY <2>4
    <3>2. todo[k + 1] = calls[Len(items) + (k + 1)]
      BY <2>5, <3>1
    <3>3. Len(items) + (k + 1) = Len(items') + k
      BY <2>4, <2>8, <3>1
    <3> QED
      BY <3>1, <3>2, <3>3
  <2>11. Len(calls) = Len(items') + Len(todo')
    BY <2>4, <2>5, <2>8
  <2>12. Built'
    BY <2>1, <2>9, <2>10, <2>11 DEF Built, calls
  <2>13. items' # <<>>
    BY <2>4, <2>8
  <2> QED
    BY <2>12, <2>13
<1>4. CASE HandleHeaders
  <2>1. /\ items' = items /\ items = <<>> /\ opts' = opts /\ todo = <<>>
        /\ pc = "headers"
    BY <1>4 DEF HandleHeaders, At, pqVars, listVars, StagesInv, QueueStages, Setup
  <2>2. OptionsRet(opts) = 0
    BY <2>1 DEF OptionsInv, Parsed
  <2>3. (todo' = ChainCalls(opts) /\ pc' = "chain") \/ (todo' = todo /\ pc' = "close_in")
    BY <1>4 DEF HandleHeaders, Goto, Bail
  <2>4. CASE todo' = ChainCalls(opts)
    <3>1. Len(todo') >= 2 /\ Len(todo') \in Nat
      BY <1>2, <2>2, <2>4, ChainCallTypes
    <3>2. todo' # <<>>
      BY <3>1
    <3>3. Len(items') = 0 /\ DOMAIN items' = {}
      BY <2>1
    <3>4. DOMAIN todo' \subseteq Int
      BY <1>2, <2>2, <2>4, ChainCallTypes
    <3>5. Built'
      BY <2>1, <2>4, <3>1, <3>3, <3>4 DEF Built
    <3> QED
      BY <3>2, <3>5
  <2> QED
    BY <2>1, <2>3, <2>4
<1>5. CASE ~ChainItem /\ ~HandleHeaders
  <2>1. KeepsItems
    <3>1. CASE Next
      BY <1>2, <1>5, <3>1, QueueTyped
    <3>2. CASE UNCHANGED vars
      BY <1>2, <3>2, SameQueue DEF vars
    <3> QED
      BY <3>1, <3>2
  <2>2. todo' = todo
    BY <1>5, OptionsSettled
  <2>3. items' # <<>> <=> items # <<>>
    <3>1. items' \in Seq(ItemSet)
      BY OptionsNext DEF OptionsInv, TypeOK, PqTypeOK
    <3> QED
      BY <1>2, <2>1, <3>1 DEF KeepsItems
  <2>4. items # <<>> \/ todo # <<>> => opts' = opts
    BY <2>2, <2>3, OptionsSettled
  <2>5. items' # <<>> \/ todo' # <<>> => Built'
    BY <1>1, <2>1, <2>2, <2>3, <2>4 DEF Built, KeepsItems, SameMake
  <2>6. pc' = "chain" => pc = "chain"
    <3> USE DEF At, Goto, Bail
    <3>1. CASE ParseArg \/ ParseEnds \/ CheckOptions \/ CreateQueue \/ OpenFiles
               \/ CheckQueue \/ PrepareQueue \/ LoopHead \/ Pass \/ PassEnds
      BY <3>1 DEF ParseArg, ParseEnds, CheckOptions, CreateQueue, OpenFiles,
           CheckQueue, PrepareQueue, LoopHead, Pass, PassEnds
    <3>2. CASE TimerReadable \/ BurstPass \/ BurstPassEnds \/ BurstEnds \/ WaitForSink
               \/ DrainSpins \/ DrainEnds \/ CloseIn \/ CloseOut \/ DestroyItems \/ BenchFree
      BY <3>2 DEF TimerReadable, BurstPass, BurstPassEnds, BurstEnds, WaitForSink,
           DrainSpins, DrainEnds, CloseIn, CloseOut, DestroyItems, BenchFree, vars
    <3>3. CASE Tick \/ Play \/ FirstSigint \/ NextSigint \/ Terminated \/ UNCHANGED vars
      BY <3>3 DEF Tick, Play, FirstSigint, NextSigint, Terminated, vars
    <3> QED
      BY <1>5, <3>1, <3>2, <3>3 DEF Next, Main
  <2> QED
    BY <1>1, <2>2, <2>3, <2>5, <2>6
<1> QED
  BY <1>3, <1>4, <1>5

\* If no constructor fails, the items are those of the calls make_processing_chain has made.
THEOREM BuiltAlways == Spec => []BuiltInv
<1>1. Init => BuiltInv
  BY DEF Init, PqInit, BuiltInv
<1> QED
  BY <1>1, BuiltNext, OptionsAlways, StagesAlways, PTL DEF Spec

\* The items of a finished chain: a source, conversions and codecs, a sink, each with the
\* lengths of what it takes and gives, and each taking what the one before it gives.
LEMMA ItemsJoined ==
  ASSUME OptionsInv, BuiltInv, ConstructorsWork, todo = <<>>, items # <<>>,
         pc \in {"chain"} \cup AfterChain
  PROVE  /\ Len(items) \in Nat /\ Len(items) >= 2 /\ DOMAIN items = 1..Len(items)
         /\ items[1].type = "SOURCE" /\ items[1].proc.op \in SourceOps
         /\ items[Len(items)].type = "SINK" /\ items[Len(items)].proc.op \in SinkOps
         /\ \A i \in 2..(Len(items) - 1) :
              \E call \in MidCalls : items[i].proc.op = call.fn /\ items[i].proc.what = call.arg
         /\ \A i \in DOMAIN items :
              /\ i # 1 => items[i].len_in = KindLen(Takes(items[i].proc))
              /\ i # Len(items) => items[i].len_out = KindLen(Gives(items[i].proc))
         /\ \A i \in 2..Len(items) : Gives(items[i - 1].proc) = Takes(items[i].proc)
<1> DEFINE calls == ChainCalls(opts)
<1>1. /\ items \in Seq(ItemSet) /\ opts \in OptionSet /\ OptionsRet(opts) = 0 /\ Built
  BY DEF OptionsInv, TypeOK, PqTypeOK, Parsed, BuiltInv, AfterChain, Looping
<1>2. /\ Len(calls) = Len(items) /\ \A i \in DOMAIN items : SameMake(MadeItem(calls[i]), items[i])
  BY <1>1 DEF Built
<1>3. /\ Len(calls) >= 2
      /\ calls[1] \in SourceCalls /\ calls[Len(calls)] \in SinkCalls
      /\ \A k \in 2..(Len(calls) - 1) : calls[k] \in MidCalls
      /\ \A k \in 1..Len(calls) :
           /\ calls[k] \in ChainCallSet
           /\ k # 1 => calls[k] \notin SourceCalls
           /\ k # Len(calls) => calls[k] \notin SinkCalls
  BY <1>1, ChainCallTypes
<1>4. \A k \in 2..Len(calls) : KindOut(calls[k - 1]) = KindIn(calls[k])
  BY <1>1, ChainJoins
<1> HIDE DEF calls
<1>5. Len(items) \in Nat /\ DOMAIN items = 1..Len(items)
  BY <1>1
<1>6. \A i \in DOMAIN items :
        /\ items[i].proc.op = calls[i].fn /\ items[i].proc.what = calls[i].arg
        /\ Takes(items[i].proc) = KindIn(calls[i]) /\ Gives(items[i].proc) = KindOut(calls[i])
        /\ calls[i] \in SourceCalls => items[i].type = "SOURCE"
        /\ calls[i] \in SinkCalls => items[i].type = "SINK"
        /\ i # 1 => items[i].len_in = KindLen(Takes(items[i].proc))
        /\ i # Len(items) => items[i].len_out = KindLen(Gives(items[i].proc))
  BY <1>2, <1>3, <1>5, MadeItems DEF SameMake
<1>7. \A i \in 2..Len(items) : Gives(items[i - 1].proc) = Takes(items[i].proc)
  <2> SUFFICES ASSUME NEW i \in 2..Len(items) PROVE Gives(items[i - 1].proc) = Takes(items[i].proc)
    OBVIOUS
  <2>1. i - 1 \in DOMAIN items /\ i \in DOMAIN items
    BY <1>5
  <2> QED
    BY <1>2, <1>4, <1>6, <2>1
<1>8. 1 \in DOMAIN items /\ Len(items) \in DOMAIN items
  BY <1>2, <1>3, <1>5
<1>9. calls[1].fn \in SourceOps /\ calls[Len(items)].fn \in SinkOps
  BY <1>2, <1>3 DEF SourceCalls, SinkCalls, Call
<1>10. \A i \in 2..(Len(items) - 1) :
         \E call \in MidCalls : items[i].proc.op = call.fn /\ items[i].proc.what = call.arg
  BY <1>2, <1>3, <1>5, <1>6
<1> QED
  BY <1>2, <1>3, <1>5, <1>6, <1>7, <1>8, <1>9, <1>10

\* For any pair of formats, libraries, input and output that check_options accepts, the
\* chain that make_processing_chain builds passes the strict check of its lengths if no
\* constructor fails (make_processing_chain, osmo_gapk_pq_check).
THEOREM ChainsPass == ASSUME ConstructorsWork PROVE Spec => []ChainPassesCheck
<1>1. OptionsInv /\ BuiltInv => ChainPassesCheck
  <2> SUFFICES ASSUME OptionsInv, BuiltInv, pc = "chain", todo = <<>>
               PROVE  CheckRet(items, TRUE) = 0
    BY DEF ChainPassesCheck
  <2>1. items # <<>>
    BY DEF BuiltInv
  <2>2. /\ Len(items) \in Nat /\ Len(items) >= 2 /\ DOMAIN items = 1..Len(items)
        /\ items[1].type = "SOURCE"
        /\ items[Len(items)].type = "SINK"
        /\ \A i \in DOMAIN items :
             /\ i # 1 => items[i].len_in = KindLen(Takes(items[i].proc))
             /\ i # Len(items) => items[i].len_out = KindLen(Gives(items[i].proc))
        /\ \A i \in 2..Len(items) : Gives(items[i - 1].proc) = Takes(items[i].proc)
    BY <2>1, ItemsJoined
  <2>3. LengthsMatch(items)
    <3> SUFFICES ASSUME NEW i \in 2..Len(items) PROVE items[i].len_in = items[i - 1].len_out
      BY DEF LengthsMatch, MatchesPrevious
    <3>1. i \in DOMAIN items /\ i # 1 /\ i - 1 \in DOMAIN items /\ i - 1 # Len(items)
      BY <2>2
    <3> QED
      BY <2>2, <3>1
  <2>4. SourceToSink(items)
    BY <2>1, <2>2 DEF SourceToSink
  <2> QED
    BY <2>3, <2>4 DEF CheckRet
<1> QED
  BY <1>1, OptionsAlways, BuiltAlways, PTL

----------------------------------------------------------------------------
(* The frames in the chain: FormatsInv                                       *)

\* The formats whose frames or canonical frames have a variable length.
LEMMA VariableFormats ==
  ASSUME NEW f \in Formats
  PROVE  /\ Format(f).frame_len = 0 => f \in {"rtp-amr", "amr-opencore"}
         /\ CanonLen(Format(f).codec) = 0 => f \in {"rtp-amr", "amr-opencore"}
<1>1. /\ CanonLen("PCM") = 320 /\ CanonLen("HR") = 14 /\ CanonLen("FR") = 33 /\ CanonLen("EFR") = 31
  BY DEF CanonLen, CodecDesc, Codec, CodecPcm, CodecHr, CodecFr, CodecEfr, CodecAmr
<1>2. ASSUME f \notin {"rtp-amr", "amr-opencore"}
      PROVE  Format(f).codec # "AMR" /\ Format(f).frame_len # 0
  <2> DEFINE Fixed(d) == d.codec # "AMR" /\ d.frame_len # 0
  <2>1. Fixed(FmtAmrEfr) /\ Fixed(FmtGsm) /\ Fixed(FmtHrRefDec) /\ Fixed(FmtHrRefEnc) /\ Fixed(FmtRacalHr)
    BY DEF Fmt, FmtAmrEfr, FmtGsm, FmtHrRefDec, FmtHrRefEnc, FmtRacalHr
  <2>2. Fixed(FmtRacalFr) /\ Fixed(FmtRacalEfr) /\ Fixed(FmtRawPcm) /\ Fixed(FmtTiHr) /\ Fixed(FmtTiFr)
    BY DEF Fmt, FmtRacalFr, FmtRacalEfr, FmtRawPcm, FmtTiHr, FmtTiFr
  <2>3. Fixed(FmtTiEfr) /\ Fixed(FmtRtpEfr) /\ Fixed(FmtRtpHrEtsi) /\ Fixed(FmtRtpHrIetf)
    BY DEF Fmt, FmtTiEfr, FmtRtpEfr, FmtRtpHrEtsi, FmtRtpHrIetf
  <2>4. Format(f) \in {FmtAmrEfr, FmtGsm, FmtHrRefDec, FmtHrRefEnc, FmtRacalHr, FmtRacalFr,
          FmtRacalEfr, FmtRawPcm, FmtTiHr, FmtTiFr, FmtTiEfr, FmtRtpEfr, FmtRtpHrEtsi, FmtRtpHrIetf}
    BY <1>2 DEF Format
  <2> HIDE DEF Fixed
  <2>5. Fixed(Format(f))
    BY <2>1, <2>2, <2>3, <2>4
  <2> QED
    BY <2>5 DEF Fixed
<1>3. Format(f).codec \in Codecs
  BY FormatType
<1> QED
  BY <1>1, <1>2, <1>3 DEF Codecs

\* The conversions and codecs whose output has a variable length.
LEMMA VariableCalls ==
  ASSUME NEW call \in MidCalls, KindLen(KindOut(call)) = 0
  PROVE  \/ call.fn \in {"to_canon", "from_canon"} /\ call.arg \in {"rtp-amr", "amr-opencore"}
         \/ call.fn = "encode" /\ call.arg = "AMR"
<1> USE DEF KindOut, Callback, Gives
<1>1. CASE call \in FmtCalls
  <2>1. PICK op \in {"to_canon", "from_canon"}, f \in Formats : call = Call(op, f)
    BY <1>1 DEF FmtCalls
  <2>2. call.fn = op /\ call.arg = f
    BY <2>1 DEF Call
  <2> QED
    BY <2>2, FormatType, KindLens, VariableFormats
<1>2. CASE call \in CodecCalls
  <2>1. PICK op \in {"encode", "decode"}, c \in Codecs \ {"PCM"} : call = Call(op, c)
    BY <1>2 DEF CodecCalls
  <2>2. call.fn = op /\ call.arg = c
    BY <2>1 DEF Call
  <2>3. KindLen("PCM") = 320
    BY KindLens DEF Codecs, CanonLen, CodecDesc, Codec, CodecPcm
  <2>4. CASE op = "decode"
    BY <2>2, <2>3, <2>4
  <2>5. CASE op = "encode"
    <3>1. Format(CodecDesc(c).enc_fmt).frame_len = 0
      BY <2>2, <2>5, CodecFormats, KindLens
    <3>2. CodecDesc(c).enc_fmt \in {"rtp-amr", "amr-opencore"}
      BY <3>1, CodecFormats, VariableFormats
    <3>3. c = "AMR"
      BY <3>2 DEF Codecs, CodecDesc, Codec, CodecHr, CodecFr, CodecEfr, CodecAmr
    <3> QED
      BY <2>2, <2>5, <3>3
  <2> QED
    BY <2>4, <2>5
<1> QED
  BY <1>1, <1>2 DEF MidCalls

\* A conversion or codec given a frame that fits the format it takes stores no more than
\* its item's buffer holds, and leaves a frame that fits the format it gives.
LEMMA ReturnsFitKind ==
  ASSUME NEW item \in ItemSet, WellMade(item),
         NEW call \in MidCalls, item.proc.op = call.fn, item.proc.what = call.arg,
         item.len_in = KindLen(Takes(item.proc)), item.len_out = KindLen(Gives(item.proc)),
         NEW n \in Nat, LenFits(n, Takes(item.proc)), NEW r \in Returns(item.proc, n)
  PROVE  r.wrote <= BufSize(item) /\ (r.rv >= 0 => LenFits(r.rv, Gives(item.proc)))
<1> DEFINE cb == item.proc
<1>1. cb.op \in ProcOps /\ item.len_in \in Nat /\ item.len_out \in Nat
  BY DEF MidCalls, FmtCalls, CodecCalls, Call, ProcOps, ItemSet
<1>2. r.rv \in Int /\ r.wrote \in Nat
  BY ReturnsType
<1>3. CASE item.len_out # 0
  <2>1. FitsOutput(ConvOf(cb), item.len_in, item.len_out)
    BY <1>1, <1>3 DEF WellMade
  <2>2. item.len_in \in {0, n}
    BY DEF LenFits
  <2>3. r.wrote <= item.len_out /\ (r.rv >= 0 => r.rv = item.len_out)
    BY <1>1, <2>1, <2>2, ReturnsFit
  <2> QED
    BY <1>3, <2>3 DEF LenFits, BufSize
<1>4. CASE item.len_out = 0
  <2>1. Gives(cb) = KindOut(call) /\ Takes(cb) = KindIn(call)
    BY DEF Takes, Gives, KindOut, KindIn, Callback
  <2>2. \/ cb.op \in {"to_canon", "from_canon"} /\ cb.what \in {"rtp-amr", "amr-opencore"}
        \/ cb.op = "encode" /\ cb.what = "AMR"
    BY <1>4, <2>1, VariableCalls
  <2>3. BufSize(item) = 320 /\ VAR_BUF_SIZE = 320
    BY <1>4 DEF BufSize, VAR_BUF_SIZE
  <2>4. /\ KindLen("rtp-amr") = 0 /\ KindLen("amr-opencore") = 0 /\ KindLen("AMR") = 0
    <3>1. Format("rtp-amr").frame_len = 0 /\ Format("amr-opencore").frame_len = 0 /\ CanonLen("AMR") = 0
      BY DEF Format, Fmt, FmtRtpAmr, FmtAmrOpencore, CanonLen, CodecDesc, Codec, CodecAmr
    <3> QED
      BY <3>1, KindLens DEF Formats, Codecs
  <2>5. /\ Format("rtp-amr").codec = "AMR" /\ Format("amr-opencore").codec = "AMR"
        /\ Format("rtp-amr").to_canon.kind = "drop_header"
        /\ Format("rtp-amr").from_canon.kind = "add_header"
        /\ Format("amr-opencore").to_canon.kind = "copy"
        /\ Format("amr-opencore").from_canon.kind = "copy"
        /\ CodecDesc("AMR").encode = Conv("fixed", 0, 32) /\ CodecDesc("AMR").enc_fmt = "amr-opencore"
    BY DEF Format, Fmt, Conv, FmtRtpAmr, FmtAmrOpencore, CodecDesc, Codec, CodecAmr
  <2> HIDE DEF cb
  <2>6. CASE cb.op = "to_canon" /\ cb.what = "rtp-amr"
    <3>1. Takes(cb) = "rtp-amr" /\ Gives(cb) = "AMR" /\ ConvOf(cb).kind = "drop_header"
      BY <2>5, <2>6 DEF Takes, Gives, ConvOf
    <3>2. n \in 1..320
      BY <2>3, <2>4, <3>1 DEF LenFits, cb
    <3>3. r \in DropHeader(n)
      BY <3>1 DEF Returns, Outcomes, cb
    <3>4. PICK m \in 0..319 : r = Stores(m, m)
      <4>1. n - 1 \in 0..319 /\ n # 0 /\ 6 \in 0..319
        BY <3>2
      <4>2. r = Stores(n - 1, n - 1) \/ r = Stores(6, 6)
        BY <3>3, <4>1, Zenon DEF DropHeader
      <4> QED
        BY <4>1, <4>2
    <3>5. r.wrote = m /\ r.rv = m
      BY <3>4 DEF Stores
    <3>6. LenFits(m, "AMR")
      BY <2>3, <2>4 DEF LenFits
    <3> QED
      BY <2>3, <3>1, <3>5, <3>6 DEF cb
  <2>7. CASE cb.op = "from_canon" /\ cb.what = "rtp-amr"
    <3>1. Takes(cb) = "AMR" /\ Gives(cb) = "rtp-amr" /\ ConvOf(cb).kind = "add_header"
      BY <2>5, <2>7 DEF Takes, Gives, ConvOf
    <3>2. n \in 0..319
      BY <2>3, <2>4, <3>1 DEF LenFits, cb
    <3>3. r = Stores(n + 1, n + 1)
      BY <3>1 DEF Returns, Outcomes, cb
    <3>4. r.wrote = n + 1 /\ r.rv = n + 1
      BY <3>3 DEF Stores
    <3>5. LenFits(n + 1, "rtp-amr")
      BY <2>3, <2>4, <3>2 DEF LenFits
    <3> QED
      BY <2>3, <3>1, <3>2, <3>4, <3>5 DEF cb
  <2>8. CASE cb.op \in {"to_canon", "from_canon"} /\ cb.what = "amr-opencore"
    <3>1. /\ Takes(cb) \in {"AMR", "amr-opencore"} /\ Gives(cb) \in {"AMR", "amr-opencore"}
          /\ ConvOf(cb).kind = "copy"
      BY <2>5, <2>8 DEF Takes, Gives, ConvOf
    <3>2. n \in 0..319
      BY <2>3, <2>4, <3>1 DEF LenFits, cb
    <3>3. r = Stores(n, n)
      BY <3>1 DEF Returns, Outcomes, cb
    <3>4. r.wrote = n /\ r.rv = n
      BY <3>3 DEF Stores
    <3>5. LenFits(n, "AMR") /\ LenFits(n, "amr-opencore")
      BY <2>3, <2>4, <3>2 DEF LenFits
    <3> QED
      BY <2>3, <3>1, <3>2, <3>4, <3>5 DEF cb
  <2>9. CASE cb.op = "encode" /\ cb.what = "AMR"
    <3>1. Gives(cb) = "amr-opencore" /\ ConvOf(cb) = Conv("fixed", 0, 32)
      BY <2>5, <2>9 DEF Gives, ConvOf
    <3>2. r = Stores(32, 32)
      BY <3>1 DEF Returns, Outcomes, Conv, cb
    <3>3. r.wrote = 32 /\ r.rv = 32
      BY <3>2 DEF Stores
    <3>4. LenFits(32, "amr-opencore")
      BY <2>3, <2>4 DEF LenFits
    <3> QED
      BY <2>3, <3>1, <3>3, <3>4 DEF cb
  <2> QED
    BY <2>2, <2>6, <2>7, <2>8, <2>9
<1> QED
  BY <1>3, <1>4

\* A frame that fits a kind fits the buffer of an item that gives this kind.
LEMMA LenFitsBuf ==
  ASSUME NEW item \in ItemSet, NEW kind, item.len_out = KindLen(kind), NEW n, LenFits(n, kind)
  PROVE  n \in Nat /\ n <= BufSize(item)
<1>1. item.len_out \in Nat
  BY DEF ItemSet
<1>2. CASE KindLen(kind) # 0
  BY <1>1, <1>2 DEF LenFits, BufSize
<1>3. CASE KindLen(kind) = 0
  <2>1. BufSize(item) = 320 /\ n \in 0..320
    BY <1>3 DEF LenFits, BufSize, VAR_BUF_SIZE
  <2> QED
    BY <2>1
<1> QED
  BY <1>2, <1>3

\* What a pass finds in a chain without failed constructors.
LEMMA PassFinds ==
  ASSUME OptionsInv, StagesInv, BuiltInv, ConstructorsWork, Pass
  PROVE  /\ PqTypeOK /\ items \in Seq(ItemSet) /\ fault = "none" /\ ExecStep
         /\ UNCHANGED <<items, opts>> /\ Executing /\ at \in DOMAIN items
         /\ ErrorStep \/ CrashStep \/ \E n \in Nat : ReturnStep(n)
         /\ items # <<>> /\ Len(items) \in Nat /\ Len(items) >= 2 /\ DOMAIN items = 1..Len(items)
         /\ items[1].proc.op \in SourceOps /\ items[Len(items)].proc.op \in SinkOps
         /\ \A i \in 2..(Len(items) - 1) :
              \E call \in MidCalls : items[i].proc.op = call.fn /\ items[i].proc.what = call.arg
         /\ \A i \in DOMAIN items :
              /\ WellMade(items[i])
              /\ i # 1 => items[i].len_in = KindLen(Takes(items[i].proc))
              /\ i # Len(items) => items[i].len_out = KindLen(Gives(items[i].proc))
              /\ items[i].type # "SINK" => items[i].buf = BufSize(items[i])
         /\ \A i \in 2..Len(items) : Gives(items[i - 1].proc) = Takes(items[i].proc)
<1>1. /\ PqTypeOK /\ items \in Seq(ItemSet) /\ fault = "none" /\ ExecStep /\ pc = "pass"
      /\ opts' = opts /\ AllWellMade
  BY DEF OptionsInv, TypeOK, PqTypeOK, Pass, At, appVars
<1>2. /\ UNCHANGED items /\ Executing /\ at \in DOMAIN items
      /\ ErrorStep \/ CrashStep \/ \E n \in Nat : ReturnStep(n)
  BY <1>1, ExecOutcome DEF listVars
<1>3. /\ todo = <<>> /\ Prepared /\ Checked /\ pc \in AfterChain
  BY <1>1 DEF StagesInv, QueueStages, ChainStages, Looping, AfterChain
<1>4. items # <<>>
  BY <1>3, CheckedQueue
<1>5. \A i \in DOMAIN items :
        WellMade(items[i]) /\ (items[i].type # "SINK" => items[i].buf = BufSize(items[i]))
  BY <1>1, <1>3 DEF AllWellMade, Prepared
<1> QED
  BY <1>1, <1>2, <1>3, <1>4, <1>5, ItemsJoined

LEMMA PassFormats ==
  ASSUME OptionsInv, StagesInv, EndsInv, BuiltInv, FormatsInv, ConstructorsWork, SourcesFit, Pass
  PROVE  /\ NoCrash'
         /\ at' > 1 => flight'.data = Takes(items'[at'].proc) /\ LenFits(flight'.len, flight'.data)
         /\ \A i \in DOMAIN sunk' : sunk'[i].data = opts'.fmt_out /\ LenFits(sunk'[i].len, opts'.fmt_out)
         /\ items' # <<>> /\ opts'.fmt_out \in Formats
<1>1. /\ items \in Seq(ItemSet) /\ fault = "none"
      /\ UNCHANGED <<items, opts>> /\ Executing /\ at \in DOMAIN items
      /\ ErrorStep \/ CrashStep \/ \E n \in Nat : ReturnStep(n)
      /\ items # <<>> /\ Len(items) \in Nat /\ Len(items) >= 2 /\ DOMAIN items = 1..Len(items)
      /\ items[1].proc.op \in SourceOps /\ items[Len(items)].proc.op \in SinkOps
      /\ \A i \in 2..(Len(items) - 1) :
           \E call \in MidCalls : items[i].proc.op = call.fn /\ items[i].proc.what = call.arg
      /\ \A i \in DOMAIN items :
           /\ WellMade(items[i])
           /\ i # 1 => items[i].len_in = KindLen(Takes(items[i].proc))
           /\ i # Len(items) => items[i].len_out = KindLen(Gives(items[i].proc))
           /\ items[i].type # "SINK" => items[i].buf = BufSize(items[i])
      /\ \A i \in 2..Len(items) : Gives(items[i - 1].proc) = Takes(items[i].proc)
  BY PassFinds
<1> DEFINE item == items[at]
           cb == items[at].proc
<1>2. /\ at > 1 => flight.data = Takes(cb) /\ LenFits(flight.len, flight.data)
      /\ \A i \in DOMAIN sunk : sunk[i].data = opts.fmt_out /\ LenFits(sunk[i].len, opts.fmt_out)
  BY DEF FormatsInv
<1>3. /\ item \in ItemSet /\ WellMade(item) /\ Cb = cb
      /\ flight \in FrameSet /\ flight.len \in Nat /\ sunk \in Seq(FrameSet)
  BY <1>1 DEF Cb, OptionsInv, TypeOK, PqTypeOK, FrameSet
<1>4. \/ at = 1 /\ cb.op \in SourceOps
      \/ at = Len(items) /\ at > 1 /\ cb.op \in SinkOps
      \/ at \in 2..(Len(items) - 1) /\ cb.op \in ProcOps
  BY <1>1 DEF MidCalls, FmtCalls, CodecCalls, Call, ProcOps
<1>5. cb.op \in SourceOps => at = 1 /\ \A n \in Deliveries(cb) : LenFits(n, cb.what)
  BY <1>1, <1>4 DEF SourcesFit, SourceOps, SinkOps, ProcOps
<1>6. /\ at # 1 => item.len_in = KindLen(Takes(cb))
      /\ at # Len(items) => item.len_out = KindLen(Gives(cb)) /\ item.buf = BufSize(item)
  BY <1>1, <1>4 DEF WellMade, SourceOps, SinkOps, ProcOps
<1>7. ASSUME at \in 2..(Len(items) - 1), NEW r \in Returns(cb, flight.len)
      PROVE  r.wrote <= BufSize(item) /\ (r.rv >= 0 => LenFits(r.rv, Gives(cb)))
  <2>1. PICK call \in MidCalls : cb.op = call.fn /\ cb.what = call.arg
    BY <1>1, <1>7
  <2>2. /\ item.len_in = KindLen(Takes(cb)) /\ item.len_out = KindLen(Gives(cb))
        /\ LenFits(flight.len, Takes(cb))
    BY <1>1, <1>2, <1>6, <1>7
  <2> QED
    BY <1>3, <1>7, <2>1, <2>2, ReturnsFitKind
<1> HIDE DEF item, cb
<1>8. opts.fmt_out \in Formats
  <2>1. opts \in OptionSet /\ OptionsRet(opts) = 0
    BY DEF Pass, At, OptionsInv, TypeOK, Parsed
  <2> QED
    BY <2>1, AcceptedOptions
<1>9. CASE ErrorStep
  BY <1>1, <1>2, <1>8, <1>9 DEF ErrorStep, NoCrash
<1>10. ~CrashStep
  <2>1. SUFFICES ASSUME CrashStep PROVE FALSE
    OBVIOUS
  <2>2. cb # NULL
    BY <1>4 DEF NULL, Callback, SourceOps, SinkOps, ProcOps
  <2>3. AssertedLen(cb) \in {0, flight.len}
    <3>1. CASE at = 1
      BY <1>1, <1>4, <3>1 DEF AssertedLen, SourceOps, SinkOps, ProcOps
    <3>2. CASE at # 1
      <4>1. AssertedLen(cb) \in {0, KindLen(Takes(cb))}
        BY <1>3, <1>6, <3>2 DEF WellMade, item, cb
      <4>2. at > 1
        BY <1>1, <3>2
      <4> QED
        BY <1>2, <4>1, <4>2 DEF LenFits
    <3> QED
      BY <3>1, <3>2
  <2>4. cb.op \in SinkOps \/ \A n \in Stored : n <= item.buf
    <3>1. CASE at = 1
      <4>1. Stored = Deliveries(cb) /\ Gives(cb) = cb.what
        BY <1>3, <1>4, <3>1 DEF Stored, Gives, SourceOps, SinkOps, ProcOps
      <4> QED
        BY <1>1, <1>3, <1>4, <1>5, <1>6, <3>1, <4>1, LenFitsBuf
    <3>2. CASE at \in 2..(Len(items) - 1)
      <4>1. Stored = {r.wrote : r \in Returns(cb, flight.len)}
        BY <1>1, <1>3, <1>4, <3>2 DEF Stored, SourceOps, SinkOps, ProcOps
      <4>2. item.buf = BufSize(item)
        BY <1>1, <1>6, <3>2
      <4> QED
        BY <1>7, <3>2, <4>1, <4>2
    <3> QED
      BY <1>4, <3>1, <3>2
  <2>5. \A n \in Stored : n \in Int
    <3>1. CASE cb.op \in SourceOps
      BY <1>3, <3>1, DeliveriesType DEF Stored, ItemSet, cb, item
    <3>2. CASE cb.op \notin SourceOps
      BY <1>3, <3>2, ReturnsType DEF Stored
    <3> QED
      BY <3>1, <3>2
  <2>6. item.buf \in Int
    BY <1>3 DEF ItemSet
  <2> QED
    BY <1>1, <1>3, <2>1, <2>2, <2>3, <2>4, <2>5, <2>6 DEF CrashStep, item
<1>11. ASSUME NEW n \in Nat, ReturnStep(n)
       PROVE  /\ NoCrash'
              /\ at' > 1 => flight'.data = Takes(items'[at'].proc) /\ LenFits(flight'.len, flight'.data)
              /\ \A i \in DOMAIN sunk' :
                   sunk'[i].data = opts'.fmt_out /\ LenFits(sunk'[i].len, opts'.fmt_out)
  <2>1. at' = NextItem /\ fault' = fault
    BY <1>11 DEF ReturnStep
  <2>2. CASE cb.op \in SourceOps
    <3>1. /\ flight' = Frame(n, cb.what, taken + 1) /\ LenFits(n, cb.what) /\ sunk' = sunk /\ at' = 2
      BY <1>1, <1>3, <1>4, <1>5, <1>11, <2>1, <2>2 DEF ReturnStep, NextItem, SourceOps, SinkOps, ProcOps
    <3>2. Takes(items[2].proc) = cb.what
      <4>1. Gives(cb) = cb.what
        BY <2>2 DEF Gives, SourceOps
      <4>2. 2 \in 2..Len(items) /\ cb = items[2 - 1].proc
        BY <1>1, <1>5, <2>2 DEF cb
      <4> QED
        BY <1>1, <4>1, <4>2
    <3> QED
      BY <1>1, <1>2, <2>1, <3>1, <3>2 DEF Frame, NoCrash
  <2>3. CASE cb.op \in SinkOps
    <3>1. at = Len(items) /\ at > 1 /\ cb.what = opts.fmt_out
      BY <1>1, <1>4, <2>3 DEF EndsInv, cb, SourceOps, SinkOps, ProcOps
    <3>2. sunk' = Append(sunk, flight) /\ at' = 0
      BY <1>3, <1>11, <2>1, <2>3, <3>1 DEF ReturnStep, NextItem, SourceOps, SinkOps, ProcOps
    <3>3. flight.data = opts.fmt_out /\ LenFits(flight.len, opts.fmt_out)
      <4>1. Takes(cb) = cb.what
        BY <2>3 DEF Takes, SinkOps
      <4> QED
        BY <1>2, <3>1, <4>1
    <3>4. /\ DOMAIN sunk' = 1..(Len(sunk) + 1) /\ DOMAIN sunk = 1..Len(sunk) /\ Len(sunk) \in Nat
          /\ \A i \in DOMAIN sunk : sunk'[i] = sunk[i]
          /\ sunk'[Len(sunk) + 1] = flight
      BY <1>3, <3>2
    <3>5. \A i \in DOMAIN sunk' : i \in DOMAIN sunk \/ i = Len(sunk) + 1
      BY <3>4
    <3> QED
      BY <1>1, <1>2, <2>1, <3>2, <3>3, <3>4, <3>5 DEF NoCrash
  <2>4. CASE cb.op \in ProcOps
    <3>1. at \in 2..(Len(items) - 1) /\ at' = at + 1
      BY <1>1, <1>4, <2>1, <2>4 DEF NextItem, SourceOps, SinkOps, ProcOps
    <3>2. /\ flight' = Frame(n, Converted(cb, flight.data), flight.id) /\ sunk' = sunk
          /\ \E r \in Returns(cb, flight.len) : r.rv = n
      BY <1>3, <1>11, <2>4 DEF ReturnStep, SourceOps, SinkOps, ProcOps
    <3>3. LenFits(n, Gives(cb))
      BY <1>7, <3>1, <3>2
    <3>4. Converted(cb, flight.data) = Gives(cb)
      BY <1>1, <1>2, <3>1 DEF Converted
    <3>5. Gives(cb) = Takes(items[at + 1].proc)
      <4>1. at + 1 \in 2..Len(items) /\ (at + 1) - 1 = at
        BY <1>1, <3>1
      <4> QED
        BY <1>1, <4>1 DEF cb
    <3> QED
      BY <1>1, <1>2, <2>1, <3>1, <3>2, <3>3, <3>4, <3>5 DEF Frame, NoCrash
  <2> QED
    BY <1>4, <2>2, <2>3, <2>4
<1> QED
  BY <1>1, <1>8, <1>9, <1>10, <1>11

LEMMA FormatsNext ==
  ASSUME OptionsInv, StagesInv, EndsInv, BuiltInv, FormatsInv, [Next]_vars PROVE FormatsInv'
<1> SUFFICES ASSUME ConstructorsWork, SourcesFit'
             PROVE  /\ NoCrash'
                    /\ at' > 1 => flight'.data = Takes(items'[at'].proc) /\ LenFits(flight'.len, flight'.data)
                    /\ \A i \in DOMAIN sunk' :
                         sunk'[i].data = opts'.fmt_out /\ LenFits(sunk'[i].len, opts'.fmt_out)
                    /\ sunk' # <<>> => items' # <<>> /\ opts'.fmt_out \in Formats
  BY DEF FormatsInv
<1>1. /\ PqTypeOK /\ AllWellMade /\ todo \in Seq(Calls) /\ items \in Seq(ItemSet)
      /\ at \in 0..Len(items) /\ Len(items) \in Nat
  BY DEF OptionsInv, TypeOK, PqTypeOK
<1>2. /\ DOMAIN items \subseteq DOMAIN items' /\ (items' = <<>> => items = <<>>)
      /\ \A i \in DOMAIN items : items'[i].proc = items[i].proc
  <2>1. CASE ChainItem
    <3>1. PICK r \in Results(Head(todo)) : Construct(r)
      BY <2>1 DEF ChainItem
    <3>2. Head(todo) \in Calls
      BY <1>1, <2>1 DEF ChainItem
    <3>3. CASE r.add = <<>>
      BY <3>1, <3>3 DEF Construct, pqVars, listVars
    <3>4. CASE r.add # <<>>
      <4>1. /\ Len(items') = Len(items) + 1
            /\ DOMAIN items' = 1..(Len(items) + 1) /\ DOMAIN items = 1..Len(items)
            /\ \A i \in DOMAIN items : items'[i] = items[i]
        BY <1>1, <3>1, <3>2, <3>4, ConstructOutcome
      <4> QED
        BY <1>1, <4>1
    <3> QED
      BY <3>3, <3>4
  <2>2. CASE ~ChainItem
    <3>1. KeepsItems
      <4>1. CASE Next
        BY <1>1, <2>2, <4>1, QueueTyped
      <4>2. CASE UNCHANGED vars
        BY <1>1, <4>2, SameQueue DEF vars
      <4> QED
        BY <4>1, <4>2
    <3> QED
      BY <1>1, <3>1 DEF KeepsItems, SameMake
  <2> QED
    BY <2>1, <2>2
<1>3. SourcesFit
  BY <1>2 DEF SourcesFit
<1>4. /\ NoCrash
      /\ at > 1 => flight.data = Takes(items[at].proc) /\ LenFits(flight.len, flight.data)
      /\ \A i \in DOMAIN sunk : sunk[i].data = opts.fmt_out /\ LenFits(sunk[i].len, opts.fmt_out)
      /\ sunk # <<>> => items # <<>> /\ opts.fmt_out \in Formats
  BY <1>3 DEF FormatsInv
<1>5. CASE Pass
  BY <1>3, <1>5, PassFormats
<1>6. CASE ~Pass
  <2>1. NoCrash'
    <3>1. CASE CloseOut
      BY <1>4, <3>1 DEF CloseOut, DestroyBegin, NoCrash
    <3>2. CASE DestroyItems
      BY <1>4, <3>2 DEF DestroyItems, DestroyStep, DestroyStale, Crash, DestroyBuf, DestroyExit,
           DestroyUnlink, DestroyQueue, pqVars, NoCrash
    <3>3. CASE NextSigint
      BY <1>4, <3>3 DEF NextSigint, DestroyWhole, DestroyFault, NoCrash
    <3>4. CASE UNCHANGED fault
      BY <1>4, <3>4 DEF NoCrash
    <3> QED
      BY <1>6, <3>1, <3>2, <3>3, <3>4, FaultSettled DEF vars, pqVars
  <2>2. sunk' = sunk /\ ((flight' = flight /\ at' = at) \/ at' \in {0, 1})
    <3>1. CASE ExecBegin
      BY <3>1 DEF ExecBegin, ioVars
    <3>2. CASE UNCHANGED <<at, flight, rv, taken, sunk>>
      BY <3>2
    <3> QED
      BY <1>6, <3>1, <3>2, FramesSettled DEF vars, pqVars, execVars, ioVars
  <2>3. at > 1 => items'[at].proc = items[at].proc
    BY <1>1, <1>2
  <2>4. opts' = opts \/ sunk' = <<>>
    BY <1>2, <1>4, <2>2, OptionsSettled
  <2> QED
    BY <1>1, <1>2, <1>4, <2>1, <2>2, <2>3, <2>4
<1> QED
  BY <1>5, <1>6

\* If no constructor fails and sources deliver fitting frames, each callback is given a
\* frame in the format it takes (pq_execute).
THEOREM FormatsAlways == Spec => []FormatsInv
<1>1. Init => FormatsInv
  BY DEF Init, PqInit, FormatsInv, NoCrash
<1> QED
  BY <1>1, FormatsNext, OptionsAlways, StagesAlways, EndsAlways, BuiltAlways, PTL DEF Spec

\* If no constructor fails and the source delivers frames of lengths the input format has,
\* no step of pq_execute calls a NULL callback, fails an assertion of a conversion or codec
\* or stores beyond a buffer, for any pair of formats (fmt_*.c, codec_*.c, pq_execute).
THEOREM FittingFramesDoNotCrash ==
  ASSUME ConstructorsWork PROVE Spec => [](SourcesFit => NoCrash)
<1>1. FormatsInv => (SourcesFit => NoCrash)
  BY DEF FormatsInv
<1> QED
  BY <1>1, FormatsAlways, PTL

\* Under the same conditions what reaches the sink is in the output format.
THEOREM FittingFramesAreConverted ==
  ASSUME ConstructorsWork PROVE Spec => [](SourcesFit => SunkInOutputFormat)
<1>1. OptionsInv /\ FormatsInv => (SourcesFit => SunkInOutputFormat)
  <2> SUFFICES ASSUME OptionsInv, FormatsInv, SourcesFit, NEW i \in DOMAIN sunk
               PROVE  /\ sunk[i].data = opts.fmt_out
                      /\ Format(opts.fmt_out).frame_len \in {0, sunk[i].len}
    BY DEF SunkInOutputFormat
  <2>1. sunk[i].data = opts.fmt_out /\ LenFits(sunk[i].len, opts.fmt_out)
    BY DEF FormatsInv
  <2>2. opts.fmt_out \in Formats
    BY DEF FormatsInv
  <2> QED
    BY <2>1, <2>2, KindLens DEF LenFits
<1> QED
  BY <1>1, OptionsAlways, FormatsAlways, PTL

\* A file, and stdin, delivers blocks of the length of the input format.
LEMMA FilesFit ==
  ASSUME OptionsInv, EndsInv, BuiltInv, ConstructorsWork, opts.in \subseteq {"file"} PROVE SourcesFit
<1> SUFFICES ASSUME NEW i \in DOMAIN items, items[i].proc.op \in SourceOps,
                    NEW n \in Deliveries(items[i].proc)
             PROVE  LenFits(n, items[i].proc.what)
  BY DEF SourcesFit
<1> DEFINE cb == items[i].proc
           call == ChainCalls(opts)[i]
<1>1. items \in Seq(ItemSet) /\ opts \in OptionSet
  BY DEF OptionsInv, TypeOK, PqTypeOK
<1>2. opts.in = {} \/ opts.in = {"file"}
  OBVIOUS
<1>3. ReadOp(opts) = "file_in"
  BY <1>2 DEF ReadOp, Handle, IsFile
<1>4. cb.op = "file_in" /\ cb.what = opts.fmt_in
  BY <1>3 DEF EndsInv
<1>5. cb.what \in Formats
  <2>1. items[i] \in ItemSet
    BY <1>1
  <2>2. cb.what \in Formats \cup Codecs \cup {"none"}
    BY <2>1 DEF ItemSet
  <2>3. opts.fmt_in \in Formats \cup {"missing"}
    BY <1>1 DEF OptionSet
  <2>4. "missing" \notin Formats \cup Codecs \cup {"none"}
    BY DEF Formats, Codecs
  <2> QED
    BY <1>4, <2>2, <2>3, <2>4
<1>6. Built
  BY <1>1 DEF BuiltInv
<1>7. cb = MadeItem(call).proc
  BY <1>6 DEF Built, SameMake
<1> HIDE DEF cb, call
<1>8. cb.blk = Format(cb.what).frame_len
  <2>1. CASE call.fn \in SourceOps
    BY <1>7, <2>1 DEF MadeItem, SourceItem, Item, Callback, SourceOps, SinkOps
  <2>2. CASE call.fn \notin SourceOps
    BY <1>4, <1>7, <2>2 DEF MadeItem, SinkItem, FmtItem, CodecItem, EcuItem, Item, Callback,
         SourceOps, SinkOps
  <2> QED
    BY <2>1, <2>2
<1>9. n = Format(cb.what).frame_len /\ n # 0
  BY <1>4, <1>8 DEF Deliveries, cb
<1>10. LenFits(n, cb.what)
  BY <1>5, <1>9, KindLens DEF LenFits
<1> QED
  BY <1>10 DEF cb

\* From a file or stdin no pair of formats makes osmo-gapk crash, and what it writes is in
\* the output format, if no constructor fails (main, pq_execute).
THEOREM FilesAreConverted ==
  ASSUME ConstructorsWork
  PROVE  Spec => [](opts.in \subseteq {"file"} => NoCrash /\ SunkInOutputFormat)
<1>1. /\ OptionsInv /\ EndsInv /\ BuiltInv
      /\ (SourcesFit => NoCrash) /\ (SourcesFit => SunkInOutputFormat)
      => (opts.in \subseteq {"file"} => NoCrash /\ SunkInOutputFormat)
  BY FilesFit
<1> QED
  BY <1>1, OptionsAlways, EndsAlways, BuiltAlways, FittingFramesDoNotCrash,
     FittingFramesAreConverted, PTL

----------------------------------------------------------------------------
\* The inductive invariant of the program.
THEOREM InductiveInvariant == Spec => []IInv
BY OptionsAlways, StagesAlways, EndsAlways, BuiltAlways, FormatsAlways, OrderAlways,
   PrefixAlways, CountAlways, ReleaseAlways, PTL DEF IInv
=============================================================================
