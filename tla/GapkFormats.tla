---------------------------- MODULE GapkFormats ----------------------------
(* The codec and format tables of libosmogapk (codecs.c, formats.c, fmt_*.c, *)
(* codec_*.c, ecu_fr.c) and the contract of every processing callback: the   *)
(* input length it asserts, what it may return and how many bytes it stores. *)
(* Payload bits are abstracted to a data kind: the name of the format (lower *)
(* case) or of the codec whose canonical frame it is (upper case).           *)
EXTENDS Integers, Sequences

CONSTANT
  Libs    \* codec libraries found by configure: a subset of AllLibs

AllLibs == {"libgsm", "libgsmhr", "opencore-amrnb"}

ASSUME LibsAssumption == Libs \subseteq AllLibs

----------------------------------------------------------------------------
(* A conversion asserts a length of its input (0: any), and stores a number  *)
(* of bytes.  kind says how the two are related; see Outcomes.               *)

Conv(kind, asserts, gives) == [kind |-> kind, asserts |-> asserts, gives |-> gives]

Fmt(codec, frame_len, from_canon, to_canon) ==
  [codec |-> codec, frame_len |-> frame_len, from_canon |-> from_canon, to_canon |-> to_canon]

FmtAmrEfr      == Fmt("EFR", 32, Conv("fixed", 31, 32), Conv("fixed_or_error", 32, 31))
FmtAmrOpencore == Fmt("AMR",  0, Conv("copy", 0, 0),    Conv("copy", 0, 0))
FmtGsm         == Fmt("FR",  33, Conv("fixed", 33, 33), Conv("fixed", 33, 33))
FmtHrRefDec    == Fmt("HR",  44, Conv("fixed", 14, 44), Conv("fixed", 44, 14))
FmtHrRefEnc    == Fmt("HR",  40, Conv("fixed", 14, 40), Conv("fixed", 40, 14))
FmtRacalHr     == Fmt("HR",  14, Conv("fixed", 14, 14), Conv("fixed", 14, 14))
FmtRacalFr     == Fmt("FR",  33, Conv("fixed", 33, 33), Conv("fixed", 33, 33))
FmtRacalEfr    == Fmt("EFR", 31, Conv("fixed", 31, 31), Conv("fixed", 31, 31))
FmtRawPcm      == Fmt("PCM", 320, Conv("fixed", 320, 320), Conv("fixed", 320, 320))
FmtTiHr        == Fmt("HR",  33, Conv("fixed", 14, 33), Conv("fixed", 33, 14))
FmtTiFr        == Fmt("FR",  33, Conv("fixed", 33, 33), Conv("fixed", 33, 33))
FmtTiEfr       == Fmt("EFR", 33, Conv("fixed", 31, 33), Conv("fixed", 33, 31))
FmtRtpAmr      == Fmt("AMR",  0, Conv("add_header", 0, 0), Conv("drop_header", 0, 0))
FmtRtpEfr      == Fmt("EFR", 31, Conv("fixed", 31, 31), Conv("fixed", 0, 31))
FmtRtpHrEtsi   == Fmt("HR",  14, Conv("fixed", 14, 14), Conv("fixed", 0, 14))
FmtRtpHrIetf   == Fmt("HR",  15, Conv("fixed", 14, 15), Conv("clear_if_short", 0, 14))

\* supported_formats[]
Formats == {"amr-efr", "gsm", "hr-ref-dec", "hr-ref-enc", "racal-hr", "racal-fr",
            "racal-efr", "rawpcm-s16le", "ti-hr", "ti-fr", "ti-efr", "amr-opencore",
            "rtp-amr", "rtp-efr", "rtp-hr-etsi", "rtp-hr-ietf"}

Format(f) ==
  CASE f = "amr-efr" -> FmtAmrEfr         [] f = "gsm" -> FmtGsm
    [] f = "hr-ref-dec" -> FmtHrRefDec    [] f = "hr-ref-enc" -> FmtHrRefEnc
    [] f = "racal-hr" -> FmtRacalHr       [] f = "racal-fr" -> FmtRacalFr
    [] f = "racal-efr" -> FmtRacalEfr     [] f = "rawpcm-s16le" -> FmtRawPcm
    [] f = "ti-hr" -> FmtTiHr             [] f = "ti-fr" -> FmtTiFr
    [] f = "ti-efr" -> FmtTiEfr           [] f = "amr-opencore" -> FmtAmrOpencore
    [] f = "rtp-amr" -> FmtRtpAmr         [] f = "rtp-efr" -> FmtRtpEfr
    [] f = "rtp-hr-etsi" -> FmtRtpHrEtsi  [] OTHER -> FmtRtpHrIetf

\* osmo_gapk_format_desc.header_len is not 0
HasHeader(f) == f = "amr-efr"

----------------------------------------------------------------------------
(* Codecs: canonical frame length (0: variable), the library they need, the  *)
(* formats of the encoder's output and of the decoder's input.               *)

Codec(canon, lib, enc_fmt, dec_fmt, encode, decode) ==
  [canon |-> canon, lib |-> lib, enc_fmt |-> enc_fmt, dec_fmt |-> dec_fmt,
   encode |-> encode, decode |-> decode]

\* what a codec without encoder and decoder has in their place
NoConv == Conv("copy", 0, 0)

CodecPcm == Codec(320, "none", "none", "none", NoConv, NoConv)
CodecHr  == Codec(14, "libgsmhr", "hr-ref-enc", "hr-ref-dec",
                  Conv("fixed_or_error", 320, 40), Conv("fixed_or_error", 44, 320))
CodecFr  == Codec(33, "libgsm", "gsm", "gsm",
                  Conv("fixed", 320, 33), Conv("fixed_or_error", 33, 320))
CodecEfr == Codec(31, "opencore-amrnb", "amr-efr", "amr-efr",
                  Conv("fixed_or_error", 320, 32), Conv("fixed", 32, 320))
\* Encoder_Interface_Encode in mode MR122 yields 32 bytes
CodecAmr == Codec(0, "opencore-amrnb", "amr-opencore", "amr-opencore",
                  Conv("fixed", 0, 32), Conv("fixed", 0, 320))

Codecs == {"PCM", "HR", "FR", "EFR", "AMR"}

CodecDesc(c) ==
  CASE c = "PCM" -> CodecPcm [] c = "HR" -> CodecHr [] c = "FR" -> CodecFr
    [] c = "EFR" -> CodecEfr [] OTHER -> CodecAmr

CanonLen(c) == CodecDesc(c).canon

\* codec_init, codec_exit, codec_encode and codec_decode are compiled in
HasLib(c) == CodecDesc(c).lib \in Libs

\* only the full rate codec has an ecu_proc: a good frame, or one without a
\* backup, is copied; concealment may fail
HasEcu(c) == c = "FR"
EcuFr == Conv("fixed_or_error", 33, 33)

----------------------------------------------------------------------------
(* A callback is [op, what, blk]: the kind of callback, the format or codec  *)
(* it was made for, and the block length a source or a sink was given.       *)

Callback(op, what, blk) == [op |-> op, what |-> what, blk |-> blk]
NULL == Callback("NULL", "none", 0)

SourceOps == {"file_in", "rtp_in", "alsa_in"}
SinkOps   == {"file_out", "rtp_out", "alsa_out"}
ProcOps   == {"to_canon", "from_canon", "encode", "decode", "ecu"}

ConvOf(cb) ==
  CASE cb.op = "to_canon" -> Format(cb.what).to_canon
    [] cb.op = "from_canon" -> Format(cb.what).from_canon
    [] cb.op = "encode" -> CodecDesc(cb.what).encode
    [] cb.op = "decode" -> CodecDesc(cb.what).decode
    [] OTHER -> EcuFr

\* The length a callback asserts its input to have; 0 when it asserts nothing.
AssertedLen(cb) == IF cb.op \in ProcOps THEN ConvOf(cb).asserts ELSE 0

\* What a call returns (rv < 0 is an error) and the bytes it stores at out.
Stores(rv, wrote) == [rv |-> rv, wrote |-> wrote]
Fails == Stores(-1, 0)

\* the length of a memcpy that wrapped below zero (unsigned int)
Huge == 2147483647

\* rtp_amr_to_canon: a frame marked as damaged is replaced by SILENCE, 7 bytes
DropHeader(n) == {Stores(n - 1, IF n = 0 THEN Huge ELSE n - 1), Stores(6, 6)}

\* rtp_hr_ietf_to_canon: a frame that is not 15 bytes long is replaced by 15 zeros
ClearIfShort(n) == {Stores(14, IF n = 15 THEN 14 ELSE 15)}

Outcomes(conv, n) ==
  CASE conv.kind = "fixed" -> {Stores(conv.gives, conv.gives)}
    [] conv.kind = "fixed_or_error" -> {Stores(conv.gives, conv.gives), Fails}
    [] conv.kind = "copy" -> {Stores(n, n)}
    [] conv.kind = "add_header" -> {Stores(n + 1, n + 1)}
    [] conv.kind = "drop_header" -> DropHeader(n)
    [] OTHER -> ClearIfShort(n)

Returns(cb, n) == Outcomes(ConvOf(cb), n)

----------------------------------------------------------------------------
(* The data kind a callback expects at its input and leaves at its output.   *)

DataKinds == Formats \cup Codecs \cup {"none", "garbage"}

Takes(cb) ==
  CASE cb.op = "from_canon" -> Format(cb.what).codec
    [] cb.op = "encode" -> "PCM"
    [] cb.op = "decode" -> CodecDesc(cb.what).dec_fmt
    [] cb.op = "ecu" -> "gsm"
    [] OTHER -> cb.what

Gives(cb) ==
  CASE cb.op = "to_canon" -> Format(cb.what).codec
    [] cb.op = "encode" -> CodecDesc(cb.what).enc_fmt
    [] cb.op = "decode" -> "PCM"
    [] cb.op = "ecu" -> "gsm"
    [] OTHER -> cb.what

Converted(cb, data) == IF data = Takes(cb) THEN Gives(cb) ELSE "garbage"
============================================================================
