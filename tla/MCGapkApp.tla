----------------------------- MODULE MCGapkApp ------------------------------
(* Model-checking instances of GapkApp and of its inductive invariant.       *)
EXTENDS GapkAppInv

Flag(c) == Arg(c, "missing", 0)
With(io, set, arg) == IF io \in set THEN <<arg>> ELSE <<>>
Named(c, f) == IF f = "missing" THEN <<>> ELSE <<Arg(c, f, 0)>>

\* a command line with these formats, inputs, outputs and flags
Opt(f, g, i, o, t, b) ==
  Named("f", f) \o Named("g", g)
  \o With("file", i, Flag("i")) \o With("rtp", i, Arg("I", "missing", 5000))
  \o With("alsa", i, Flag("a"))
  \o With("file", o, Flag("o")) \o With("rtp", o, Arg("O", "missing", 5000))
  \o With("alsa", o, Flag("A"))
  \o (IF t THEN <<Flag("t")>> ELSE <<>>) \o (IF b THEN <<Flag("b")>> ELSE <<>>)

MCAllLibs == AllLibs
MCSomeLibs == {"libgsm", "opencore-amrnb"}

\* every pair of formats, from a file to a file
MCPairs == {Opt(f, g, {"file"}, {"file"}, FALSE, FALSE) : f, g \in Formats}

\* every combination of inputs and outputs, some refused, for pairs of each shape
MCInputsOutputs ==
  {Opt(p[1], p[2], i, o, FALSE, TRUE) :
     p \in {<<"amr-efr", "rawpcm-s16le">>, <<"rawpcm-s16le", "amr-efr">>,
            <<"gsm", "racal-fr">>, <<"racal-hr", "gsm">>, <<"rtp-amr", "amr-opencore">>,
            <<"rawpcm-s16le", "amr-opencore">>,
            <<"missing", "gsm">>},
     i, o \in {{}, {"file"}, {"rtp"}, {"alsa"}, {"file", "rtp"}}}

\* options given twice, contradicted or invalid; a port of 0; help
MCOddLines ==
  LET valid == Opt("gsm", "racal-fr", {"rtp"}, {"file"}, FALSE, FALSE) IN
  {<<Arg("f", "ti-fr", 0)>> \o valid,
   valid \o <<Arg("g", "rawpcm-s16le", 0), Flag("b")>>,
   valid \o <<Flag("i"), Arg("I", "missing", 0)>>,
   valid \o <<Arg("O", "missing", 0), Arg("P", "missing", 96)>>,
   valid \o <<Arg("O", "missing", 5000)>>}
  \cup {valid \o <<a>> :
          a \in {Arg("I", "missing", 0), Arg("I", "missing", -22), Arg("O", "missing", 65536),
                 Arg("p", "missing", 256), Arg("f", "missing", 0), Flag("?"), Flag("h")}}

MCCommandLines == MCInputsOutputs \cup MCOddLines

\* a conversion from a file to a file, decoding from stdin to a device, and the timer
\* loop with a conversion
MCSignals ==
  {Opt("gsm", "racal-fr", {"file"}, {"file"}, FALSE, FALSE),
   Opt("gsm", "rawpcm-s16le", {}, {"alsa"}, FALSE, TRUE),
   Opt("amr-efr", "rtp-efr", {"file"}, {"rtp"}, TRUE, FALSE)}

MCDevice == {Opt("rawpcm-s16le", "rawpcm-s16le", {"file"}, {"alsa"}, FALSE, FALSE)}
MCCopy == {Opt("gsm", "gsm", {"file"}, {"file"}, FALSE, FALSE)}
MCShortFrames == {Opt("rtp-hr-ietf", "racal-hr", {"rtp"}, {"file"}, FALSE, FALSE)}
============================================================================
