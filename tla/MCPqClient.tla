----------------------------- MODULE MCPqClient -----------------------------
(* Model-checking instance of PqClient.                                      *)
EXTENDS PqClient

\* an exact and an inexact source, a tolerant conversion, variable lengths, codecs
\* with and without a library, concealment, a device
MCCalls ==
  {Call("file_in", "gsm"), Call("rtp_in", "rtp-hr-ietf"), Call("to_canon", "rtp-hr-ietf"),
   Call("to_canon", "rtp-amr"), Call("decode", "FR"), Call("encode", "AMR"),
   Call("ecu", "FR"), Call("alsa_out", "rawpcm-s16le"), Call("rtp_out", "rtp-amr")}
============================================================================
