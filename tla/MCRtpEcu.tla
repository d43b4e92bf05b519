------------------------------ MODULE MCRtpEcu ------------------------------
(* Model-checking instance of RtpEcu.                                        *)
EXTENDS RtpEcu

Via(c, w, p) == [csrc |-> c, words |-> w, pad |-> p]

\* nothing in common; a header that fills the read buffer; one that is cut off; and
\* padding of which the last byte is cut off
MCRelays == {Via(3, 1, 4), Via(0, 60, 0), Via(0, 61, 0), Via(1, -1, 245)}

Datagram(l, v, c, x, w, p, b) ==
  [len |-> l, version |-> v, csrc |-> c, ext |-> x, words |-> w, pad |-> p, last |-> b]

\* around each check of pq_cb_rtp_input
MCStrays ==
  {Datagram(11, 2, 0, FALSE, 0, FALSE, 0),
   Datagram(15, 2, 1, FALSE, 0, FALSE, 0),
   Datagram(15, 2, 0, TRUE, 0, FALSE, 0),
   Datagram(16, 2, 0, TRUE, 1, FALSE, 0),
   Datagram(16, 2, 0, TRUE, 0, TRUE, 0),
   Datagram(20, 2, 0, FALSE, 0, TRUE, 9),
   Datagram(14 + BlkLen, 2, 0, FALSE, 0, TRUE, 2)}
============================================================================
