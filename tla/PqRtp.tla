------------------------------- MODULE PqRtp --------------------------------
(* The RTP items of the processing queue (pq_rtp.c): how the sink numbers    *)
(* and sends the frames of its queue, and how the source takes the payload   *)
(* from a packet.  Two such queues are joined by a network (pq_rtp_test.c    *)
(* joins them by a loopback socket) that loses, repeats and reorders         *)
(* packets, whose translators and mixers add contributing sources, header    *)
(* extensions and padding (RFC 3550), and on which other datagrams arrive.   *)
EXTENDS Integers

CONSTANTS
  BlkLen,        \* blk_len of both items
  SeqMod,        \* number of sequence numbers: uint16_t
  TsMod,         \* number of timestamps: uint32_t
  Seq0, Ts0,     \* what random() gave the sink's constructor
  Relays,        \* what a translator makes of a header: [csrc, words, pad], words -1 without extension
  Strays         \* datagrams that are not from the sink, of Headers

HdrLen == 12     \* sizeof(struct rtp_hdr)
XHdrLen == 4     \* sizeof(struct rtp_x_hdr)
Room == 256      \* what the source can read beyond a block

\* the values of a field
Below(n) == {k \in Nat : k < n}

\* What the source reads of a datagram: its length, the header fields it looks at,
\* and the value of the last byte.  words is the length field of the extension.
Headers ==
  [len : Nat, version : Below(4), csrc : Below(16), ext : BOOLEAN, words : Below(65536),
   pad : BOOLEAN, last : Below(256)]

ASSUME RtpAssumption ==
  /\ BlkLen \in Nat
  /\ SeqMod \in Nat \ {0} /\ TsMod \in Nat \ {0}
  /\ Seq0 \in 0..(SeqMod - 1) /\ Ts0 \in 0..(TsMod - 1)
  /\ Relays \subseteq [csrc : Below(16), words : Below(65536) \cup {-1}, pad : Below(256)]
  /\ Strays \subseteq Headers

VARIABLES
  offered,       \* frames given to the sink, numbered from 1
  seq, ts,       \* the sink's sequence and timestamp: of the next packet
  net,           \* packets on their way
  r_seq, r_ts    \* the source's sequence and timestamp: of the last packet it took

sinkVars == <<offered, seq, ts>>
srcVars  == <<r_seq, r_ts>>
rtpVars  == <<sinkVars, net, srcVars>>

RtpInit ==
  /\ offered = 0 /\ seq = Seq0 /\ ts = Ts0
  /\ net = {}
  /\ r_seq = 0 /\ r_ts = 0

----------------------------------------------------------------------------
(* pq_cb_rtp_output                                                          *)

Duration == 160

PlainHeader ==
  [len |-> HdrLen + BlkLen, version |-> 2, csrc |-> 0, ext |-> FALSE, words |-> 0,
   pad |-> FALSE, last |-> 0]

\* n is the number of the frame a packet carries, 0 for none, and at its place in it
Packet(h, s, t, n, at, body) ==
  [hdr |-> h, seq |-> s, ts |-> t, n |-> n, at |-> at, body |-> body]

\* Mutant: numbers the packets that were written, not the frames.
AdvanceIfWritten(written) ==
  /\ offered' = offered + 1
  /\ seq' = IF written THEN (seq + 1) % SeqMod ELSE seq
  /\ ts' = IF written THEN (ts + Duration) % TsMod ELSE ts

\* Mutant: counters of no width.
AdvanceUnbounded(written) ==
  /\ written \in BOOLEAN
  /\ offered' = offered + 1
  /\ seq' = seq + 1
  /\ ts' = ts + Duration

\* the header is filled in before the packet is written
Advance(written) ==
  /\ written \in BOOLEAN
  /\ offered' = offered + 1
  /\ seq' = (seq + 1) % SeqMod
  /\ ts' = (ts + Duration) % TsMod

RtpOutput(body) ==
  /\ Advance(TRUE)
  /\ net' = net \cup {Packet(PlainHeader, seq, ts, offered + 1, HdrLen, body)}
  /\ UNCHANGED srcVars

\* write fails, or is short
RtpOutputFails ==
  /\ Advance(FALSE)
  /\ UNCHANGED <<net, srcVars>>

----------------------------------------------------------------------------
(* The network                                                               *)

\* what translator r puts between the header and the payload
Inserted(r) == 4 * r.csrc + (IF r.words >= 0 THEN 4 + 4 * r.words ELSE 0)

Relayed(r) ==
  [len |-> HdrLen + Inserted(r) + BlkLen + r.pad, version |-> 2, csrc |-> r.csrc,
   ext |-> r.words >= 0, words |-> IF r.words >= 0 THEN r.words ELSE 0,
   pad |-> r.pad > 0, last |-> r.pad]

Relay(p) ==
  /\ p \in net /\ p.hdr = PlainHeader
  /\ \E r \in Relays :
       net' = (net \ {p}) \cup {[p EXCEPT !.hdr = Relayed(r), !.at = HdrLen + Inserted(r)]}
  /\ UNCHANGED <<sinkVars, srcVars>>

Lose(p) ==
  /\ p \in net
  /\ net' = net \ {p}
  /\ UNCHANGED <<sinkVars, srcVars>>

\* another program sends a datagram to the port
Stray(h, body) ==
  /\ h \in Strays
  /\ net' = net \cup {Packet(h, 0, 0, 0, 0, body)}
  /\ UNCHANGED <<sinkVars, srcVars>>

----------------------------------------------------------------------------
(* pq_cb_rtp_input                                                           *)

\* read into buf[blk_len+256] cuts a longer datagram off
Rv(h) == IF h.len > BlkLen + Room THEN BlkLen + Room ELSE h.len

AfterCsrc(h) == Rv(h) - HdrLen - 4 * h.csrc

\* Mutant: leaves the extension's own header in the payload.
XLenOfWords(h) == IF h.ext THEN 4 * h.words ELSE 0

XLen(h) == IF h.ext THEN 4 * h.words + XHdrLen ELSE 0

AfterExt(h) == AfterCsrc(h) - XLen(h)
PayloadAt(h) == HdrLen + 4 * h.csrc + XLen(h)

\* What payload[payload_len - 1] may be: the last byte of the datagram, if all of
\* it was read; any byte of the frame if it was not, or, with no payload, of the header.
Pad(h) ==
  IF ~h.pad THEN [least |-> 0, most |-> 0]
  ELSE IF AfterExt(h) > 0 /\ Rv(h) = h.len THEN [least |-> h.last, most |-> h.last]
  ELSE [least |-> 0, most |-> 255]

Refused(h) ==
  \/ Rv(h) < HdrLen
  \/ h.version # 2
  \/ AfterCsrc(h) < 0
  \/ h.ext /\ AfterCsrc(h) < XHdrLen
  \/ AfterExt(h) < 0

OrError(n) == IF n < 0 THEN -1 ELSE n

\* what pq_cb_rtp_input may return
Returned(h) ==
  IF Refused(h) THEN {-1}
  ELSE OrError(AfterExt(h) - Pad(h).most)..OrError(AfterExt(h) - Pad(h).least)

\* the source takes packet p: n bytes of payload, or an error; a repeated packet
\* stays on its way
RtpInput(p, n, repeated) ==
  /\ p \in net
  /\ n \in Returned(p.hdr)
  /\ net' = IF repeated THEN net ELSE net \ {p}
  /\ IF n >= 0 THEN r_seq' = p.seq /\ r_ts' = p.ts ELSE UNCHANGED srcVars
  /\ UNCHANGED sinkVars

----------------------------------------------------------------------------
(* What is said of the items alone                                           *)

\* s and t are the numbers of the frame in place n of the stream
NumbersOf(s, t, n) == s = (Seq0 + (n - 1)) % SeqMod /\ t = (Ts0 + Duration * (n - 1)) % TsMod

\* The sequence number and the timestamp of a packet are those of its frame's place
\* in the stream, whatever could not be written before it or has wrapped since
\* (pq_cb_rtp_output advances both before it writes).
NumberedByFrame == \A p \in net : p.n > 0 => NumbersOf(p.seq, p.ts, p.n)

\* a packet of the sink that fits in the buffer it is read into
Readable(p) == p.n > 0 /\ p.hdr.len <= BlkLen + Room
============================================================================
