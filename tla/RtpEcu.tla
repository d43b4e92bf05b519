------------------------------- MODULE RtpEcu -------------------------------
(* Two processing queues joined by a network: one offers Full Rate frames to *)
(* an RTP sink, the other runs RTP source -> ECU -> decoder, the chain of    *)
(* pq_rtp_test.c with the items of ecu_fr_test.c behind the source.          *)
EXTENDS PqRtp, EcuFr, Sequences, FiniteSets

CONSTANTS
  MaxOffered,   \* bound: frames offered to the sink
  MaxTaken,     \* bound: passes of the receiving queue
  MaxNet        \* bound: packets on their way

ASSUME RtpEcuAssumption == MaxOffered \in Nat /\ MaxTaken \in Nat /\ MaxNet \in Nat

VARIABLES
  log,      \* frames into and out of the ECU, for the passes that reached the decoder
  passes,   \* passes of the receiving queue
  harmed,   \* whether a datagram that is not the sink's, or is cut off, has been taken
  crashed   \* whether a payload of another length than a block has been taken

vars == <<rtpVars, ecuVars, log, passes, harmed, crashed>>
passVars == <<ecuVars, log, passes, harmed, crashed>>

Init ==
  /\ RtpInit /\ EcuInit
  /\ log = <<>> /\ passes = 0 /\ harmed = FALSE /\ crashed = FALSE

----------------------------------------------------------------------------
\* what the sender's queue may offer as its next frame
Offers == [n : {offered + 1}, kind : {"good"}, level : 0..MaxLevel]
          \cup {[n |-> offered + 1, kind |-> "bad", level |-> 0]}

Send ==
  /\ offered < MaxOffered /\ Cardinality(net) < MaxNet
  /\ \E f \in Offers : RtpOutput(f)
  /\ UNCHANGED passVars

SendFails ==
  /\ offered < MaxOffered
  /\ RtpOutputFails
  /\ UNCHANGED passVars

\* any other payload is a good frame to the ECU
Other == [n |-> 0, kind |-> "good", level |-> 0]

Transport ==
  /\ \/ \E p \in net : Relay(p) \/ Lose(p)
     \/ Cardinality(net) < MaxNet /\ \E h \in Strays : Stray(h, Other)
  /\ UNCHANGED passVars

----------------------------------------------------------------------------
(* A pass of the receiving queue                                             *)

\* the source returns an error
Refuse(p, repeated) ==
  /\ RtpInput(p, -1, repeated)
  /\ UNCHANGED <<ecuVars, log, harmed, crashed>>

\* a shorter payload fails assert(in_len == FR_CANON_LEN), a longer one is copied
\* beyond the source's buffer; nothing keeps the length, and one stands for all
WrongLengths(h) == Returned(h) \ {-1, BlkLen}

Crash(p, repeated) ==
  /\ WrongLengths(p.hdr) # {}
  /\ RtpInput(p, CHOOSE n \in WrongLengths(p.hdr) : TRUE, repeated)
  /\ crashed' = TRUE
  /\ harmed' = (harmed \/ ~Readable(p))
  /\ UNCHANGED <<ecuVars, log>>

\* the frame of a packet, if the source finds it where it is
FrameOf(p) == IF PayloadAt(p.hdr) = p.at THEN p.body ELSE Other

Decode(p, repeated) ==
  /\ RtpInput(p, BlkLen, repeated)
  /\ harmed' = (harmed \/ ~Readable(p))
  /\ \/ \E out \in {FrameOf(p), Concealed} :
          EcuProc(FrameOf(p), out) /\ log' = Append(log, [in |-> FrameOf(p), out |-> out])
     \/ EcuFails(FrameOf(p)) /\ UNCHANGED log
  /\ UNCHANGED crashed

Receive ==
  /\ ~crashed /\ passes < MaxTaken
  /\ \E p \in net, repeated \in BOOLEAN :
       Refuse(p, repeated) \/ Crash(p, repeated) \/ Decode(p, repeated)
  /\ passes' = passes + 1

Next == Send \/ SendFails \/ Transport \/ Receive

Spec == Init /\ [][Next]_vars

----------------------------------------------------------------------------
(* Properties                                                                *)

EcuFrames == FrFrames \cup {NoFrFrame}
PacketSet ==
  [hdr : Headers, seq : Nat, ts : Nat, n : Nat, at : Nat, body : FrFrames]

\* Every variable of both queues and of the network has its type.
TypeOK ==
  /\ offered \in Nat /\ seq \in 0..(SeqMod - 1) /\ ts \in 0..(TsMod - 1)
  /\ net \subseteq PacketSet
  /\ r_seq \in Nat /\ r_ts \in Nat
  /\ backup \in EcuFrames /\ lost \in BOOLEAN
  /\ log \in Seq([in : FrFrames, out : FrFrames])
  /\ passes \in Nat /\ harmed \in BOOLEAN /\ crashed \in BOOLEAN

\* As long as no stray and no datagram longer than the source's read buffer is taken,
\* no assertion of the ECU fails and what the ECU is given are frames that were
\* offered to the sink, whatever translators did to their packets (pq_cb_rtp_input,
\* ecu_proc_fr).
FramesIntact == ~harmed => ~crashed /\ \A k \in DOMAIN log : log[k].in.n \in 1..offered

\* j is the last good frame the ECU was given before the bad frame k
LastGood(j, k) ==
  /\ j \in 1..(k - 1) /\ log[j].in.kind = "good"
  /\ \A i \in (j + 1)..k : log[i].in.kind = "bad"

\* A bad frame after a good one is replaced by that good frame, which from the second
\* replacement on loses a level each time; only below the lowest level the decoder
\* gets a frame of zeros (ecu_proc_fr).
FadesFromLastGood ==
  \A j, k \in DOMAIN log : LastGood(j, k) =>
    LET steps == k - j - 1
        good  == log[j].in
    IN  log[k].out = IF steps <= good.level THEN [good EXCEPT !.level = @ - steps]
                     ELSE [n |-> good.n, kind |-> "bad", level |-> 0]
============================================================================
