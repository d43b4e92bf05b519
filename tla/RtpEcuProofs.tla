---------------------------- MODULE RtpEcuProofs ----------------------------
(* Proofs about RtpEcu, for blocks of any length, counters of any width,     *)
(* any translators and strays, any number of amplitudes and every bound: the *)
(* type invariant, how packets are numbered, what reaches the ECU, and what  *)
(* the decoder is given for lost frames.                                     *)
EXTENDS RtpEcu, TLAPS, SequenceTheorems

----------------------------------------------------------------------------
(* Counters of any width                                                     *)

\* A remainder is the only one.
LEMMA RemainderUnique ==
  ASSUME NEW m \in Nat \ {0}, NEW q \in Int, NEW r \in 0..(m - 1)
  PROVE  (m * q + r) % m = r
<1> DEFINE a == m * q + r
           d == a \div m
           e == a % m
<1>1. a \in Int
  OBVIOUS
<1>2. d \in Int /\ e \in 0..(m - 1) /\ a = m * d + e
  BY <1>1
<1>3. m * (q - d) = e - r
  BY <1>2
<1> HIDE DEF d, e
<1>4. \A k \in Int : k >= 1 => m * k >= m
  OBVIOUS
<1>5. \A k \in Int : k <= -1 => m * k <= -m
  OBVIOUS
<1>6. ~ (q - d >= 1) /\ ~ (q - d <= -1)
  BY <1>2, <1>3, <1>4, <1>5
<1>7. q - d = 0
  BY <1>2, <1>6
<1>8. m * (q - d) = 0
  BY <1>7
<1>9. e = r
  BY <1>2, <1>3, <1>8
<1> QED
  BY <1>9 DEF e

\* Counting on from a number that has wrapped is counting on from the number.
LEMMA CountOn ==
  ASSUME NEW m \in Nat \ {0}, NEW a \in Nat, NEW d \in Nat
  PROVE  ((a % m) + d) % m = (a + d) % m
<1> DEFINE q == a \div m
           r == a % m
           t == (r + d) \div m
           s == (r + d) % m
<1>1. q \in Int /\ r \in 0..(m - 1) /\ a = m * q + r
  OBVIOUS
<1>2. t \in Int /\ s \in 0..(m - 1) /\ r + d = m * t + s
  BY <1>1
<1> HIDE DEF q, r, s, t
<1>3. a + d = m * (q + t) + s
  BY <1>1, <1>2
<1>4. \A k \in Int : (m * k + s) % m = s
  BY <1>2, RemainderUnique
<1>5. (m * (q + t) + s) % m = s
  <2>1. q + t \in Int
    BY <1>1, <1>2
  <2> QED
    BY <2>1, <1>4
<1> QED
  BY <1>3, <1>5 DEF s, r

----------------------------------------------------------------------------
(* Where the payload is                                                      *)

\* a header the sink writes, or one a translator makes of it, and the payload's place
OwnHeader(h, at) ==
  \/ h = PlainHeader /\ at = HdrLen
  \/ \E r \in Relays : h = Relayed(r) /\ at = HdrLen + Inserted(r)

\* The headers of the sink and of translators are headers, the payload's place a number.
LEMMA HeaderTypes ==
  /\ PlainHeader \in Headers /\ HdrLen \in Nat
  /\ \A r \in Relays : Relayed(r) \in Headers /\ HdrLen + Inserted(r) \in Nat
  /\ \A h \in Strays : h \in Headers
<1>1. ASSUME NEW r \in Relays
      PROVE  Relayed(r) \in Headers /\ HdrLen + Inserted(r) \in Nat
  <2>1. r.csrc \in Below(16) /\ r.words \in Below(65536) \cup {-1} /\ r.pad \in Below(256)
    BY RtpAssumption
  <2>3. Inserted(r) \in Nat
    BY <2>1 DEF Inserted, Below
  <2>4. BlkLen \in Nat
    BY RtpAssumption
  <2> QED
    BY <2>1, <2>3, <2>4 DEF Relayed, Headers, HdrLen, Below
<1>2. PlainHeader \in Headers /\ HdrLen \in Nat
  <2>1. BlkLen \in Nat
    BY RtpAssumption
  <2> QED
    BY <2>1 DEF PlainHeader, Headers, HdrLen, Below
<1>3. \A h \in Strays : h \in Headers
  BY RtpAssumption
<1> QED
  BY <1>1, <1>2, <1>3

\* A packet of the sink that fits in the source's buffer gives a block, found where the
\* payload is, whatever contributing sources, extension and padding it has.
LEMMA PayloadFound ==
  ASSUME NEW h, NEW at, OwnHeader(h, at), h.len <= BlkLen + Room
  PROVE  Returned(h) = {BlkLen} /\ PayloadAt(h) = at
<1>1. CASE h = PlainHeader /\ at = HdrLen
  <2>1. BlkLen \in Nat
    BY RtpAssumption
  <2>2. /\ h.len = HdrLen + BlkLen /\ h.version = 2 /\ h.csrc = 0 /\ ~h.ext /\ ~h.pad
    BY <1>1 DEF PlainHeader
  <2>3. Rv(h) = h.len /\ XLen(h) = 0 /\ AfterCsrc(h) = BlkLen /\ AfterExt(h) = BlkLen
    BY <2>1, <2>2 DEF Rv, XLen, AfterCsrc, AfterExt, HdrLen, Room
  <2>4. ~Refused(h) /\ Pad(h) = [least |-> 0, most |-> 0]
    BY <2>1, <2>2, <2>3 DEF Refused, Pad, HdrLen
  <2>5. Returned(h) = {BlkLen}
    BY <2>1, <2>3, <2>4 DEF Returned, OrError
  <2> QED
    BY <1>1, <2>2, <2>3, <2>5 DEF PayloadAt, HdrLen
<1>2. ASSUME NEW r \in Relays, h = Relayed(r), at = HdrLen + Inserted(r)
      PROVE  Returned(h) = {BlkLen} /\ PayloadAt(h) = at
  <2>1. /\ r.csrc \in Nat /\ r.words \in Nat \cup {-1} /\ r.pad \in Nat
        /\ BlkLen \in Nat
    BY RtpAssumption DEF Below
  <2>2. /\ h.len = HdrLen + Inserted(r) + BlkLen + r.pad
        /\ h.version = 2 /\ h.csrc = r.csrc
        /\ h.ext <=> r.words >= 0
        /\ r.words >= 0 => h.words = r.words
        /\ h.pad <=> r.pad > 0
        /\ h.last = r.pad
    BY <1>2, <2>1 DEF Relayed
  <2>3. XLen(h) = IF r.words >= 0 THEN 4 + 4 * r.words ELSE 0
    BY <2>1, <2>2 DEF XLen, XHdrLen
  <2>4. Inserted(r) = 4 * r.csrc + XLen(h) /\ XLen(h) \in Nat
    BY <2>1, <2>3 DEF Inserted
  <2>5. Rv(h) = h.len
    BY <2>1, <2>2, <2>4 DEF Rv, HdrLen, Room
  <2>6. AfterCsrc(h) = XLen(h) + BlkLen + r.pad /\ AfterExt(h) = BlkLen + r.pad
    BY <2>1, <2>2, <2>4, <2>5 DEF AfterCsrc, AfterExt, HdrLen
  <2>7. ~Refused(h)
    BY <2>1, <2>2, <2>3, <2>4, <2>5, <2>6 DEF Refused, HdrLen, XHdrLen
  <2>8. Pad(h) = [least |-> r.pad, most |-> r.pad]
    BY <2>1, <2>2, <2>5, <2>6 DEF Pad
  <2>9. Returned(h) = {BlkLen}
    BY <2>1, <2>6, <2>7, <2>8 DEF Returned, OrError
  <2>10. PayloadAt(h) = at
    BY <1>2, <2>1, <2>2, <2>4 DEF PayloadAt, HdrLen
  <2> QED
    BY <2>9, <2>10
<1> QED
  BY <1>1, <1>2 DEF OwnHeader

\* pq_cb_rtp_input returns a number for every datagram.
LEMMA ReturnedInt ==
  ASSUME NEW h
  PROVE  Returned(h) \subseteq Int
BY DEF Returned

----------------------------------------------------------------------------
(* The two ends and the network                                              *)

RtpTypeOK ==
  /\ offered \in Nat /\ seq \in 0..(SeqMod - 1) /\ ts \in 0..(TsMod - 1)
  /\ net \subseteq PacketSet
  /\ r_seq \in Nat /\ r_ts \in Nat

\* the sink's counters are those of the next frame
SinkCounts == NumbersOf(seq, ts, offered + 1)

\* a packet of the sink carries one of the k frames that were offered, and its numbers
Sent(p, k) ==
  p.n > 0 =>
    /\ p.n <= k /\ p.body.n = p.n
    /\ NumbersOf(p.seq, p.ts, p.n)
    /\ OwnHeader(p.hdr, p.at)

RtpInv == RtpTypeOK /\ SinkCounts /\ \A p \in net : Sent(p, offered)

\* pq_cb_rtp_output advances both counters by one frame, when they wrap too.
LEMMA AdvanceCounts ==
  ASSUME RtpTypeOK, SinkCounts, NEW w, Advance(w)
  PROVE  /\ SinkCounts' /\ offered' = offered + 1 /\ offered' \in Nat
         /\ seq' \in 0..(SeqMod - 1) /\ ts' \in 0..(TsMod - 1)
<1>1. /\ SeqMod \in Nat \ {0} /\ TsMod \in Nat \ {0} /\ Seq0 \in Nat /\ Ts0 \in Nat
      /\ offered \in Nat /\ seq \in Nat /\ ts \in Nat
  BY RtpAssumption DEF RtpTypeOK
<1>2. seq = (Seq0 + offered) % SeqMod /\ ts = (Ts0 + 160 * offered) % TsMod
  BY <1>1 DEF SinkCounts, NumbersOf, Duration
<1>3. offered' = offered + 1 /\ seq' = (seq + 1) % SeqMod /\ ts' = (ts + 160) % TsMod
  BY DEF Advance, Duration
<1>4. seq' = ((Seq0 + offered) + 1) % SeqMod
  <2>1. Seq0 + offered \in Nat /\ 1 \in Nat
    BY <1>1
  <2>2. (((Seq0 + offered) % SeqMod) + 1) % SeqMod = ((Seq0 + offered) + 1) % SeqMod
    BY <1>1, <2>1, CountOn, Zenon
  <2> QED
    BY <1>2, <1>3, <2>2, Zenon
<1>5. ts' = ((Ts0 + 160 * offered) + 160) % TsMod
  <2>1. PICK a \in Nat, d \in Nat : a = Ts0 + 160 * offered /\ d = 160
    BY <1>1
  <2>2. ((a % TsMod) + d) % TsMod = (a + d) % TsMod
    BY <1>1, CountOn, Zenon
  <2>3. ts = a % TsMod /\ ts' = (ts + d) % TsMod
    BY <1>2, <1>3, <2>1
  <2>4. ts' = (a + d) % TsMod
    BY <2>2, <2>3, Zenon
  <2> QED
    BY <2>1, <2>4
<1>6. /\ (Seq0 + offered) + 1 = Seq0 + ((offered' + 1) - 1)
      /\ (Ts0 + 160 * offered) + 160 = Ts0 + 160 * ((offered' + 1) - 1)
  BY <1>1, <1>3
<1>7. SinkCounts'
  BY <1>4, <1>5, <1>6 DEF SinkCounts, NumbersOf, Duration
<1>8. seq' \in 0..(SeqMod - 1) /\ ts' \in 0..(TsMod - 1)
  BY <1>1, <1>3
<1> QED
  BY <1>1, <1>3, <1>7, <1>8

\* RtpInv holds before the first frame.
LEMMA RtpInitInv ==
  ASSUME RtpInit
  PROVE  RtpInv
<1>1. SinkCounts
  BY RtpAssumption DEF RtpInit, SinkCounts, NumbersOf, Duration
<1> QED
  BY <1>1, RtpAssumption DEF RtpInit, RtpInv, RtpTypeOK

\* Offering a frame keeps RtpInv, whether its packet could be written or not.
LEMMA RtpOutputInv ==
  ASSUME RtpInv, NEW f \in FrFrames, f.n = offered + 1, RtpOutput(f) \/ RtpOutputFails
  PROVE  RtpInv' /\ offered' = offered + 1
<1> DEFINE new == Packet(PlainHeader, seq, ts, offered + 1, HdrLen, f)
<1>1. PICK w : Advance(w)
  BY DEF RtpOutput, RtpOutputFails
<1>2. /\ SinkCounts' /\ offered' = offered + 1 /\ offered' \in Nat
      /\ seq' \in 0..(SeqMod - 1) /\ ts' \in 0..(TsMod - 1)
  BY <1>1, AdvanceCounts DEF RtpInv
<1>3. new \in PacketSet /\ Sent(new, offered + 1)
  <2>1. seq \in Nat /\ ts \in Nat /\ offered + 1 \in Nat
    BY RtpAssumption DEF RtpInv, RtpTypeOK
  <2>2. new \in PacketSet
    BY <2>1, HeaderTypes DEF Packet, PacketSet
  <2>3. NumbersOf(seq, ts, offered + 1)
    BY DEF RtpInv, SinkCounts
  <2> QED
    BY <2>1, <2>2, <2>3 DEF Sent, Packet, OwnHeader
<1>4. net' \subseteq net \cup {new} /\ UNCHANGED srcVars
  BY DEF RtpOutput, RtpOutputFails
<1> HIDE DEF new
<1>5. ASSUME NEW p \in net PROVE p \in PacketSet /\ Sent(p, offered + 1)
  BY <1>2, <1>5 DEF RtpInv, RtpTypeOK, PacketSet, Sent
<1>6. RtpTypeOK'
  BY <1>2, <1>3, <1>4, <1>5 DEF RtpInv, RtpTypeOK, srcVars
<1> QED
  BY <1>2, <1>3, <1>4, <1>5, <1>6 DEF RtpInv

\* RtpInv survives a change of the network that only adds packets of which it holds.
LEMMA NetInv ==
  ASSUME RtpInv, UNCHANGED sinkVars, r_seq' \in Nat, r_ts' \in Nat,
         \A p \in net' : p \in PacketSet /\ Sent(p, offered)
  PROVE  RtpInv'
BY DEF RtpInv, RtpTypeOK, sinkVars, SinkCounts, NumbersOf

\* A translator moves the payload and says so in the header.
LEMMA RelayInv ==
  ASSUME RtpInv, NEW p \in net, Relay(p)
  PROVE  RtpInv'
<1>1. PICK r \in Relays :
        net' = (net \ {p})
               \cup {[p EXCEPT !.hdr = Relayed(r), !.at = HdrLen + Inserted(r)]}
  BY DEF Relay
<1> DEFINE q == [p EXCEPT !.hdr = Relayed(r), !.at = HdrLen + Inserted(r)]
<1>2. p \in PacketSet /\ Sent(p, offered)
  BY DEF RtpInv, RtpTypeOK
<1>3. /\ q \in PacketSet /\ q.n = p.n /\ q.body = p.body /\ q.seq = p.seq /\ q.ts = p.ts
      /\ q.hdr = Relayed(r) /\ q.at = HdrLen + Inserted(r)
  BY <1>2, HeaderTypes DEF PacketSet
<1> HIDE DEF q
<1>4. Sent(q, offered)
  BY <1>2, <1>3 DEF Sent, OwnHeader
<1>5. net' \subseteq net \cup {q} /\ UNCHANGED <<sinkVars, srcVars>>
  BY <1>1 DEF Relay, q
<1> QED
  BY <1>3, <1>4, <1>5, NetInv DEF RtpInv, RtpTypeOK, srcVars

\* A datagram of another program claims to be no frame.
LEMMA StrayInv ==
  ASSUME RtpInv, NEW h \in Strays, NEW f \in FrFrames, Stray(h, f)
  PROVE  RtpInv'
<1> DEFINE q == Packet(h, 0, 0, 0, 0, f)
<1>1. q \in PacketSet /\ Sent(q, offered)
  BY HeaderTypes DEF Packet, PacketSet, Sent
<1>2. net' = net \cup {q} /\ UNCHANGED <<sinkVars, srcVars>>
  BY DEF Stray
<1> HIDE DEF q
<1> QED
  BY <1>1, <1>2, NetInv DEF RtpInv, RtpTypeOK, srcVars

\* Losing a packet, or taking one, only takes from the network.
LEMMA TakeInv ==
  ASSUME RtpInv, NEW p \in net,
         Lose(p) \/ \E n \in Int, repeated \in BOOLEAN : RtpInput(p, n, repeated)
  PROVE  RtpInv'
<1>1. net' \subseteq net /\ UNCHANGED sinkVars
  BY DEF Lose, RtpInput
<1>2. r_seq' \in Nat /\ r_ts' \in Nat
  <2>1. p.seq \in Nat /\ p.ts \in Nat /\ r_seq \in Nat /\ r_ts \in Nat
    BY DEF RtpInv, RtpTypeOK, PacketSet
  <2> QED
    BY <2>1 DEF Lose, RtpInput, srcVars
<1> QED
  BY <1>1, <1>2, NetInv DEF RtpInv, RtpTypeOK

----------------------------------------------------------------------------
(* The ECU and what it was given                                             *)

\* what the decoder is given for the bad frame that follows steps others after a good one
Faded(good, steps) ==
  IF steps <= good.level THEN [good EXCEPT !.level = @ - steps]
  ELSE [n |-> good.n, kind |-> "bad", level |-> 0]

LogType == Seq([in : FrFrames, out : FrFrames])

\* frame j is good and nothing after it is
LastGoodIs(j) ==
  /\ j \in DOMAIN log /\ log[j].in.kind = "good"
  /\ \A i \in (j + 1)..Len(log) : log[i].in.kind = "bad"

\* The backup is what has become of the last good frame; without one there is none.
BackupIsLastGood ==
  IF backup = NoFrFrame THEN \A j \in DOMAIN log : log[j].in.kind = "bad"
  ELSE \E j \in DOMAIN log :
         /\ LastGoodIs(j)
         /\ lost <=> j < Len(log)
         /\ backup = IF j = Len(log) THEN log[j].in ELSE Faded(log[j].in, Len(log) - j - 1)

EcuInv ==
  /\ log \in LogType /\ backup \in EcuFrames /\ lost \in BOOLEAN
  /\ BackupIsLastGood /\ FadesFromLastGood

\* Fading by one step more.
LEMMA LowerFaded ==
  ASSUME NEW g \in FrFrames, NEW s \in Nat
  PROVE  /\ Faded(g, s) \in FrFrames /\ Faded(g, 0) = g
         /\ Lower(Faded(g, s)) = Faded(g, s + 1)
<1>1. /\ g = [n |-> g.n, kind |-> g.kind, level |-> g.level]
      /\ g.n \in Nat /\ g.kind \in {"good", "bad"} /\ g.level \in 0..MaxLevel /\ MaxLevel \in Nat
  BY EcuAssumption DEF FrFrames
<1>2. Faded(g, s) = IF s <= g.level THEN [n |-> g.n, kind |-> g.kind, level |-> g.level - s]
                    ELSE [n |-> g.n, kind |-> "bad", level |-> 0]
  BY <1>1 DEF Faded
<1>3. Faded(g, s) \in FrFrames
  BY <1>1, <1>2 DEF FrFrames
<1>4. Faded(g, 0) = g
  <2>1. Faded(g, 0) = [n |-> g.n, kind |-> g.kind, level |-> g.level - 0]
    BY <1>1 DEF Faded
  <2>2. g.level - 0 = g.level
    BY <1>1
  <2> QED
    BY <1>1, <2>1, <2>2
<1>5. CASE s < g.level
  <2>1. Faded(g, s + 1) = [n |-> g.n, kind |-> g.kind, level |-> g.level - (s + 1)]
    BY <1>1, <1>5 DEF Faded
  <2>2. Faded(g, s) = [n |-> g.n, kind |-> g.kind, level |-> g.level - s] /\ g.level - s # 0
    BY <1>1, <1>2, <1>5
  <2>3. Lower(Faded(g, s)) = [n |-> g.n, kind |-> g.kind, level |-> (g.level - s) - 1]
    BY <2>2 DEF Lower
  <2>4. (g.level - s) - 1 = g.level - (s + 1)
    BY <1>1
  <2> QED
    BY <1>3, <1>4, <2>1, <2>3, <2>4
<1>6. CASE s >= g.level
  <2>1. Faded(g, s + 1) = [n |-> g.n, kind |-> "bad", level |-> 0]
    BY <1>1, <1>6 DEF Faded
  <2>2. /\ Faded(g, s).n = g.n /\ Faded(g, s).level = 0
        /\ Faded(g, s) = [n |-> g.n, kind |-> Faded(g, s).kind, level |-> 0]
    BY <1>1, <1>2, <1>6
  <2>3. Lower(Faded(g, s)) = [n |-> g.n, kind |-> "bad", level |-> 0]
    BY <2>2 DEF Lower
  <2> QED
    BY <1>3, <1>4, <2>1, <2>3
<1> QED
  BY <1>1, <1>5, <1>6

\* FadesFromLastGood with its two cases under one name.
LEMMA FadesByName ==
  FadesFromLastGood <=>
    \A j, k \in DOMAIN log : LastGood(j, k) => log[k].out = Faded(log[j].in, k - j - 1)
BY DEF FadesFromLastGood, Faded

\* What the ECU puts out for a bad frame is the last good frame, faded by as many steps
\* as there were bad frames since.
LEMMA ConcealedIsFaded ==
  ASSUME EcuInv, NEW j \in DOMAIN log, LastGoodIs(j), lost <=> j < Len(log),
         backup = IF j = Len(log) THEN log[j].in ELSE Faded(log[j].in, Len(log) - j - 1)
  PROVE  Concealed = Faded(log[j].in, Len(log) - j) /\ Concealed \in FrFrames
<1>1. log \in LogType /\ Len(log) \in Nat /\ DOMAIN log = 1..Len(log)
  BY LenProperties DEF EcuInv, LogType
<1>2. log[j].in \in FrFrames /\ j \in 1..Len(log)
  <2>1. log[j] \in [in : FrFrames, out : FrFrames]
    BY <1>1, ElementOfSeq DEF LogType
  <2> QED
    BY <1>1, <2>1
<1>3. CASE j = Len(log)
  <2>1. Concealed = log[j].in /\ Len(log) - j = 0
    BY <1>1, <1>3 DEF Concealed
  <2>2. Faded(log[j].in, 0) = log[j].in
    BY <1>2, LowerFaded
  <2> QED
    BY <1>2, <2>1, <2>2
<1>4. CASE j < Len(log)
  <2> DEFINE s == Len(log) - j - 1
  <2>1. s \in Nat /\ s + 1 = Len(log) - j
    BY <1>1, <1>2, <1>4
  <2>2. Concealed = Lower(Faded(log[j].in, s))
    BY <1>1, <1>4 DEF Concealed
  <2>3. Lower(Faded(log[j].in, s)) = Faded(log[j].in, s + 1)
    BY <1>2, <2>1, LowerFaded
  <2>4. Faded(log[j].in, s + 1) \in FrFrames
    BY <1>2, <2>1, LowerFaded
  <2> QED
    BY <2>1, <2>2, <2>3, <2>4
<1> QED
  BY <1>1, <1>2, <1>3, <1>4

\* ecu_proc_fr keeps what the backup is, and puts out what it should.
LEMMA EcuProcInv ==
  ASSUME EcuInv, NEW f \in FrFrames, NEW out, EcuProc(f, out),
         log' = Append(log, [in |-> f, out |-> out])
  PROVE  EcuInv'
<1> DEFINE e == [in |-> f, out |-> out]
<1>0. PICK L \in Nat : L = Len(log)
  BY LenProperties DEF EcuInv, LogType
<1>1. log \in LogType /\ L = Len(log) /\ L \in Nat /\ DOMAIN log = 1..L
  BY <1>0, LenProperties DEF EcuInv, LogType
<1>2. f.kind \in {"good", "bad"} /\ NoFrFrame \notin FrFrames
  BY DEF FrFrames, NoFrFrame
<1>4. ASSUME out \in FrFrames
      PROVE  /\ log' \in LogType /\ Len(log') = L + 1 /\ DOMAIN log' = 1..(L + 1)
             /\ \A i \in 1..L : log'[i] = log[i]
             /\ log'[L + 1] = e
  <2>1. e \in [in : FrFrames, out : FrFrames]
    BY <1>4
  <2>2. /\ log' \in LogType /\ Len(log') = L + 1
        /\ \A i \in 1..L : log'[i] = log[i]
        /\ log'[L + 1] = e
    BY <1>1, <2>1, AppendProperties DEF LogType
  <2> QED
    BY <1>1, <2>2, LenProperties DEF LogType
\* what is left to show of FadesFromLastGood is about the frame that was appended
<1>5. ASSUME out \in FrFrames,
             \A j \in 1..L :
               /\ log[j].in.kind = "good" /\ f.kind = "bad"
               /\ \A i \in (j + 1)..L : log[i].in.kind = "bad"
               => out = Faded(log[j].in, L - j)
      PROVE  FadesFromLastGood'
  <2>1. SUFFICES ASSUME NEW j \in DOMAIN log', NEW k \in DOMAIN log', LastGood(j, k)'
                 PROVE  log'[k].out = Faded(log'[j].in, k - j - 1)
    BY DEF FadesFromLastGood, Faded
  <2>2. /\ j \in 1..(k - 1) /\ k \in 1..(L + 1) /\ log'[j].in.kind = "good"
        /\ \A i \in (j + 1)..k : log'[i].in.kind = "bad"
    BY <1>4, <1>5, <2>1 DEF LastGood
  <2>3. j \in 1..L /\ log'[j] = log[j]
    BY <1>1, <1>4, <1>5, <2>2
  <2>4. CASE k = L + 1
    <3>1. log'[k] = e /\ e.in = f /\ e.out = out
      BY <1>4, <1>5, <2>4
    <3>2. f.kind = "bad"
      BY <1>1, <2>2, <2>4, <3>1
    <3>3. \A i \in (j + 1)..L : log[i].in.kind = "bad"
      BY <1>1, <1>4, <1>5, <2>2, <2>3, <2>4
    <3>4. k - j - 1 = L - j
      BY <1>1, <2>3, <2>4
    <3> QED
      BY <1>5, <2>2, <2>3, <3>1, <3>2, <3>3, <3>4
  <2>5. CASE k \in 1..L
    <3>1. log'[k] = log[k]
      BY <1>4, <1>5, <2>5
    <3>2. LastGood(j, k)
      BY <1>1, <1>4, <1>5, <2>2, <2>3, <2>5 DEF LastGood
    <3> QED
      BY <1>1, <2>3, <2>5, <3>1, <3>2, FadesByName DEF EcuInv
  <2> QED
    BY <1>1, <2>2, <2>4, <2>5
<1>6. CASE PassGood(f, out)
  <2>1. out = f /\ f.kind = "good" /\ backup' = f /\ lost' = FALSE
    BY <1>6 DEF PassGood
  <2>2. LastGoodIs(L + 1)'
    BY <1>1, <1>4, <2>1 DEF LastGoodIs
  <2>3. BackupIsLastGood'
    BY <1>1, <1>2, <1>4, <2>1, <2>2 DEF BackupIsLastGood
  <2> QED
    BY <1>4, <1>5, <2>1, <2>3 DEF EcuInv, EcuFrames
<1>7. CASE PassBad(f, out)
  <2>1. out = f /\ f.kind = "bad" /\ backup = NoFrFrame /\ UNCHANGED ecuVars
    BY <1>7 DEF PassBad
  <2>2. \A j \in 1..L : log[j].in.kind = "bad"
    BY <1>1, <2>1 DEF EcuInv, BackupIsLastGood
  <2>3. BackupIsLastGood'
    BY <1>1, <1>4, <2>1, <2>2 DEF BackupIsLastGood, ecuVars
  <2> QED
    BY <1>4, <1>5, <2>1, <2>2, <2>3 DEF EcuInv, ecuVars
<1>8. CASE Conceal(f, out)
  <2>1. /\ f.kind = "bad" /\ backup # NoFrFrame
        /\ out = Concealed /\ backup' = Concealed /\ lost' = TRUE
    BY <1>8 DEF Conceal
  <2>2. PICK g \in DOMAIN log :
          /\ LastGoodIs(g) /\ (lost <=> g < Len(log))
          /\ backup = IF g = Len(log) THEN log[g].in ELSE Faded(log[g].in, Len(log) - g - 1)
    BY <2>1 DEF EcuInv, BackupIsLastGood
  <2>3. Concealed = Faded(log[g].in, L - g) /\ Concealed \in FrFrames
    BY <1>1, <2>2, ConcealedIsFaded
  <2>4. /\ log[g].in.kind = "good" /\ g \in 1..L
        /\ \A i \in (g + 1)..L : log[i].in.kind = "bad"
    BY <1>1, <2>2 DEF LastGoodIs
  <2>5. BackupIsLastGood'
    <3>1. LastGoodIs(g)'
      BY <1>1, <1>4, <2>1, <2>3, <2>4 DEF LastGoodIs
    <3>2. (L + 1) - g - 1 = L - g /\ g < L + 1 /\ g # L + 1
      BY <1>1, <2>4
    <3>3. /\ lost' <=> g < Len(log')
          /\ backup' = IF g = Len(log') THEN log'[g].in
                       ELSE Faded(log'[g].in, Len(log') - g - 1)
      BY <1>4, <2>1, <2>3, <2>4, <3>2
    <3>4. backup' # NoFrFrame /\ g \in DOMAIN log'
      BY <1>1, <1>2, <1>4, <2>1, <2>3, <2>4
    <3> QED
      BY <3>1, <3>3, <3>4 DEF BackupIsLastGood, Faded
  <2>6. FadesFromLastGood'
    <3>1. ASSUME NEW j \in 1..L, log[j].in.kind = "good",
                 \A i \in (j + 1)..L : log[i].in.kind = "bad"
          PROVE  j = g
      BY <1>1, <2>4, <3>1
    <3> QED
      BY <1>5, <2>1, <2>3, <3>1
  <2> QED
    BY <1>4, <2>1, <2>3, <2>5, <2>6 DEF EcuInv, EcuFrames
<1> QED
  BY <1>6, <1>7, <1>8 DEF EcuProc

\* A pass that does not come to the ECU, or that it fails, changes nothing there.
LEMMA EcuSame ==
  ASSUME EcuInv, UNCHANGED <<ecuVars, log>>
  PROVE  EcuInv'
<1>1. backup' = backup /\ lost' = lost /\ log' = log
  BY DEF ecuVars
<1>2. BackupIsLastGood'
  BY <1>1 DEF EcuInv, BackupIsLastGood, LastGoodIs
<1>3. FadesFromLastGood'
  <2>1. \A j, k : LastGood(j, k)' <=> LastGood(j, k)
    BY <1>1 DEF LastGood
  <2> QED
    BY <1>1, <2>1 DEF EcuInv, FadesFromLastGood
<1> QED
  BY <1>1, <1>2, <1>3 DEF EcuInv

----------------------------------------------------------------------------
(* The invariant                                                             *)

IInv ==
  /\ RtpInv /\ EcuInv /\ FramesIntact
  /\ passes \in Nat /\ harmed \in BOOLEAN /\ crashed \in BOOLEAN

\* IInv holds before anything is sent.
LEMMA InitInv == Init => IInv
<1>1. SUFFICES ASSUME Init PROVE IInv
  OBVIOUS
<1>2. RtpInv
  BY <1>1, RtpInitInv DEF Init
<1>3. log = <<>> /\ DOMAIN log = {} /\ log \in LogType
  BY <1>1 DEF Init, LogType
<1>4. EcuInv
  BY <1>1, <1>3 DEF Init, EcuInit, EcuInv, EcuFrames, BackupIsLastGood, FadesFromLastGood
<1> QED
  BY <1>1, <1>2, <1>3, <1>4 DEF Init, IInv, FramesIntact

\* The receiving queue does not notice what happens on the other side of the network.
LEMMA SenderStep ==
  ASSUME IInv, RtpInv', UNCHANGED passVars, offered' \in {offered, offered + 1}
  PROVE  IInv'
<1>1. offered \in Nat
  BY DEF IInv, RtpInv, RtpTypeOK
<1>2. EcuInv'
  BY EcuSame DEF IInv, passVars
<1>3. FramesIntact'
  BY <1>1 DEF IInv, FramesIntact, passVars
<1> QED
  BY <1>2, <1>3 DEF IInv, passVars

\* A frame the sender's queue offers, and what another program sends, are frames.
LEMMA OfferedFrames ==
  ASSUME RtpTypeOK
  PROVE  Other \in FrFrames /\ \A f \in Offers : f \in FrFrames /\ f.n = offered + 1
BY EcuAssumption DEF RtpTypeOK, Other, Offers, FrFrames

\* Each way a pass of the receiving queue may go keeps IInv.
LEMMA ReceiveInv ==
  ASSUME IInv, Receive
  PROVE  IInv'
<1>1. PICK p \in net, repeated \in BOOLEAN :
        Refuse(p, repeated) \/ Crash(p, repeated) \/ Decode(p, repeated)
  BY DEF Receive
<1>2. /\ p \in PacketSet /\ Sent(p, offered) /\ RtpTypeOK
      /\ offered \in Nat /\ BlkLen \in Nat
  BY RtpAssumption DEF IInv, RtpInv, RtpTypeOK
<1>3. passes' \in Nat /\ ~crashed
  BY DEF Receive, IInv
<1>4. ASSUME NEW n \in Int, RtpInput(p, n, repeated)
      PROVE  RtpInv' /\ offered' = offered /\ n \in Returned(p.hdr)
  <2>1. RtpInv'
    BY <1>4, TakeInv DEF IInv
  <2> QED
    BY <1>4, <2>1 DEF RtpInput, sinkVars
<1>5. Readable(p) <=> p.n > 0 /\ p.hdr.len <= BlkLen + Room
  BY DEF Readable
\* a packet of the sink that fits gives its frame
<1>6. ASSUME Readable(p)
      PROVE  Returned(p.hdr) = {BlkLen} /\ FrameOf(p) = p.body /\ p.body.n \in 1..offered
  <2>1. /\ OwnHeader(p.hdr, p.at) /\ p.hdr.len <= BlkLen + Room
        /\ p.body.n = p.n /\ p.n > 0 /\ p.n <= offered /\ p.n \in Nat
    BY <1>2, <1>5, <1>6 DEF Sent, PacketSet
  <2>2. Returned(p.hdr) = {BlkLen} /\ PayloadAt(p.hdr) = p.at
    BY <2>1, PayloadFound
  <2> QED
    BY <1>2, <2>1, <2>2 DEF FrameOf
<1>7. CASE Refuse(p, repeated)
  <2>1. RtpInv' /\ offered' = offered
    BY <1>4, <1>7 DEF Refuse
  <2>2. EcuInv'
    BY <1>7, EcuSame DEF Refuse, IInv
  <2>3. FramesIntact'
    BY <1>7, <2>1 DEF Refuse, IInv, FramesIntact
  <2>4. harmed' = harmed /\ crashed' = crashed
    BY <1>7 DEF Refuse
  <2> QED
    BY <1>3, <2>1, <2>2, <2>3, <2>4 DEF IInv
<1>8. CASE Crash(p, repeated)
  <2>1. PICK n \in WrongLengths(p.hdr) : RtpInput(p, n, repeated)
    BY <1>8 DEF Crash
  <2>2. n \in Returned(p.hdr) /\ n # BlkLen
    BY <2>1 DEF WrongLengths
  <2>3. ~Readable(p)
    BY <1>6, <2>2
  <2>4. harmed' = TRUE
    BY <1>8, <2>3 DEF Crash, IInv
  <2>5. RtpInv'
    <3>1. n \in Int
      BY <1>2, <2>2, ReturnedInt
    <3> QED
      BY <1>4, <2>1, <3>1
  <2>6. EcuInv' /\ crashed' = TRUE
    BY <1>8, EcuSame DEF Crash, IInv
  <2> QED
    BY <1>3, <2>4, <2>5, <2>6 DEF IInv, FramesIntact
<1>9. CASE Decode(p, repeated)
  <2> DEFINE f == FrameOf(p)
  <2>1. RtpInv' /\ offered' = offered
    BY <1>2, <1>4, <1>9 DEF Decode
  <2>2. f \in FrFrames
    BY <1>2, OfferedFrames DEF FrameOf, PacketSet
  <2>3. crashed' = FALSE /\ harmed' \in BOOLEAN /\ (~harmed' => ~harmed /\ Readable(p))
    BY <1>3, <1>9, <1>5 DEF Decode, IInv
  <2>4. CASE \E out \in {f, Concealed} : EcuProc(f, out) /\ log' = Append(log, [in |-> f, out |-> out])
    <3>1. PICK out \in {f, Concealed} : EcuProc(f, out) /\ log' = Append(log, [in |-> f, out |-> out])
      BY <2>4
    <3>2. EcuInv'
      BY <2>2, <3>1, EcuProcInv DEF IInv
    <3>3. ASSUME ~harmed', NEW k \in DOMAIN log' PROVE log'[k].in.n \in 1..offered
      <4>1. f.n \in 1..offered
        BY <1>6, <2>3, <3>3
      <4>2. log \in LogType
        BY DEF IInv, EcuInv
      <4>3. \A i \in DOMAIN log : log[i].in.n \in 1..offered
        BY <2>3, <3>3 DEF IInv, FramesIntact
      <4>4. /\ DOMAIN log' = 1..(Len(log) + 1) /\ DOMAIN log = 1..Len(log) /\ Len(log) \in Nat
            /\ \A i \in 1..Len(log) : log'[i] = log[i]
            /\ log'[Len(log) + 1] = [in |-> f, out |-> out]
        BY <3>1, <4>2 DEF LogType
      <4>5. CASE k \in 1..Len(log)
        BY <4>3, <4>4, <4>5
      <4>6. CASE k = Len(log) + 1
        BY <4>1, <4>4, <4>6
      <4> QED
        BY <3>3, <4>4, <4>5, <4>6
    <3>4. FramesIntact'
      BY <2>1, <2>3, <3>3 DEF FramesIntact
    <3> QED
      BY <1>3, <2>1, <2>3, <3>2, <3>4 DEF IInv
  <2>5. CASE EcuFails(f) /\ UNCHANGED log
    <3>1. EcuInv'
      BY <2>5, EcuSame DEF EcuFails, IInv
    <3>2. FramesIntact'
      BY <2>1, <2>3, <2>5 DEF IInv, FramesIntact
    <3> QED
      BY <1>3, <2>1, <2>3, <3>1, <3>2 DEF IInv
  <2> QED
    BY <1>9, <2>4, <2>5 DEF Decode
<1> QED
  BY <1>1, <1>7, <1>8, <1>9

\* Every step of either queue and of the network keeps IInv.
LEMMA StepInv == IInv /\ [Next]_vars => IInv'
<1>1. SUFFICES ASSUME IInv, [Next]_vars PROVE IInv'
  OBVIOUS
<1>2. RtpInv /\ RtpTypeOK
  BY <1>1 DEF IInv, RtpInv
<1>3. CASE Send
  <2>1. PICK f \in Offers : RtpOutput(f)
    BY <1>3 DEF Send
  <2>2. f \in FrFrames /\ f.n = offered + 1
    BY <1>2, OfferedFrames
  <2>3. RtpInv' /\ offered' = offered + 1
    BY <1>2, <2>1, <2>2, RtpOutputInv
  <2> QED
    BY <1>1, <1>3, <2>3, SenderStep DEF Send
<1>4. CASE SendFails
  <2>1. [n |-> offered + 1, kind |-> "bad", level |-> 0] \in Offers
    BY DEF Offers
  <2>2. RtpInv' /\ offered' = offered + 1
    BY <1>2, <1>4, <2>1, OfferedFrames, RtpOutputInv DEF SendFails
  <2> QED
    BY <1>1, <1>4, <2>2, SenderStep DEF SendFails
<1>5. CASE Transport
  <2>1. RtpInv'
    BY <1>2, <1>5, RelayInv, TakeInv, StrayInv, OfferedFrames DEF Transport
  <2>2. offered' = offered
    BY <1>5 DEF Transport, Relay, Lose, Stray, sinkVars
  <2> QED
    BY <1>1, <1>5, <2>1, <2>2, SenderStep DEF Transport
<1>6. CASE Receive
  BY <1>1, <1>6, ReceiveInv
<1>7. CASE UNCHANGED vars
  <2>1. UNCHANGED rtpVars /\ UNCHANGED passVars
    BY <1>7 DEF vars, passVars
  <2>2. RtpInv' /\ offered' = offered
    BY <1>2, <2>1, NetInv DEF rtpVars, sinkVars, srcVars, RtpInv, RtpTypeOK
  <2> QED
    BY <1>1, <2>1, <2>2, SenderStep
<1> QED
  BY <1>1, <1>3, <1>4, <1>5, <1>6, <1>7 DEF Next

\* The sink's counters, the packets on their way, the backup and what was decoded agree
\* in every reachable state.
THEOREM Inductive == Spec => []IInv
BY InitInv, StepInv, PTL DEF Spec

----------------------------------------------------------------------------
(* The properties                                                            *)

\* Every variable has its type, for counters of any width and frames of any length.
THEOREM Typed == Spec => []TypeOK
<1>1. IInv => TypeOK
  BY DEF IInv, RtpInv, RtpTypeOK, EcuInv, LogType, TypeOK
<1> QED
  BY <1>1, Inductive, PTL

\* Every packet has the sequence number and the timestamp of its frame's place in the
\* stream, however often each counter has wrapped and whatever could not be written.
THEOREM PacketsNumberedByFrame == Spec => []NumberedByFrame
<1>1. IInv => NumberedByFrame
  BY DEF IInv, RtpInv, Sent, NumberedByFrame
<1> QED
  BY <1>1, Inductive, PTL

\* The payload is found behind any number of contributing sources, any extension and any
\* padding: until a datagram is cut off or is another program's, nothing fails an
\* assertion and the ECU is given frames that were offered.
THEOREM OfferedFramesArrive == Spec => []FramesIntact
<1>1. IInv => FramesIntact
  BY DEF IInv
<1> QED
  BY <1>1, Inductive, PTL

\* Lost frames fade from the last good one, for any number of amplitudes and of frames.
THEOREM LostFramesFade == Spec => []FadesFromLastGood
<1>1. IInv => FadesFromLastGood
  BY DEF IInv, EcuInv
<1> QED
  BY <1>1, Inductive, PTL
=============================================================================
