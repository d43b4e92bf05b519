------------------------------ MODULE HrCodecs ------------------------------
(* What gsmhr.h promises: each struct gsmhr is a Half Rate encoder and a     *)
(* decoder of its own.  What a coder makes of a frame depends on the frames  *)
(* it was given since it was last reset, and on nothing else; a homing frame *)
(* resets it (GSM 06.20).                                                    *)
EXTENDS Sequences

CONSTANT Instances

\* What a frame is to the encoder, and to the decoder: a homing frame, one that
\* begins like a homing frame, or any other.
EncFrames == {"speech", "homing"}
DecFrames == {"speech", "first", "homing"}

VARIABLES
  codec,   \* of each instance, whether it exists and what each half was given
  out      \* what the last call put out

Closed == [open |-> FALSE, enc |-> <<>>, dec |-> <<>>]
Opened == [open |-> TRUE, enc |-> <<>>, dec |-> <<>>]

\* the frame a coder in a given state makes; the encoder homing frame; none yet
Coded(op, past, f) == [op |-> op, past |-> past, of |-> f]
Home == Coded("ehf", <<>>, "none")
Nothing == Coded("none", <<>>, "none")

Init == codec = [i \in Instances |-> Closed] /\ out = Nothing

Open(i) == ~codec[i].open /\ codec' = [codec EXCEPT ![i] = Opened] /\ UNCHANGED out
Close(i) == codec[i].open /\ codec' = [codec EXCEPT ![i] = Closed] /\ UNCHANGED out

Encode(i, f) ==
  /\ codec[i].open
  /\ out' = Coded("encode", codec[i].enc, f)
  /\ codec' = [codec EXCEPT ![i].enc = IF f = "homing" THEN <<>> ELSE Append(@, f)]

\* a decoder that is at home stays there on a frame that begins like a homing frame
StayHome(i, f) ==
  /\ codec[i].open /\ codec[i].dec = <<>> /\ f # "speech"
  /\ out' = Home
  /\ UNCHANGED codec

Decode(i, f) ==
  /\ codec[i].open /\ (codec[i].dec = <<>> => f = "speech")
  /\ out' = Coded("decode", codec[i].dec, f)
  /\ codec' = [codec EXCEPT ![i].dec = IF f = "homing" THEN <<>> ELSE Append(@, f)]

Next ==
  \E i \in Instances :
    \/ Open(i) \/ Close(i)
    \/ \E f \in EncFrames : Encode(i, f)
    \/ \E f \in DecFrames : StayHome(i, f) \/ Decode(i, f)

Spec == Init /\ [][Next]_<<codec, out>>
============================================================================
