----------------------------- MODULE FramePump ------------------------------
(* What the unthrottled osmo-gapk promises of its frames (run and            *)
(* pq_execute): one frame at a time is taken from the input and put to the   *)
(* output, in order; at the first one that is lost, the pump stops for good. *)
EXTENDS Naturals, Sequences

VARIABLES
  taken,       \* frames taken from the input
  delivered,   \* frames put to the output, by their number in the input
  running

pumpVars == <<taken, delivered, running>>

PumpInit == taken = 0 /\ delivered = <<>> /\ running = TRUE

InFlight == taken - Len(delivered)

Take ==
  /\ running /\ InFlight = 0
  /\ taken' = taken + 1
  /\ UNCHANGED <<delivered, running>>

Put ==
  /\ running /\ InFlight = 1
  /\ delivered' = Append(delivered, taken)
  /\ UNCHANGED <<taken, running>>

\* at the end of the input, at the user's wish, or with the frame in flight lost
Stop ==
  /\ running
  /\ running' = FALSE
  /\ taken' \in {taken, taken + 1} /\ taken' <= Len(delivered) + 1
  /\ UNCHANGED delivered

Pump == PumpInit /\ [][Take \/ Put \/ Stop]_pumpVars
============================================================================
