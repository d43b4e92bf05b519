------------------------------- MODULE EcuFr --------------------------------
(* The error concealment of Full Rate frames (ecu_fr.c).  The state and the  *)
(* functions osmo_ecu_fr_* are libosmocore's and external: reset keeps the   *)
(* frame; conceal gives it back once as it is, then lowers its amplitude     *)
(* step by step and ends in a frame of zeros (tests/ecu/ecu_fr_test.ok).     *)
EXTENDS Naturals

CONSTANT MaxLevel   \* the highest amplitude of a frame

ASSUME EcuAssumption == MaxLevel \in Nat

\* A frame is the number of the frame its contents come from, and an amplitude.
\* All bytes after the first of a "bad" frame are zero.
FrFrames == [n : Nat, kind : {"good", "bad"}, level : 0..MaxLevel]
NoFrFrame == [n |-> 0, kind |-> "none", level |-> 0]

VARIABLES
  backup,   \* frame_backup; NoFrFrame while all its bytes are zero
  lost      \* subsequent_lost_frame

ecuVars == <<backup, lost>>

EcuInit == backup = NoFrFrame /\ lost = FALSE

\* external: one step down; below the lowest amplitude there are only zeros
Lower(f) == IF f.level = 0 THEN [f EXCEPT !.kind = "bad"] ELSE [f EXCEPT !.level = @ - 1]

\* external: what osmo_ecu_fr_conceal puts out and keeps
Concealed == IF lost THEN Lower(backup) ELSE backup

\* Mutant: keeps the first good frame.
PassGoodFirst(f, out) ==
  /\ f.kind = "good"
  /\ out = f
  /\ backup' = (IF backup = NoFrFrame THEN f ELSE backup) /\ lost' = FALSE

\* osmo_ecu_fr_reset, and the frame as it is
PassGood(f, out) ==
  /\ f.kind = "good"
  /\ out = f
  /\ backup' = f /\ lost' = FALSE

PassBad(f, out) ==
  /\ f.kind = "bad" /\ backup = NoFrFrame
  /\ out = f
  /\ UNCHANGED ecuVars

Conceal(f, out) ==
  /\ f.kind = "bad" /\ backup # NoFrFrame
  /\ out = Concealed
  /\ backup' = Concealed /\ lost' = TRUE

\* ecu_proc_fr on frame f, with out the frame it returns
EcuProc(f, out) == PassGood(f, out) \/ PassBad(f, out) \/ Conceal(f, out)

\* osmo_ecu_fr_conceal cannot lower what has no FR signature: its rc is returned
EcuFails(f) ==
  /\ f.kind = "bad" /\ backup # NoFrFrame /\ lost
  /\ UNCHANGED ecuVars
============================================================================
