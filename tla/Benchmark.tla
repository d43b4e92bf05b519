----------------------------- MODULE Benchmark ------------------------------
(* The cycle counts of one codec (benchmark.c, bench.h): for encoding and    *)
(* for decoding a ring of the last measurements.                             *)
EXTENDS Integers, Sequences

CONSTANT NumAvg   \* OSMO_GAPK_CYCLES_NUM_AVG

ASSUME BenchAssumption == NumAvg \in Nat \ {0}

VARIABLES
  bench,      \* osmo_gapk_bench_codec[]: "null", "live", or "freed" and still set
  used,       \* enc_used and dec_used
  cycles,     \* enc[] and dec[]
  measured    \* every measurement since it was enabled, oldest first

benchVars == <<bench, used, cycles, measured>>

Ways == {"enc", "dec"}

Zeroed ==
  /\ used' = [w \in Ways |-> 0]
  /\ cycles' = [w \in Ways |-> [k \in 0..(NumAvg - 1) |-> 0]]
  /\ measured' = [w \in Ways |-> <<>>]

BenchInit ==
  /\ bench = "null"
  /\ used = [w \in Ways |-> 0]
  /\ cycles = [w \in Ways |-> [k \in 0..(NumAvg - 1) |-> 0]]
  /\ measured = [w \in Ways |-> <<>>]

\* osmo_gapk_bench_enable; what was measured before is out of reach
Enable == bench' = "live" /\ Zeroed

\* osmo_gapk_bench_free frees the memory and leaves the pointer
Free == bench' = IF bench = "live" THEN "freed" ELSE bench

\* Mutant: the index advances without wrapping until the ring is full, and stays.
IndexFull(u) == IF u = NumAvg - 1 THEN u ELSE u + 1

\* Mutant: the index never wraps.
IndexUnwrapped(u) == u + 1

\* where BENCHMARK_STOP writes next
Index(u) == (u + 1) % NumAvg

\* BENCHMARK_STOP(codec, encode), after a call that took c cycles
Measure(w, c) ==
  IF bench = "null" THEN UNCHANGED benchVars
  ELSE /\ used' = [used EXCEPT ![w] = Index(@)]
       /\ cycles' = [cycles EXCEPT ![w][Index(used[w])] = c]
       /\ measured' = [measured EXCEPT ![w] = Append(@, c)]
       /\ UNCHANGED bench

\* the cells osmo_gapk_bench_get_cycles adds up; osmo_gapk_bench_get_frames
\* gives their number
Summed(w) == 0..(used[w] - 1)

\* measurement number k; before the first there is the zero of the allocation
Measured(w, k) == IF k = 0 THEN 0 ELSE measured[w][k]

----------------------------------------------------------------------------
\* For f frames, benchmark_dump reports the cycles of f measurements that follow
\* one another and end one before the newest, however often the ring has wrapped
\* (BENCHMARK_STOP advances the index first, osmo_gapk_bench_get_cycles).
SumsConsecutive ==
  bench = "live" =>
    \A w \in Ways : \A k \in Summed(w) :
      LET first == Len(measured[w]) - used[w] IN
      /\ first >= 0
      /\ cycles[w][k] = Measured(w, first + k)

\* The cycles that benchmark_dump reports for f frames are those of f frames that were
\* measured, one after the other ("%llu cycles for %u frames").
SumsFrames ==
  bench = "live" =>
    \A w \in Ways : \E first \in 0..(Len(measured[w]) - used[w]) :
      \A k \in Summed(w) : cycles[w][k] = measured[w][first + 1 + k]
============================================================================
