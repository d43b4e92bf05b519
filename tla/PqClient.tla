------------------------------ MODULE PqClient ------------------------------
(* A program that uses the processing queue as pq_test.c and the library's   *)
(* documentation do: create a queue, call constructors in any order and any  *)
(* number, check it or not, prepare it, execute it any number of times,      *)
(* destroy it.  It may ignore what a constructor returned, and may destroy   *)
(* the queue at any point between two calls.                                 *)
EXTENDS PqItems

CONSTANTS
  ClientCalls,  \* the constructor calls the client makes
  MaxItems,     \* bound: items in the queue
  MaxFrames     \* bound: frames the input holds, and frames sunk

ASSUME ClientAssumption ==
  /\ ClientCalls \subseteq Calls
  /\ MaxItems \in Nat /\ MaxFrames \in Nat

VARIABLES
  phase,     \* how far the client's protocol has come
  checked    \* what the last pq_check since the last item established

vars == <<pqVars, phase, checked>>

Phases == {"start", "build", "ready", "failed", "destroy", "done"}

Init ==
  /\ PqInit
  /\ avail \in 0..MaxFrames
  /\ phase = "start" /\ checked = "no"

Running == fault = "none"

NewQueue ==
  /\ Running /\ phase = "start"
  /\ \/ Create /\ phase' = "build"
     \/ "alloc" \in Failures /\ UNCHANGED pqVars /\ phase' = "failed"
  /\ UNCHANGED checked

Add(call) ==
  /\ Running /\ phase = "build" /\ Len(items) < MaxItems
  /\ \E r \in Results(call) :
       /\ r.add # <<>>
       /\ Construct(r)
  /\ checked' = "no"
  /\ UNCHANGED phase

Check(strict) ==
  /\ Running /\ phase = "build"
  /\ checked' = IF CheckRet(items, strict) # 0 THEN "no"
                ELSE IF strict THEN "strict" ELSE "lengths"
  /\ UNCHANGED <<pqVars, phase>>

DoPrepare ==
  /\ Running /\ phase = "build"
  /\ \/ Prepare /\ phase' = "ready"
     \/ (\E k \in DOMAIN items : PrepareFails(k)) /\ phase' = "failed"
  /\ UNCHANGED checked

DoExecute ==
  /\ Running /\ phase = "ready" /\ ~Executing /\ Len(sunk) < MaxFrames
  /\ ExecBegin
  /\ UNCHANGED <<phase, checked>>

DoExecStep ==
  /\ Running /\ ExecStep
  /\ UNCHANGED <<phase, checked>>

Play ==
  /\ Running /\ DevPlay
  /\ UNCHANGED <<phase, checked>>

DoDestroy ==
  /\ Running /\ phase \in {"build", "ready", "failed"} /\ ~Executing
  /\ DestroyBegin
  /\ phase' = "destroy"
  /\ UNCHANGED checked

DoDestroyStep ==
  /\ Running /\ phase = "destroy"
  /\ \/ DestroyStep /\ UNCHANGED phase
     \/ dpc = "idle" /\ phase' = "done" /\ UNCHANGED pqVars
  /\ UNCHANGED checked

Next ==
  \/ NewQueue
  \/ \E call \in ClientCalls : Add(call)
  \/ \E strict \in BOOLEAN : Check(strict)
  \/ DoPrepare \/ DoExecute \/ DoExecStep \/ Play
  \/ DoDestroy \/ DoDestroyStep

Spec == Init /\ [][Next]_vars

----------------------------------------------------------------------------
(* Properties                                                                *)

\* Every variable of the queue and of its client has its type.
TypeOK == PqTypeOK /\ phase \in Phases /\ checked \in {"no", "lengths", "strict"}

\* A queue that passed a strict pq_check, with sources that keep to their block
\* length, never fails a length assertion of a codec or conversion callback,
\* and no callback with a declared output length stores more than the buffer
\* pq_prepare gave it (procqueue.c, pq_check, pq_prepare and pq_execute).
LengthContract ==
  checked = "strict" /\ ExactSources =>
    /\ fault # "assert"
    /\ fault = "overrun" => items[at].len_out = 0

\* pq_destroy gives back every buffer, state and item once: it never frees
\* twice, and never reads what is freed unless a constructor left a freed item.
ReleasedOnce == fault \notin {"use_after_free", "double_free"}

\* When pq_destroy has returned, no item holds memory or a state, whatever
\* constructor, check, prepare or execute failed before.
NothingLeft ==
  queue = "freed" =>
    \A i \in DOMAIN items :
      items[i].mem = "freed" /\ items[i].buf \in {0, -1} /\ items[i].state # "held"

----------------------------------------------------------------------------
(* The inductive invariant behind these properties.                          *)

\* pq_execute runs on a prepared queue only, and pq_destroy only outside it.
Protocol ==
  /\ Executing => phase = "ready"
  /\ phase = "ready" =>
       \A i \in DOMAIN items : items[i].type # "SINK" => items[i].buf = BufSize(items[i])
  /\ checked = "strict" => LengthsMatch(items) /\ SourceToSink(items)

\* The frame in flight has the length the next callback declared for its input.
FlightFits ==
  checked = "strict" /\ ExactSources /\ Executing /\ fault = "none" =>
    items[at].len_in \in {0, flight.len}

\* pq_destroy has released what is before the head of the list, and of the entry
\* at the head what its program counter has passed.
DestroyProgress ==
  /\ dpc # "idle" \/ head > 1 \/ queue = "freed" => phase \in {"destroy", "done"}
  /\ queue = "freed" => head = Len(items) + 1
  /\ \A i \in DOMAIN items :
       /\ i < head => items[i].mem = "freed"
       /\ i < head \/ (i = head /\ dpc \in {"exit", "unlink"}) => items[i].buf \in {0, -1}
       /\ i < head \/ (i = head /\ dpc = "unlink") => items[i].state # "held"
       /\ i >= head /\ "ecu_state" \notin Failures => items[i].mem = "live"
  /\ "ecu_state" \notin Failures => ReleasedOnce

\* Every item is as its constructor left it but for its buffer and its release,
\* the frame in flight fits the next callback, the length contract holds and
\* pq_destroy releases the list from its front (procqueue.c).
IInv ==
  TypeOK /\ AllWellMade /\ Protocol /\ FlightFits /\ LengthContract /\ DestroyProgress
============================================================================
