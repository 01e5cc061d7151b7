----------------------------- MODULE EventStream -----------------------------
(***************************************************************************)
(* The push-fed queue behind events(): EventStream of                      *)
(* agent-core/src/agents/engine/run-handle.ts and its twin LiveEventStream *)
(* of agent-engine/src/runs/live-event-stream.ts.  A stream is a value; an *)
(* operator is one of its methods.                                         *)
(*                                                                         *)
(* The iterator's next() is an async function: it looks at the stream and  *)
(* either returns or waits for a waker; a waker makes it look again.       *)
(***************************************************************************)
EXTENDS Naturals, Sequences

(* ready: next() calls that were woken and have not looked again;           *)
(* waiting: next() calls suspended on a waker.                              *)
NewStream == [buffer |-> <<>>, ready |-> 0, waiting |-> 0,
              closed |-> FALSE, detached |-> FALSE, consumed |-> FALSE]

Streams(Events) ==
  [buffer : Seq(Events), ready : Nat, waiting : Nat,
   closed : BOOLEAN, detached : BOOLEAN, consumed : BOOLEAN]

(* Mutant: a push wakes one call, and takes for granted that one waits. *)
WokenOne(s) == [s EXCEPT !.ready = @ + 1, !.waiting = @ - 1]

(* Every suspended call is resumed, whatever there is to take. *)
Woken(s) == [s EXCEPT !.ready = @ + s.waiting, !.waiting = 0]

(* push(), for each of some events in turn: dropped once the stream is      *)
(* closed or its consumer has left.                                         *)
Pushed(s, events) ==
  IF s.closed \/ s.detached \/ events = <<>> THEN s
  ELSE Woken([s EXCEPT !.buffer = @ \o events])

Closed(s) == Woken([s EXCEPT !.closed = TRUE])

(* The iterator's return(): a break out of the loop. *)
Detached(s) == Woken([s EXCEPT !.detached = TRUE, !.buffer = <<>>])

(* One look of next() at the stream, and the stream after it. *)
Look(s) == IF s.detached THEN "done"
           ELSE IF s.buffer # <<>> THEN "event"
           ELSE IF s.closed THEN "done"
           ELSE "wait"

Looked(s) == CASE Look(s) = "event" -> [s EXCEPT !.buffer = Tail(@)]
               [] Look(s) = "wait"  -> [s EXCEPT !.waiting = @ + 1]
               [] Look(s) = "done"  -> s

(* A woken next() looks again. *)
Resumed(s) == Looked([s EXCEPT !.ready = @ - 1])

Pending(s) == s.ready + s.waiting
=============================================================================
