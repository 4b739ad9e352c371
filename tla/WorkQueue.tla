------------------------------- MODULE WorkQueue -------------------------------
(***************************************************************************)
(* What a JetStream subscription promises: at-least-once handling          *)
(* (messaging/README.md:184-189).  A stored message stays in the queue     *)
(* until a handler, or the decoder that found it malformed, has decided    *)
(* about it.  Nothing is said of how often it is handled: a queue that is  *)
(* set up anew starts again with every message of the stream.  Delivery    *)
(* implements this module.                                                 *)
(***************************************************************************)

CONSTANT Message    \* the messages that may be stored in the stream

VARIABLES
    queued,     \* stored and not settled
    decided,    \* a handler succeeded on them, or they were given up
    settled     \* removed from the queue, not to be delivered again

queueVars == <<queued, decided, settled>>

Init == queued = {} /\ decided = {} /\ settled = {}

Store(m) ==
    /\ m \notin queued \cup settled
    /\ queued' = queued \cup {m}
    /\ UNCHANGED <<decided, settled>>

\* A message may be decided on again after it was settled: a second delivery
\* may still be in the hands of another worker.
Decide(m) ==
    /\ m \in queued \cup settled
    /\ decided' = decided \cup {m}
    /\ UNCHANGED <<queued, settled>>

Settle(m) ==
    /\ m \in queued \cap decided
    /\ queued' = queued \ {m}
    /\ settled' = settled \cup {m}
    /\ UNCHANGED decided

\* All of them at once, or none: no message comes back alone.
Rewind ==
    /\ queued' = queued \cup settled
    /\ settled' = {}
    /\ UNCHANGED decided

Next == Rewind \/ \E m \in Message : Store(m) \/ Decide(m) \/ Settle(m)

Spec == Init /\ [][Next]_queueVars
================================================================================
