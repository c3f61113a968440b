----------------------------- MODULE DeviceFifo -----------------------------
(***************************************************************************)
(* What the A618 queue promises to its callers (the driver's README and    *)
(* the comment on PendingQueue), without saying how: a bounded FIFO in     *)
(* which accepted work is answered in the order of its acceptance, at most *)
(* once; which accepts nothing after an error; and in which work that the  *)
(* GPU may still reach is kept, slot included, for good.                   *)
(***************************************************************************)
EXTENDS Naturals, Sequences, FiniteSets

CONSTANTS Work, Capacity

VARIABLES
  fifo,        \* accepted work that holds a slot, oldest first
  kept,        \* work whose retirement is unproved
  answered,    \* work whose observer was told of its retirement
  broken       \* an error was recorded

fifoVars == <<fifo, kept, answered, broken>>

FifoInit ==
  /\ fifo = << >> /\ kept = {} /\ answered = {}
  /\ broken = FALSE

InFifo(w) == \E i \in 1..Len(fifo) : fifo[i] = w

Admit(w) ==
  /\ ~InFifo(w) /\ w \notin kept \cup answered
  /\ Len(fifo) + Cardinality(kept) < Capacity
  /\ ~broken
  /\ fifo' = Append(fifo, w)
  /\ UNCHANGED <<kept, answered, broken>>

Break ==
  /\ fifo # << >>
  /\ broken' = TRUE
  /\ UNCHANGED <<fifo, kept, answered>>

\* The observer of the oldest work is told before its slot is given back.
Answer ==
  /\ fifo # << >> /\ Head(fifo) \notin kept \cup answered
  /\ answered' = answered \cup {Head(fifo)}
  /\ UNCHANGED <<fifo, kept, broken>>

Release ==
  /\ fifo # << >> /\ Head(fifo) \in answered
  /\ fifo' = Tail(fifo)
  /\ UNCHANGED <<kept, answered, broken>>

Keep ==
  /\ fifo # << >> /\ Head(fifo) \notin answered
  /\ kept' = kept \cup {Head(fifo)}
  /\ fifo' = Tail(fifo)
  /\ UNCHANGED <<answered, broken>>

FifoNext == \/ \E w \in Work : Admit(w)
            \/ Break \/ Answer \/ Release \/ Keep

FifoSpec == FifoInit /\ [][FifoNext]_fifoVars

=============================================================================
