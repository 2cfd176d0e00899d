------------------------------ MODULE FifoQueue ------------------------------
(***************************************************************************)
(* What ConcurrentQueue<Type> promises its callers: an unbounded FIFO      *)
(* whose three operations - push, a pop that found an element, and a pop   *)
(* that gave up because there was none - each take effect at one instant.  *)
(* Elements are handed over, never copied: a popped element belongs to the *)
(* consumer that got it until that consumer is done with it.               *)
(***************************************************************************)
EXTENDS Naturals, Sequences

CONSTANTS Elements,     \* what can be queued
          Consumers,    \* threads that pop
          NoElement     \* "nothing popped"

VARIABLES fifo,         \* the elements, oldest first
          got           \* got[c]: the element consumer c holds

fifoVars == <<fifo, got>>

Owned == {fifo[i] : i \in 1..Len(fifo)} \cup {got[c] : c \in Consumers}

Init == /\ fifo = <<>>
        /\ got = [c \in Consumers |-> NoElement]

Push(e) == /\ e \notin Owned
           /\ fifo' = Append(fifo, e)
           /\ UNCHANGED got

Pop(c) == /\ fifo # <<>>
          /\ got[c] = NoElement
          /\ got' = [got EXCEPT ![c] = Head(fifo)]
          /\ fifo' = Tail(fifo)

Dispose(c) == /\ got[c] # NoElement
              /\ got' = [got EXCEPT ![c] = NoElement]
              /\ UNCHANGED fifo

Next == \/ \E e \in Elements : Push(e)
        \/ \E c \in Consumers : Pop(c) \/ Dispose(c)

Spec == Init /\ [][Next]_fifoVars
=============================================================================
