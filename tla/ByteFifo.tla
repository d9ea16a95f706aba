------------------------------ MODULE ByteFifo ------------------------------
(***************************************************************************)
(* What ringbuffer.c promises its two threads: a bounded first-in          *)
(* first-out queue of bytes.  Bytes are named by the order in which they   *)
(* are accepted: the first accepted byte is 1.  The queue therefore holds  *)
(* the bytes got+1 .. put, and nothing else needs to be remembered.        *)
(***************************************************************************)
EXTENDS Integers

CONSTANT Capacity    \* most bytes held at once: the array less one byte

VARIABLES
  put,      \* bytes accepted so far
  got,      \* bytes handed to the reader so far
  block     \* the bytes the latest read returned, in order

vars == <<put, got, block>>

Init ==
  /\ put = 0
  /\ got = 0
  /\ block = << >>

\* The writer's n bytes are accepted; there is room for all of them.
Put(n) ==
  /\ put + n - got <= Capacity
  /\ put' = put + n
  /\ UNCHANGED <<got, block>>

\* The reader receives the n oldest bytes; all of them have been accepted.
Get(n) ==
  /\ got + n <= put
  /\ got' = got + n
  /\ block' = [i \in 1..n |-> got + i]
  /\ UNCHANGED put

Next ==
  \/ \E n \in 1..Capacity : Put(n)
  \/ \E n \in 1..Capacity : Get(n)

Spec == Init /\ [][Next]_vars
=============================================================================
