------------------------------ MODULE SampleQueue ------------------------------
(***************************************************************************)
(* What LogStream promises the two threads that share it: a bounded FIFO    *)
(* queue of samples.  A push that finds it full is refused and counted; a   *)
(* pop hands over the oldest sample, every field of it.                     *)
(***************************************************************************)
EXTENDS Integers, Sequences

CONSTANTS Sample,     \* what the producer may push
          NoSample,   \* "none"
          Field,      \* the fields of a sample: its timestamp and its values
          Capacity,   \* how many samples fit
          Modulus     \* the drop counter is 0 .. Modulus - 1

VARIABLES queue,      \* the samples waiting, oldest first
          offered,    \* the sample a push under way has room for
          got,        \* the fields the last pop returned
          dropped     \* pushes refused, modulo Modulus

vars == <<queue, offered, got, dropped>>

Init ==
    /\ queue = <<>>
    /\ offered = NoSample
    /\ got = [f \in Field |-> NoSample]
    /\ dropped = 0

Offer(x) ==
    /\ offered = NoSample
    /\ Len(queue) < Capacity
    /\ offered' = x
    /\ UNCHANGED <<queue, got, dropped>>

Put ==
    /\ offered # NoSample
    /\ queue' = Append(queue, offered)
    /\ offered' = NoSample
    /\ UNCHANGED <<got, dropped>>

Refuse ==
    /\ offered = NoSample
    /\ Len(queue) = Capacity
    /\ dropped' = (dropped + 1) % Modulus
    /\ UNCHANGED <<queue, offered, got>>

Take ==
    /\ queue # <<>>
    /\ queue' = Tail(queue)
    /\ got' = [f \in Field |-> Head(queue)]
    /\ UNCHANGED <<offered, dropped>>

Next == \/ \E x \in Sample : Offer(x)
        \/ Put \/ Refuse \/ Take

Spec == Init /\ [][Next]_vars

(* Between two runs of a session nobody pushes and nobody pops, and the     *)
(* queue is emptied.                                                        *)
Clear ==
    /\ offered = NoSample
    /\ queue' = <<>> /\ dropped' = 0
    /\ UNCHANGED <<offered, got>>

RestartSpec == Init /\ [][Next \/ Clear]_vars
=============================================================================
