------------------------------- MODULE LogStream -------------------------------
(***************************************************************************)
(* st::log::LogStream: the lock-free ring between the datalogger's I/O      *)
(* thread (try_push) and the one thread that reads samples (try_pop).       *)
(*                                                                         *)
(* Each access to memory the other thread uses is a step: the load of the   *)
(* other side's counter, each field of a slot, the store of the own         *)
(* counter.  A store with release and the load with acquire that sees it    *)
(* order the accesses around them, so the steps interleave.  The counters   *)
(* are unsigned and wrap.                                                   *)
(***************************************************************************)
EXTENDS Integers, Sequences

CONSTANTS
    Sample,      \* the samples pushed; every field of a slot holds one
    NoSample,    \* what a slot holds before the first push
    Pids,        \* pid_count: fields 1 .. Pids are values, field 0 the timestamp
    Capacity,    \* slots of the ring, a power of two
    Wraps        \* the counters wrap after Capacity * Wraps pushes

Modulus == Capacity * Wraps
Field == 0 .. Pids

ASSUME StreamAssumption ==
    /\ NoSample \notin Sample
    /\ Pids \in Nat
    /\ Capacity \in Nat \ {0}
    /\ Wraps \in Nat \ {0, 1}

VARIABLES
    head,      \* head_: pushes, modulo Modulus
    tail,      \* tail_: pops, modulo Modulus
    dropped,   \* dropped_
    slots,     \* timestamps_ and values_
    push,      \* the try_push under way: step, sample, head loaded, fields done
    pop,       \* the try_pop under way: step, tail loaded, fields done, output
    got        \* the fields the last successful try_pop returned

streamVars == <<head, tail, dropped, slots, push, pop, got>>

Idle == "idle"
NoPush == [at |-> Idle, item |-> NoSample, index |-> 0, field |-> 0]
Blank == [f \in Field |-> NoSample]
NoPop == [at |-> Idle, index |-> 0, field |-> 0, out |-> Blank]

(* index & mask_ *)
Slot(index) == index % Capacity

(* The counter after index, and a mutant that does not wrap.                *)
Unwrapped(index) == index + 1
After(index) == (index + 1) % Modulus

(* head - tail, unsigned *)
Used == (head - tail) % Modulus

StreamInit ==
    /\ head = 0 /\ tail = 0 /\ dropped = 0
    /\ slots = [s \in 0 .. Capacity - 1 |-> Blank]
    /\ push = NoPush /\ pop = NoPop
    /\ got = Blank

(* The test for a full ring, and its off-by-one mutant.                     *)
OverFull == Used > Capacity
Full == Used >= Capacity

(* try_push up to its load of tail_: a full ring drops the sample.          *)
PushBegin(x) ==
    /\ push.at = Idle
    /\ push' = IF Full THEN [NoPush EXCEPT !.at = "drop"]
               ELSE [at |-> "write", item |-> x, index |-> head, field |-> 0]
    /\ UNCHANGED <<head, tail, dropped, slots, pop, got>>

PushDrop ==
    /\ push.at = "drop"
    /\ dropped' = After(dropped)
    /\ push' = NoPush
    /\ UNCHANGED <<head, tail, slots, pop, got>>

PushWrite ==
    /\ push.at = "write" /\ push.field \in Field
    /\ slots' = [slots EXCEPT ![Slot(push.index)][push.field] = push.item]
    /\ push' = [push EXCEPT !.field = @ + 1]
    /\ UNCHANGED <<head, tail, dropped, pop, got>>

PushPublish ==
    /\ push.at = "write" /\ push.field = Pids + 1
    /\ head' = After(push.index)
    /\ push' = NoPush
    /\ UNCHANGED <<tail, dropped, slots, pop, got>>

(* try_pop up to its load of head_; an empty ring ends it.                  *)
PopBegin ==
    /\ pop.at = Idle
    /\ head # tail
    /\ pop' = [NoPop EXCEPT !.at = "read", !.index = tail]
    /\ UNCHANGED <<head, tail, dropped, slots, push, got>>

PopRead ==
    /\ pop.at = "read" /\ pop.field \in Field
    /\ pop' = [pop EXCEPT !.out[pop.field] = slots[Slot(pop.index)][pop.field],
                          !.field = @ + 1]
    /\ UNCHANGED <<head, tail, dropped, slots, push, got>>

(* Mutant of PopFinished: the slot is released with a field still unread.   *)
PopFinishedEarly == pop.field = Pids
PopFinished == pop.field = Pids + 1

PopPublish ==
    /\ pop.at = "read" /\ PopFinished
    /\ tail' = After(pop.index)
    /\ got' = pop.out
    /\ pop' = NoPop
    /\ UNCHANGED <<head, dropped, slots, push>>

Push == PushDrop \/ PushWrite \/ PushPublish
Pop == PopBegin \/ PopRead \/ PopPublish

StreamNext == (\E x \in Sample : PushBegin(x)) \/ Push \/ Pop

StreamSpec == StreamInit /\ [][StreamNext]_streamVars
-----------------------------------------------------------------------------
(* Properties.                                                              *)

SlotType == [Field -> Sample \cup {NoSample}]

PushType == [at : {Idle, "drop", "write"}, item : Sample \cup {NoSample},
             index : 0 .. Modulus - 1, field : 0 .. Pids + 1]

PopType == [at : {Idle, "read"}, index : 0 .. Modulus - 1,
            field : 0 .. Pids + 1, out : SlotType]

(* The types of the variables. *)
StreamTypeOK ==
    /\ head \in 0 .. Modulus - 1 /\ tail \in 0 .. Modulus - 1
    /\ dropped \in 0 .. Modulus - 1
    /\ slots \in [0 .. Capacity - 1 -> SlotType]
    /\ push \in PushType /\ pop \in PopType
    /\ got \in SlotType

(* try_push and try_pop never work on the same slot at the same time: the   *)
(* fields, which are not atomic, are never read while they are written.     *)
NoSharedSlot ==
    push.at = "write" /\ pop.at = "read" => Slot(push.index) # Slot(pop.index)

(* The ring never holds more samples than it has slots, also when a counter *)
(* has wrapped and the other has not.                                       *)
NeverOverfull == Used <= Capacity

(* The slots between tail and head are what the queue holds.                *)
Queue == INSTANCE SampleQueue WITH
    queue   <- [i \in 1 .. Used |-> slots[Slot(tail + i - 1)][0]],
    offered <- push.item,
    dropped <- IF push.at = "drop" THEN After(dropped) ELSE dropped

(* The ring is the bounded queue it stands for: each sample accepted comes  *)
(* out once, in order and whole; one is refused only when the ring is full. *)
ImplementsSampleQueue == Queue!Spec
=============================================================================
