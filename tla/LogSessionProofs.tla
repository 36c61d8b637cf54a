--------------------------- MODULE LogSessionProofs ----------------------------
(***************************************************************************)
(* LogStream is a bounded FIFO queue whatever its capacity, the width of    *)
(* its counters and the number of values in a sample; and LogSession, that  *)
(* restarts it, feeds a LiveBuffer and counts, keeps what it promises for   *)
(* every number of runs and reads.  So does a buffer with one writer and    *)
(* one reader by itself, on which the session's snapshots rest.             *)
(*                                                                          *)
(* The ring's invariant says where the two threads are: a push under way    *)
(* fills the slot behind the last sample waiting, a pop under way empties   *)
(* the first one, and every slot between tail and head holds one whole      *)
(* sample.  The session's ties them to the calls: the I/O thread exists     *)
(* between a spawn and its join, nothing pushes or pops while start resets  *)
(* the ring.                                                                *)
(***************************************************************************)
EXTENDS LogSession, TLAPS

-----------------------------------------------------------------------------
(* Remainders, for the rings that index their slots with one.               *)

(* What the remainder of a division is. *)
LEMMA Division ==
  ASSUME NEW m \in Nat \ {0}, NEW a \in Int
  PROVE  /\ a % m \in 0 .. m - 1
         /\ a \div m \in Int
         /\ a = m * (a \div m) + (a % m)
  BY SMT

LEMMA Remainder ==
  ASSUME NEW m \in Nat \ {0}, NEW q \in Int, NEW r \in 0 .. m - 1
  PROVE  (m * q + r) % m = r
  BY SMT

(* Numbers less than m apart that differ have different remainders. *)
LEMMA Apart ==
  ASSUME NEW m \in Nat \ {0}, NEW a \in Int, NEW b \in Int,
         a < b, b < a + m
  PROVE  a % m # b % m
<1>1. SUFFICES ASSUME a % m = b % m PROVE FALSE
  OBVIOUS
<1>2. /\ a = m * (a \div m) + (a % m) /\ b = m * (b \div m) + (b % m)
      /\ a \div m \in Int /\ b \div m \in Int /\ a % m \in Int
  BY Division
<1>3. b - a = m * ((b \div m) - (a \div m))
  BY <1>1, <1>2, SMT
<1>4. ASSUME NEW k \in Int, b - a = m * k
      PROVE  FALSE
  <2>1. CASE k <= 0
    <3>1. m * k <= 0
      BY <2>1, SMT
    <3> QED
      BY <1>4, <3>1
  <2>2. CASE k >= 1
    <3>1. m * k >= m
      BY <2>2, SMT
    <3> QED
      BY <1>4, <3>1
  <2> QED
    BY <2>1, <2>2
<1>5. (b \div m) - (a \div m) \in Int
  BY <1>2
<1> QED
  BY <1>3, <1>4, <1>5
-----------------------------------------------------------------------------
(* The ring.                                                                *)

Size == Modulus \in Nat /\ Modulus > Capacity /\ Capacity \in Nat \ {0}

LEMMA SizeFact == Size
  BY StreamAssumption, SMT DEF Size, Modulus

(* A counter's slot is not changed by the counter's wrapping. *)
LEMMA WrapKeepsSlot ==
  ASSUME NEW a \in Int
  PROVE  Slot(a % Modulus) = Slot(a)
<1> DEFINE q == a \div Modulus
<1> DEFINE r == a % Modulus
<1> DEFINE p == r \div Capacity
<1>1. Modulus \in Nat \ {0} /\ Capacity \in Nat \ {0} /\ Wraps \in Nat
  BY SizeFact, StreamAssumption DEF Size
<1>2. a = Modulus * q + r /\ q \in Int /\ r \in Int
  BY <1>1, Division
<1>3. r = Capacity * p + (r % Capacity) /\ p \in Int /\ r % Capacity \in 0 .. Capacity - 1
  BY <1>1, <1>2, Division
<1> HIDE DEF q, r, p
<1>4. a = Capacity * (Wraps * q + p) + (r % Capacity)
  BY <1>1, <1>2, <1>3, SMT DEF Modulus
<1>5. Wraps * q + p \in Int
  BY <1>1, <1>2, <1>3, SMT
<1>6. (Capacity * (Wraps * q + p) + (r % Capacity)) % Capacity = r % Capacity
  BY <1>1, <1>3, <1>5, Remainder, BufferAssumption
<1> QED
  BY <1>4, <1>6 DEF Slot, r

Counter == 0 .. Modulus - 1

(* The difference of two counters, unsigned. *)
Distance(h, t) == IF h >= t THEN h - t ELSE h - t + Modulus

LEMMA DistanceFact ==
  ASSUME NEW h \in Counter, NEW t \in Counter
  PROVE  (h - t) % Modulus = Distance(h, t)
<1>1. Modulus \in Nat \ {0} /\ h \in Int /\ t \in Int
  BY SizeFact DEF Size, Counter
<1>2. CASE h >= t
  <2>1. (Modulus * 0 + (h - t)) % Modulus = h - t
    <3>1. h - t \in 0 .. Modulus - 1
      BY <1>1, <1>2 DEF Counter
    <3> QED
      BY <1>1, <3>1, Remainder
  <2>2. Modulus * 0 + (h - t) = h - t
    BY <1>1
  <2> QED
    BY <1>2, <2>1, <2>2 DEF Distance
<1>3. CASE ~(h >= t)
  <2>1. (Modulus * (-1) + (h - t + Modulus)) % Modulus = h - t + Modulus
    <3>1. h - t + Modulus \in 0 .. Modulus - 1
      BY <1>1, <1>3 DEF Counter
    <3> QED
      BY <1>1, <3>1, Remainder
  <2>2. Modulus * (-1) + (h - t + Modulus) = h - t
    BY <1>1
  <2> QED
    BY <1>3, <2>1, <2>2 DEF Distance
<1> QED
  BY <1>2, <1>3
(* From the tail, the head is that many slots on. *)
LEMMA DistanceSlot ==
  ASSUME NEW h \in Counter, NEW t \in Counter
  PROVE  /\ Distance(h, t) \in Counter
         /\ Slot(t + Distance(h, t)) = Slot(h)
         /\ Distance(h, t) = 0 <=> h = t
<1>1. Modulus \in Nat \ {0}
  BY SizeFact DEF Size
<1>2. CASE h >= t
  BY <1>1, <1>2 DEF Distance, Counter
<1>3. CASE ~(h >= t)
  <2>1. t + Distance(h, t) = Modulus * 1 + h
    BY <1>1, <1>3 DEF Distance, Counter
  <2>2. (Modulus * 1 + h) % Modulus = h
    BY <1>1, Remainder DEF Counter
  <2>3. t + Distance(h, t) \in Int
    BY <1>1, <2>1 DEF Counter
  <2>4. Slot((t + Distance(h, t)) % Modulus) = Slot(t + Distance(h, t))
    BY <2>3, WrapKeepsSlot
  <2> QED
    BY <1>1, <1>3, <2>1, <2>2, <2>4 DEF Distance, Counter
<1> QED
  BY <1>2, <1>3

LEMMA SlotFact == \A a \in Int : Slot(a) \in 0 .. Capacity - 1
  BY StreamAssumption, Division DEF Slot

(* The counters after a push and after a pop. *)
LEMMA AfterFact ==
  ASSUME NEW a \in Counter
  PROVE  /\ After(a) \in Counter
         /\ After(a) = IF a = Modulus - 1 THEN 0 ELSE a + 1
<1>1. Modulus \in Nat \ {0}
  BY SizeFact DEF Size
<1>2. CASE a = Modulus - 1
  <2>1. (Modulus * 1 + 0) % Modulus = 0
    BY <1>1, Remainder
  <2>2. a + 1 = Modulus * 1 + 0
    BY <1>1, <1>2
  <2> QED
    BY <1>1, <1>2, <2>1, <2>2 DEF After, Counter
<1>3. CASE a # Modulus - 1
  <2>1. a + 1 \in 0 .. Modulus - 1
    BY <1>1, <1>3 DEF Counter
  <2>2. (Modulus * 0 + (a + 1)) % Modulus = a + 1
    BY <1>1, <2>1, Remainder
  <2>3. Modulus * 0 + (a + 1) = a + 1
    BY <1>1, <2>1
  <2> QED
    BY <1>1, <1>3, <2>1, <2>2, <2>3 DEF After, Counter
<1> QED
  BY <1>2, <1>3
(* A push moves the head one sample on, a pop the tail. *)
LEMMA Pushed ==
  ASSUME NEW h \in Counter, NEW t \in Counter, Distance(h, t) < Capacity
  PROVE  Distance(After(h), t) = Distance(h, t) + 1
  BY AfterFact, SizeFact DEF Distance, Counter, Size

LEMMA Popped ==
  ASSUME NEW h \in Counter, NEW t \in Counter, h # t
  PROVE  Distance(h, After(t)) = Distance(h, t) - 1
  BY AfterFact, SizeFact DEF Distance, Counter, Size

LEMMA PoppedSlot ==
  ASSUME NEW t \in Counter, NEW i \in Counter
  PROVE  Slot(After(t) + i) = Slot(t + (i + 1))
<1>1. Modulus \in Nat \ {0}
  BY SizeFact DEF Size
<1>2. CASE t # Modulus - 1
  BY <1>1, <1>2, AfterFact DEF Counter
<1>3. CASE t = Modulus - 1
  <2>1. After(t) + i = i /\ t + (i + 1) = Modulus * 1 + i
    BY <1>1, <1>3, AfterFact DEF Counter
  <2>2. (Modulus * 1 + i) % Modulus = i
    BY <1>1, Remainder DEF Counter
  <2>3. Slot((Modulus * 1 + i) % Modulus) = Slot(Modulus * 1 + i)
    <3>1. Modulus * 1 + i \in Int
      BY <1>1 DEF Counter
    <3> QED
      BY <3>1, WrapKeepsSlot
  <2> QED
    BY <2>1, <2>2, <2>3
<1> QED
  BY <1>2, <1>3

(* The slot behind the last sample waiting is none of those in use. *)
LEMMA Separate ==
  ASSUME NEW h \in Counter, NEW t \in Counter, Distance(h, t) < Capacity,
         NEW i \in 0 .. Distance(h, t) - 1
  PROVE  Slot(t + i) # Slot(h)
<1>1. Slot(h) = Slot(t + Distance(h, t)) /\ Distance(h, t) \in Int
  BY DistanceSlot, SizeFact DEF Counter, Size
<1>2. /\ t + i \in Int /\ t + Distance(h, t) \in Int
      /\ t + i < t + Distance(h, t) /\ t + Distance(h, t) < t + i + Capacity
  BY <1>1, StreamAssumption, SizeFact DEF Counter, Size
<1>3. (t + i) % Capacity # (t + Distance(h, t)) % Capacity
  BY <1>2, StreamAssumption, Apart, BufferAssumption
<1> QED
  BY <1>1, <1>3 DEF Slot
-----------------------------------------------------------------------------
(* The steps a push, a pop or a counter takes keep the types.               *)

LEMMA TypeInitially == StreamInit => StreamTypeOK
<1>1. Modulus \in Nat \ {0}
  BY SizeFact DEF Size
<1>2. 0 \in 0 .. Modulus - 1 /\ 0 \in 0 .. Pids + 1
  BY <1>1, StreamAssumption
<1> QED
  BY <1>2 DEF StreamInit, StreamTypeOK, SlotType, PushType, PopType, NoPush, NoPop, Blank, Idle

LEMMA TypeStep == StreamTypeOK /\ [StreamNext]_streamVars => StreamTypeOK'
<1> SUFFICES ASSUME StreamTypeOK, [StreamNext]_streamVars PROVE StreamTypeOK'
  OBVIOUS
<1> USE DEF StreamTypeOK
<1>1. Modulus \in Nat \ {0} /\ 0 \in 0 .. Modulus - 1 /\ 0 \in 0 .. Pids + 1
  BY SizeFact, StreamAssumption DEF Size
<1>2. NoPush \in PushType /\ NoPop \in PopType
  BY <1>1 DEF NoPush, NoPop, PushType, PopType, SlotType, Blank, Idle
<1>3. \A a \in 0 .. Modulus - 1 : After(a) \in 0 .. Modulus - 1
  BY AfterFact DEF Counter
<1>4. ASSUME NEW x \in Sample, PushBegin(x) PROVE StreamTypeOK'
  <2>1. [at |-> "write", item |-> x, index |-> head, field |-> 0] \in PushType
    BY <1>1 DEF PushType
  <2>2. [NoPush EXCEPT !.at = "drop"] \in PushType
    BY <1>1 DEF PushType, NoPush
  <2> QED
    BY <1>4, <2>1, <2>2 DEF PushBegin
<1>5. CASE PushDrop
  BY <1>2, <1>3, <1>5 DEF PushDrop
<1>6. CASE PushWrite
  <2>1. push.item \in Sample \cup {NoSample} /\ push.field + 1 \in 0 .. Pids + 1
    BY <1>6, StreamAssumption DEF PushWrite, PushType, Field
  <2>2. push' \in PushType
    BY <1>6, <2>1 DEF PushWrite, PushType
  <2>3. slots' \in [0 .. Capacity - 1 -> SlotType]
    BY <1>6, <2>1 DEF PushWrite, SlotType
  <2> QED
    BY <1>6, <2>2, <2>3 DEF PushWrite
<1>7. CASE PushPublish
  BY <1>2, <1>3, <1>7 DEF PushPublish, PushType
<1>8. CASE PopBegin
  <2>1. [NoPop EXCEPT !.at = "read", !.index = tail] \in PopType
    BY <1>1 DEF PopType, NoPop, SlotType, Blank
  <2> QED
    BY <1>8, <2>1 DEF PopBegin
<1>9. CASE PopRead
  <2>1. pop.field + 1 \in 0 .. Pids + 1
    BY <1>9, StreamAssumption DEF PopRead, PopType, Field
  <2>2. Slot(pop.index) \in 0 .. Capacity - 1
    BY <1>1, SlotFact DEF PopType
  <2>3. slots[Slot(pop.index)][pop.field] \in Sample \cup {NoSample}
    BY <1>9, <2>2 DEF PopRead, SlotType
  <2>4. pop' \in PopType
    BY <1>9, <2>1, <2>3 DEF PopRead, PopType, SlotType
  <2> QED
    BY <1>9, <2>4 DEF PopRead
<1>10. CASE PopPublish
  BY <1>2, <1>3, <1>10 DEF PopPublish, PopType
<1>11. CASE UNCHANGED streamVars
  BY <1>11 DEF streamVars
<1> QED
  BY <1>4, <1>5, <1>6, <1>7, <1>8, <1>9, <1>10, <1>11 DEF StreamNext, Push, Pop

(* The counters, the slots and the records of the two calls keep their      *)
(* types, the counters also where they wrap.                                *)
THEOREM StreamTypeCorrect == StreamSpec => []StreamTypeOK
  BY TypeInitially, TypeStep, PTL DEF StreamSpec
-----------------------------------------------------------------------------
(* The invariant.                                                           *)

(* The push under way fills the slot at the head. *)
PushPlace ==
    push.at = "write" =>
        /\ push.index = head /\ Distance(head, tail) < Capacity
        /\ push.item \in Sample
        /\ \A f \in Field : f < push.field => slots[Slot(head)][f] = push.item

PushRest == push.at # "write" => push.item = NoSample

(* The pop under way has copied fields of the slot at the tail. *)
PopPlace ==
    pop.at = "read" =>
        /\ pop.index = tail /\ head # tail
        /\ \A f \in Field : f < pop.field => pop.out[f] = slots[Slot(tail)][f]

(* The slots in use hold one sample each. *)
Whole ==
    \A i \in 0 .. Distance(head, tail) - 1 : \A f \in Field :
        slots[Slot(tail + i)][f] = slots[Slot(tail + i)][0]

Fits == Distance(head, tail) <= Capacity

RingInv == PushPlace /\ PushRest /\ PopPlace /\ Whole /\ Fits

LEMMA RingInitially == StreamInit => RingInv
<1> SUFFICES ASSUME StreamInit PROVE RingInv
  OBVIOUS
<1>1. Distance(head, tail) = 0 /\ 0 <= Capacity
  BY StreamAssumption DEF StreamInit, Distance
<1> QED
  BY <1>1 DEF StreamInit, RingInv, PushPlace, PushRest, PopPlace, Whole, Fits, NoPush, NoPop, Idle

LEMMA RingStep ==
  ASSUME StreamTypeOK, RingInv, [StreamNext]_streamVars
  PROVE  RingInv'
<1> USE DEF RingInv
<1>1. /\ head \in Counter /\ tail \in Counter
      /\ Distance(head, tail) \in Int /\ Distance(head, tail) >= 0
      /\ Distance(head, tail) \in Counter
  <2>1. head \in Counter /\ tail \in Counter
    BY DEF StreamTypeOK, Counter
  <2> QED
    BY <2>1, DistanceSlot, SizeFact DEF Counter, Size
<1>2. Used = Distance(head, tail)
  BY <1>1, DistanceFact DEF Used
<1>3. Capacity \in Nat \ {0} /\ Pids \in Nat /\ NoSample \notin Sample /\ 0 \in Field
  BY StreamAssumption DEF Field
<1>4. ASSUME NEW x \in Sample, PushBegin(x) PROVE RingInv'
  <2>1. UNCHANGED <<head, tail, slots, pop>>
    BY <1>4 DEF PushBegin
  <2>2. CASE Full
    <3>1. push' = [NoPush EXCEPT !.at = "drop"]
      BY <1>4, <2>2 DEF PushBegin
    <3> QED
      BY <2>1, <3>1 DEF PushPlace, PushRest, PopPlace, Whole, Fits, NoPush, Distance
  <2>3. CASE ~Full
    <3>1. push' = [at |-> "write", item |-> x, index |-> head, field |-> 0]
      BY <1>4, <2>3 DEF PushBegin
    <3>2. Distance(head, tail) < Capacity
      BY <1>1, <1>2, <1>3, <2>3 DEF Full
    <3>3. PushPlace' /\ PushRest'
      BY <2>1, <3>1, <3>2 DEF PushPlace, PushRest, Distance, Field
    <3> QED
      BY <2>1, <3>3 DEF PopPlace, Whole, Fits, Distance
  <2> QED
    BY <2>2, <2>3
<1>5. CASE PushDrop
  <2>1. UNCHANGED <<head, tail, slots, pop>> /\ push' = NoPush
    BY <1>5 DEF PushDrop
  <2> QED
    BY <2>1 DEF PushPlace, PushRest, PopPlace, Whole, Fits, NoPush, Idle, Distance
<1>6. CASE PushWrite
  <2>1. /\ UNCHANGED <<head, tail, pop>>
        /\ push.at = "write" /\ push.field \in Field /\ push.index = head
        /\ slots' = [slots EXCEPT ![Slot(head)][push.field] = push.item]
        /\ push' = [push EXCEPT !.field = @ + 1]
    BY <1>6 DEF PushWrite, PushPlace
  <2>2. /\ slots \in [0 .. Capacity - 1 -> SlotType] /\ push \in PushType
        /\ Slot(head) \in 0 .. Capacity - 1
    BY <1>1, SlotFact DEF StreamTypeOK, Counter
  <2>3. PushPlace'
    <3>1. \A f \in Field : slots'[Slot(head)][f] =
                IF f = push.field THEN push.item ELSE slots[Slot(head)][f]
      BY <2>1, <2>2 DEF SlotType
    <3>2. push'.at = "write" /\ push'.index = head /\ push'.item = push.item
          /\ push'.field = push.field + 1
      BY <2>1, <2>2 DEF PushType
    <3> QED
      BY <2>1, <3>1, <3>2 DEF PushPlace, Distance, Field
  <2>4. PushRest'
    BY <2>1, <2>2 DEF PushRest, PushType
  <2>5. \A i \in 0 .. Distance(head, tail) - 1 : \A f \in Field :
            slots'[Slot(tail + i)][f] = slots[Slot(tail + i)][f]
    <3> SUFFICES ASSUME NEW i \in 0 .. Distance(head, tail) - 1, NEW f \in Field
                 PROVE  slots'[Slot(tail + i)][f] = slots[Slot(tail + i)][f]
      OBVIOUS
    <3>1. Slot(tail + i) # Slot(head)
      BY <1>1, <2>1, Separate DEF PushPlace
    <3>2. Slot(tail + i) \in 0 .. Capacity - 1
      BY <1>1, SlotFact, SizeFact DEF Counter, Size
    <3> QED
      BY <2>1, <2>2, <3>1, <3>2
  <2>6. Whole'
    BY <1>3, <2>1, <2>5 DEF Whole, Distance
  <2>7. PopPlace'
    <3>1. pop.at = "read" => 0 \in 0 .. Distance(head, tail) - 1 /\ tail + 0 = tail
      <4>1. pop.at = "read" => Distance(head, tail) # 0
        BY <1>1, DistanceSlot DEF PopPlace
      <4>2. tail \in Int
        BY <1>1, SizeFact DEF Counter, Size
      <4> QED
        BY <1>1, <4>1, <4>2
    <3> QED
      BY <2>1, <2>5, <3>1 DEF PopPlace
  <2> QED
    BY <2>1, <2>3, <2>4, <2>6, <2>7 DEF Fits, Distance
<1>7. CASE PushPublish
  <2>1. /\ UNCHANGED <<tail, slots, pop>> /\ push' = NoPush
        /\ push.at = "write" /\ push.field = Pids + 1
        /\ head' = After(head) /\ Distance(head, tail) < Capacity
    BY <1>7 DEF PushPublish, PushPlace
  <2>2. Distance(head', tail') = Distance(head, tail) + 1
    BY <1>1, <2>1, Pushed
  <2>3. \A f \in Field : slots[Slot(head)][f] = push.item
    BY <1>3, <2>1 DEF PushPlace, Field
  <2>4. Slot(tail + Distance(head, tail)) = Slot(head)
    BY <1>1, DistanceSlot
  <2>5. Whole'
    <3> SUFFICES ASSUME NEW i \in 0 .. Distance(head, tail), NEW f \in Field
                 PROVE  slots[Slot(tail + i)][f] = slots[Slot(tail + i)][0]
      BY <1>1, <2>1, <2>2 DEF Whole
    <3>1. CASE i = Distance(head, tail)
      BY <1>3, <2>3, <2>4, <3>1
    <3>2. CASE i # Distance(head, tail)
      BY <1>1, <3>2 DEF Whole
    <3> QED
      BY <3>1, <3>2
  <2>6. PopPlace'
    <3>1. head' # tail'
      <4>1. Distance(head', tail') # 0 /\ head' \in Counter /\ tail' \in Counter
        BY <1>1, <2>1, <2>2, AfterFact
      <4> QED
        BY <4>1, DistanceSlot
    <3> QED
      BY <2>1, <3>1 DEF PopPlace
  <2>7. Fits'
    BY <1>1, <1>3, <2>1, <2>2 DEF Fits
  <2> QED
    BY <2>1, <2>5, <2>6, <2>7 DEF PushPlace, PushRest, NoPush, Idle
<1>8. CASE PopBegin
  <2>1. /\ UNCHANGED <<head, tail, slots, push>> /\ head # tail
        /\ pop' = [NoPop EXCEPT !.at = "read", !.index = tail]
    BY <1>8 DEF PopBegin
  <2>2. PopPlace'
    BY <2>1 DEF PopPlace, NoPop, Field
  <2> QED
    BY <2>1, <2>2 DEF PushPlace, PushRest, Whole, Fits, Distance
<1>9. CASE PopRead
  <2>1. /\ UNCHANGED <<head, tail, slots, push>>
        /\ pop.at = "read" /\ pop.field \in Field /\ pop.index = tail
        /\ pop' = [pop EXCEPT !.out[pop.field] = slots[Slot(tail)][pop.field],
                              !.field = @ + 1]
    BY <1>9 DEF PopRead, PopPlace
  <2>2. pop \in PopType
    BY DEF StreamTypeOK
  <2>3. /\ pop'.at = "read" /\ pop'.index = tail /\ pop'.field = pop.field + 1
        /\ \A f \in Field : pop'.out[f] =
               IF f = pop.field THEN slots[Slot(tail)][f] ELSE pop.out[f]
    BY <2>1, <2>2 DEF PopType, SlotType
  <2>4. PopPlace'
    BY <2>1, <2>3 DEF PopPlace, Field
  <2> QED
    BY <2>1, <2>4 DEF PushPlace, PushRest, Whole, Fits, Distance
<1>10. CASE PopPublish
  <2>1. /\ UNCHANGED <<head, slots, push>> /\ pop' = NoPop
        /\ tail' = After(tail) /\ head # tail
    BY <1>10 DEF PopPublish, PopPlace
  <2>2. Distance(head', tail') = Distance(head, tail) - 1
    BY <1>1, <2>1, Popped
  <2>3. Whole'
    <3> SUFFICES ASSUME NEW i \in 0 .. Distance(head, tail) - 2, NEW f \in Field
                 PROVE  slots[Slot(After(tail) + i)][f] = slots[Slot(After(tail) + i)][0]
      BY <1>1, <2>1, <2>2 DEF Whole
    <3>1. i \in Counter /\ i + 1 \in 0 .. Distance(head, tail) - 1
      BY <1>1, SizeFact DEF Counter, Size
    <3> QED
      BY <1>1, <3>1, PoppedSlot DEF Whole
  <2>4. PushPlace' /\ Fits'
    BY <1>1, <1>3, <2>1, <2>2 DEF PushPlace, Fits
  <2> QED
    BY <2>1, <2>3, <2>4 DEF PushRest, PopPlace, NoPop, Idle
<1>11. CASE UNCHANGED streamVars
  BY <1>11 DEF streamVars, PushPlace, PushRest, PopPlace, Whole, Fits, Distance
<1> QED
  BY <1>4, <1>5, <1>6, <1>7, <1>8, <1>9, <1>10, <1>11 DEF StreamNext, Push, Pop

LEMMA RingAlways == StreamSpec => [](StreamTypeOK /\ RingInv)
<1>1. StreamInit => StreamTypeOK /\ RingInv
  BY TypeInitially, RingInitially
<1>2. StreamTypeOK /\ RingInv /\ [StreamNext]_streamVars => (StreamTypeOK /\ RingInv)'
  BY TypeStep, RingStep
<1> QED
  BY <1>1, <1>2, PTL DEF StreamSpec
-----------------------------------------------------------------------------
(* What follows from it.                                                    *)

(* The slot being filled is not the one being emptied.                      *)
LEMMA WritingElsewhere ==
  ASSUME StreamTypeOK, RingInv, push.at = "write", pop.at = "read"
  PROVE  Slot(push.index) # Slot(pop.index)
<1>1. head \in Counter /\ tail \in Counter
  BY DEF StreamTypeOK, Counter
<1>2. /\ push.index = head /\ pop.index = tail /\ head # tail
      /\ Distance(head, tail) < Capacity
  BY DEF RingInv, PushPlace, PopPlace
<1>3. 0 \in 0 .. Distance(head, tail) - 1 /\ tail + 0 = tail
  <2>1. Distance(head, tail) \in Counter /\ Distance(head, tail) # 0
    BY <1>1, <1>2, DistanceSlot
  <2> QED
    BY <1>1, <2>1, SizeFact DEF Counter, Size
<1>4. Slot(tail + 0) # Slot(head)
  BY <1>1, <1>2, <1>3, Separate
<1> QED
  BY <1>2, <1>3, <1>4

(* try_push and try_pop never work on the same slot at the same time, so    *)
(* their plain reads and writes of its fields do not race.                  *)
THEOREM SlotsNeverShared == StreamSpec => []NoSharedSlot
<1>1. StreamTypeOK /\ RingInv => NoSharedSlot
  BY WritingElsewhere DEF NoSharedSlot
<1> QED
  BY <1>1, RingAlways, PTL

(* head - tail, unsigned, is at most the capacity: try_push tells a full    *)
(* ring from an empty one also after a counter has wrapped.                 *)
THEOREM NeverMoreThanFits == StreamSpec => []NeverOverfull
<1>1. ASSUME StreamTypeOK, RingInv PROVE NeverOverfull
  <2>1. Used = Distance(head, tail)
    BY <1>1, DistanceFact DEF StreamTypeOK, Counter, Used
  <2> QED
    BY <1>1, <2>1 DEF NeverOverfull, RingInv, Fits
<1> QED
  BY <1>1, RingAlways, PTL
-----------------------------------------------------------------------------
(* The refinement.                                                          *)

Waiting == [i \in 1 .. Distance(head, tail) |-> slots[Slot(tail + i - 1)][0]]
Refused == IF push.at = "drop" THEN After(dropped) ELSE dropped

LEMMA MappedQueue ==
  ASSUME StreamTypeOK
  PROVE  [i \in 1 .. Used |-> slots[Slot(tail + i - 1)][0]] = Waiting
<1>1. Used = Distance(head, tail)
  BY DistanceFact DEF StreamTypeOK, Counter, Used
<1> QED
  BY <1>1 DEF Waiting

LEMMA WaitingFact ==
  ASSUME StreamTypeOK
  PROVE  /\ Waiting \in Seq(Sample \cup {NoSample})
         /\ Len(Waiting) = Distance(head, tail)
         /\ Distance(head, tail) \in Nat
<1>1. head \in Counter /\ tail \in Counter
  BY DEF StreamTypeOK, Counter
<1>2. Distance(head, tail) \in Nat
  BY <1>1, DistanceSlot, SizeFact DEF Counter, Size
<1>3. ASSUME NEW i \in 1 .. Distance(head, tail)
      PROVE  slots[Slot(tail + i - 1)][0] \in Sample \cup {NoSample}
  <2>1. Slot(tail + i - 1) \in 0 .. Capacity - 1
    BY <1>1, <1>2, SlotFact, SizeFact DEF Counter, Size
  <2>2. 0 \in Field
    BY StreamAssumption DEF Field
  <2> QED
    BY <2>1, <2>2 DEF StreamTypeOK, SlotType
<1> QED
  BY <1>2, <1>3 DEF Waiting
(* A step of the ring, seen through Waiting and Refused, is a step of the   *)
(* queue or changes nothing of it.                                          *)
QueueUnchanged == UNCHANGED <<Waiting, push.item, got, Refused>>

QOffer == \E x \in Sample :
    /\ push.item = NoSample /\ Len(Waiting) < Capacity
    /\ push'.item = x /\ UNCHANGED <<Waiting, got, Refused>>

QPut ==
    /\ push.item # NoSample
    /\ Waiting' = Append(Waiting, push.item)
    /\ push'.item = NoSample /\ UNCHANGED <<got, Refused>>

QRefuse ==
    /\ push.item = NoSample /\ Len(Waiting) = Capacity
    /\ Refused' = After(Refused) /\ UNCHANGED <<Waiting, push.item, got>>

QTake ==
    /\ Waiting # <<>> /\ Waiting' = Tail(Waiting)
    /\ got' = [f \in Field |-> Head(Waiting)]
    /\ UNCHANGED <<push.item, Refused>>

QStep == QOffer \/ QPut \/ QRefuse \/ QTake \/ QueueUnchanged

LEMMA QueueStep ==
  ASSUME StreamTypeOK, RingInv, StreamTypeOK', [StreamNext]_streamVars
  PROVE  QStep
<1> USE DEF RingInv
<1>1. /\ head \in Counter /\ tail \in Counter /\ Distance(head, tail) \in Nat
      /\ Distance(head, tail) \in Counter
      /\ Used = Distance(head, tail) /\ Len(Waiting) = Distance(head, tail)
  <2>1. head \in Counter /\ tail \in Counter
    BY DEF StreamTypeOK, Counter
  <2> QED
    BY <2>1, WaitingFact, DistanceFact, DistanceSlot DEF Used
<1>2. Capacity \in Nat \ {0} /\ NoSample \notin Sample /\ 0 \in Field /\ Pids \in Nat
  BY StreamAssumption DEF Field
<1>3. ASSUME NEW x \in Sample, PushBegin(x) PROVE QStep
  <2>1. /\ UNCHANGED <<head, tail, dropped, slots, got>> /\ push.at = Idle
        /\ push.item = NoSample
    BY <1>3 DEF PushBegin, PushRest, Idle
  <2>2. Waiting' = Waiting
    BY <2>1 DEF Waiting, Distance
  <2>3. CASE Full
    <3>1. push' = [NoPush EXCEPT !.at = "drop"]
      BY <1>3, <2>3 DEF PushBegin
    <3>2. Refused' = After(Refused) /\ push'.item = NoSample
      BY <2>1, <3>1 DEF Refused, NoPush, Idle
    <3>3. Len(Waiting) = Capacity
      BY <1>1, <1>2, <2>3 DEF Full, Fits
    <3> QED
      BY <2>1, <2>2, <3>2, <3>3 DEF QStep, QRefuse
  <2>4. CASE ~Full
    <3>1. push' = [at |-> "write", item |-> x, index |-> head, field |-> 0]
      BY <1>3, <2>4 DEF PushBegin
    <3>2. Refused' = Refused /\ push'.item = x
      BY <2>1, <3>1 DEF Refused, Idle
    <3>3. Len(Waiting) < Capacity
      BY <1>1, <1>2, <2>4 DEF Full
    <3> QED
      BY <2>1, <2>2, <3>2, <3>3 DEF QStep, QOffer
  <2> QED
    BY <2>3, <2>4
<1>4. CASE PushDrop
  <2>1. /\ UNCHANGED <<head, tail, slots, got>> /\ push.at = "drop"
        /\ dropped' = After(dropped) /\ push' = NoPush
    BY <1>4 DEF PushDrop
  <2> QED
    BY <2>1 DEF QStep, QueueUnchanged, Waiting, Distance, Refused, NoPush, Idle, PushRest
<1>5. CASE PushWrite
  <2>1. /\ UNCHANGED <<head, tail, dropped, got>>
        /\ push.at = "write" /\ push.field \in Field /\ push.index = head
        /\ slots' = [slots EXCEPT ![Slot(head)][push.field] = push.item]
        /\ push' = [push EXCEPT !.field = @ + 1]
    BY <1>5 DEF PushWrite, PushPlace
  <2>2. push \in PushType /\ slots \in [0 .. Capacity - 1 -> SlotType]
    BY DEF StreamTypeOK
  <2>3. push'.item = push.item /\ push'.at = "write"
    BY <2>1, <2>2 DEF PushType
  <2>4. ASSUME NEW i \in 1 .. Distance(head, tail)
        PROVE  slots'[Slot(tail + i - 1)][0] = slots[Slot(tail + i - 1)][0]
    <3>1. i - 1 \in 0 .. Distance(head, tail) - 1 /\ tail + i - 1 = tail + (i - 1)
          /\ tail + i - 1 \in Int
      BY <1>1, SizeFact DEF Counter, Size
    <3>2. Slot(tail + (i - 1)) # Slot(head)
      BY <1>1, <2>1, <3>1, Separate DEF PushPlace
    <3>3. Slot(tail + i - 1) \in 0 .. Capacity - 1
      BY <3>1, SlotFact
    <3> QED
      BY <2>1, <2>2, <3>1, <3>2, <3>3
  <2>5. Waiting' = Waiting
    BY <2>1, <2>4 DEF Waiting, Distance
  <2> QED
    BY <2>1, <2>3, <2>5 DEF QStep, QueueUnchanged, Refused
<1>6. CASE PushPublish
  <2>1. /\ UNCHANGED <<tail, dropped, slots, got>> /\ push' = NoPush
        /\ push.at = "write" /\ push.field = Pids + 1
        /\ head' = After(head) /\ Distance(head, tail) < Capacity
    BY <1>6 DEF PushPublish, PushPlace
  <2>2. Distance(head', tail') = Distance(head, tail) + 1
    BY <1>1, <2>1, Pushed
  <2>3. slots[Slot(tail + Distance(head, tail))][0] = push.item
    BY <1>1, <1>2, <2>1, DistanceSlot DEF PushPlace, Field
  <2>4. Waiting' = [i \in 1 .. Distance(head, tail) + 1 |-> slots[Slot(tail + i - 1)][0]]
    BY <2>1, <2>2 DEF Waiting
  <2>5. tail + (Distance(head, tail) + 1) - 1 = tail + Distance(head, tail)
    BY <1>1, SizeFact DEF Counter, Size
  <2>6. Append(Waiting, push.item) =
            [i \in 1 .. Distance(head, tail) + 1 |->
                IF i = Distance(head, tail) + 1 THEN push.item
                ELSE slots[Slot(tail + i - 1)][0]]
    <3>1. push.item \in Sample \cup {NoSample} /\ Waiting \in Seq(Sample \cup {NoSample})
      BY WaitingFact DEF StreamTypeOK, PushType
    <3>2. /\ Append(Waiting, push.item) \in Seq(Sample \cup {NoSample})
          /\ Len(Append(Waiting, push.item)) = Distance(head, tail) + 1
          /\ \A i \in 1 .. Distance(head, tail) + 1 :
                Append(Waiting, push.item)[i] =
                    IF i = Distance(head, tail) + 1 THEN push.item ELSE Waiting[i]
      BY <1>1, <3>1
    <3>3. Append(Waiting, push.item) =
              [i \in 1 .. Distance(head, tail) + 1 |-> Append(Waiting, push.item)[i]]
      BY <1>1, <3>2
    <3>4. \A i \in 1 .. Distance(head, tail) + 1 :
              i # Distance(head, tail) + 1 => Waiting[i] = slots[Slot(tail + i - 1)][0]
      BY <1>1 DEF Waiting
    <3> QED
      BY <3>2, <3>3, <3>4
  <2>7. Waiting' = Append(Waiting, push.item)
    BY <2>3, <2>4, <2>5, <2>6
  <2>8. push.item # NoSample /\ push'.item = NoSample /\ Refused' = Refused
    BY <1>2, <2>1 DEF PushPlace, NoPush, Refused, Idle
  <2> QED
    BY <2>1, <2>7, <2>8 DEF QStep, QPut
<1>7. CASE PopBegin \/ PopRead
  BY <1>7 DEF PopBegin, PopRead, QStep, QueueUnchanged, Waiting, Distance, Refused
<1>8. CASE PopPublish
  <2>1. /\ UNCHANGED <<head, dropped, slots, push>> /\ pop' = NoPop /\ pop.at = "read"
        /\ tail' = After(tail) /\ head # tail /\ got' = pop.out /\ pop.field = Pids + 1
    BY <1>8 DEF PopPublish, PopFinished, PopPlace
  <2>2. Distance(head', tail') = Distance(head, tail) - 1 /\ Distance(head, tail) # 0
    BY <1>1, <2>1, Popped, DistanceSlot
  <2>3. Waiting[1] = slots[Slot(tail)][0] /\ Waiting # <<>>
    <3>1. 1 \in 1 .. Distance(head, tail) /\ tail + 1 - 1 = tail
      BY <1>1, <2>2, SizeFact DEF Counter, Size
    <3>2. Waiting[1] = slots[Slot(tail + 1 - 1)][0]
      BY <3>1 DEF Waiting
    <3> QED
      BY <1>1, <2>2, <3>1, <3>2
  <2>4. got' = [f \in Field |-> Head(Waiting)]
    <3>1. pop.out \in SlotType
      BY DEF StreamTypeOK, PopType
    <3>2. \A f \in Field : pop.out[f] = slots[Slot(tail)][f]
      BY <1>2, <2>1 DEF PopPlace, Field
    <3>3. \A f \in Field : slots[Slot(tail)][f] = slots[Slot(tail)][0]
      <4>1. 0 \in 0 .. Distance(head, tail) - 1 /\ tail + 0 = tail
        BY <1>1, <2>2, SizeFact DEF Counter, Size
      <4> QED
        BY <4>1 DEF Whole
    <3>4. Head(Waiting) = Waiting[1]
      BY WaitingFact, <1>1, <2>2
    <3> QED
      BY <2>1, <2>3, <3>1, <3>2, <3>3, <3>4 DEF SlotType
  <2>5. Waiting' = Tail(Waiting)
    <3>1. Waiting' = [i \in 1 .. Distance(head, tail) - 1 |->
                        slots[Slot(After(tail) + i - 1)][0]]
      BY <2>1, <2>2 DEF Waiting
    <3>2. ASSUME NEW i \in 1 .. Distance(head, tail) - 1
          PROVE  slots[Slot(After(tail) + i - 1)][0] = Waiting[i + 1]
      <4>1. /\ i - 1 \in Counter /\ i + 1 \in 1 .. Distance(head, tail)
            /\ After(tail) + i - 1 = After(tail) + (i - 1)
            /\ tail + (i + 1) - 1 = tail + ((i - 1) + 1)
        BY <1>1, AfterFact, SizeFact DEF Counter, Size
      <4>2. Slot(After(tail) + (i - 1)) = Slot(tail + ((i - 1) + 1))
        BY <1>1, <4>1, PoppedSlot
      <4>3. Waiting[i + 1] = slots[Slot(tail + (i + 1) - 1)][0]
        BY <4>1 DEF Waiting
      <4> QED
        BY <4>1, <4>2, <4>3
    <3>3. Tail(Waiting) = [i \in 1 .. Distance(head, tail) - 1 |-> Waiting[i + 1]]
      <4>1. Waiting \in Seq(Sample \cup {NoSample}) /\ Waiting # <<>>
        BY <2>3, WaitingFact
      <4>2. /\ Tail(Waiting) \in Seq(Sample \cup {NoSample})
            /\ Len(Tail(Waiting)) = Distance(head, tail) - 1
            /\ \A i \in 1 .. Distance(head, tail) - 1 : Tail(Waiting)[i] = Waiting[i + 1]
        BY <1>1, <4>1
      <4>3. Tail(Waiting) = [i \in 1 .. Distance(head, tail) - 1 |-> Tail(Waiting)[i]]
        <5> DEFINE rest == Tail(Waiting)
        <5>1. rest \in Seq(Sample \cup {NoSample}) /\ Len(rest) = Distance(head, tail) - 1
          BY <4>2
        <5> HIDE DEF rest
        <5>2. rest = [i \in 1 .. Distance(head, tail) - 1 |-> rest[i]]
          BY <1>1, <5>1
        <5> QED
          BY <5>2 DEF rest
      <4> QED
        BY <4>2, <4>3
    <3> QED
      BY <3>1, <3>2, <3>3
  <2>6. Refused' = Refused
    BY <2>1 DEF Refused
  <2> QED
    BY <2>1, <2>3, <2>4, <2>5, <2>6 DEF QStep, QTake
<1>9. CASE UNCHANGED streamVars
  BY <1>9 DEF streamVars, QStep, QueueUnchanged, Waiting, Distance, Refused
<1> QED
  BY <1>3, <1>4, <1>5, <1>6, <1>7, <1>8, <1>9 DEF StreamNext, Push, Pop

(* The ring is the bounded queue: every sample accepted is popped once, in  *)
(* order and whole, and a push is refused only when the ring is full.       *)
THEOREM RingIsAQueue == StreamSpec => ImplementsSampleQueue
<1>1. ASSUME StreamInit PROVE Queue!Init
  <2>1. StreamTypeOK /\ Distance(head, tail) = 0
    BY <1>1, TypeInitially DEF StreamInit, Distance
  <2>2. [i \in 1 .. Used |-> slots[Slot(tail + i - 1)][0]] = <<>>
    BY <2>1, MappedQueue, WaitingFact
  <2> QED
    BY <1>1, <2>2 DEF StreamInit, Queue!Init, NoPush, Blank, Idle
<1>2. ASSUME StreamTypeOK, RingInv, StreamTypeOK', [StreamNext]_streamVars
      PROVE  [Queue!Next]_Queue!vars
  <2>1. QStep
    BY <1>2, QueueStep
  <2>2. [i \in 1 .. Used |-> slots[Slot(tail + i - 1)][0]] = Waiting
    BY <1>2, MappedQueue
  <2>3. [i \in 1 .. Used |-> slots[Slot(tail + i - 1)][0]]' = Waiting'
    <3>1. Used' = Distance(head', tail')
      BY <1>2, DistanceFact DEF StreamTypeOK, Counter, Used
    <3> QED
      BY <3>1 DEF Waiting
  <2>4. CASE QOffer
    BY <2>2, <2>3, <2>4 DEF QOffer, Queue!Next, Queue!Offer, Refused
  <2>5. CASE QPut
    BY <2>2, <2>3, <2>5 DEF QPut, Queue!Next, Queue!Put, Refused
  <2>6. CASE QRefuse
    BY <2>2, <2>3, <2>6 DEF QRefuse, Queue!Next, Queue!Refuse, Refused, After
  <2>7. CASE QTake
    BY <2>2, <2>3, <2>7 DEF QTake, Queue!Next, Queue!Take, Refused
  <2>8. CASE QueueUnchanged
    BY <2>2, <2>3, <2>8 DEF QueueUnchanged, Queue!vars, Refused
  <2> QED
    BY <2>1, <2>4, <2>5, <2>6, <2>7, <2>8 DEF QStep
<1> QED
  BY <1>1, <1>2, RingAlways, PTL DEF StreamSpec, ImplementsSampleQueue, Queue!Spec
-----------------------------------------------------------------------------
(* The invariant of a LiveBuffer.                                           *)

Begun == count + (IF writing = {} THEN 0 ELSE 1)

(* The samples that are whole in their slots. *)
Kept ==
    \A n \in Nat : n < count /\ Begun - Depth <= n =>
        \A f \in Live!Field : ring[Live!Slot(n)][f] = n

(* What a push under way has written. *)
Filled ==
    writing # {} =>
        /\ "count" \in writing
        /\ \A f \in Live!Field : f \notin writing => ring[Live!Slot(count)][f] = count

WriterInv == Kept /\ Filled

(* What a read has to copy, and how far the producer has gone since. *)
Window ==
    reading => /\ seen <= count /\ take <= seen /\ take <= Depth
               /\ behind = Begun - seen

(* What it has copied: field 2 * i is a timestamp, field 2 * i + 1 a value. *)
CopiedRight ==
    \A i \in 0 .. take - 1 :
        /\ 2 * i < copied => out[i]["timestamp"] = seen - take + i
        /\ 2 * i + 1 < copied => out[i]["value"] = seen - take + i

Copying ==
    /\ (reading \/ seen > 0) /\ behind <= Depth - take => CopiedRight
    /\ ~reading /\ seen > 0 => copied = 2 * take

BufferInv == WriterInv /\ Window /\ Copying

LEMMA LiveSlotFact ==
  ASSUME NEW n \in Int
  PROVE  Live!Slot(n) \in 0 .. Depth - 1
  BY BufferAssumption, Division DEF Live!Slot

LEMMA NothingType == Live!Nothing \in [Live!Field -> Int]
  BY DEF Live!Nothing

LEMMA BufferTypeInitially ==
  ASSUME Live!Init
  PROVE  Live!TypeOK
<1>1. 0 \in 0 .. Depth /\ 0 \in 0 .. 2 * Depth /\ 0 \in Nat /\ 0 \in Int
  BY BufferAssumption
<1>2. /\ [s \in 0 .. Depth - 1 |-> Live!Nothing] \in [0 .. Depth - 1 -> [Live!Field -> Int]]
      /\ [i \in 0 .. Depth - 1 |-> Live!Nothing] \in [0 .. Depth - 1 -> [Live!Field -> Int]]
  BY NothingType
<1> QED
  BY <1>1, <1>2, Zenon DEF Live!Init, Live!TypeOK

LEMMA BufferTypeStep ==
  ASSUME Live!TypeOK, [Live!Next]_Live!vars
  PROVE  Live!TypeOK'
<1> USE DEF Live!TypeOK
<1>1. Depth \in Nat \ {0}
  BY BufferAssumption
<1>2. CASE Live!PushBegin
  BY <1>2 DEF Live!PushBegin, Live!reader
<1>3. ASSUME NEW f \in Live!Field, Live!PushField(f) PROVE Live!TypeOK'
  <2>0. count \in Int
    OBVIOUS
  <2>1. Live!Slot(count) \in 0 .. Depth - 1
    BY <2>0, LiveSlotFact, Zenon
  <2>2. ring' \in [0 .. Depth - 1 -> [Live!Field -> Int]]
    BY <1>3, <2>1 DEF Live!PushField
  <2> QED
    BY <1>3, <2>2 DEF Live!PushField, Live!reader
<1>4. CASE Live!PushPublish
  BY <1>4 DEF Live!PushPublish, Live!reader
<1>5. ASSUME NEW wanted \in 1 .. Depth + 1, Live!ReadBegin(wanted) PROVE Live!TypeOK'
  <2>1. Live!Taken(wanted) \in 0 .. Depth
    BY <1>1 DEF Live!Taken, Live!MinOf
  <2>2. out' \in [0 .. Depth - 1 -> [Live!Field -> Int]]
    BY <1>5, NothingType DEF Live!ReadBegin
  <2>3. 0 \in 0 .. 2 * Depth
    BY <1>1
  <2> QED
    BY <1>5, <2>1, <2>2, <2>3 DEF Live!ReadBegin, Live!writer
<1>6. CASE Live!ReadField
  <2> DEFINE i == copied \div 2
  <2> DEFINE f == IF copied % 2 = 0 THEN "timestamp" ELSE "value"
  <2>1. f \in Live!Field /\ copied + 1 \in 0 .. 2 * Depth
    BY <1>1, <1>6 DEF Live!ReadField, Live!Field
  <2>2. Live!Slot(seen - take + i) \in 0 .. Depth - 1
    <3>1. seen - take + i \in Int
      BY <1>1
    <3> QED
      BY <3>1, LiveSlotFact
  <2>3. ring[Live!Slot(seen - take + i)][f] \in Int
    BY <2>1, <2>2
  <2>4. out' \in [0 .. Depth - 1 -> [Live!Field -> Int]]
    BY <1>6, <2>1, <2>3 DEF Live!ReadField
  <2> QED
    BY <1>6, <2>1, <2>4 DEF Live!ReadField, Live!writer
<1>7. CASE Live!ReadEnd
  BY <1>7 DEF Live!ReadEnd, Live!writer
<1>8. CASE UNCHANGED Live!vars
  BY <1>8 DEF Live!vars, Live!writer, Live!reader
<1> QED
  BY <1>2, <1>3, <1>4, <1>5, <1>6, <1>7, <1>8 DEF Live!Next, Live!Write, Live!Read

(* The counters, the ring and the record of the read keep their types.      *)
THEOREM BufferTypeCorrect == Live!Spec => []Live!TypeOK
<1>1. Live!Init => Live!TypeOK
  BY BufferTypeInitially
<1>2. Live!TypeOK /\ [Live!Next]_Live!vars => Live!TypeOK'
  BY BufferTypeStep
<1> QED
  BY <1>1, <1>2, PTL DEF Live!Spec
-----------------------------------------------------------------------------
(* It is kept.                                                              *)

LEMMA BufferInitially ==
  ASSUME Live!Init
  PROVE  BufferInv
<1>1. Kept
  BY DEF Live!Init, Kept
<1> QED
  BY <1>1 DEF Live!Init, BufferInv, WriterInv, Filled, Window, Copying

(* A sample that is kept sits in a slot other than the one being written.   *)
LEMMA KeptElsewhere ==
  ASSUME NEW c \in Nat, NEW n \in Nat, n < c, c + 1 - Depth <= n
  PROVE  Live!Slot(n) # Live!Slot(c) /\ Live!Slot(n) \in 0 .. Depth - 1
<1>1. n < c /\ c < n + Depth /\ Depth \in Nat \ {0}
  BY BufferAssumption
<1>2. n \in Int /\ c \in Int
  OBVIOUS
<1>3. n % Depth # c % Depth
  BY <1>1, <1>2, Apart
<1>4. Live!Slot(n) \in 0 .. Depth - 1
  BY <1>2, LiveSlotFact
<1> QED
  BY <1>3, <1>4 DEF Live!Slot

(* A step of the producer. *)
LEMMA WriterStep ==
  ASSUME Live!TypeOK, WriterInv, [Live!Next]_Live!vars
  PROVE  WriterInv'
<1> USE DEF WriterInv
<1>1. Depth \in Nat \ {0} /\ count \in Nat /\ writing \subseteq Live!Field \cup {"count"}
      /\ ring \in [0 .. Depth - 1 -> [Live!Field -> Int]]
  BY BufferAssumption DEF Live!TypeOK
<1>2. CASE Live!PushBegin
  <2>1. count' = count /\ ring' = ring /\ writing = {} /\ writing' = Live!Field \cup {"count"}
    BY <1>2 DEF Live!PushBegin, Live!reader
  <2>2. Kept'
    BY <1>1, <2>1 DEF Kept, Begun
  <2> QED
    BY <2>1, <2>2 DEF Filled
<1>3. ASSUME NEW g \in Live!Field, Live!PushField(g) PROVE WriterInv'
  <2>1. /\ count' = count /\ writing' = writing \ {g} /\ g \in writing
        /\ ring' = [ring EXCEPT ![Live!Slot(count)][g] = count]
    BY <1>3 DEF Live!PushField, Live!reader
  <2>2. Live!Slot(count) \in 0 .. Depth - 1
    <3>1. count \in Int
      BY <1>1
    <3> QED
      BY <3>1, LiveSlotFact
  <2>3. Filled'
    <3>1. "count" \in writing'
      BY <2>1 DEF Filled, Live!Field
    <3>2. ASSUME NEW f \in Live!Field, f \notin writing'
          PROVE  ring'[Live!Slot(count)][f] = count
      <4>1. CASE f = g
        BY <1>1, <2>1, <2>2, <4>1
      <4>2. CASE f # g
        BY <1>1, <2>1, <2>2, <3>2, <4>2 DEF Filled
      <4> QED
        BY <4>1, <4>2
    <3> QED
      BY <2>1, <3>1, <3>2 DEF Filled
  <2>4. ASSUME NEW n \in Nat, n < count, Begun - Depth <= n, NEW f \in Live!Field
        PROVE  ring'[Live!Slot(n)][f] = n
    <3>1. Live!Slot(n) # Live!Slot(count)
      <4>1. count + 1 - Depth <= n
        BY <1>1, <2>1, <2>4 DEF Begun
      <4> QED
        BY <1>1, <2>4, <4>1, KeptElsewhere
    <3>2. ring[Live!Slot(n)][f] = n
      BY <2>4 DEF Kept
    <3> QED
      BY <1>1, <2>1, <3>1, <3>2
  <2>5. "count" \in writing'
    BY <2>1 DEF Filled, Live!Field
  <2>6. Begun' = Begun
    BY <2>1, <2>5 DEF Begun
  <2> QED
    BY <2>1, <2>3, <2>4, <2>6 DEF Kept
<1>4. CASE Live!PushPublish
  <2>1. count' = count + 1 /\ ring' = ring /\ writing' = {} /\ writing = {"count"}
    BY <1>4 DEF Live!PushPublish, Live!FieldsWritten, Live!reader
  <2>2. \A f \in Live!Field : ring[Live!Slot(count)][f] = count
    BY <2>1 DEF Filled, Live!Field
  <2>3. Kept'
    BY <1>1, <2>1, <2>2 DEF Kept, Begun
  <2> QED
    BY <2>1, <2>3 DEF Filled
<1>5. CASE Live!Read \/ UNCHANGED Live!vars
  <2>1. UNCHANGED <<count, ring, writing>>
    BY <1>5 DEF Live!Read, Live!ReadBegin, Live!ReadField, Live!ReadEnd, Live!vars, Live!writer
  <2> QED
    BY <2>1 DEF Kept, Filled, Begun
<1> QED
  BY <1>2, <1>3, <1>4, <1>5 DEF Live!Next, Live!Write
(* A step of either thread keeps what the read knows. *)
LEMMA ReaderStep ==
  ASSUME Live!TypeOK, BufferInv, [Live!Next]_Live!vars
  PROVE  Window' /\ Copying'
<1> USE DEF BufferInv, WriterInv
<1>1. /\ Depth \in Nat \ {0} /\ count \in Nat /\ seen \in Nat /\ behind \in Int
      /\ take \in 0 .. Depth /\ copied \in 0 .. 2 * Depth /\ reading \in BOOLEAN
      /\ out \in [0 .. Depth - 1 -> [Live!Field -> Int]]
  BY BufferAssumption DEF Live!TypeOK
<1>2. CASE Live!PushBegin
  <2>1. /\ UNCHANGED <<count, ring, reading, seen, take, copied, out>> /\ writing = {}
        /\ writing' # {} /\ behind' = IF reading THEN count + 1 - seen ELSE behind
    BY <1>2 DEF Live!PushBegin, Live!reader
  <2>2. Window'
    BY <1>1, <2>1 DEF Window, Begun
  <2>3. behind' >= behind
    BY <1>1, <2>1 DEF Window, Begun
  <2> QED
    BY <1>1, <2>1, <2>2, <2>3 DEF Copying, CopiedRight
<1>3. ASSUME NEW g \in Live!Field, Live!PushField(g) PROVE Window' /\ Copying'
  <2>1. /\ UNCHANGED <<count, reading, seen, take, copied, out, behind>>
        /\ writing' = writing \ {g} /\ "count" \in writing' /\ writing # {}
    BY <1>3 DEF Live!PushField, Live!reader, Filled, Live!Field
  <2> QED
    BY <2>1 DEF Window, Begun, Copying, CopiedRight
<1>4. CASE Live!PushPublish
  <2>1. /\ UNCHANGED <<ring, reading, seen, take, copied, out, behind>>
        /\ count' = count + 1 /\ writing' = {} /\ writing # {}
    BY <1>4 DEF Live!PushPublish, Live!FieldsWritten, Live!reader
  <2> QED
    BY <1>1, <2>1 DEF Window, Begun, Copying, CopiedRight
<1>5. ASSUME NEW wanted \in 1 .. Depth + 1, Live!ReadBegin(wanted)
      PROVE  Window' /\ Copying'
  <2>1. /\ UNCHANGED <<count, ring, writing>> /\ reading' = TRUE /\ seen' = count
        /\ take' = Live!Taken(wanted) /\ copied' = 0
        /\ behind' = IF writing = {} THEN 0 ELSE 1
    BY <1>5 DEF Live!ReadBegin, Live!writer
  <2>2. take' <= count /\ take' <= Depth /\ take' \in Int
    BY <1>1, <2>1 DEF Live!Taken, Live!MinOf
  <2>3. Window'
    BY <1>1, <2>1, <2>2 DEF Window, Begun
  <2>4. CopiedRight'
    BY <1>1, <2>1, <2>2 DEF CopiedRight
  <2> QED
    BY <2>1, <2>3, <2>4 DEF Copying
<1>6. CASE Live!ReadField
  <2> DEFINE i == copied \div 2
  <2> DEFINE f == IF copied % 2 = 0 THEN "timestamp" ELSE "value"
  <2>1. /\ UNCHANGED <<count, ring, writing, reading, seen, take, behind>>
        /\ reading /\ copied < 2 * take /\ copied' = copied + 1
        /\ out' = [out EXCEPT ![i][f] = ring[Live!Slot(seen - take + i)][f]]
    BY <1>6 DEF Live!ReadField, Live!writer
  <2>2. /\ i \in 0 .. take - 1 /\ f \in Live!Field
        /\ copied = 2 * i \/ copied = 2 * i + 1
        /\ copied = 2 * i => f = "timestamp"
        /\ copied = 2 * i + 1 => f = "value"
    BY <1>1, <2>1 DEF Live!Field
  <2> HIDE DEF i, f
  <2>3. Window'
    BY <2>1 DEF Window, Begun
  <2>4. ASSUME behind <= Depth - take
        PROVE  CopiedRight'
    <3>1. ring[Live!Slot(seen - take + i)][f] = seen - take + i
      <4>1. /\ seen - take + i \in Nat /\ seen - take + i < count
            /\ Begun - Depth <= seen - take + i
        <5>1. Begun \in Int
          BY <1>1 DEF Begun
        <5>2. seen <= count /\ take <= seen /\ behind = Begun - seen
          BY <2>1 DEF Window
        <5> QED
          BY <1>1, <2>2, <2>4, <5>1, <5>2
      <4> QED
        BY <2>2, <4>1 DEF Kept
    <3>2. \A j \in 0 .. take - 1 : \A g \in Live!Field :
              out'[j][g] = IF j = i /\ g = f THEN seen - take + i ELSE out[j][g]
      BY <1>1, <2>1, <2>2, <3>1
    <3>3. CopiedRight
      BY <2>1, <2>4 DEF Copying
    <3>4. "timestamp" \in Live!Field /\ "value" \in Live!Field
      BY DEF Live!Field
    <3> SUFFICES ASSUME NEW j \in 0 .. take - 1
                 PROVE  /\ 2 * j < copied + 1 => out'[j]["timestamp"] = seen - take + j
                        /\ 2 * j + 1 < copied + 1 => out'[j]["value"] = seen - take + j
      BY <2>1 DEF CopiedRight
    <3>5. /\ 2 * j < copied => out[j]["timestamp"] = seen - take + j
          /\ 2 * j + 1 < copied => out[j]["value"] = seen - take + j
      BY <3>3 DEF CopiedRight
    <3>6. CASE copied = 2 * i
      <4>1. f = "timestamp"
        BY <2>2, <3>6
      <4>2. 2 * j < copied + 1 => j = i \/ 2 * j < copied
        BY <1>1, <2>2, <3>6
      <4>3. 2 * j + 1 < copied + 1 => 2 * j + 1 < copied
        BY <1>1, <2>2, <3>6
      <4> QED
        BY <3>2, <3>4, <3>5, <4>1, <4>2, <4>3
    <3>7. CASE copied = 2 * i + 1
      <4>1. f = "value"
        BY <2>2, <3>7
      <4>2. 2 * j < copied + 1 => 2 * j < copied
        BY <1>1, <2>2, <3>7
      <4>3. 2 * j + 1 < copied + 1 => j = i \/ 2 * j + 1 < copied
        BY <1>1, <2>2, <3>7
      <4> QED
        BY <3>2, <3>4, <3>5, <4>1, <4>2, <4>3
    <3> QED
      BY <2>2, <3>6, <3>7
  <2> QED
    BY <2>1, <2>3, <2>4 DEF Copying
<1>7. CASE Live!ReadEnd
  <2>1. /\ UNCHANGED <<count, ring, writing, seen, take, copied, out, behind>>
        /\ reading /\ copied = 2 * take /\ reading' = FALSE
    BY <1>7 DEF Live!ReadEnd, Live!writer
  <2> QED
    BY <2>1 DEF Window, Copying, CopiedRight
<1>8. CASE UNCHANGED Live!vars
  BY <1>8 DEF Live!vars, Live!writer, Live!reader, Window, Begun, Copying, CopiedRight
<1> QED
  BY <1>2, <1>3, <1>4, <1>5, <1>6, <1>7, <1>8 DEF Live!Next, Live!Write, Live!Read

(* A finished read has copied everything.                                   *)
LEMMA FinishedExact ==
  ASSUME Live!TypeOK, BufferInv
  PROVE  Live!SnapshotIsRecent
<1>1. ASSUME Live!Finished, behind <= Depth - take
      PROVE  Live!Recent
  <2>1. CopiedRight /\ copied = 2 * take /\ take \in Int
    BY <1>1 DEF BufferInv, Copying, Live!Finished, Live!TypeOK
  <2>2. ASSUME NEW i \in 0 .. take - 1
        PROVE  2 * i < copied /\ 2 * i + 1 < copied
    BY <2>1
  <2> QED
    BY <2>1, <2>2 DEF Live!Recent, CopiedRight, Live!Field
<1> QED
  BY <1>1 DEF Live!SnapshotIsRecent

(* A snapshot of take samples is exact, in order and whole, when at most    *)
(* capacity - take pushes began while it was copied.                        *)
THEOREM SnapshotExact == Live!Spec => []Live!SnapshotIsRecent
<1>1. Live!Init => Live!TypeOK /\ BufferInv
  BY BufferTypeInitially, BufferInitially
<1>2. Live!TypeOK /\ BufferInv /\ [Live!Next]_Live!vars => (Live!TypeOK /\ BufferInv)'
  BY BufferTypeStep, WriterStep, ReaderStep DEF BufferInv
<1>3. Live!TypeOK /\ BufferInv => Live!SnapshotIsRecent
  BY FinishedExact
<1> QED
  BY <1>1, <1>2, <1>3, PTL DEF Live!Spec
-----------------------------------------------------------------------------
(* A whole session.  Every caller in the program makes its calls of start,  *)
(* stop and attach_live_buffer from one thread; with two of them a stop     *)
(* between another's exchange of running_ and its spawn is lost, and the    *)
(* I/O thread goes on while the next start resets the ring.                 *)
OneController == \A c, d \in Controllers : c = d

(* A run makes fewer reads than a counter has values.                       *)
WideCounters == MaxReads < Modulus

Resetting == {"resetHead", "resetTail", "spawn"}
Starting == {"clearStop"} \cup Resetting

NotAt(places) == \A c \in Controllers : ctl[c] \notin places

(* The I/O thread exists from the spawn to the join, and running_ covers it *)
(* and the start that leads to it.  Nothing pops while a call is under way. *)
CallsOK ==
    /\ ~dead
    /\ handle <=> io # "none"
    /\ handle => running /\ run > 0
    /\ \A c \in Controllers :
         /\ ctl[c] \in Starting => running /\ ~handle /\ run < MaxRuns
         /\ ctl[c] = "attach" => ~running /\ attached < MaxBuffers
         /\ ctl[c] = "join" => handle
         /\ ctl[c] = "clearRunning" => ~handle
         /\ ctl[c] # Idle => pop.at = Idle

(* The I/O thread pushes into the ring in one place of its loop and into    *)
(* the LiveBuffer in another, the sample it read.                           *)
PushesOK ==
    /\ io # "pushing" => push.at = Idle
    /\ push.at = "write" => push.item = [run |-> run, n |-> reads]
    /\ writing # {} => io = "feeding"
    /\ io = "read" => reads < MaxReads

(* Every read is accounted for, but while start clears the counters.        *)
ReadsOK ==
    /\ NotAt(Resetting) => reads = cycles + errors + InHand
    /\ ~NotAt(Resetting) => cycles = 0 /\ errors = 0

(* The ring is sound and holds this run's samples, but between the stores   *)
(* of reset(); then the counters are on their way to zero.                  *)
ThisRun ==
    \A i \in 0 .. Distance(head, tail) - 1 : slots[Slot(tail + i)][0].run = run

SessionRing ==
    /\ PushRest
    /\ NotAt({"resetTail"}) => RingInv /\ ThisRun
    /\ \A c \in Controllers :
         /\ ctl[c] \in {"resetTail", "spawn"} => head = 0
         /\ ctl[c] = "spawn" => tail = 0 /\ dropped = 0

(* A sample is in the ring or counted as dropped when its cycle counts.     *)
Passed == IF io = "feeding" \/ (io = "pushing" /\ push.at = Idle) THEN 1 ELSE 0

RingCount == NotAt(Resetting) => head + dropped = cycles + Passed

SessionInv ==
    SessionTypeOK /\ CallsOK /\ PushesOK /\ ReadsOK /\ SessionRing /\ BufferInv

-----------------------------------------------------------------------------
(* What the steps of a session do.                                          *)

LEMMA AtFact ==
  ASSUME OneController, ctl \in [Controllers -> CtlType],
         NEW c \in Controllers, NEW here, NEW next, At(c, here, next)
  PROVE  ~dead /\ \A d \in Controllers : ctl[d] = here /\ ctl'[d] = next
  BY DEF OneController, At

(* Each step of the session is one of the LiveBuffer, or leaves it alone.   *)
LEMMA LiveSteps ==
  ASSUME Next \/ UNCHANGED vars
  PROVE  [Live!Next]_Live!vars
<1>1. CASE UNCHANGED liveVars
  BY <1>1 DEF liveVars, Live!vars, Live!writer, Live!reader
<1>2. CASE IoFanOut
  BY <1>2 DEF IoFanOut, Live!Next, Live!Write
<1>3. CASE IoFeed
  BY <1>3 DEF IoFeed, Live!Next, Live!Write
<1>4. CASE ReadLive
  BY <1>4 DEF ReadLive, Live!Next
<1> QED
  BY <1>1, <1>2, <1>3, <1>4 DEF Next, Call, Io, PopSample, vars

(* So the LiveBuffer's invariant is kept.                                   *)
LEMMA LiveStep ==
  ASSUME Live!TypeOK, BufferInv, Next \/ UNCHANGED vars
  PROVE  Live!TypeOK' /\ BufferInv'
  BY LiveSteps, BufferTypeStep, WriterStep, ReaderStep DEF BufferInv

(* Each step is one of the ring, or one of the two stores of reset().       *)
LEMMA RingSteps ==
  ASSUME SessionInv, Next \/ UNCHANGED vars
  PROVE  \/ [StreamNext]_streamVars
         \/ \E c \in Controllers : StartResetHead(c) \/ StartResetTail(c)
<1>1. CASE UNCHANGED streamVars
  BY <1>1
<1>2. CASE IoPushBegin
  <2>1. io = "push"
    BY <1>2 DEF IoPushBegin
  <2>2. run \in 1 .. MaxRuns
    BY <2>1, SessionAssumption DEF SessionInv, CallsOK, SessionTypeOK
  <2>3. reads \in 1 .. MaxReads
    <3>1. NotAt(Resetting)
      BY <2>1 DEF SessionInv, CallsOK, NotAt, Resetting, Starting
    <3>2. reads = cycles + errors + 1
      BY <2>1, <3>1 DEF SessionInv, ReadsOK, InHand
    <3> QED
      BY <3>2, SessionAssumption DEF SessionInv, SessionTypeOK
  <2>4. [run |-> run, n |-> reads] \in Sample
    BY <2>2, <2>3, SessionAssumption
  <2> QED
    BY <1>2, <2>4 DEF IoPushBegin, StreamNext
<1>3. CASE IoPush \/ PopSample
  BY <1>3 DEF IoPush, PopSample, StreamNext
<1> QED
  BY <1>1, <1>2, <1>3 DEF Next, Call, Start, Stop, StartCall, StartClearStop, StartSpawn,
     StopCall, StopTestJoin, StopJoin, StopClearRunning, AttachCall, Attach,
     Io, IoTestStop, IoRead, IoCount, IoFanOut, IoFeed, ReadLive, vars

(* Where the I/O thread is when it pushes.                                  *)
LEMMA PushesWhere ==
  ASSUME PushesOK
  PROVE  /\ Push => io = "pushing"
         /\ IoFeed => io = "feeding"
         /\ IoCount => io \in {"pushing", "feeding"}
<1>1. Push => io = "pushing"
  BY DEF PushesOK, Push, PushDrop, PushWrite, PushPublish, Idle
<1>2. IoFeed => io = "feeding"
  BY DEF IoFeed, Live!PushField, Live!PushPublish, Live!FieldsWritten, PushesOK
<1> QED
  BY <1>1, <1>2 DEF IoCount

LEMMA IoSteps ==
  ASSUME Io
  PROVE  IoUnchanged
  BY DEF Io, IoTestStop, IoRead, IoPushBegin, IoPush, IoFanOut, IoFeed, IoCount

-----------------------------------------------------------------------------
(* The calls, the I/O thread and the counters.                              *)

LEMMA SessionTypes ==
  ASSUME OneController, SessionInv, Next \/ UNCHANGED vars
  PROVE  SessionTypeOK'
<1>1. /\ ctl \in [Controllers -> CtlType] /\ io \in IoType
      /\ running \in BOOLEAN /\ stopping \in BOOLEAN /\ handle \in BOOLEAN /\ dead \in BOOLEAN
      /\ reads \in 0 .. MaxReads /\ cycles \in 0 .. MaxReads /\ errors \in 0 .. MaxReads
      /\ run \in 0 .. MaxRuns /\ attached \in 0 .. MaxBuffers
      /\ StreamTypeOK /\ Live!TypeOK /\ BufferInv
  BY DEF SessionInv, SessionTypeOK
<1>2. MaxRuns \in Nat /\ MaxReads \in Nat /\ MaxBuffers \in Nat
  BY SessionAssumption
<1>3. Live!TypeOK'
  BY <1>1, LiveStep
<1>4. StreamTypeOK'
  <2>1. 0 \in 0 .. Modulus - 1
    BY SizeFact DEF Size
  <2>2. ASSUME NEW c \in Controllers, StartResetHead(c) \/ StartResetTail(c)
        PROVE  StreamTypeOK'
    BY <1>1, <2>1, <2>2 DEF StartResetHead, StartResetTail, ResetTail, StreamTypeOK
  <2> QED
    BY <1>1, <2>2, RingSteps, TypeStep
<1> DEFINE Rest == /\ ctl' \in [Controllers -> CtlType] /\ io' \in IoType
                   /\ running' \in BOOLEAN /\ stopping' \in BOOLEAN
                   /\ handle' \in BOOLEAN /\ dead' \in BOOLEAN
                   /\ reads' \in 0 .. MaxReads
                   /\ cycles' \in 0 .. MaxReads /\ errors' \in 0 .. MaxReads
                   /\ run' \in 0 .. MaxRuns /\ attached' \in 0 .. MaxBuffers
<1>5. ASSUME NEW c \in Controllers, Start(c)
      PROVE  Rest
  <2>1. ctl[c] \in Starting => run < MaxRuns
    BY DEF SessionInv, CallsOK
  <2>2. ctl[c] = "spawn" => run + 1 \in 0 .. MaxRuns
    BY <1>1, <1>2, <2>1 DEF Starting, Resetting
  <2>3. CASE StartSpawn(c)
    <3>1. 0 \in 0 .. MaxReads
      BY <1>2
    <3> QED
      BY <1>1, <2>2, <2>3, <3>1 DEF StartSpawn, At, CtlType, Idle, IoType
  <2>4. CASE StartCall(c) \/ StartClearStop(c) \/ StartResetHead(c) \/ StartResetTail(c)
    <3>1. 0 \in 0 .. MaxReads
      BY <1>2
    <3> QED
      BY <1>1, <2>4, <3>1 DEF StartCall, StartClearStop, StartResetHead, StartResetTail, At,
         CtlType, Idle, ClearedCycles, sessionVars
  <2> QED
    BY <1>5, <2>3, <2>4 DEF Start
<1>6. ASSUME NEW c \in Controllers, Stop(c)
      PROVE  Rest
  BY <1>1, <1>6 DEF Stop, StopCall, StopTestJoin, StopJoin, StopClearRunning, At, CtlType, Idle,
     sessionVars, IoType
<1>7. ASSUME NEW c \in Controllers, AttachCall(c) \/ Attach(c)
      PROVE  Rest
  <2>1. ctl[c] = "attach" => attached < MaxBuffers
    BY DEF SessionInv, CallsOK
  <2>2. ctl[c] = "attach" => attached + 1 \in 0 .. MaxBuffers
    BY <1>1, <1>2, <2>1
  <2> QED
    BY <1>1, <1>7, <2>2 DEF AttachCall, Attach, At, CtlType, Idle, sessionVars
<1>8. ASSUME Io
      PROVE  Rest
  <2>1. io = "read" => reads < MaxReads
    BY DEF SessionInv, PushesOK
  <2>2. io # "none" => reads = cycles + errors + InHand
    BY DEF SessionInv, CallsOK, ReadsOK, NotAt, Starting
  <2>3. CASE IoTestStop
    BY <1>1, <2>3 DEF IoTestStop, IoUnchanged, IoType
  <2>4. CASE IoRead
    <3>1. reads' = reads + 1 /\ io = "read" /\ errors' \in {errors, errors + 1} /\ InHand = 0
          /\ io' \in {"push", "loop"} /\ cycles' = cycles
      BY <2>4 DEF IoRead, InHand
    <3>2. reads' \in 0 .. MaxReads /\ errors' \in 0 .. MaxReads
      BY <1>1, <1>2, <2>1, <2>2, <3>1
    <3> QED
      BY <1>1, <2>4, <3>1, <3>2 DEF IoRead, IoUnchanged, IoType
  <2>5. CASE IoPushBegin \/ IoPush \/ IoFanOut \/ IoFeed
    BY <1>1, <2>5 DEF IoPushBegin, IoPush, IoFanOut, IoFeed, IoUnchanged, IoType
  <2>6. CASE IoCount
    <3>1. InHand = 1 /\ cycles' = cycles + 1 /\ io' = "loop"
      <4>1. io = "pushing" \/ io = "feeding"
        BY <2>6, PushesWhere DEF IoCount, SessionInv
      <4> QED
        BY <2>6, <4>1 DEF IoCount, InHand
    <3>2. cycles' \in 0 .. MaxReads
      <4>1. io # "none"
        BY <3>1 DEF InHand
      <4> QED
        BY <1>1, <1>2, <2>2, <3>1, <4>1
    <3> QED
      BY <1>1, <2>6, <3>1, <3>2 DEF IoCount, IoUnchanged, IoType
  <2> QED
    BY <1>8, <2>3, <2>4, <2>5, <2>6 DEF Io
<1>9. ASSUME PopSample \/ ReadLive \/ UNCHANGED vars
      PROVE  Rest
  BY <1>1, <1>9 DEF PopSample, ReadLive, vars, sessionVars
<1>10. Rest
  BY <1>5, <1>6, <1>7, <1>8, <1>9 DEF Next, Call
<1> QED
  BY <1>3, <1>4, <1>10 DEF SessionTypeOK

LEMMA CallsStep ==
  ASSUME OneController, SessionInv, Next \/ UNCHANGED vars
  PROVE  CallsOK'
<1>1. /\ ctl \in [Controllers -> CtlType] /\ run \in Nat /\ MaxRuns \in Nat /\ handle \in BOOLEAN
      /\ running \in BOOLEAN
  BY SessionAssumption DEF SessionInv, SessionTypeOK
<1>2. CallsOK
  BY DEF SessionInv
<1>3. ASSUME NEW c \in Controllers, NEW here, NEW next, At(c, here, next)
      PROVE  /\ ~dead /\ ctl[c] = here
             /\ \A d \in Controllers : ctl[d] = here /\ ctl'[d] = next
  BY <1>1, <1>3, AtFact
<1>4. ASSUME NEW c \in Controllers, Start(c)
      PROVE  CallsOK'
  <2>1. CASE StartCall(c)
    <3>1. \A d \in Controllers : ctl[d] = Idle /\ ctl'[d] = "clearStop"
      BY <1>3, <2>1 DEF StartCall
    <3> QED
      BY <1>2, <2>1, <3>1 DEF StartCall, MayCall, CallsOK, Starting, Resetting, streamVars, Idle
  <2>2. CASE StartClearStop(c)
    <3>1. \A d \in Controllers : ctl[d] = "clearStop" /\ ctl'[d] = "resetHead"
      BY <1>3, <2>2 DEF StartClearStop
    <3> QED
      BY <1>2, <2>2, <3>1 DEF StartClearStop, CallsOK, Starting, Resetting, streamVars, Idle
  <2>3. CASE StartResetHead(c)
    <3>1. \A d \in Controllers : ctl[d] = "resetHead" /\ ctl'[d] = "resetTail"
      BY <1>3, <2>3 DEF StartResetHead
    <3> QED
      BY <1>2, <2>3, <3>1 DEF StartResetHead, CallsOK, Starting, Resetting, sessionVars, Idle
  <2>4. CASE StartResetTail(c)
    <3>1. \A d \in Controllers : ctl[d] = "resetTail" /\ ctl'[d] = "spawn"
      BY <1>3, <2>4 DEF StartResetTail
    <3> QED
      BY <1>2, <2>4, <3>1 DEF StartResetTail, CallsOK, Starting, Resetting, sessionVars, Idle
  <2>5. CASE StartSpawn(c)
    <3>1. \A d \in Controllers : ctl[d] = "spawn" /\ ctl'[d] = Idle
      BY <1>3, <2>5 DEF StartSpawn
    <3>2. running /\ ~handle
      BY <1>2, <3>1 DEF CallsOK, Starting, Resetting
    <3>3. ~dead' /\ running' /\ handle' /\ io' = "loop" /\ run' = run + 1
      BY <1>2, <2>5, <3>2 DEF StartSpawn, CallsOK
    <3> QED
      BY <1>1, <3>1, <3>3 DEF CallsOK, Starting, Resetting, Idle
  <2> QED
    BY <1>4, <2>1, <2>2, <2>3, <2>4, <2>5 DEF Start
<1>5. ASSUME NEW c \in Controllers, Stop(c)
      PROVE  CallsOK'
  <2>1. CASE StopCall(c)
    <3>1. \A d \in Controllers : ctl[d] = Idle /\ ctl'[d] = "testJoin"
      BY <1>3, <2>1 DEF StopCall
    <3> QED
      BY <1>2, <2>1, <3>1 DEF StopCall, MayCall, CallsOK, Starting, Resetting, streamVars, Idle
  <2>2. CASE StopTestJoin(c)
    <3>1. \A d \in Controllers : /\ ctl[d] = "testJoin"
                                 /\ ctl'[d] = IF handle THEN "join" ELSE "clearRunning"
      BY <1>3, <2>2 DEF StopTestJoin, Joinable
    <3> QED
      BY <1>2, <2>2, <3>1 DEF StopTestJoin, CallsOK, Starting, Resetting, streamVars,
         sessionVars, Idle
  <2>3. CASE StopJoin(c)
    <3>1. \A d \in Controllers : ctl[d] = "join" /\ ctl'[d] = "clearRunning"
      BY <1>3, <2>3 DEF StopJoin
    <3>2. handle /\ ~dead
      BY <1>2, <3>1 DEF CallsOK
    <3> QED
      BY <1>2, <2>3, <3>1, <3>2 DEF StopJoin, CallsOK, Starting, Resetting, streamVars, Idle
  <2>4. CASE StopClearRunning(c)
    <3>1. \A d \in Controllers : ctl[d] = "clearRunning" /\ ctl'[d] = Idle
      BY <1>3, <2>4 DEF StopClearRunning
    <3> QED
      BY <1>2, <2>4, <3>1 DEF StopClearRunning, CallsOK, Starting, Resetting, streamVars, Idle
  <2> QED
    BY <1>5, <2>1, <2>2, <2>3, <2>4 DEF Stop
<1>6. ASSUME NEW c \in Controllers, AttachCall(c) \/ Attach(c)
      PROVE  CallsOK'
  <2>1. CASE AttachCall(c)
    <3>1. \A d \in Controllers : ctl[d] = Idle /\ ctl'[d] = "attach"
      BY <1>3, <2>1 DEF AttachCall
    <3> QED
      BY <1>2, <2>1, <3>1 DEF AttachCall, MayCall, MayAttach, CallsOK, Starting, Resetting,
         streamVars, sessionVars, Idle
  <2>2. CASE Attach(c)
    <3>1. \A d \in Controllers : ctl[d] = "attach" /\ ctl'[d] = Idle
      BY <1>3, <2>2 DEF Attach
    <3> QED
      BY <1>2, <2>2, <3>1 DEF Attach, CallsOK, Starting, Resetting, streamVars, Idle
  <2> QED
    BY <1>6, <2>1, <2>2
<1>7. CASE Io
  <2>1. IoUnchanged /\ io # "none" /\ io' # "none" /\ pop' = pop
    <3>1. CASE IoPush \/ IoFeed
      <4>1. io = "pushing" \/ io = "feeding"
        BY <3>1, PushesWhere DEF IoPush, IoFeed, SessionInv
      <4> QED
        BY <3>1, <4>1 DEF IoPush, Push, PushDrop, PushWrite, PushPublish, IoFeed, streamVars
    <3>2. CASE IoTestStop \/ IoRead \/ IoPushBegin \/ IoFanOut \/ IoCount
      BY <3>2 DEF IoTestStop, IoRead, IoPushBegin, PushBegin, IoFanOut, IoCount, streamVars
    <3> QED
      BY <1>7, <3>1, <3>2, IoSteps DEF Io
  <2> QED
    BY <1>2, <2>1 DEF IoUnchanged, CallsOK
<1>8. CASE PopSample
  <2>1. UNCHANGED <<ctl, sessionVars>> /\ (pop.at = Idle => NoCall)
    BY <1>8 DEF PopSample, MayPop, NoCall
  <2>2. NoCall
    BY <1>2, <2>1 DEF CallsOK, NoCall
  <2> QED
    BY <1>2, <2>1, <2>2 DEF CallsOK, NoCall, sessionVars
<1>9. CASE ReadLive \/ UNCHANGED vars
  BY <1>2, <1>9 DEF ReadLive, vars, streamVars, sessionVars, CallsOK
<1> QED
  BY <1>4, <1>5, <1>6, <1>7, <1>8, <1>9 DEF Next, Call

LEMMA PushesStep ==
  ASSUME OneController, SessionInv, Next \/ UNCHANGED vars
  PROVE  PushesOK'
<1>1. PushesOK /\ CallsOK
  BY DEF SessionInv
<1>2. /\ ctl \in [Controllers -> CtlType] /\ reads \in Nat /\ MaxReads \in Nat
      /\ push \in PushType
  BY SessionAssumption DEF SessionInv, SessionTypeOK, StreamTypeOK
<1>3. ASSUME NEW c \in Controllers, Call(c)
      PROVE  PushesOK'
  <2>1. UNCHANGED <<push, writing>>
    BY <1>3 DEF Call, liveVars, Start, StartCall, StartClearStop, StartResetHead, StartResetTail,
       StartSpawn, Stop, StopCall, StopTestJoin, StopJoin, StopClearRunning, AttachCall, Attach,
       streamVars
  <2>2. CASE StartSpawn(c)
    <3>1. io = "none"
      BY <1>1, <2>2 DEF CallsOK, StartSpawn, At, Starting, Resetting
    <3>2. push.at = Idle /\ writing = {} /\ io' # "read"
      BY <1>1, <2>2, <3>1 DEF PushesOK, StartSpawn
    <3> QED
      BY <2>1, <3>2 DEF PushesOK, Idle
  <2>3. CASE StopJoin(c)
    <3>1. io = "ended"
      BY <1>1, <2>3 DEF CallsOK, StopJoin, At
    <3>2. push.at = Idle /\ writing = {} /\ io' # "read"
      BY <1>1, <2>3, <3>1 DEF PushesOK, StopJoin
    <3> QED
      BY <2>1, <3>2 DEF PushesOK, Idle
  <2>4. CASE ~StartSpawn(c) /\ ~StopJoin(c)
    <3>1. UNCHANGED <<io, reads, run>>
      BY <1>3, <2>4 DEF Call, Start, StartCall, StartClearStop, StartResetHead, StartResetTail,
         Stop, StopCall, StopTestJoin, StopClearRunning, AttachCall, Attach, sessionVars
    <3> QED
      BY <1>1, <2>1, <3>1 DEF PushesOK
  <2> QED
    BY <2>2, <2>3, <2>4
<1>4. CASE Io
  <2>0. IoUnchanged
    BY <1>4, IoSteps
  <2>1. CASE IoTestStop
    BY <1>1, <1>4, <2>0, <2>1 DEF IoTestStop, IoUnchanged, streamVars, liveVars, Io, IoFanOut,
       IoFeed, PushesOK, Idle, Live!PushField, Live!PushPublish, Live!FieldsWritten
  <2>2. CASE IoRead /\ UNCHANGED liveVars
    BY <1>1, <1>2, <2>0, <2>2 DEF IoRead, IoUnchanged, streamVars, liveVars, PushesOK, Idle
  <2>3. CASE IoPushBegin /\ UNCHANGED liveVars
    BY <1>1, <1>2, <2>0, <2>3 DEF IoPushBegin, PushBegin, IoUnchanged, liveVars, PushesOK, Idle,
       NoPush, PushType
  <2>4. CASE IoPush /\ UNCHANGED liveVars
    <3>1. io = "pushing" /\ UNCHANGED <<io, reads, run, writing>>
      BY <1>1, <2>0, <2>4, PushesWhere DEF IoPush, IoUnchanged, liveVars
    <3>2. push'.at = "write" => push.at = "write" /\ push'.item = push.item
      BY <1>2, <2>4 DEF IoPush, Push, PushDrop, PushWrite, PushPublish, NoPush, Idle, PushType
    <3> QED
      BY <1>1, <3>1, <3>2 DEF PushesOK
  <2>5. CASE IoCount /\ UNCHANGED liveVars
    BY <1>1, <2>0, <2>5 DEF IoCount, IoUnchanged, streamVars, liveVars, PushesOK, Idle
  <2>6. CASE IoFanOut
    BY <1>1, <2>0, <2>6 DEF IoFanOut, IoUnchanged, streamVars, PushesOK, Idle
  <2>7. CASE IoFeed
    BY <1>1, <2>0, <2>7, PushesWhere DEF IoFeed, IoUnchanged, streamVars, PushesOK, Idle
  <2> QED
    BY <1>4, <2>1, <2>2, <2>3, <2>4, <2>5, <2>6, <2>7 DEF Io
<1>5. CASE PopSample
  BY <1>1, <1>5 DEF PopSample, Pop, PopBegin, PopRead, PopPublish, sessionVars, liveVars, PushesOK
<1>6. CASE ReadLive \/ UNCHANGED vars
  BY <1>1, <1>6 DEF ReadLive, Live!Read, Live!ReadBegin, Live!ReadField, Live!ReadEnd,
     Live!writer, vars, liveVars, sessionVars, streamVars, PushesOK
<1> QED
  BY <1>3, <1>4, <1>5, <1>6 DEF Next

(* While there is an I/O thread no start is under way.                      *)
LEMMA NoStart ==
  ASSUME CallsOK, io # "none"
  PROVE  NotAt(Starting) /\ NotAt(Resetting)
  BY DEF CallsOK, NotAt, Starting

LEMMA ReadsStep ==
  ASSUME OneController, SessionInv, Next \/ UNCHANGED vars
  PROVE  ReadsOK'
<1>1. ReadsOK /\ CallsOK /\ PushesOK
  BY DEF SessionInv
<1>2. /\ ctl \in [Controllers -> CtlType] /\ reads \in Nat /\ cycles \in Nat /\ errors \in Nat
  BY SessionAssumption DEF SessionInv, SessionTypeOK
<1>3. ASSUME NEW c \in Controllers, NEW here, NEW next, At(c, here, next)
      PROVE  \A d \in Controllers : ctl[d] = here /\ ctl'[d] = next
  BY <1>2, <1>3, AtFact
<1>4. ASSUME NEW c \in Controllers, Start(c)
      PROVE  ReadsOK'
  <2>1. CASE StartCall(c)
    <3>1. \A d \in Controllers : ctl[d] = Idle /\ ctl'[d] = "clearStop"
      BY <1>3, <2>1 DEF StartCall
    <3> QED
      BY <1>1, <2>1, <3>1 DEF StartCall, ReadsOK, NotAt, Resetting, Idle, InHand
  <2>2. CASE StartClearStop(c)
    <3>1. \A d \in Controllers : ctl'[d] = "resetHead"
      BY <1>3, <2>2 DEF StartClearStop
    <3> QED
      BY <2>2, <3>1 DEF StartClearStop, ClearedCycles, ReadsOK, NotAt, Resetting
  <2>3. CASE StartResetHead(c)
    <3>1. \A d \in Controllers : ctl[d] = "resetHead" /\ ctl'[d] = "resetTail"
      BY <1>3, <2>3 DEF StartResetHead
    <3> QED
      BY <1>1, <2>3, <3>1 DEF StartResetHead, sessionVars, ReadsOK, NotAt, Resetting
  <2>4. CASE StartResetTail(c)
    <3>1. \A d \in Controllers : ctl[d] = "resetTail" /\ ctl'[d] = "spawn"
      BY <1>3, <2>4 DEF StartResetTail
    <3> QED
      BY <1>1, <2>4, <3>1 DEF StartResetTail, sessionVars, ReadsOK, NotAt, Resetting
  <2>5. CASE StartSpawn(c)
    <3>1. \A d \in Controllers : ctl[d] = "spawn" /\ ctl'[d] = Idle
      BY <1>3, <2>5 DEF StartSpawn
    <3>2. ~handle /\ cycles = 0 /\ errors = 0
      BY <1>1, <3>1 DEF CallsOK, ReadsOK, NotAt, Starting, Resetting
    <3>3. io' = "loop" /\ reads' = 0 /\ cycles' = 0 /\ errors' = 0
      BY <2>5, <3>2 DEF StartSpawn
    <3> QED
      BY <3>1, <3>3 DEF ReadsOK, NotAt, Resetting, Idle, InHand
  <2> QED
    BY <1>4, <2>1, <2>2, <2>3, <2>4, <2>5 DEF Start
<1>5. ASSUME NEW c \in Controllers, Stop(c) \/ AttachCall(c) \/ Attach(c)
      PROVE  ReadsOK'
  <2>1. UNCHANGED <<reads, cycles, errors>>
    BY <1>5 DEF Stop, StopCall, StopTestJoin, StopJoin, StopClearRunning, AttachCall, Attach,
       sessionVars
  <2>2. NotAt(Resetting) /\ NotAt(Resetting)'
    <3>1. \E here, next \in {Idle, "testJoin", "join", "clearRunning", "attach"} : At(c, here, next)
      BY <1>5 DEF Stop, StopCall, StopTestJoin, StopJoin, StopClearRunning, AttachCall, Attach
    <3> QED
      BY <1>3, <3>1 DEF NotAt, Resetting, Idle
  <2>3. InHand' = InHand
    <3>1. CASE StopJoin(c)
      BY <1>1, <3>1 DEF StopJoin, InHand, CallsOK, At
    <3>2. CASE ~StopJoin(c)
      BY <1>5, <3>2 DEF Stop, StopCall, StopTestJoin, StopClearRunning, AttachCall, Attach,
         sessionVars, InHand
    <3> QED
      BY <3>1, <3>2
  <2> QED
    BY <1>1, <2>1, <2>2, <2>3 DEF ReadsOK
<1>6. CASE Io
  <2>1. io # "none" /\ ctl' = ctl
    BY <1>1, <1>6, IoSteps, PushesWhere DEF Io, IoUnchanged, IoTestStop, IoRead, IoPushBegin, IoPush,
       IoFanOut, IoFeed, IoCount
  <2>2. NotAt(Resetting) /\ NotAt(Resetting)'
    BY <1>1, <2>1, NoStart DEF NotAt
  <2>3. reads = cycles + errors + InHand
    BY <1>1, <2>2 DEF ReadsOK
  <2>4. reads' = cycles' + errors' + InHand'
    <3>1. CASE IoTestStop \/ IoFanOut \/ IoPushBegin
      <4>1. UNCHANGED <<reads, cycles, errors>> /\ InHand' = InHand
        BY <3>1 DEF IoTestStop, IoFanOut, IoPushBegin, InHand
      <4> QED
        BY <2>3, <4>1
    <3>2. CASE IoPush \/ IoFeed
      BY <2>3, <3>2 DEF IoPush, IoFeed, InHand
    <3>3. CASE IoRead
      <4>1. /\ reads' = reads + 1 /\ cycles' = cycles /\ InHand = 0
            /\ \/ InHand' = 1 /\ errors' = errors
               \/ InHand' = 0 /\ errors' = errors + 1
        BY <3>3 DEF IoRead, InHand
      <4> QED
        BY <1>2, <2>3, <4>1
    <3>4. CASE IoCount
      <4>1. /\ reads' = reads /\ cycles' = cycles + 1 /\ errors' = errors
            /\ InHand = 1 /\ InHand' = 0
        BY <3>4 DEF IoCount, InHand
      <4> QED
        BY <1>2, <2>3, <4>1
    <3> QED
      BY <1>6, <3>1, <3>2, <3>3, <3>4 DEF Io
  <2> QED
    BY <2>2, <2>4 DEF ReadsOK
<1>7. CASE PopSample \/ ReadLive \/ UNCHANGED vars
  BY <1>1, <1>7 DEF PopSample, ReadLive, vars, sessionVars, ReadsOK, NotAt, InHand
<1> QED
  BY <1>4, <1>5, <1>6, <1>7 DEF Next, Call

-----------------------------------------------------------------------------
(* The ring over the runs of a session.                                     *)

(* The samples waiting in the ring stay those of this run: the one pushed   *)
(* is behind them, the one popped is gone.                                  *)
LEMMA ThisRunStep ==
  ASSUME StreamTypeOK, RingInv, ThisRun, [StreamNext]_streamVars, run' = run,
         push.at = "write" => push.item.run = run
  PROVE  ThisRun'
<1>1. /\ head \in Counter /\ tail \in Counter /\ Distance(head, tail) \in Nat
      /\ slots \in [0 .. Capacity - 1 -> SlotType]
      /\ Distance(head, tail) \in Counter
  <2>1. head \in Counter /\ tail \in Counter /\ slots \in [0 .. Capacity - 1 -> SlotType]
    BY DEF StreamTypeOK, Counter
  <2>2. Distance(head, tail) \in Counter
    BY <2>1, DistanceSlot
  <2> QED
    BY <2>1, <2>2, SizeFact DEF Counter, Size
<1>2. CASE UNCHANGED <<head, tail, slots>>
  BY <1>2 DEF ThisRun
<1>3. CASE PushWrite
  <2>1. /\ push.at = "write" /\ push.field \in Field /\ UNCHANGED <<head, tail>>
        /\ slots' = [slots EXCEPT ![Slot(push.index)][push.field] = push.item]
    BY <1>3 DEF PushWrite
  <2>2. push.index = head /\ Distance(head, tail) < Capacity
    BY <2>1 DEF RingInv, PushPlace
  <2>3. ASSUME NEW i \in 0 .. Distance(head, tail) - 1
        PROVE  slots'[Slot(tail + i)][0].run = run
    <3>1. Slot(tail + i) # Slot(head) /\ tail + i \in Int
      BY <1>1, <2>2, Separate DEF Counter
    <3>2. slots'[Slot(tail + i)] = slots[Slot(tail + i)]
      BY <1>1, <2>1, <2>2, <3>1, SlotFact
    <3> QED
      BY <3>2 DEF ThisRun
  <2> QED
    BY <2>1, <2>3 DEF ThisRun
<1>4. CASE PushPublish
  <2>1. /\ push.at = "write" /\ push.field = Pids + 1 /\ head' = After(push.index)
        /\ UNCHANGED <<tail, slots>>
    BY <1>4 DEF PushPublish
  <2>2. /\ push.index = head /\ Distance(head, tail) < Capacity
        /\ \A f \in Field : f < push.field => slots[Slot(head)][f] = push.item
    BY <2>1 DEF RingInv, PushPlace
  <2>3. Distance(head', tail') = Distance(head, tail) + 1
    BY <1>1, <2>1, <2>2, Pushed
  <2>4. slots[Slot(head)][0].run = run
    <3>1. 0 \in Field /\ 0 < Pids + 1
      BY StreamAssumption DEF Field
    <3> QED
      BY <2>1, <2>2, <3>1
  <2>5. Slot(tail + Distance(head, tail)) = Slot(head)
    BY <1>1, DistanceSlot
  <2>6. ASSUME NEW i \in 0 .. Distance(head, tail)
        PROVE  slots[Slot(tail + i)][0].run = run
    <3>1. CASE i = Distance(head, tail)
      BY <2>4, <2>5, <3>1
    <3>2. CASE i \in 0 .. Distance(head, tail) - 1
      BY <3>2 DEF ThisRun
    <3> QED
      BY <1>1, <3>1, <3>2
  <2> QED
    BY <1>1, <2>1, <2>3, <2>6 DEF ThisRun
<1>5. CASE PopPublish
  <2>1. /\ pop.at = "read" /\ tail' = After(pop.index) /\ UNCHANGED <<head, slots>>
    BY <1>5 DEF PopPublish
  <2>2. pop.index = tail /\ head # tail
    BY <2>1 DEF RingInv, PopPlace
  <2>3. Distance(head', tail') = Distance(head, tail) - 1
    BY <1>1, <2>1, <2>2, Popped
  <2>4. ASSUME NEW i \in 0 .. Distance(head, tail) - 2
        PROVE  slots'[Slot(tail' + i)][0].run = run
    <3>1. i \in Counter /\ i + 1 \in 0 .. Distance(head, tail) - 1
      BY <1>1, SizeFact DEF Counter, Size
    <3>2. Slot(tail' + i) = Slot(tail + (i + 1))
      BY <1>1, <2>1, <2>2, <3>1, PoppedSlot
    <3> QED
      BY <2>1, <3>1, <3>2 DEF ThisRun
  <2> QED
    BY <1>1, <2>3, <2>4 DEF ThisRun
<1> QED
  BY <1>2, <1>3, <1>4, <1>5 DEF StreamNext, Push, Pop, PushBegin, PushDrop, PopBegin, PopRead,
     streamVars

LEMMA EmptyRing ==
  ASSUME head = 0, tail = 0
  PROVE  Distance(head, tail) = 0
  BY DEF Distance

LEMMA RingKept ==
  ASSUME OneController, SessionInv, Next \/ UNCHANGED vars
  PROVE  SessionRing'
<1>1. SessionRing /\ CallsOK /\ PushesOK /\ StreamTypeOK
  BY DEF SessionInv, SessionTypeOK
<1>2. ctl \in [Controllers -> CtlType] /\ Capacity \in Nat
  BY StreamAssumption DEF SessionInv, SessionTypeOK
<1>3. ASSUME NEW c \in Controllers, NEW here, NEW next, At(c, here, next)
      PROVE  \A d \in Controllers : ctl[d] = here /\ ctl'[d] = next
  BY <1>2, <1>3, AtFact
<1>4. ASSUME NEW c \in Controllers, StartResetHead(c)
      PROVE  SessionRing'
  <2>1. \A d \in Controllers : ctl[d] = "resetHead" /\ ctl'[d] = "resetTail"
    BY <1>3, <1>4 DEF StartResetHead
  <2>2. head' = 0 /\ UNCHANGED push
    BY <1>4 DEF StartResetHead
  <2> QED
    BY <1>1, <2>1, <2>2 DEF SessionRing, PushRest, NotAt
<1>5. ASSUME NEW c \in Controllers, StartResetTail(c)
      PROVE  SessionRing'
  <2>1. \A d \in Controllers : ctl[d] = "resetTail" /\ ctl'[d] = "spawn"
    BY <1>3, <1>5 DEF StartResetTail
  <2>2. head' = 0 /\ tail' = 0 /\ dropped' = 0 /\ UNCHANGED <<push, pop>>
    BY <1>1, <1>5, <2>1 DEF StartResetTail, ResetTail, SessionRing
  <2>3. push.at = Idle /\ pop.at = Idle
    BY <1>1, <2>1 DEF CallsOK, PushesOK, Starting, Resetting, Idle
  <2>4. Distance(head', tail') = 0
    BY <2>2 DEF Distance
  <2>5. PushRest' /\ PushPlace' /\ PopPlace' /\ Whole' /\ Fits' /\ ThisRun'
    BY <1>1, <1>2, <2>2, <2>3, <2>4 DEF SessionRing, PushRest, PushPlace, PopPlace, Whole, Fits,
       ThisRun, Idle
  <2> QED
    BY <2>1, <2>2, <2>5 DEF SessionRing, RingInv
<1>6. ASSUME NEW c \in Controllers, StartSpawn(c)
      PROVE  SessionRing'
  <2>1. \A d \in Controllers : ctl[d] = "spawn" /\ ctl'[d] = Idle
    BY <1>3, <1>6 DEF StartSpawn
  <2>2. head = 0 /\ tail = 0 /\ RingInv /\ PushRest
    BY <1>1, <2>1 DEF SessionRing, NotAt
  <2>3. UNCHANGED streamVars
    BY <1>6 DEF StartSpawn
  <2>4. Distance(head', tail') = 0
    BY <2>2, <2>3 DEF Distance, streamVars
  <2>5. ThisRun'
    BY <2>4 DEF ThisRun
  <2>6. RingInv' /\ PushRest'
    BY <2>2, <2>3 DEF streamVars, RingInv, PushRest, PushPlace, PopPlace, Whole, Fits
  <2> QED
    BY <2>1, <2>5, <2>6 DEF SessionRing, Idle
<1>7. ASSUME UNCHANGED <<streamVars, run>>, NotAt({"resetTail"}) <=> NotAt({"resetTail"})',
             \A d \in Controllers : ctl'[d] \in {"resetTail", "spawn"} => ctl[d] = ctl'[d]
      PROVE  SessionRing'
  <2>1. RingInv' = RingInv /\ PushRest' = PushRest /\ ThisRun' = ThisRun
    BY <1>7 DEF streamVars, RingInv, PushRest, PushPlace, PopPlace, Whole, Fits, ThisRun
  <2> QED
    BY <1>1, <1>7, <2>1 DEF SessionRing, streamVars
<1>8. ASSUME NEW c \in Controllers,
             \/ StartCall(c) \/ StartClearStop(c) \/ Stop(c) \/ AttachCall(c) \/ Attach(c)
      PROVE  SessionRing'
  <2>1. UNCHANGED <<streamVars, run>>
    BY <1>8 DEF StartCall, StartClearStop, Stop, StopCall, StopTestJoin, StopJoin,
       StopClearRunning, AttachCall, Attach, sessionVars
  <2>2. \E here, next \in CtlType \ {"resetTail", "spawn"} : At(c, here, next)
    BY <1>8 DEF StartCall, StartClearStop, Stop, StopCall, StopTestJoin, StopJoin,
       StopClearRunning, AttachCall, Attach, CtlType, Idle
  <2>3. \A d \in Controllers : ctl[d] \notin {"resetTail", "spawn"}
                               /\ ctl'[d] \notin {"resetTail", "spawn"}
    BY <1>3, <2>2
  <2> QED
    BY <1>7, <2>1, <2>3 DEF NotAt
<1>9. ASSUME Io \/ PopSample \/ ReadLive \/ UNCHANGED vars
      PROVE  SessionRing'
  <2>1. UNCHANGED <<ctl, run>>
    BY <1>9, IoSteps DEF IoUnchanged, PopSample, ReadLive, vars, sessionVars
  <2>2. CASE UNCHANGED streamVars
    BY <1>7, <2>1, <2>2 DEF NotAt
  <2>3. CASE ~UNCHANGED streamVars
    <3>1. IoPushBegin \/ IoPush \/ PopSample
      BY <1>9, <2>3 DEF Io, IoTestStop, IoRead, IoFanOut, IoFeed, IoCount, ReadLive, vars
    <3>2. NotAt(Starting)
      <4>1. CASE PopSample
        BY <1>1, <4>1 DEF PopSample, MayPop, CallsOK, NotAt, Starting, Resetting, Idle
      <4>2. CASE IoPushBegin \/ IoPush
        <5>1. io # "none"
          BY <1>1, <4>2, PushesWhere DEF IoPushBegin, IoPush
        <5> QED
          BY <1>1, <5>1, NoStart
      <4> QED
        BY <3>1, <4>1, <4>2
    <3>3. RingInv /\ ThisRun /\ NotAt({"resetTail"}) /\ NotAt({"resetTail"})'
      BY <1>1, <2>1, <3>2 DEF SessionRing, NotAt, Starting, Resetting
    <3>4. [StreamNext]_streamVars
      <4>1. ~(\E c \in Controllers : StartResetHead(c) \/ StartResetTail(c))
        BY <3>2 DEF NotAt, Starting, Resetting, StartResetHead, StartResetTail, At
      <4> QED
        BY <1>9, <4>1, RingSteps DEF Next
    <3>5. push.at = "write" => push.item.run = run
      BY <1>1 DEF PushesOK
    <3>6. RingInv' /\ ThisRun'
      BY <1>1, <2>1, <3>3, <3>4, <3>5, RingStep, ThisRunStep
    <3> QED
      BY <2>1, <3>2, <3>3, <3>6 DEF SessionRing, NotAt, Starting, Resetting, RingInv
  <2> QED
    BY <2>2, <2>3
<1> QED
  BY <1>4, <1>5, <1>6, <1>8, <1>9 DEF Next, Call, Start

(* The pushes and drops of a run are counted without wrapping.              *)
LEMMA CountStep ==
  ASSUME WideCounters, OneController, SessionInv, RingCount, Next \/ UNCHANGED vars
  PROVE  RingCount'
<1>1. SessionRing /\ CallsOK /\ PushesOK /\ ReadsOK /\ StreamTypeOK
  BY DEF SessionInv, SessionTypeOK
<1>2. /\ ctl \in [Controllers -> CtlType] /\ cycles \in Nat /\ errors \in Nat
      /\ reads \in 0 .. MaxReads /\ head \in Counter /\ dropped \in Counter
      /\ Modulus \in Nat /\ MaxReads \in Nat /\ MaxReads < Modulus
  BY SizeFact, SessionAssumption
     DEF Size, SessionInv, SessionTypeOK, StreamTypeOK, Counter, WideCounters
<1>3. ASSUME NEW c \in Controllers, NEW here, NEW next, At(c, here, next)
      PROVE  \A d \in Controllers : ctl[d] = here /\ ctl'[d] = next
  BY <1>2, <1>3, AtFact
<1>4. ASSUME NEW c \in Controllers,
             StartClearStop(c) \/ StartResetHead(c) \/ StartResetTail(c)
      PROVE  RingCount'
  <2>1. \A d \in Controllers : ctl'[d] \in Resetting
    BY <1>3, <1>4 DEF StartClearStop, StartResetHead, StartResetTail, Resetting
  <2> QED
    BY <2>1 DEF RingCount, NotAt
<1>5. ASSUME NEW c \in Controllers, StartSpawn(c)
      PROVE  RingCount'
  <2>1. ctl[c] = "spawn" /\ io = "none" /\ ~handle /\ cycles = 0
    BY <1>1, <1>5 DEF StartSpawn, At, CallsOK, ReadsOK, NotAt, Starting, Resetting
  <2>2. head' = 0 /\ dropped' = 0 /\ cycles' = 0 /\ io' = "loop"
    BY <1>1, <1>5, <2>1 DEF StartSpawn, SessionRing, streamVars
  <2> QED
    BY <2>2 DEF RingCount, Passed
<1>6. ASSUME NEW c \in Controllers, StartCall(c) \/ Stop(c) \/ AttachCall(c) \/ Attach(c)
      PROVE  RingCount'
  <2>1. UNCHANGED <<head, dropped, push, cycles>>
    BY <1>6 DEF StartCall, Stop, StopCall, StopTestJoin, StopJoin, StopClearRunning, AttachCall,
       Attach, sessionVars, streamVars
  <2>2. \E here, next \in CtlType \ Resetting : At(c, here, next)
    BY <1>6 DEF StartCall, Stop, StopCall, StopTestJoin, StopJoin, StopClearRunning, AttachCall,
       Attach, CtlType, Idle, Resetting
  <2>3. NotAt(Resetting)
    BY <1>3, <2>2 DEF NotAt
  <2>4. Passed' = Passed
    <3>1. CASE StopJoin(c)
      BY <1>1, <3>1 DEF StopJoin, Passed, CallsOK, At
    <3>2. CASE ~StopJoin(c)
      BY <1>6, <2>1, <3>2 DEF StartCall, Stop, StopCall, StopTestJoin, StopClearRunning,
         AttachCall, Attach, sessionVars, Passed
    <3> QED
      BY <3>1, <3>2
  <2> QED
    BY <2>1, <2>3, <2>4 DEF RingCount
<1>7. CASE Io
  <2>1. io # "none" /\ ctl' = ctl
    BY <1>1, <1>7, IoSteps, PushesWhere DEF Io, IoUnchanged, IoTestStop, IoRead, IoPushBegin, IoPush,
       IoFanOut, IoFeed, IoCount
  <2>2. NotAt(Resetting) /\ NotAt({"resetTail"})
    BY <1>1, <2>1, NoStart DEF NotAt, Resetting
  <2>3. head + dropped = cycles + Passed /\ reads = cycles + errors + InHand
    BY <1>1, <2>2 DEF RingCount, ReadsOK
  <2>4. head' + dropped' = cycles' + Passed'
    <3>1. CASE IoTestStop \/ IoRead
      <4>1. Passed = 0 /\ Passed' = 0 /\ UNCHANGED <<head, dropped, cycles>>
        BY <3>1 DEF IoTestStop, IoRead, Passed, streamVars
      <4> QED
        BY <2>3, <4>1
    <3>2. CASE IoPushBegin
      <4>1. Passed = 0 /\ UNCHANGED <<head, dropped, cycles>> /\ io' = "pushing"
        BY <3>2 DEF IoPushBegin, PushBegin, Passed
      <4>2. push'.at # Idle
        BY <3>2 DEF IoPushBegin, PushBegin, NoPush, Idle
      <4> QED
        BY <2>3, <4>1, <4>2 DEF Passed
    <3>3. CASE IoPush
      <4>1. io = "pushing" /\ io' = "pushing" /\ cycles' = cycles
        BY <1>1, <3>3, PushesWhere DEF IoPush
      <4>2. head + dropped < MaxReads
        <5>1. Passed = 0 /\ InHand = 1
          BY <3>3, <4>1 DEF IoPush, Push, PushDrop, PushWrite, PushPublish, Passed, InHand, Idle
        <5>2. head + dropped = cycles /\ reads = cycles + errors + 1
          BY <1>2, <2>3, <5>1
        <5> QED
          BY <1>2, <5>2
      <4>3. CASE PushDrop
        <5>1. dropped' = dropped + 1 /\ head' = head
          BY <1>2, <4>2, <4>3, AfterFact DEF PushDrop, Counter
        <5>2. Passed = 0 /\ Passed' = 1
          BY <4>1, <4>3 DEF PushDrop, Passed, NoPush, Idle
        <5> QED
          BY <1>2, <2>3, <4>1, <5>1, <5>2 DEF Counter
      <4>4. CASE PushWrite
        <5>1. Passed = 0 /\ Passed' = 0 /\ UNCHANGED <<head, dropped>>
          BY <1>1, <4>1, <4>4 DEF PushWrite, Passed, Idle, StreamTypeOK, PushType
        <5> QED
          BY <2>3, <4>1, <5>1
      <4>5. CASE PushPublish
        <5>1. push.index = head
          BY <1>1, <2>2, <4>5 DEF PushPublish, SessionRing, RingInv, PushPlace
        <5>2. head' = head + 1 /\ dropped' = dropped
          BY <1>2, <4>2, <4>5, <5>1, AfterFact DEF PushPublish, Counter
        <5>3. Passed = 0 /\ Passed' = 1
          BY <4>1, <4>5 DEF PushPublish, Passed, NoPush, Idle
        <5> QED
          BY <1>2, <2>3, <4>1, <5>2, <5>3 DEF Counter
      <4> QED
        BY <3>3, <4>3, <4>4, <4>5 DEF IoPush, Push
    <3>4. CASE IoFanOut \/ IoFeed
      <4>1. Passed = 1 /\ Passed' = 1 /\ UNCHANGED <<head, dropped, cycles>>
        BY <1>1, <3>4, PushesWhere DEF IoFanOut, IoFeed, Passed, streamVars
      <4> QED
        BY <2>3, <4>1
    <3>5. CASE IoCount
      <4>1. Passed = 1 /\ Passed' = 0 /\ UNCHANGED <<head, dropped>> /\ cycles' = cycles + 1
        BY <3>5 DEF IoCount, Passed, streamVars
      <4> QED
        BY <1>2, <2>3, <4>1
    <3> QED
      BY <1>7, <3>1, <3>2, <3>3, <3>4, <3>5 DEF Io
  <2> QED
    BY <2>4 DEF RingCount
<1>8. CASE PopSample \/ ReadLive \/ UNCHANGED vars
  <2>1. UNCHANGED <<head, dropped, push, cycles, io, ctl>>
    BY <1>8 DEF PopSample, Pop, PopBegin, PopRead, PopPublish, ReadLive, vars, sessionVars,
       streamVars
  <2> QED
    BY <2>1 DEF RingCount, NotAt, Passed
<1> QED
  BY <1>4, <1>5, <1>6, <1>7, <1>8 DEF Next, Call, Start

-----------------------------------------------------------------------------
(* The theorems about a session.                                            *)

LEMMA SessionInitially ==
  ASSUME Init
  PROVE  SessionInv /\ RingCount
<1>1. StreamTypeOK /\ RingInv
  BY TypeInitially, RingInitially DEF Init
<1>2. Live!Init
  BY DEF Init
<1>3. BufferInv
  BY <1>2, BufferInitially
<1>4. Live!TypeOK
  BY <1>2, BufferTypeInitially
<1>5. SessionTypeOK
  <2>1. ctl \in [Controllers -> CtlType] /\ io \in IoType
    BY DEF Init, CtlType, IoType, Idle
  <2>2. {running, stopping, handle, dead} \subseteq BOOLEAN
    BY DEF Init
  <2>3. /\ reads \in 0 .. MaxReads /\ cycles \in 0 .. MaxReads /\ errors \in 0 .. MaxReads
        /\ run \in 0 .. MaxRuns /\ attached \in 0 .. MaxBuffers
    BY SessionAssumption DEF Init
  <2> QED
    BY <1>1, <1>4, <2>1, <2>2, <2>3 DEF SessionTypeOK
<1>6. \A c \in Controllers : ctl[c] = Idle
  BY DEF Init
<1>7. push.at = Idle /\ pop.at = Idle /\ writing = {} /\ head = 0 /\ tail = 0 /\ dropped = 0
  BY DEF Init, StreamInit, NoPush, NoPop, Live!Init
<1>8. CallsOK /\ PushesOK /\ ReadsOK /\ RingCount
  BY <1>6, <1>7 DEF Init, CallsOK, PushesOK, ReadsOK, RingCount, NotAt, Starting, Resetting, Idle,
     InHand, Passed
<1>9. SessionRing
  <2>1. ThisRun
    BY <1>7, EmptyRing DEF ThisRun
  <2> QED
    BY <1>1, <1>6, <1>7, <2>1 DEF SessionRing, RingInv, Idle
<1> QED
  BY <1>3, <1>5, <1>8, <1>9 DEF SessionInv

LEMMA SessionStep ==
  ASSUME OneController, SessionInv, Next \/ UNCHANGED vars
  PROVE  SessionInv'
<1>1. BufferInv'
  BY LiveStep DEF SessionInv, SessionTypeOK
<1> QED
  BY <1>1, SessionTypes, CallsStep, PushesStep, ReadsStep, RingKept DEF SessionInv

LEMMA SessionAlways ==
  ASSUME OneController
  PROVE  Spec => []SessionInv
<1>1. Init => SessionInv
  BY SessionInitially
<1>2. SessionInv /\ [Next]_vars => SessionInv'
  BY SessionStep
<1> QED
  BY <1>1, <1>2, PTL DEF Spec

(* The variables of a session keep their types: the counters stay in their  *)
(* width and no more reads are counted than were made.                      *)
THEOREM SessionTypeCorrect ==
  ASSUME OneController
  PROVE  Spec => []SessionTypeOK
<1>1. SessionInv => SessionTypeOK
  BY DEF SessionInv
<1> QED
  BY <1>1, SessionAlways, PTL

(* Between the calls, the ring holds samples of the last start() only.      *)
THEOREM RunsApart ==
  ASSUME OneController
  PROVE  Spec => []RingOfThisRun
<1>1. ASSUME SessionInv, NoCall
      PROVE  /\ Used <= Capacity
             /\ \A i \in 1 .. Used : slots[Slot(tail + i - 1)][0].run = run
  <2>1. RingInv /\ ThisRun
    BY <1>1 DEF SessionInv, SessionRing, NoCall, NotAt, Idle
  <2>2. head \in Counter /\ tail \in Counter
    BY <1>1 DEF SessionInv, SessionTypeOK, StreamTypeOK, Counter
  <2>3. Used = Distance(head, tail) /\ Distance(head, tail) \in Counter
    BY <2>2, DistanceFact, DistanceSlot DEF Used
  <2>4. ASSUME NEW i \in 1 .. Used
        PROVE  slots[Slot(tail + i - 1)][0].run = run
    <3>1. i - 1 \in 0 .. Distance(head, tail) - 1 /\ tail + i - 1 = tail + (i - 1)
      BY <2>2, <2>3, SizeFact DEF Counter, Size
    <3> QED
      BY <2>1, <3>1 DEF ThisRun
  <2> QED
    BY <2>1, <2>3, <2>4 DEF RingInv, Fits
<1>2. SessionInv => RingOfThisRun
  BY <1>1 DEF RingOfThisRun
<1> QED
  BY <1>2, SessionAlways, PTL

(* Every read of a run is an error, a cycle or in hand, and every cycle's   *)
(* sample was in the ring, or dropped, before the cycle counted.            *)
THEOREM CountersTrue ==
  ASSUME OneController, WideCounters
  PROVE  Spec => []CountersAgree
<1>1. Init => RingCount
  BY SessionInitially
<1>2. SessionInv /\ RingCount /\ [Next]_vars => RingCount'
  BY CountStep
<1>3. ASSUME SessionInv, RingCount, NoCall
      PROVE  /\ reads = cycles + errors + InHand
             /\ cycles <= head + dropped /\ head + dropped <= cycles + 1
  <2>1. NotAt(Resetting)
    BY <1>3 DEF NoCall, NotAt, Resetting, Idle
  <2>2. reads = cycles + errors + InHand /\ head + dropped = cycles + Passed
    BY <1>3, <2>1 DEF SessionInv, ReadsOK, RingCount
  <2>3. cycles \in Nat /\ Passed \in 0 .. 1
    BY <1>3, SessionAssumption DEF SessionInv, SessionTypeOK, Passed
  <2> QED
    BY <2>2, <2>3
<1>4. SessionInv /\ RingCount => CountersAgree
  BY <1>3 DEF CountersAgree
<1> QED
  BY <1>1, <1>2, <1>4, SessionAlways, PTL DEF Spec

(* The push and the pop of a session never touch one slot, over all its     *)
(* runs and the resets between them.                                        *)
THEOREM SessionSlotsApart ==
  ASSUME OneController
  PROVE  Spec => []NoSharedSlot
<1>1. ASSUME SessionInv, push.at = "write", pop.at = "read"
      PROVE  Slot(push.index) # Slot(pop.index)
  <2>1. NotAt({"resetTail"})
    BY <1>1 DEF SessionInv, CallsOK, NotAt, Idle
  <2> QED
    BY <1>1, <2>1, WritingElsewhere DEF SessionInv, SessionTypeOK, SessionRing
<1>2. SessionInv => NoSharedSlot
  BY <1>1 DEF NoSharedSlot
<1> QED
  BY <1>2, SessionAlways, PTL

(* A snapshot of a LiveBuffer is exact whatever the session that feeds it   *)
(* does: its one I/O thread pushes from one place of its loop.              *)
THEOREM SessionSnapshotExact ==
  ASSUME OneController
  PROVE  Spec => []SnapshotIsRecent
<1>1. ASSUME SessionInv
      PROVE  SnapshotIsRecent
  <2>1. Live!TypeOK /\ BufferInv
    BY <1>1 DEF SessionInv, SessionTypeOK
  <2> QED
    BY <2>1, FinishedExact DEF SnapshotIsRecent
<1>2. SessionInv => SnapshotIsRecent
  BY <1>1
<1> QED
  BY <1>2, SessionAlways, PTL

(* The list of buffers the I/O thread walks without a lock never changes    *)
(* while the thread exists.                                                 *)
THEOREM AttachStable ==
  ASSUME OneController
  PROVE  Spec => AttachListStable
<1>1. ASSUME SessionInv, Next \/ UNCHANGED vars, handle
      PROVE  attached' = attached
  <2>1. ASSUME NEW c \in Controllers, Attach(c) PROVE FALSE
    BY <1>1, <2>1 DEF Attach, At, SessionInv, CallsOK
  <2>2. ASSUME NEW c \in Controllers, Start(c) \/ Stop(c) \/ AttachCall(c)
        PROVE  attached' = attached
    BY <2>2 DEF Start, StartCall, StartClearStop, StartResetHead, StartResetTail, StartSpawn,
       Stop, StopCall, StopTestJoin, StopJoin, StopClearRunning, AttachCall, sessionVars
  <2>3. CASE Io
    BY <2>3, IoSteps DEF IoUnchanged
  <2> QED
    BY <1>1, <2>1, <2>2, <2>3 DEF Next, Call, PopSample, ReadLive, vars, sessionVars
<1>2. SessionInv /\ [Next]_vars => [handle => attached' = attached]_vars
  BY <1>1
<1> QED
  BY <1>2, SessionAlways, PTL DEF Spec, AttachListStable

-----------------------------------------------------------------------------
(* Over the runs of a session the ring is a queue that a start empties.     *)

Emptied == ~NotAt({"resetTail"})

LEMMA ClearingFact == Clearing <=> Emptied
  BY DEF Clearing, Emptied, NotAt

(* A step of the ring is one of the queue, when no reset is under way.      *)
LEMMA QueueOfSession ==
  ASSUME StreamTypeOK, RingInv, StreamTypeOK', [StreamNext]_streamVars, ~Emptied, ~Emptied'
  PROVE  [SessionQueue!Next \/ SessionQueue!Clear]_SessionQueue!vars
<1>1. QStep
  BY QueueStep
<1>2. ~Clearing /\ ~Clearing'
  BY ClearingFact DEF Clearing, Emptied, NotAt
<1>3. [i \in 1 .. Used |-> slots[Slot(tail + i - 1)][0]] = Waiting
  BY MappedQueue
<1>4. [i \in 1 .. Used |-> slots[Slot(tail + i - 1)][0]]' = Waiting'
  <2>1. Used' = Distance(head', tail')
    BY DistanceFact DEF StreamTypeOK, Counter, Used
  <2> QED
    BY <2>1 DEF Waiting
<1>5. CASE QOffer
  BY <1>2, <1>3, <1>4, <1>5 DEF QOffer, SessionQueue!Next, SessionQueue!Offer, Refused
<1>6. CASE QPut
  BY <1>2, <1>3, <1>4, <1>6 DEF QPut, SessionQueue!Next, SessionQueue!Put, Refused
<1>7. CASE QRefuse
  BY <1>2, <1>3, <1>4, <1>7 DEF QRefuse, SessionQueue!Next, SessionQueue!Refuse, Refused, After
<1>8. CASE QTake
  BY <1>2, <1>3, <1>4, <1>8 DEF QTake, SessionQueue!Next, SessionQueue!Take, Refused
<1>9. CASE QueueUnchanged
  BY <1>2, <1>3, <1>4, <1>9 DEF QueueUnchanged, SessionQueue!vars, Refused
<1> QED
  BY <1>1, <1>5, <1>6, <1>7, <1>8, <1>9 DEF QStep

(* The first store of reset() empties the queue, the second finishes.       *)
LEMMA ResetEmpties ==
  ASSUME OneController, SessionInv, NEW c \in Controllers, StartResetHead(c)
  PROVE  SessionQueue!Clear
<1>1. Clearing'
  BY DEF StartResetHead, At, Clearing, SessionInv, SessionTypeOK
<1>2. push.item = NoSample
  BY DEF SessionInv, SessionRing, CallsOK, PushesOK, PushRest, StartResetHead, At, Starting,
     Resetting, Idle
<1>3. push' = push /\ got' = got
  BY DEF StartResetHead
<1> QED
  BY <1>1, <1>2, <1>3 DEF SessionQueue!Clear

LEMMA ResetEnds ==
  ASSUME OneController, SessionInv, SessionInv', NEW c \in Controllers, StartResetTail(c)
  PROVE  UNCHANGED SessionQueue!vars
<1>1. Clearing /\ ~Clearing'
  <2>1. \A d \in Controllers : ctl[d] = "resetTail" /\ ctl'[d] = "spawn"
    BY AtFact DEF StartResetTail, SessionInv, SessionTypeOK
  <2> QED
    BY <2>1 DEF Clearing
<1>2. push' = push /\ got' = got /\ push'.at # "drop" /\ dropped' = 0
  BY DEF StartResetTail, At, SessionInv, CallsOK, PushesOK, Starting, Resetting, Idle
<1>3. [i \in 1 .. Used |-> slots[Slot(tail + i - 1)][0]]' = <<>>
  <2>1. head' = 0 /\ tail' = 0
    BY DEF StartResetTail, At, SessionInv, SessionRing, ResetTail
  <2>2. Used' = 0
    <3>1. head' \in Counter /\ tail' \in Counter
      BY DEF SessionInv, SessionTypeOK, StreamTypeOK, Counter
    <3> QED
      BY <2>1, <3>1, DistanceFact DEF Used, Distance
  <2> QED
    BY <2>2
<1> QED
  BY <1>1, <1>2, <1>3 DEF SessionQueue!vars

LEMMA SessionQueueStep ==
  ASSUME OneController, SessionInv, Next \/ UNCHANGED vars
  PROVE  [SessionQueue!Next \/ SessionQueue!Clear]_SessionQueue!vars
<1>1. SessionInv'
  BY SessionStep
<1>2. ASSUME NEW c \in Controllers, StartResetHead(c) \/ StartResetTail(c)
      PROVE  [SessionQueue!Next \/ SessionQueue!Clear]_SessionQueue!vars
  BY <1>1, <1>2, ResetEmpties, ResetEnds
<1>3. CASE ~(\E c \in Controllers : StartResetHead(c) \/ StartResetTail(c))
  <2>1. [StreamNext]_streamVars
    BY <1>3, RingSteps
  <2>2. Emptied' <=> Emptied
    <3>1. ASSUME NEW c \in Controllers, NEW here \in CtlType \ {"resetTail"},
                 NEW next \in CtlType \ {"resetTail"}, At(c, here, next)
          PROVE  ~Emptied /\ ~Emptied'
      BY <3>1, AtFact DEF Emptied, NotAt, SessionInv, SessionTypeOK
    <3>2. ASSUME NEW c \in Controllers, Call(c)
          PROVE  \E here, next \in CtlType \ {"resetTail"} : At(c, here, next)
      BY <1>3, <3>2 DEF Call, Start, StartCall, StartClearStop, StartSpawn, Stop, StopCall,
         StopTestJoin, StopJoin, StopClearRunning, AttachCall, Attach, CtlType, Idle
    <3>3. CASE Io \/ PopSample \/ ReadLive \/ UNCHANGED vars
      <4>1. ctl' = ctl
        BY <3>3, IoSteps DEF IoUnchanged, PopSample, ReadLive, vars
      <4> QED
        BY <4>1 DEF Emptied, NotAt
    <3>4. ASSUME NEW c \in Controllers, Call(c)
          PROVE  ~Emptied /\ ~Emptied'
      <4>1. PICK here \in CtlType \ {"resetTail"} :
              \E next \in CtlType \ {"resetTail"} : At(c, here, next)
        BY <3>2, <3>4
      <4>2. PICK next \in CtlType \ {"resetTail"} : At(c, here, next)
        BY <4>1
      <4> QED
        BY <3>1, <4>2
    <3> QED
      BY <3>3, <3>4 DEF Next
  <2>3. CASE ~Emptied
    <3>1. StreamTypeOK /\ RingInv /\ StreamTypeOK'
      BY <1>1, <2>3 DEF SessionInv, SessionTypeOK, SessionRing, Emptied
    <3> QED
      BY <2>1, <2>2, <2>3, <3>1, QueueOfSession
  <2>4. CASE Emptied
    <3>1. PICK c \in Controllers : ctl[c] = "resetTail"
      BY <2>4 DEF Emptied, NotAt
    <3>2. io = "none" /\ pop.at = Idle /\ push.at = Idle /\ ~NoCall
      BY <3>1 DEF SessionInv, CallsOK, PushesOK, Starting, Resetting, Idle, NoCall
    <3>3. ~IoPushBegin /\ ~IoPush /\ ~PopSample
      BY <3>2, PushesWhere DEF IoPushBegin, IoPush, PopSample, MayPop, NoCall, SessionInv
    <3>4. UNCHANGED <<push, got>>
      BY <1>3, <3>3 DEF Next, Call, Start, StartCall, StartClearStop, StartSpawn, Stop, StopCall,
         StopTestJoin, StopJoin, StopClearRunning, AttachCall, Attach,
         Io, IoTestStop, IoRead, IoCount, IoFanOut, IoFeed, ReadLive, vars, streamVars
    <3>5. Clearing /\ Clearing'
      BY <2>2, <2>4, ClearingFact DEF Clearing, Emptied, NotAt
    <3> QED
      BY <3>4, <3>5 DEF SessionQueue!vars
  <2> QED
    BY <2>3, <2>4
<1> QED
  BY <1>2, <1>3

(* Over several runs, with a reset between them, the ring implements the    *)
(* bounded queue that a start empties: no sample of a run comes out of a    *)
(* later one, and within a run each one comes out once, in order and whole. *)
THEOREM RestartsQueue ==
  ASSUME OneController
  PROVE  Spec => RestartsAnEmptyQueue
<1>1. Init => SessionQueue!Init
  <2> SUFFICES ASSUME Init PROVE SessionQueue!Init
    OBVIOUS
  <2>1. StreamTypeOK /\ Distance(head, tail) = 0
    BY TypeInitially DEF Init, StreamInit, Distance
  <2>2. [i \in 1 .. Used |-> slots[Slot(tail + i - 1)][0]] = <<>>
    BY <2>1, MappedQueue, WaitingFact
  <2>3. ~Clearing
    BY DEF Init, Clearing, Idle
  <2> QED
    BY <2>2, <2>3 DEF Init, StreamInit, SessionQueue!Init, NoPush, Blank, Idle
<1>2. SessionInv /\ [Next]_vars
        => [SessionQueue!Next \/ SessionQueue!Clear]_SessionQueue!vars
  BY SessionQueueStep
<1> QED
  BY <1>1, <1>2, SessionAlways, PTL DEF Spec, RestartsAnEmptyQueue, SessionQueue!RestartSpec
=============================================================================
