------------------------------- MODULE LiveBuffer ------------------------------
(***************************************************************************)
(* One channel of st::log::LiveBuffer: the I/O thread pushes samples over   *)
(* the oldest ones, the UI thread copies the most recent ones (snapshot)    *)
(* or the last one (latest) without consuming them and without a lock.      *)
(*                                                                         *)
(* The n-th sample pushed (from 0) is the number n; its two fields, the     *)
(* timestamp and the value, are separate stores and loads.                  *)
(***************************************************************************)
EXTENDS LiveBufferSize

Field == {"timestamp", "value"}

VARIABLES
    count,     \* write_count
    ring,      \* the slots: which sample each field is of, -1 for none
    writing,   \* the fields of the push under way still to be written
    reading,   \* a read is under way
    seen,      \* the write_count it loaded
    take,      \* how many samples it copies
    copied,    \* the fields copied so far
    out,       \* the samples copied, by their place from the oldest
    behind     \* the largest number of pushes begun since seen was loaded

writer == <<count, ring, writing>>
reader == <<reading, seen, take, copied, out>>
vars == <<writer, reader, behind>>

(* index & mask_ *)
Slot(n) == n % Depth

Nothing == [f \in Field |-> -1]
MinOf(a, b) == IF a <= b THEN a ELSE b

Init ==
    /\ count = 0 /\ writing = {}
    /\ ring = [s \in 0 .. Depth - 1 |-> Nothing]
    /\ reading = FALSE /\ seen = 0 /\ take = 0 /\ copied = 0
    /\ out = [i \in 0 .. Depth - 1 |-> Nothing]
    /\ behind = 0

(* push: the fields of the slot in either order, then write_count.          *)
PushBegin ==
    /\ writing = {} /\ count < MaxPushes
    /\ writing' = Field \cup {"count"}
    /\ behind' = IF reading THEN count + 1 - seen ELSE behind
    /\ UNCHANGED <<count, ring, reader>>

PushField(f) ==
    /\ f \in writing
    /\ ring' = [ring EXCEPT ![Slot(count)][f] = count]
    /\ writing' = writing \ {f}
    /\ UNCHANGED <<count, reader, behind>>

(* The store that publishes the slot waits for its fields; the mutant's     *)
(* does not.                                                                *)
AnyTime == "count" \in writing
FieldsWritten == writing = {"count"}

PushPublish ==
    /\ FieldsWritten
    /\ count' = count + 1
    /\ writing' = {}
    /\ UNCHANGED <<ring, reader, behind>>

(* How many samples a snapshot of wanted copies, and the mutant that asks   *)
(* the number pushed only.                                                  *)
TakenUncapped(wanted) == MinOf(wanted, count)
Taken(wanted) == MinOf(wanted, MinOf(count, Depth))

(* snapshot up to its load of write_count; latest is a snapshot of one.     *)
ReadBegin(wanted) ==
    /\ ~reading
    /\ count > 0 /\ wanted > 0
    /\ reading' = TRUE /\ seen' = count
    /\ take' = Taken(wanted)
    /\ copied' = 0 /\ out' = [i \in 0 .. Depth - 1 |-> Nothing]
    /\ behind' = IF writing = {} THEN 0 ELSE 1
    /\ UNCHANGED writer

(* One field of the sample in hand, oldest sample first.                    *)
ReadField ==
    /\ reading /\ copied < 2 * take
    /\ LET i == copied \div 2
           f == IF copied % 2 = 0 THEN "timestamp" ELSE "value"
       IN  out' = [out EXCEPT ![i][f] = ring[Slot(seen - take + i)][f]]
    /\ copied' = copied + 1
    /\ UNCHANGED <<writer, reading, seen, take, behind>>

ReadEnd ==
    /\ reading /\ copied = 2 * take
    /\ reading' = FALSE
    /\ UNCHANGED <<writer, seen, take, copied, out, behind>>

Write == PushBegin \/ (\E f \in Field : PushField(f)) \/ PushPublish
Read == (\E wanted \in 1 .. Depth + 1 : ReadBegin(wanted)) \/ ReadField \/ ReadEnd

Next == Write \/ Read

Spec == Init /\ [][Next]_vars
-----------------------------------------------------------------------------
(* Properties.                                                              *)

(* The types of the variables. *)
TypeOK ==
    /\ count \in Nat /\ writing \subseteq Field \cup {"count"}
    /\ ring \in [0 .. Depth - 1 -> [Field -> Int]]
    /\ reading \in BOOLEAN /\ seen \in Nat
    /\ take \in 0 .. Depth /\ copied \in 0 .. 2 * Depth
    /\ out \in [0 .. Depth - 1 -> [Field -> Int]]
    /\ behind \in Int

Finished == ~reading /\ seen > 0

Recent == \A i \in 0 .. take - 1 : \A f \in Field : out[i][f] = seen - take + i

(* A read is right as long as the producer does not get into the slots it   *)
(* copies: with at most Depth - take pushes begun by its end, it returns *)
(* the samples up to the last one published when it started, in order and   *)
(* none of them torn.                                                       *)
SnapshotIsRecent == Finished /\ behind <= Depth - take => Recent
=============================================================================
