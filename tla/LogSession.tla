------------------------------- MODULE LogSession ------------------------------
(***************************************************************************)
(* st::log::LogSession: start, stop and attach_live_buffer called by        *)
(* controller threads, the I/O thread they spawn and join, the thread that  *)
(* pops samples from the ring (LogStream) the session owns, and the UI      *)
(* thread that copies samples out of an attached LiveBuffer meanwhile.      *)
(*                                                                         *)
(* A sample is [run, n]: the n-th answer read since the run-th start().     *)
(* Its timestamp counts from that start(), so n stands for it.              *)
(***************************************************************************)
EXTENDS LogStream, LiveBufferSize

CONSTANTS
    Controllers,     \* threads that call start, stop and attach_live_buffer
    MaxRuns,         \* bound on successful calls of start
    MaxReads,        \* bound on the I/O thread's reads in one run
    MaxBuffers       \* bound on attached LiveBuffers: none or one

ASSUME SessionAssumption ==
    /\ MaxRuns \in Nat /\ MaxReads \in Nat /\ MaxBuffers \in 0 .. 1
    /\ Sample = [run : 1 .. MaxRuns, n : 1 .. MaxReads]

VARIABLES
    ctl,        \* where each controller stands in start, stop or attach
    running,    \* running_
    stopping,   \* stop_requested_
    handle,     \* io_thread_ is joinable
    io,         \* where the I/O thread stands in io_loop
    reads,      \* reads of this run that ended
    cycles,     \* cycles_completed_
    errors,     \* io_errors_
    run,        \* starts so far
    attached,   \* attached_buffers_: how many
    dead        \* std::terminate was called

sessionVars == <<running, stopping, handle, io, reads, cycles, errors, run,
                 attached, dead>>
VARIABLES           \* of the attached LiveBuffer, one channel of it
    count, ring, writing, reading, seen, take, copied, out, behind

(* Samples of this module are numbered [run, n]; a LiveBuffer numbers the   *)
(* ones it is given, over all runs: start() does not empty it.              *)
Live == INSTANCE LiveBuffer

liveVars == <<count, ring, writing, reading, seen, take, copied, out, behind>>
vars == <<streamVars, ctl, sessionVars, liveVars>>

Init ==
    /\ StreamInit /\ Live!Init
    /\ ctl = [c \in Controllers |-> Idle]
    /\ running = FALSE /\ stopping = FALSE /\ handle = FALSE
    /\ io = "none" /\ reads = 0 /\ cycles = 0 /\ errors = 0
    /\ run = 0 /\ attached = 0 /\ dead = FALSE

(* No controller goes on once std::terminate was called.                    *)
At(c, here, next) ==
    /\ ~dead
    /\ ctl[c] = here /\ ctl' = [ctl EXCEPT ![c] = next]

(* The thread that pops is a controller's own: between its other calls.     *)
MayPop == \A c \in Controllers : ctl[c] = Idle
MayCall == pop.at = Idle
-----------------------------------------------------------------------------
(* start.                                                                   *)

(* running_.exchange(true); a session already running is left alone.        *)
StartCall(c) ==
    /\ MayCall /\ ~running /\ run < MaxRuns
    /\ At(c, Idle, "clearStop")
    /\ running' = TRUE
    /\ UNCHANGED <<streamVars, stopping, handle, io, reads, cycles, errors, run,
                   attached, dead>>

(* The counters of the run before are cleared; the mutant keeps one.        *)
KeptCycles == cycles
ClearedCycles == 0

StartClearStop(c) ==
    /\ At(c, "clearStop", "resetHead")
    /\ stopping' = FALSE /\ cycles' = ClearedCycles /\ errors' = 0
    /\ UNCHANGED <<streamVars, running, handle, io, reads, run, attached,
                   dead>>

(* stream_.reset(): one store per counter.  The mutant leaves tail_ alone.  *)
KeptTail == tail
ResetTail == 0

StartResetHead(c) ==
    /\ At(c, "resetHead", "resetTail")
    /\ head' = 0
    /\ UNCHANGED <<tail, dropped, slots, push, pop, got, sessionVars>>

StartResetTail(c) ==
    /\ At(c, "resetTail", "spawn")
    /\ tail' = ResetTail /\ dropped' = 0
    /\ UNCHANGED <<head, slots, push, pop, got, sessionVars>>

(* io_thread_ = std::thread(...): assigning to a joinable thread terminates *)
(* the program.                                                             *)
StartSpawn(c) ==
    /\ At(c, "spawn", Idle)
    /\ IF handle
       THEN dead' = TRUE /\ UNCHANGED <<handle, io, reads, run>>
       ELSE /\ handle' = TRUE /\ io' = "loop" /\ reads' = 0 /\ run' = run + 1
            /\ UNCHANGED dead
    /\ UNCHANGED <<streamVars, running, stopping, cycles, errors, attached>>
-----------------------------------------------------------------------------
(* stop, also run by the destructor.                                        *)

StopCall(c) ==
    /\ MayCall
    /\ At(c, Idle, "testJoin")
    /\ stopping' = TRUE
    /\ UNCHANGED <<streamVars, running, handle, io, reads, cycles, errors, run,
                   attached, dead>>

(* io_thread_.joinable() *)
Joinable == handle

StopTestJoin(c) ==
    /\ At(c, "testJoin", IF Joinable THEN "join" ELSE "clearRunning")
    /\ UNCHANGED <<streamVars, sessionVars>>

(* join returns when the I/O thread has ended; joining a thread another     *)
(* controller has joined throws, and stop is noexcept.                      *)
StopJoin(c) ==
    /\ At(c, "join", "clearRunning")
    /\ \/ /\ handle /\ io = "ended"
          /\ handle' = FALSE /\ io' = "none"
          /\ UNCHANGED dead
       \/ /\ ~handle
          /\ dead' = TRUE
          /\ UNCHANGED <<handle, io>>
    /\ UNCHANGED <<streamVars, running, stopping, reads, cycles, errors, run,
                   attached>>

StopClearRunning(c) ==
    /\ At(c, "clearRunning", Idle)
    /\ running' = FALSE
    /\ UNCHANGED <<streamVars, stopping, handle, io, reads, cycles, errors, run,
                   attached, dead>>
-----------------------------------------------------------------------------
(* attach_live_buffer.                                                      *)

(* The mutant attaches to a session that is running.                        *)
AttachWhenever == TRUE
MayAttach == ~running

AttachCall(c) ==
    /\ MayCall /\ MayAttach /\ attached < MaxBuffers
    /\ At(c, Idle, "attach")
    /\ UNCHANGED <<streamVars, sessionVars>>

Attach(c) ==
    /\ At(c, "attach", Idle)
    /\ attached' = attached + 1
    /\ UNCHANGED <<streamVars, running, stopping, handle, io, reads, cycles,
                   errors, run, dead>>
-----------------------------------------------------------------------------
(* io_loop.                                                                 *)

IoUnchanged == UNCHANGED <<ctl, running, stopping, handle, run, attached, dead>>

(* The mutant never looks at the flag.                                      *)
StopUnseen == FALSE
StopSeen == stopping

IoTestStop ==
    /\ io = "loop"
    /\ \/ StopSeen /\ io' = "ended"
       \/ ~StopSeen /\ reads < MaxReads /\ io' = "read"
    /\ UNCHANGED <<streamVars, reads, cycles, errors>>
    /\ IoUnchanged

(* SsmClient::read ends with an answer, or with an error or a short answer. *)
IoRead ==
    /\ io = "read"
    /\ reads' = reads + 1
    /\ \/ io' = "push" /\ UNCHANGED errors
       \/ io' = "loop" /\ errors' = errors + 1
    /\ UNCHANGED <<streamVars, cycles>>
    /\ IoUnchanged

IoPushBegin ==
    /\ io = "push"
    /\ PushBegin([run |-> run, n |-> reads])
    /\ io' = "pushing"
    /\ UNCHANGED <<reads, cycles, errors>>
    /\ IoUnchanged

IoPush ==
    /\ Push
    /\ UNCHANGED <<io, reads, cycles, errors>>
    /\ IoUnchanged

(* Every attached LiveBuffer is given the sample, also when the ring        *)
(* dropped it ...                                                           *)
IoFanOut ==
    /\ io = "pushing" /\ push.at = Idle /\ attached > 0
    /\ Live!PushBegin
    /\ io' = "feeding"
    /\ UNCHANGED <<streamVars, reads, cycles, errors>>
    /\ IoUnchanged

IoFeed ==
    /\ \/ \E f \in Live!Field : Live!PushField(f)
       \/ Live!PushPublish
    /\ UNCHANGED <<streamVars, io, reads, cycles, errors>>
    /\ IoUnchanged

(* ... then the cycle counts.                                               *)
IoCount ==
    /\ \/ io = "pushing" /\ push.at = Idle /\ attached = 0
       \/ io = "feeding" /\ writing = {}
    /\ cycles' = cycles + 1
    /\ io' = "loop"
    /\ UNCHANGED <<streamVars, reads, errors>>
    /\ IoUnchanged
-----------------------------------------------------------------------------
Start(c) == \/ StartCall(c) \/ StartClearStop(c)
            \/ StartResetHead(c) \/ StartResetTail(c) \/ StartSpawn(c)
Stop(c) == StopCall(c) \/ StopTestJoin(c) \/ StopJoin(c) \/ StopClearRunning(c)
Call(c) == (Start(c) \/ Stop(c) \/ AttachCall(c) \/ Attach(c)) /\ UNCHANGED liveVars
Io == \/ (IoTestStop \/ IoRead \/ IoPushBegin \/ IoPush \/ IoCount) /\ UNCHANGED liveVars
      \/ IoFanOut \/ IoFeed

PopSample ==
    /\ Pop
    /\ pop.at = Idle => MayPop
    /\ UNCHANGED <<ctl, sessionVars, liveVars>>

(* The UI thread's snapshot and latest.                                     *)
ReadLive ==
    /\ Live!Read
    /\ UNCHANGED <<ctl, streamVars, sessionVars>>

Next ==
    \/ \E c \in Controllers : Call(c)
    \/ Io \/ PopSample \/ ReadLive

Spec == Init /\ [][Next]_vars

(* Threads are scheduled; a controller inside a call goes on with it, and   *)
(* every read ends, at the latest with its timeout.                         *)
FairSpec ==
    /\ Spec
    /\ WF_vars(Io)
    /\ \A c \in Controllers :
         WF_vars(ctl[c] # Idle /\ Call(c))
-----------------------------------------------------------------------------
(* Properties.                                                              *)

CtlType == {Idle, "clearStop", "resetHead", "resetTail", "spawn", "testJoin",
            "join", "clearRunning", "attach"}
IoType == {"none", "loop", "read", "push", "pushing", "feeding", "ended"}

(* The types of the variables. *)
SessionTypeOK ==
    /\ StreamTypeOK /\ Live!TypeOK
    /\ ctl \in [Controllers -> CtlType] /\ io \in IoType
    /\ {running, stopping, handle, dead} \subseteq BOOLEAN
    /\ reads \in 0 .. MaxReads
    /\ cycles \in 0 .. MaxReads /\ errors \in 0 .. MaxReads
    /\ run \in 0 .. MaxRuns /\ attached \in 0 .. MaxBuffers

NoCall == \A c \in Controllers : ctl[c] = Idle

(* Once start() has returned the ring holds samples of this run only, and   *)
(* no more than it has slots.                                               *)
RingOfThisRun ==
    NoCall => /\ Used <= Capacity
              /\ \A i \in 1 .. Used : slots[Slot(tail + i - 1)][0].run = run

(* Every read of a run is accounted for: it was pushed or dropped and       *)
(* counted as a cycle, or counted as an error, or is the one in hand.  A    *)
(* reader that has seen a cycle counted finds its sample in the ring.       *)
InHand == IF io \in {"push", "pushing", "feeding"} THEN 1 ELSE 0
CountersAgree ==
    NoCall => /\ reads = cycles + errors + InHand
              /\ cycles <= head + dropped /\ head + dropped <= cycles + 1

(* A sample of an attached buffer was read in this session, and all samples *)
(* read while it was attached are in it: a snapshot taken while at most     *)
(* Depth - take pushes begin is whole, recent and in order, whatever the    *)
(* session does meanwhile.                                                  *)
SnapshotIsRecent == Live!SnapshotIsRecent

(* Over several runs the ring is the bounded queue it stands for, emptied   *)
(* when a run starts: no sample of an earlier run comes out of a later one. *)
Clearing == \E c \in Controllers : ctl[c] = "resetTail"

SessionQueue == INSTANCE SampleQueue WITH
    queue   <- IF Clearing THEN <<>>
               ELSE [i \in 1 .. Used |-> slots[Slot(tail + i - 1)][0]],
    offered <- push.item,
    dropped <- IF Clearing THEN 0
               ELSE IF push.at = "drop" THEN After(dropped) ELSE dropped

RestartsAnEmptyQueue == SessionQueue!RestartSpec

(* The list of attached buffers, which the I/O thread reads without a lock, *)
(* does not change while there is an I/O thread.                            *)
AttachListStable == [][handle => attached' = attached]_vars

(* Every stop() returns. *)
StopReturns == \A c \in Controllers : ctl[c] = "testJoin" ~> ctl[c] = Idle
=============================================================================
