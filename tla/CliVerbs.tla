------------------------------ MODULE CliVerbs ------------------------------
(***************************************************************************)
(* The commands of the command line that write an ECU, each as the sequence *)
(* of requests it sends: flash-apply up to Flasher::execute, the unblock    *)
(* sequence with its inline write cycle, flash-write-cycle,                 *)
(* flash-restore-from-stock and flash-commit, and of two that probe its     *)
(* sessions, presence-test and dsc-try.  A step names what it asks, the     *)
(* answers that make the command stop there, and the exit code if so.       *)
(***************************************************************************)
EXTENDS Integers, Sequences, SequencesExt

CONSTANTS
    Slots,   \* number of periodic-frame slots a command fills
    Blocks   \* 256-byte blocks of a sector

ASSUME VerbAssumption == Slots \in Nat /\ Blocks \in Nat \ {0}

Step(op, arg, stop, code) == [op |-> op, arg |-> arg, stop |-> stop, code |-> code]

Failures == {"silent", "refused"}

(* A failure ends the command; is ignored; ends the inline write cycle only. *)
Must(op, arg)   == Step(op, arg, Failures, 1)
Try(op, arg)    == Step(op, arg, {}, 0)
InLine(op, arg) == Step(op, arg, Failures, 0)
Local(op)       == Step(op, 0, {}, 0)

Opt(condition, steps) == IF condition THEN steps ELSE <<>>

-----------------------------------------------------------------------------
(* Mutant of FillSlots: the slots enabled from the second on.               *)
FillSlotsShifted ==
    [i \in 1 .. 2 * Slots |-> IF i % 2 = 1 THEN Must("configure", (i + 1) \div 2)
                                           ELSE Must("enable", i \div 2 + 1)]
        \o <<Local("armSlots")>>

(* Vehicle-presence injection: every slot is configured, then enabled; only *)
(* after the last one is the guard armed that clears them.                  *)
FillSlots ==
    [i \in 1 .. 2 * Slots |-> IF i % 2 = 1 THEN Must("configure", (i + 1) \div 2)
                                           ELSE Must("enable", i \div 2)]
        \o <<Local("armSlots")>>

(* clear_all_periodic_slots never looks at an answer.                       *)
ClearSlots == [k \in 1 .. Slots |-> Try("disable", k)]

(* security_access_request_seed, the key function, security_access_send_key *)
Unlock == <<Must("seed", 0), Must("key", 0)>>

Quiet == <<Must("dtcOff", 0), Must("commOff", 0)>>

Audible == <<Try("dtcOn", 0), Try("commOn", 0)>>

(* The bus-quieting prelude, for a security level above 1.                  *)
BusPrelude ==
    <<Must("read", 0), Must("session", "default"), Must("session", "extended"),
      Must("session", "extended")>> \o Quiet \o <<Local("armBus")>>

(* Mutant of ApplyPrelude: the bus guard armed after the second unlock.      *)
ApplyPreludeLateGuard(c) ==
    Audible
        \o Opt(c.inject, FillSlots \o <<Local("startWorker")>>)
        \o Opt(c.enter, <<Must("session", "extended")>>)
        \o Opt(c.unlock, Unlock \o Opt(c.high, Front(BusPrelude)
                                         \o Opt(c.follow, Unlock) \o <<Local("armBus")>>))
        \o Opt(c.inject, <<Local("stopWorker"), Local("joinWorker")>> \o ClearSlots)

(* The block of flash-apply that precedes Flasher::execute.                 *)
ApplyPrelude(c) ==
    Audible
        \o Opt(c.inject, FillSlots \o <<Local("startWorker")>>)
        \o Opt(c.enter, <<Must("session", "extended")>>)
        \o Opt(c.unlock, Unlock \o Opt(c.high, BusPrelude \o Opt(c.follow, Unlock)))
        \o Opt(c.inject, <<Local("stopWorker"), Local("joinWorker")>> \o ClearSlots)

(* Its guards, in the order they run at every exit from the block:          *)
(* BusStateRestore, PeriodicSlotsCleanup, CounterWorkerGuard.               *)
Guards(armed) ==
    Opt("bus" \in armed, <<Try("session", "extended")>> \o Audible)
        \o Opt("slots" \in armed, ClearSlots)
        \o <<Local("stopWorker"), Local("joinWorker")>>

-----------------------------------------------------------------------------
(* One sector: negotiate, erase (the erase names no address), the blocks.   *)
(* The step for block b carries sector and block.                           *)
(* A failure ends the command with the exit code given.                     *)
SectorCycle(s, failed) ==
    LET Do(op, arg) == Step(op, arg, Failures, failed)
    IN  <<Do("declare", s), Do("erase", 0)>>
          \o [b \in 1 .. Blocks |-> Do("block", [sector |-> s, index |-> b])]

(* One cycle after the other: step i is the (i - 1) % CycleLength + 1st of  *)
(* its cycle.                                                               *)
CycleLength == Blocks + 2

Sectorwise(sectors) ==
    [i \in 1 .. Len(sectors) * CycleLength |->
        SectorCycle(sectors[(i - 1) \div CycleLength + 1], 1)[((i - 1) % CycleLength) + 1]]

(* Mutant of Close: what the ECU says of the commit not looked at.          *)
CloseLoose == <<Must("exit", 0), Try("commit", 0)>>

Close == <<Must("exit", 0), Must("commit", 0)>>

(* Mutant of WriteScript: the refusal of a negotiation not looked at.       *)
WriteScriptDeaf(c) ==
    [i \in 1 .. Len(Sectorwise(c.sectors)) |->
        LET step == Sectorwise(c.sectors)[i]
        IN  IF step.op = "declare" THEN [step EXCEPT !.stop = {"silent"}] ELSE step]
      \o Opt(c.commit, Close)

(* flash-write-cycle (one sector) and flash-restore-from-stock (any number, *)
(* one close at the end); --no-commit leaves the close to a later command.  *)
WriteScript(c) == Sectorwise(c.sectors) \o Opt(c.commit, Close)

(* flash-commit goes on when the 0x37 is refused, not when it is unanswered. *)
CommitScript == <<Step("exit", 0, {"silent"}, 1), Must("commit", 0)>>

(* The unblock sequence.  Its diagnostic snapshots end it only when they go *)
(* unanswered or are refused; the inline write cycle never changes its exit *)
(* code.                                                                    *)
UnblockScript(c) ==
    Opt(~c.force, <<Step("preflight", 0, {"refused"}, 1)>>)
        \o Opt(c.inject, FillSlots)
        \o <<Must("session", "extended")>>
        \o Opt(c.unlock, Unlock)
        \o <<Must("read", 0), Must("session", "programming")>>
        \o Opt(c.sectors # <<>>,
               SectorCycle(c.sectors[1], 0)
                 \o <<InLine("exit", 0), InLine("echo", 0), Try("commit", 0)>>)

(* subaru-presence-test fills its slots, takes a reading they are to change, *)
(* and reads on until its time is up or a reading fails, which is no error. *)
(* It clears them at every return once all are filled, as the guard does.   *)
PresenceScript == FillSlots \o <<Must("read", 0), InLine("read", 0)>>

(* subaru-dsc-try asks for one session, cold.                               *)
TrySessionScript(c) == <<Must("session", c.session)>>

(* The requests of a command without a gate, up to its last return.        *)
Script(c) ==
    CASE c.verb \in {"write", "restore"} -> WriteScript(c)
      [] c.verb = "commit"              -> CommitScript
      [] c.verb = "unblock"             -> UnblockScript(c)
      [] c.verb = "presence"            -> PresenceScript
      [] c.verb = "try"                 -> TrySessionScript(c)
=============================================================================
