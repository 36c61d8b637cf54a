------------------------------ MODULE CliFlash ------------------------------
(***************************************************************************)
(* A shell in which the user issues flash commands one after the other, and *)
(* the car they talk to.  A command is a process: it sends the requests of  *)
(* its script (CliVerbs) until one of them makes it stop, runs the guards   *)
(* it armed, and exits with a code.  What it leaves in the car outlives it: *)
(* the session, the negotiated sector, the quiet bus, the frames the        *)
(* adapter sends on its own, and the flash.                                 *)
(*                                                                         *)
(* flash-apply passes the policy gate first (FlashGate) and ends in         *)
(* Flasher::execute, which is here what FlashJob says of it: FlashExecute   *)
(* implements that.                                                         *)
(***************************************************************************)
EXTENDS FlashGate, CliVerbs

CONSTANTS
    Targets,       \* images the user may ask flash-delta to reach
    Applies,       \* the options flash-apply is issued with
    Others,        \* the commands issued that are not flash-apply
    MaxCommands,   \* bound on the commands of a behaviour
    MayLosePower   \* whether the car may be switched off and on

(* What a command line may ask for.                                         *)
RunType == [verb : {"apply"}, inject : BOOLEAN, enter : BOOLEAN, unlock : BOOLEAN,
            high : BOOLEAN, follow : BOOLEAN]

OptionsType == [profiled : BOOLEAN, profile : Profiles, reasoned : BOOLEAN, run : RunType]

Sessions == {"default", "extended", "programming"}

CommandType ==
    [verb : {"write", "restore"}, sectors : Seq(Sectors), commit : BOOLEAN]
      \cup [verb : {"unblock"}, sectors : Seq(Sectors), inject : BOOLEAN, unlock : BOOLEAN,
            force : BOOLEAN]
      \cup [verb : {"commit", "presence"}]
      \cup [verb : {"try"}, session : Sessions]

ASSUME CliAssumption ==
    /\ Targets \subseteq Images
    /\ Applies \subseteq OptionsType /\ Others \subseteq CommandType
    /\ MaxCommands \in Nat

NoSector == 0 - 1

VARIABLES
    phase,    \* "shell", "gated", "running", "leaving", "entering" or "executing"
    cmd,      \* the command, until the next one is issued
    script,   \* the requests it has still to send
    armed,    \* its guards that are armed
    code,     \* the exit code it has, or will return
    worker,   \* the counter thread: "none", "on" or "ended"
    asked,    \* the thread has been asked to stop
    car,      \* what the requests act on, but for the flash
    content,  \* the flash: each sector "old", "broken" or "rewritten"
    pending,  \* of Flasher::execute: the sectors it has still to rewrite
    target,   \* and the one it is on
    issued,   \* commands issued
    \* history
    acked,    \* what the car acknowledged to the last command as turned off or on
    missed,   \* what the car did not turn back when it was last asked to
    stopped   \* the kind of request the last command stopped on

process == <<phase, cmd, script, armed, code, worker, asked>>
job     == <<pending, target>>
history == <<acked, missed, stopped>>
vars    == <<process, car, content, job, issued, history>>

Nothing == [bus |-> {}, slots |-> {}]

(* blocks are the blocks of the negotiated sector sent since its erase;     *)
(* open are the sectors erased since the last commit.                       *)
CarType == [session  : Sessions,
            off      : SUBSET {"dtc", "comm"},
            on       : SUBSET (1 .. Slots),
            declared : Sectors \cup {NoSector},
            stage    : {"closed", "declared", "erased", "exited"},
            blocks   : SUBSET (1 .. Blocks),
            open     : SUBSET Sectors]

FreshCar == [session |-> "default", off |-> {}, on |-> {}, declared |-> NoSector,
             stage |-> "closed", blocks |-> {}, open |-> {}]

Init ==
    /\ phase = "shell" /\ cmd = [verb |-> "none"] /\ script = <<>> /\ armed = {}
    /\ code = 0 /\ worker = "none" /\ asked = FALSE
    /\ car = FreshCar /\ content = [s \in Sectors |-> "old"]
    /\ pending = {} /\ target = NoSector /\ issued = 0
    /\ acked = Nothing /\ missed = Nothing /\ stopped = "none"

-----------------------------------------------------------------------------
(* What the user asks.  The sectors the last command rewrote are old now.   *)
Issue ==
    /\ phase = "shell" /\ issued < MaxCommands
    /\ issued' = issued + 1
    /\ content' = [s \in Sectors |-> IF content[s] = "rewritten" THEN "old" ELSE content[s]]
    /\ armed' = {} /\ acked' = Nothing /\ stopped' = "none"
    /\ UNCHANGED <<worker, asked, car, job, missed>>

(* flash-delta writes the plan that reaches an image, flash-apply reads it  *)
(* and, given a profile, asks the gate.                                     *)
IssueApply ==
    /\ Issue
    /\ \E image \in Targets, layout \in BOOLEAN, options \in Applies :
         LET plan    == IF layout THEN LayoutPlan(image) ELSE UniformPlan(image, 0)
             action  == OverallAction(plan, Source, options.profile)
             passes  == options.profiled => GateAllows(action, options.reasoned)
         IN  /\ layout => ~LayoutRefuses(image)
             /\ phase' = IF passes THEN "gated" ELSE "shell"
             /\ code'  = IF passes THEN 0 ELSE 3
             /\ cmd'   = [verb |-> "gate", image |-> image, plan |-> plan, options |-> options]
    /\ UNCHANGED script

IssueOther ==
    /\ Issue
    /\ \E c \in Others : cmd' = c /\ script' = Script(c)
    /\ phase' = "running" /\ code' = 0

(* Opening the transport ends the command, or begins the requests.          *)
Open ==
    /\ phase = "gated"
    /\ cmd' = [verb |-> "apply", run |-> cmd.options.run,
               sectors |-> PlanSectors(cmd.plan, 0)]
    /\ \/ phase' = "shell" /\ code' = 1 /\ UNCHANGED script
       \/ phase' = "running" /\ script' = ApplyPrelude(cmd'.run) /\ UNCHANGED code
    /\ UNCHANGED <<armed, worker, asked, car, content, job, issued, history>>

-----------------------------------------------------------------------------
(* What the car can do of a request; it may refuse any.                     *)
Able(step) ==
    CASE step.op = "declare" -> car.session = "programming"
      [] step.op = "erase"   -> car.stage = "declared"
      [] step.op = "block"   -> car.stage = "erased"
      [] step.op = "exit"    -> car.stage = "erased"
      [] step.op = "commit"  -> car.stage = "exited"
      [] OTHER               -> TRUE

(* The car after a request it has done.                                     *)
After(step) ==
    CASE step.op \in {"dtcOff", "commOff"} ->
           [car EXCEPT !.off = @ \cup {IF step.op = "dtcOff" THEN "dtc" ELSE "comm"}]
      [] step.op \in {"dtcOn", "commOn"} ->
           [car EXCEPT !.off = @ \ {IF step.op = "dtcOn" THEN "dtc" ELSE "comm"}]
      [] step.op = "enable"  -> [car EXCEPT !.on = @ \cup {step.arg}]
      [] step.op = "disable" -> [car EXCEPT !.on = @ \ {step.arg}]
      [] step.op = "session" /\ step.arg = "programming" ->
           [car EXCEPT !.session = "programming"]
      [] step.op = "session" /\ step.arg # "programming" ->
           [car EXCEPT !.session = step.arg, !.declared = NoSector, !.stage = "closed",
                       !.blocks = {}]
      [] step.op = "declare" -> [car EXCEPT !.declared = step.arg, !.stage = "declared",
                                            !.blocks = {}]
      [] step.op = "erase"   -> [car EXCEPT !.stage = "erased", !.blocks = {},
                                            !.open = @ \cup {car.declared}]
      [] step.op = "block"   -> [car EXCEPT !.blocks = @ \cup {step.arg.index}]
      [] step.op = "exit"    -> [car EXCEPT !.stage = "exited"]
      [] step.op = "commit"  -> [car EXCEPT !.stage = "closed", !.declared = NoSector,
                                            !.blocks = {}, !.open = {}]
      [] OTHER -> car

(* And its flash: the erase names no sector, a block names its own.         *)
Flashed(step) ==
    CASE step.op = "erase" -> [content EXCEPT ![car.declared] = "broken"]
      [] step.op = "block" ->
           [content EXCEPT ![step.arg.sector] =
              IF /\ step.arg.sector = car.declared
                 /\ car.blocks \cup {step.arg.index} = 1 .. Blocks
              THEN "rewritten" ELSE "broken"]
      [] OTHER -> content

(* What the history becomes with a request.                                 *)
Acked(step, ok) ==
    CASE step.op \in {"dtcOff", "commOff"} /\ ok ->
           [acked EXCEPT !.bus = @ \cup {IF step.op = "dtcOff" THEN "dtc" ELSE "comm"}]
      [] step.op = "enable" /\ ok -> [acked EXCEPT !.slots = @ \cup {step.arg}]
      [] OTHER -> acked

Missed(step, done) ==
    LET Turned(set, thing) == IF done THEN set \ {thing} ELSE set \cup {thing}
    IN  CASE step.op = "dtcOn"   -> [missed EXCEPT !.bus = Turned(@, "dtc")]
          [] step.op = "commOn"  -> [missed EXCEPT !.bus = Turned(@, "comm")]
          [] step.op = "disable" -> [missed EXCEPT !.slots = Turned(@, step.arg)]
          [] OTHER -> missed

Stop(step) ==
    CASE step.op \in {"dtcOff", "commOff"}   -> "quieting"
      [] step.op \in {"configure", "enable"} -> "filling"
      [] OTHER -> "elsewhere"

Active == phase \in {"running", "leaving"}

LocalOps == {"armBus", "armSlots", "startWorker", "stopWorker", "joinWorker"}

(* One request and its answer.  A positive answer says it was done; no      *)
(* answer, or a refusal, says nothing (0x7F xx 0x78 reads as a refusal).    *)
Exchange ==
    /\ Active /\ script # <<>>
    /\ LET step == Head(script)
       IN  /\ step.op \notin LocalOps
           /\ \E done \in {d \in BOOLEAN : d => Able(step)},
                 reply \in {"ok", "silent", "refused"} :
                LET stops == reply \in step.stop
                IN  /\ reply = "ok" => done
                    /\ step.op = "preflight" /\ reply # "silent" =>
                         (reply = "refused" <=> car.session = "programming")
                    /\ car'     = IF done THEN After(step) ELSE car
                    /\ content' = IF done THEN Flashed(step) ELSE content
                    /\ acked'   = Acked(step, reply = "ok")
                    /\ missed'  = Missed(step, done)
                    /\ stopped' = IF stops THEN Stop(step) ELSE stopped
                    /\ phase'   = IF stops THEN "leaving" ELSE phase
                    /\ script'  = IF stops THEN Guards(armed) ELSE Tail(script)
                    /\ code'    = IF stops THEN step.code ELSE code
    /\ UNCHANGED <<cmd, armed, worker, asked, job, issued>>

Take == Active /\ script # <<>> /\ script' = Tail(script)

Arm ==
    /\ Take /\ Head(script).op \in {"armBus", "armSlots"}
    /\ armed' = armed \cup {IF Head(script).op = "armBus" THEN "bus" ELSE "slots"}
    /\ UNCHANGED <<phase, cmd, code, worker, asked, car, content, job, issued, history>>

StartWorker ==
    /\ Take /\ Head(script).op = "startWorker"
    /\ worker' = "on" /\ asked' = FALSE
    /\ UNCHANGED <<phase, cmd, armed, code, car, content, job, issued, history>>

StopWorker ==
    /\ Take /\ Head(script).op = "stopWorker"
    /\ asked' = TRUE
    /\ UNCHANGED <<phase, cmd, armed, code, worker, car, content, job, issued, history>>

(* join waits for the thread when there is one.                             *)
JoinWorker ==
    /\ Take /\ Head(script).op = "joinWorker"
    /\ worker # "on" /\ worker' = "none"
    /\ UNCHANGED <<phase, cmd, armed, code, asked, car, content, job, issued, history>>

(* The thread only refreshes the data of slots, and looks at the flag       *)
(* between two rounds.                                                      *)
WorkerEnds ==
    /\ worker = "on" /\ asked
    /\ worker' = "ended"
    /\ UNCHANGED <<phase, cmd, script, armed, code, asked, car, content, job, issued, history>>

(* The last return of the script, and the end of the guards.                *)
Return ==
    /\ phase = "running" /\ script = <<>>
    /\ phase' = "leaving" /\ script' = Guards(armed)
    /\ UNCHANGED <<cmd, armed, code, worker, asked, car, content, job, issued, history>>

Exit ==
    /\ phase = "leaving" /\ script = <<>>
    /\ phase' = "shell"
    /\ ~(cmd.verb = "apply" /\ code = 0)
    /\ UNCHANGED <<cmd, script, armed, code, worker, asked, car, content, job, issued, history>>

-----------------------------------------------------------------------------
(* Flasher::execute.                                                        *)
JobPhase ==
    IF phase \in {"entering", "executing"} THEN "busy"
    ELSE IF code = 0 THEN "done" ELSE "failed"

Job == INSTANCE FlashJob WITH phase <- JobPhase

(* The block of the requests ends, its guards with it, and execute begins.  *)
Execute ==
    /\ phase = "leaving" /\ script = <<>>
    /\ cmd.verb = "apply" /\ code = 0
    /\ phase' = "entering" /\ pending' = cmd.sectors
    /\ UNCHANGED <<cmd, script, armed, code, worker, asked, car, issued, history>>
    /\ Job!Begin

EnterProgramming ==
    /\ phase = "entering"
    /\ phase' = "executing"
    /\ car' = [car EXCEPT !.session = "programming"]
    /\ UNCHANGED <<cmd, script, armed, code, worker, asked, content, job, issued, history>>

ExecuteStep ==
    /\ phase = "executing"
    /\ UNCHANGED <<process, car, issued, history>>
    /\ Job!Choose \/ Job!Damage \/ Job!Rewrite \/ Job!Close

ExecuteDone ==
    /\ phase = "executing"
    /\ phase' = "shell" /\ code' = 0
    /\ UNCHANGED <<cmd, script, armed, worker, asked, car, issued, history>>
    /\ Job!Succeed

(* It may end with a sector negotiated.                                     *)
ExecuteFails ==
    /\ phase \in {"entering", "executing"}
    /\ phase' = "shell" /\ code' = 1
    /\ \/ UNCHANGED car
       \/ /\ target # NoSector
          /\ car' = [car EXCEPT !.declared = target, !.stage = "declared", !.blocks = {}]
    /\ UNCHANGED <<cmd, script, armed, worker, asked, issued, history>>
    /\ Job!Abort

-----------------------------------------------------------------------------
(* The session's timer runs out; the car and the adapter lose power.        *)
SessionEnds ==
    /\ phase \notin {"entering", "executing"} /\ car.session # "default"
    /\ car' = [car EXCEPT !.session = "default", !.declared = NoSector, !.stage = "closed",
                          !.blocks = {}]
    /\ UNCHANGED <<process, content, job, issued, history>>

PowerCycle ==
    /\ MayLosePower /\ phase \notin {"entering", "executing"}
    /\ car' = [FreshCar EXCEPT !.open = car.open]
    /\ missed' = Nothing
    /\ UNCHANGED <<process, content, job, issued, acked, stopped>>

Next ==
    \/ IssueApply \/ IssueOther \/ Open
    \/ Exchange \/ Arm \/ StartWorker \/ StopWorker \/ JoinWorker \/ WorkerEnds
    \/ Return \/ Exit
    \/ Execute \/ EnterProgramming \/ ExecuteStep \/ ExecuteDone \/ ExecuteFails
    \/ SessionEnds \/ PowerCycle

Spec == Init /\ [][Next]_vars

(* The command goes on while it can; its thread does.  Nothing makes the    *)
(* user, the session's timer or the battery act, and how a flash job ends   *)
(* is FlashExecute's.                                                       *)
Command == Open \/ Exchange \/ Arm \/ StartWorker \/ StopWorker \/ JoinWorker
             \/ Return \/ Exit \/ Execute

FairSpec == Spec /\ WF_vars(Command) /\ WF_vars(WorkerEnds)

-----------------------------------------------------------------------------
(* The state has its type.                                                  *)
TypeOK ==
    /\ phase \in {"shell", "gated", "running", "leaving", "entering", "executing"}
    /\ armed \subseteq {"bus", "slots"} /\ code \in {0, 1, 3}
    /\ worker \in {"none", "on", "ended"} /\ asked \in BOOLEAN
    /\ car \in CarType /\ content \in [Sectors -> {"old", "broken", "rewritten"}]
    /\ pending \subseteq Sectors /\ target \in Sectors \cup {NoSector}
    /\ issued \in 0 .. MaxCommands
    /\ {acked, missed} \subseteq [bus : SUBSET {"dtc", "comm"}, slots : SUBSET (1 .. Slots)]
    /\ stopped \in {"none", "quieting", "filling", "elsewhere"}

(* A flash that run_policy_gate lets through changes no byte of an          *)
(* engine-safety table, and none of an emissions table under a profile that *)
(* asks for a reason when none was given: the gate works on the plan, the   *)
(* sectors that flash-delta cut, not on the image.                          *)
GateSeesEveryChange ==
    phase = "gated" /\ cmd.options.profiled =>
        \A t \in Tables : \A o \in t.first .. t.past - 1 :
            Source[o] # cmd.image[o] =>
                /\ ~t.safety
                /\ t.emissions /\ OnFlash(cmd.options.profile) = "ConfirmWithReason"
                     => cmd.options.reasoned

(* What the last command turned off or on, by the car's acknowledgement,    *)
(* that is still so although the car turned back all it was asked to.       *)
LeftOff == (car.off \cap acked.bus) \ missed.bus
LeftOn  == (car.on \cap acked.slots) \ missed.slots

(* When a command is back at the shell, or flash-apply hands over to        *)
(* execute, its thread is joined and what it turned off or on has been      *)
(* turned back, wherever it stopped but on a request that turns something   *)
(* off or on: the guards are armed after the last of those.                 *)
NothingLeftOn ==
    phase \in {"shell", "entering", "executing"} =>
        /\ worker = "none"
        /\ stopped # "quieting" => LeftOff = {}
        /\ stopped # "filling" => LeftOn = {}

(* A write command with its commit, or a flash-apply, that exits with 0     *)
(* rewrote every sector it was given, and a write leaves none of them       *)
(* uncommitted.                                                             *)
SuccessHolds ==
    phase = "shell" /\ code = 0 /\ issued > 0 =>
        /\ cmd.verb = "apply" => \A s \in cmd.sectors : content[s] = "rewritten"
        /\ cmd.verb \in {"write", "restore"} /\ cmd.commit =>
             \A s \in ToSet(cmd.sectors) : content[s] = "rewritten" /\ s \notin car.open

Own == IF cmd.verb = "apply" THEN cmd.sectors
       ELSE IF cmd.verb \in {"write", "restore", "unblock"} THEN ToSet(cmd.sectors) ELSE {}

(* A command alters no sector but those it was given, whatever sector an    *)
(* earlier command left negotiated: the erase names none.                   *)
OnlyOwnSectors ==
    [][phase # "shell" => \A s \in Sectors \ Own : content'[s] = content[s]]_vars

(* What the comments say of the guards of the prelude: "Restore on every    *)
(* exit path" (also of a command that stops half way through turning things *)
(* off or on), which is when the command returns and no sooner: "bus must   *)
(* be quiet + DTC off" when execute asks for the programming session.       *)
GuardSpansCommand ==
    /\ phase = "shell" => LeftOff = {} /\ LeftOn = {}
    /\ phase = "entering" /\ cmd.run.unlock /\ cmd.run.high => car.off = {"dtc", "comm"}
=============================================================================
