--------------------------- MODULE CliFlashProofs ---------------------------
(***************************************************************************)
(* What run_policy_gate lets through, for every image size, sector size,    *)
(* layout and set of tables; and what the commands leave behind, for every  *)
(* number of commands, slots and blocks and whatever the car answers.       *)
(***************************************************************************)
EXTENDS CliFlash, TLAPS

(* What the quotient and the remainder of a division are.                   *)
LEMMA Division ==
  ASSUME NEW m \in Nat \ {0}, NEW a \in Int
  PROVE  /\ a % m \in 0 .. m - 1
         /\ a \div m \in Int
         /\ a = m * (a \div m) + (a % m)
  BY SMT

(* The sector of a byte is one of the image's, and holds it.                *)
LEMMA SectorOf ==
  ASSUME NEW o \in Offsets
  PROVE  /\ o \div SectorSize \in Sectors
         /\ o \in SectorBytes(o \div SectorSize)
<1> DEFINE k == o \div SectorSize
<1>1. o \in Int /\ SectorSize \in Nat \ {0} /\ RomSize \in Nat \ {0} /\ 0 <= o /\ o <= RomSize - 1
  BY GateAssumption DEF Offsets
<1>2. k \in Int /\ o % SectorSize \in 0 .. SectorSize - 1 /\ o = SectorSize * k + (o % SectorSize)
  BY <1>1, Division
<1>3. k * SectorSize <= o /\ o < (k + 1) * SectorSize
  BY <1>1, <1>2, SMT
<1>4. k >= 0
  BY <1>1, <1>3, SMT
<1>5. k <= (RomSize + SectorSize - 1) \div SectorSize - 1
  <2> DEFINE n == RomSize + SectorSize - 1
  <2>1. n \in Int
    BY <1>1
  <2>2. /\ n \div SectorSize \in Int /\ n % SectorSize \in 0 .. SectorSize - 1
        /\ n = SectorSize * (n \div SectorSize) + (n % SectorSize)
    BY <1>1, <2>1, Division
  <2> HIDE DEF n
  <2>3. n = RomSize + SectorSize - 1
    BY DEF n
  <2> DEFINE q == n \div SectorSize
  <2>4. q \in Int /\ SectorSize * q <= n /\ n < SectorSize * q + SectorSize
    BY <1>1, <2>1, <2>2, SMT
  <2> HIDE DEF q, k
  <2>5. SUFFICES ASSUME k > q - 1 PROVE FALSE
    BY <1>2, <2>3, <2>4, SMT DEF q, n, k
  <2>6. k >= q
    BY <1>2, <2>4, <2>5 DEF k
  <2>7. SectorSize * q <= SectorSize * k
    BY <1>1, <1>2, <2>4, <2>6, SMT DEF k
  <2>8. k * SectorSize <= RomSize - 1
    BY <1>1, <1>2, <1>3, SMT DEF k
  <2> QED
    BY <1>1, <1>2, <2>1, <2>3, <2>4, <2>7, <2>8, SMT DEF k
<1> QED
  BY <1>1, <1>2, <1>3, <1>4, <1>5 DEF Sectors, SectorBytes, Offsets

(* The write of a sector carries the image's byte at each of its offsets.   *)
LEMMA WriteHolds ==
  ASSUME NEW image \in Images, NEW o \in Offsets, NEW k \in Sectors, o \in SectorBytes(k)
  PROVE  LET w == Write(image, k, 0)
         IN  /\ o - w.address \in DOMAIN w.data
             /\ w.address + (o - w.address) = o
             /\ w.data[o - w.address] = image[o]
<1> DEFINE a == k * SectorSize
<1>1. SectorSize \in Nat \ {0} /\ RomSize \in Nat \ {0} /\ o \in Int /\ o <= RomSize - 1 /\ k \in Int
  BY GateAssumption DEF Offsets, Sectors
<1>2. a <= o /\ o < (k + 1) * SectorSize /\ a \in Int /\ (k + 1) * SectorSize = a + SectorSize
  BY <1>1, SMT DEF SectorBytes
<1>3. o - a \in 0 .. SectorLength(k) - 1
  BY <1>1, <1>2 DEF SectorLength
<1> DEFINE w == Write(image, k, 0)
<1>4. w.address = 0 + a
  BY DEF Write
<1>5. w.data = [j \in 0 .. SectorLength(k) - 1 |-> image[a + j]]
  BY DEF Write
<1> HIDE DEF a
<1>6. w.address = a /\ a + (o - a) = o
  BY <1>1, <1>2, <1>4
<1> HIDE DEF w
<1>7. o - a \in DOMAIN w.data /\ w.data[o - a] = image[o]
  BY <1>3, <1>5, <1>6
<1>8. /\ o - w.address \in DOMAIN w.data
      /\ w.address + (o - w.address) = o
      /\ w.data[o - w.address] = image[o]
  BY <1>6, <1>7
<1> QED
  BY <1>8 DEF w

(* flash-delta's plan for an image: the writes of the sectors that differ,  *)
(* of the layout or of all.                                                 *)
PlanOf(image, layout) == IF layout THEN LayoutPlan(image) ELSE UniformPlan(image, 0)

(* Every table with a changed byte is touched by the plan.                  *)
LEMMA ChangeIsTouched ==
  ASSUME NEW image \in Images, NEW layout \in BOOLEAN, layout => ~LayoutRefuses(image),
         NEW t \in Tables, NEW o \in t.first .. t.past - 1, Source[o] # image[o]
  PROVE  TouchesChanged(PlanOf(image, layout), Source, t)
<1>1. t.first \in Nat /\ t.past \in Nat /\ t.past <= RomSize /\ RomSize \in Nat
  BY GateAssumption DEF TableType
<1>2. o \in Offsets /\ t.first <= o /\ o < t.past
  BY <1>1 DEF Offsets
<1>3. o \in Changed(Source, image)
  BY <1>2 DEF Changed
<1>4. PICK k \in Sectors : o \in SectorBytes(k) /\ (layout => k \in LayoutSectors)
  <2>1. CASE layout
    BY <1>3, <2>1, GateAssumption DEF LayoutRefuses, GapChanged
  <2>2. CASE ~layout
    BY <1>2, <2>2, SectorOf
  <2> QED
    BY <2>1, <2>2
<1>5. k \in Delta(Source, image)
  BY <1>3, <1>4 DEF Delta
<1> DEFINE w == Write(image, k, 0)
<1>6. w \in PlanOf(image, layout)
  BY <1>4, <1>5 DEF PlanOf, LayoutPlan, UniformPlan, DeltaLayout
<1>7. /\ o - w.address \in DOMAIN w.data
      /\ w.address + (o - w.address) = o
      /\ w.data[o - w.address] = image[o]
  BY <1>2, <1>4, WriteHolds
<1> HIDE DEF w
<1> QED
  BY <1>2, <1>6, <1>7 DEF TouchesChanged

(* What the gate lets through is as GateSeesEveryChange says.               *)
LEMMA GateIsSound ==
  ASSUME NEW image \in Images, NEW layout \in BOOLEAN, layout => ~LayoutRefuses(image),
         NEW profile, NEW reasoned \in BOOLEAN,
         GateAllows(OverallAction(PlanOf(image, layout), Source, profile), reasoned),
         NEW t \in Tables, NEW o \in t.first .. t.past - 1, Source[o] # image[o]
  PROVE  /\ ~t.safety
         /\ t.emissions /\ OnFlash(profile) = "ConfirmWithReason" => reasoned
<1> DEFINE touched == {u \in Tables : TouchesChanged(PlanOf(image, layout), Source, u)}
           action == OverallAction(PlanOf(image, layout), Source, profile)
<1>1. t \in touched
  BY ChangeIsTouched
<1>2. action = IF \E u \in touched : u.safety THEN "Block"
               ELSE IF \E u \in touched : u.emissions THEN OnFlash(profile) ELSE "Silent"
  BY DEF OverallAction
<1>3. action # "Block"
  BY DEF GateAllows
<1> HIDE DEF touched
<1>4. ~t.safety
  BY <1>1, <1>2, <1>3
<1>5. ASSUME t.emissions, OnFlash(profile) = "ConfirmWithReason" PROVE reasoned
  <2>1. ~ \E u \in touched : u.safety
    BY <1>2, <1>3
  <2>2. action = "ConfirmWithReason"
    BY <1>1, <1>2, <1>5, <2>1
  <2> QED
    BY <2>2 DEF GateAllows
<1> QED
  BY <1>4, <1>5

(* run_policy_gate: for any images, sectors, tables and profiles, a flash   *)
(* that goes on changes no byte of an engine-safety table, and an emissions *)
(* table only as the profile allows.                                        *)
THEOREM GateHolds == Spec => []GateSeesEveryChange
<1>1. Init => GateSeesEveryChange
  BY DEF Init, GateSeesEveryChange
<1>2. GateSeesEveryChange /\ [Next]_vars => GateSeesEveryChange'
  <2> SUFFICES ASSUME GateSeesEveryChange, [Next]_vars
               PROVE  GateSeesEveryChange'
    OBVIOUS
  <2>1. CASE IssueApply
    <3>1. PICK image \in Targets, layout \in BOOLEAN, options \in Applies :
            LET plan    == IF layout THEN LayoutPlan(image) ELSE UniformPlan(image, 0)
                action  == OverallAction(plan, Source, options.profile)
                passes  == options.profiled => GateAllows(action, options.reasoned)
            IN  /\ layout => ~LayoutRefuses(image)
                /\ phase' = IF passes THEN "gated" ELSE "shell"
                /\ code'  = IF passes THEN 0 ELSE 3
                /\ cmd'   = [verb |-> "gate", image |-> image, plan |-> plan, options |-> options]
      BY <2>1 DEF IssueApply
    <3>2. SUFFICES ASSUME phase' = "gated", cmd'.options.profiled,
                          NEW t \in Tables, NEW o \in t.first .. t.past - 1,
                          Source[o] # cmd'.image[o]
                   PROVE  /\ ~t.safety
                          /\ t.emissions /\ OnFlash(cmd'.options.profile) = "ConfirmWithReason"
                               => cmd'.options.reasoned
      BY DEF GateSeesEveryChange
    <3>3. cmd'.options = options /\ cmd'.image = image
      BY <3>1
    <3>4. GateAllows(OverallAction(PlanOf(image, layout), Source, options.profile), options.reasoned)
      BY <3>1, <3>2, <3>3, Zenon DEF PlanOf
    <3>5. image \in Images
      BY CliAssumption
    <3>6. options.reasoned \in BOOLEAN
      BY CliAssumption DEF OptionsType
    <3> QED
      BY <3>1, <3>2, <3>3, <3>4, <3>5, <3>6, GateIsSound
  <2>2. CASE IssueOther
    BY <2>2 DEF IssueOther, GateSeesEveryChange
  <2>3. CASE Open
    BY <2>3 DEF Open, GateSeesEveryChange
  <2>4. CASE Exchange
    BY <2>4 DEF Exchange, Active, GateSeesEveryChange
  <2>5. CASE Arm \/ StartWorker \/ StopWorker \/ JoinWorker
    BY <2>5 DEF Arm, StartWorker, StopWorker, JoinWorker, Take, Active, GateSeesEveryChange
  <2>6. CASE WorkerEnds
    BY <2>6 DEF WorkerEnds, GateSeesEveryChange
  <2>7. CASE Return \/ Exit
    BY <2>7 DEF Return, Exit, GateSeesEveryChange
  <2>8. CASE Execute \/ EnterProgramming \/ ExecuteDone \/ ExecuteFails
    BY <2>8 DEF Execute, EnterProgramming, ExecuteDone, ExecuteFails, GateSeesEveryChange
  <2>9. CASE ExecuteStep \/ SessionEnds \/ PowerCycle \/ UNCHANGED vars
    BY <2>9 DEF ExecuteStep, SessionEnds, PowerCycle, vars, process, GateSeesEveryChange
  <2> QED
    BY <2>1, <2>2, <2>3, <2>4, <2>5, <2>6, <2>7, <2>8, <2>9 DEF Next
<1> QED
  BY <1>1, <1>2, PTL DEF Spec

-----------------------------------------------------------------------------
(* The commands.  What a running command has still to send is the end of    *)
(* its program; Done steps of it are behind.                                *)
Program == IF cmd.verb = "apply" THEN ApplyPrelude(cmd.run) ELSE Script(cmd)

Done == Len(Program) - Len(script)

(* The steps a command given the sectors own is made of.                    *)
PlainOps == {"read", "seed", "key", "preflight", "echo", "exit", "commit", "erase",
             "dtcOff", "commOff", "dtcOn", "commOn"} \cup LocalOps

StepSet(own) ==
    LET Kind(ops, args) == [op : ops, arg : args, stop : SUBSET Failures, code : {0, 1}]
    IN  Kind(PlainOps, {0})
          \cup Kind({"configure", "enable", "disable"}, 1 .. Slots)
          \cup Kind({"session"}, Sessions)
          \cup Kind({"declare"}, own)
          \cup Kind({"block"}, [sector : own, index : 1 .. Blocks])

(* The steps of the guards.                                                 *)
Undoing == {Try("dtcOn", 0), Try("commOn", 0), Try("session", "extended"),
            Local("stopWorker"), Local("joinWorker")}
             \cup {Try("disable", k) : k \in 1 .. Slots}

(* What the order of a program's steps is: the bus is turned off in two     *)
(* steps that the arming of the guard follows, a slot that is enabled has   *)
(* only slots between it and the arming, and an erase comes right after a   *)
(* negotiation.  Each of them ends the command when it fails.               *)
Ends(step) == step.stop = Failures

BusOrder(s) ==
    \A i \in 1 .. Len(s) :
        /\ s[i].op = "dtcOff"  => Ends(s[i]) /\ i < Len(s) /\ s[i + 1].op = "commOff"
        /\ s[i].op = "commOff" => Ends(s[i]) /\ i < Len(s) /\ s[i + 1].op = "armBus"

Filling(s, i) ==
    \E j \in i .. Len(s) :
        /\ s[j].op = "armSlots"
        /\ \A h \in i .. j - 1 : s[h].op \in {"configure", "enable"} /\ Ends(s[h])

SlotOrder(s) ==
    \A i \in 1 .. Len(s) : s[i].op = "enable" => Ends(s[i]) /\ Filling(s, i + 1)

EraseOrder(s) ==
    \A i \in 1 .. Len(s) :
        s[i].op = "erase" => i > 1 /\ s[i - 1].op = "declare" /\ Ends(s[i - 1])

Orderly(s) == BusOrder(s) /\ SlotOrder(s) /\ EraseOrder(s)

-----------------------------------------------------------------------------
(* The command is one the user may issue.                                   *)
ApplyOK == cmd.verb = "apply" /\ cmd.run \in RunType /\ cmd.sectors \subseteq Sectors

CommandOK ==
    /\ phase = "gated" => /\ cmd.verb = "gate" /\ cmd.options.run \in RunType
                          /\ PlanSectors(cmd.plan, 0) \subseteq Sectors
    /\ phase \in {"running", "leaving"} => ApplyOK \/ cmd \in CommandType
    /\ phase \in {"entering", "executing"} => ApplyOK

(* The script is what is left of the program, or of the guards.             *)
ScriptOK ==
    /\ phase = "running" =>
         /\ script \in Seq(StepSet(Own))
         /\ Len(script) <= Len(Program)
         /\ \A i \in 1 .. Len(script) : script[i] = Program[Done + i]
    /\ phase = "leaving" => script \in Seq(Undoing)

JobOK ==
    /\ phase \notin {"entering", "executing"} => target = NoSector
    /\ phase = "entering"  => target = NoSector /\ pending = cmd.sectors
    /\ phase = "executing" => pending \subseteq cmd.sectors /\ target \in pending \cup {NoSector}

(* Why nothing is left on.  While the program runs, nothing is off or on,   *)
(* or it is guarded, or it will be before anything can stop the command but *)
(* a failure to turn something off or on.                                   *)
BusGuarded ==
    \/ LeftOff = {}
    \/ "bus" \in armed
    \/ Done < Len(Program) /\ Program[Done + 1].op \in {"commOff", "armBus"}

SlotsGuarded ==
    LeftOn = {} \/ "slots" \in armed \/ Filling(Program, Done + 1)

(* While the guards run, a step is left that undoes what is off or on.      *)
Holds(s, op, arg) == \E i \in 1 .. Len(s) : s[i].op = op /\ s[i].arg = arg

Left(op, arg) == Holds(script, op, arg)

Undone ==
    /\ worker # "none" => Left("joinWorker", 0)
    /\ stopped # "quieting" => /\ "dtc" \in LeftOff => Left("dtcOn", 0)
                               /\ "comm" \in LeftOff => Left("commOn", 0)
    /\ stopped # "filling" => \A k \in LeftOn : Left("disable", k)

Clear ==
    /\ worker = "none"
    /\ stopped # "quieting" => LeftOff = {}
    /\ stopped # "filling" => LeftOn = {}

OnAndOff ==
    /\ phase = "running" => BusGuarded /\ SlotsGuarded
    /\ phase = "leaving" => Undone
    /\ phase \in {"shell", "gated", "entering", "executing"} => Clear
    /\ phase \in {"gated", "running"} => stopped = "none"

(* What the next erase erases.                                              *)
EraseOK ==
    phase = "running" /\ Done < Len(Program) /\ Program[Done + 1].op = "erase"
      /\ car.stage = "declared" => car.declared \in Own

Negotiated == car.stage # "closed" => car.declared \in Sectors

TypeInv == TypeOK /\ CommandOK /\ ScriptOK /\ JobOK /\ Negotiated

-----------------------------------------------------------------------------
(* Why success holds.  Done is k whole cycles and r steps of the next, or   *)
(* of the close after all of them.                                          *)
Writes == cmd.verb \in {"write", "restore"}

Progress(k, r) ==
    LET q == cmd.sectors
    IN  /\ Done = CycleLength * k + r
        /\ IF k < Len(q) THEN r < CycleLength ELSE r <= 2
        /\ \A j \in 1 .. k : \/ content[q[j]] = "rewritten"
                             \/ k < Len(q) /\ r >= 2 /\ q[j] = q[k + 1]
        /\ k < Len(q) /\ r = 1 /\ car.stage = "declared" => car.declared = q[k + 1]
        /\ k < Len(q) /\ r >= 2 /\ car.stage = "erased" =>
             car.declared = q[k + 1] /\ car.blocks = 1 .. r - 2
        /\ k = Len(q) /\ r = 2 => car.open = {}

Succeeded ==
    /\ cmd.verb = "apply" => \A s \in cmd.sectors : content[s] = "rewritten"
    /\ Writes /\ cmd.commit =>
         \A s \in ToSet(cmd.sectors) : content[s] = "rewritten" /\ s \notin car.open

SuccessInv ==
    /\ phase = "shell" /\ code = 0 /\ issued > 0 => Succeeded
    /\ phase = "leaving" /\ code = 0 /\ cmd.verb # "apply" => Succeeded
    /\ phase \in {"gated", "running"} => code = 0
    /\ phase = "running" /\ Writes =>
         \E k \in 0 .. Len(cmd.sectors), r \in Nat : Progress(k, r)
    /\ phase \in {"entering", "executing"} =>
         \A s \in cmd.sectors \ pending : content[s] = "rewritten"

-----------------------------------------------------------------------------
(* What a step of a program is.                                             *)
LEMMA StepFacts ==
  ASSUME NEW own, NEW x \in StepSet(own)
  PROVE  /\ x.op \in PlainOps \cup {"configure", "enable", "disable", "session", "declare", "block"}
         /\ x.stop \subseteq Failures /\ x.code \in {0, 1}
         /\ x.op \in {"configure", "enable", "disable"} => x.arg \in 1 .. Slots
         /\ x.op = "session" => x.arg \in Sessions
         /\ x.op = "declare" => x.arg \in own
         /\ x.op = "block" => x.arg.sector \in own /\ x.arg.index \in 1 .. Blocks
  BY DEF StepSet, PlainOps, LocalOps

(* And which steps are ones.                                                *)
LEMMA StepsOf ==
  ASSUME NEW own
  PROVE  /\ \A op \in PlainOps : Must(op, 0) \in StepSet(own) /\ Try(op, 0) \in StepSet(own)
                                   /\ InLine(op, 0) \in StepSet(own) /\ Local(op) \in StepSet(own)
         /\ \A op \in PlainOps, stop \in SUBSET Failures, c \in {0, 1} :
              Step(op, 0, stop, c) \in StepSet(own)
         /\ \A op \in {"configure", "enable", "disable"}, k \in 1 .. Slots :
              Must(op, k) \in StepSet(own) /\ Try(op, k) \in StepSet(own)
         /\ \A m \in Sessions : Must("session", m) \in StepSet(own) /\ Try("session", m) \in StepSet(own)
         /\ \A s \in own, c \in {0, 1} : Step("declare", s, Failures, c) \in StepSet(own)
         /\ \A s \in own, b \in 1 .. Blocks, c \in {0, 1} :
              Step("block", [sector |-> s, index |-> b], Failures, c) \in StepSet(own)
<1> USE DEF Must, Try, InLine, Local, Step, StepSet, Failures
<1>1. \A op \in PlainOps, stop \in SUBSET Failures, c \in {0, 1} :
        Step(op, 0, stop, c) \in StepSet(own)
  OBVIOUS
<1>2. \A op \in PlainOps : Must(op, 0) \in StepSet(own) /\ Try(op, 0) \in StepSet(own)
                                   /\ InLine(op, 0) \in StepSet(own) /\ Local(op) \in StepSet(own)
  OBVIOUS
<1>3. \A op \in {"configure", "enable", "disable"}, k \in 1 .. Slots :
              Must(op, k) \in StepSet(own) /\ Try(op, k) \in StepSet(own)
  OBVIOUS
<1>4. \A m \in Sessions : Must("session", m) \in StepSet(own) /\ Try("session", m) \in StepSet(own)
  OBVIOUS
<1>5. \A s \in own, c \in {0, 1} : Step("declare", s, Failures, c) \in StepSet(own)
  OBVIOUS
<1>6. \A s \in own, b \in 1 .. Blocks, c \in {0, 1} :
              Step("block", [sector |-> s, index |-> b], Failures, c) \in StepSet(own)
  OBVIOUS
<1> QED
  BY <1>1, <1>2, <1>3, <1>4, <1>5, <1>6

(* Programs, and the parts of programs.                                     *)
Piece(own) == {s \in Seq(StepSet(own)) : Orderly(s)}

(* The elements of a concatenation.                                         *)
LEMMA Joined ==
  ASSUME NEW S, NEW s \in Seq(S), NEW t \in Seq(S)
  PROVE  /\ s \o t \in Seq(S) /\ Len(s \o t) = Len(s) + Len(t)
         /\ Len(s) \in Nat /\ Len(t) \in Nat
         /\ \A i \in 1 .. Len(s) : (s \o t)[i] = s[i]
         /\ \A i \in 1 .. Len(t) : (s \o t)[Len(s) + i] = t[i]
  OBVIOUS

LEMMA PieceConcat ==
  ASSUME NEW own, NEW s \in Piece(own), NEW t \in Piece(own)
  PROVE  s \o t \in Piece(own)
<1> DEFINE u == s \o t
<1>1. s \in Seq(StepSet(own)) /\ t \in Seq(StepSet(own))
  BY DEF Piece
<1>2. /\ u \in Seq(StepSet(own)) /\ Len(u) = Len(s) + Len(t) /\ Len(s) \in Nat /\ Len(t) \in Nat
      /\ \A i \in 1 .. Len(s) : u[i] = s[i]
      /\ \A i \in 1 .. Len(t) : u[Len(s) + i] = t[i]
  BY <1>1, Joined
<1> HIDE DEF u
<1>0. Len(s) \in Nat /\ Len(t) \in Nat /\ Len(u) = Len(s) + Len(t)
  BY <1>2
<1>3. \A i \in 1 .. Len(u) :
        \/ i \in 1 .. Len(s) /\ u[i] = s[i]
        \/ i - Len(s) \in 1 .. Len(t) /\ u[i] = t[i - Len(s)]
  <2> SUFFICES ASSUME NEW i \in 1 .. Len(u), i \notin 1 .. Len(s)
               PROVE  i - Len(s) \in 1 .. Len(t) /\ u[i] = t[i - Len(s)]
    BY <1>2
  <2>1. i - Len(s) \in 1 .. Len(t) /\ Len(s) + (i - Len(s)) = i
    BY <1>2
  <2> QED
    BY <1>2, <2>1
<1>4. BusOrder(u)
  <2> SUFFICES ASSUME NEW i \in 1 .. Len(u)
               PROVE  /\ u[i].op = "dtcOff"  => Ends(u[i]) /\ i < Len(u) /\ u[i + 1].op = "commOff"
                      /\ u[i].op = "commOff" => Ends(u[i]) /\ i < Len(u) /\ u[i + 1].op = "armBus"
    BY DEF BusOrder
  <2>1. CASE i \in 1 .. Len(s) /\ u[i] = s[i]
    <3>1. i < Len(s) => i + 1 \in 1 .. Len(s) /\ u[i + 1] = s[i + 1]
      BY <1>2, <2>1
    <3>2. /\ s[i].op = "dtcOff"  => Ends(s[i]) /\ i < Len(s) /\ s[i + 1].op = "commOff"
          /\ s[i].op = "commOff" => Ends(s[i]) /\ i < Len(s) /\ s[i + 1].op = "armBus"
      BY <2>1 DEF Piece, Orderly, BusOrder
    <3>3. i < Len(s) => i < Len(u)
      BY <1>2, <2>1
    <3> QED
      BY <2>1, <3>1, <3>2, <3>3
  <2>2. CASE i - Len(s) \in 1 .. Len(t) /\ u[i] = t[i - Len(s)]
    <3> DEFINE h == i - Len(s)
    <3>1. h < Len(t) => h + 1 \in 1 .. Len(t) /\ Len(s) + (h + 1) = i + 1 /\ i < Len(u)
      BY <1>2, <2>2
    <3>2. h < Len(t) => u[i + 1] = t[h + 1] /\ i < Len(u)
      BY <1>2, <3>1
    <3>3. /\ t[h].op = "dtcOff"  => Ends(t[h]) /\ h < Len(t) /\ t[h + 1].op = "commOff"
          /\ t[h].op = "commOff" => Ends(t[h]) /\ h < Len(t) /\ t[h + 1].op = "armBus"
      BY <2>2 DEF Piece, Orderly, BusOrder
    <3> QED
      BY <2>2, <3>2, <3>3
  <2> QED
    BY <1>3, <2>1, <2>2
<1>5. EraseOrder(u)
  <2> SUFFICES ASSUME NEW i \in 1 .. Len(u), u[i].op = "erase"
               PROVE  i > 1 /\ u[i - 1].op = "declare" /\ Ends(u[i - 1])
    BY DEF EraseOrder
  <2>1. CASE i \in 1 .. Len(s) /\ u[i] = s[i]
    <3>1. i > 1 /\ s[i - 1].op = "declare" /\ Ends(s[i - 1])
      BY <2>1 DEF Piece, Orderly, EraseOrder
    <3>2. i - 1 \in 1 .. Len(s)
      BY <1>2, <2>1, <3>1
    <3> QED
      BY <1>2, <3>1, <3>2
  <2>2. CASE i - Len(s) \in 1 .. Len(t) /\ u[i] = t[i - Len(s)]
    <3> DEFINE h == i - Len(s)
    <3>1. h > 1 /\ t[h - 1].op = "declare" /\ Ends(t[h - 1])
      BY <2>2 DEF Piece, Orderly, EraseOrder
    <3> HIDE DEF h
    <3>2. h - 1 \in 1 .. Len(t) /\ Len(s) + (h - 1) = i - 1 /\ i > 1
      BY <1>0, <2>2, <3>1 DEF h
    <3>3. u[i - 1] = t[h - 1]
      BY <1>2, <3>2
    <3> QED
      BY <3>1, <3>2, <3>3
  <2> QED
    BY <1>3, <2>1, <2>2
<1>6. SlotOrder(u)
  <2> SUFFICES ASSUME NEW i \in 1 .. Len(u), u[i].op = "enable"
               PROVE  Ends(u[i]) /\ Filling(u, i + 1)
    BY DEF SlotOrder
  <2>1. CASE i \in 1 .. Len(s) /\ u[i] = s[i]
    <3>1. Ends(s[i]) /\ Filling(s, i + 1)
      BY <2>1 DEF Piece, Orderly, SlotOrder
    <3>2. PICK j \in i + 1 .. Len(s) :
            /\ s[j].op = "armSlots"
            /\ \A h \in i + 1 .. j - 1 : s[h].op \in {"configure", "enable"} /\ Ends(s[h])
      BY <3>1 DEF Filling
    <3>3. j \in 1 .. Len(s) /\ j \in i + 1 .. Len(u) /\ \A h \in i + 1 .. j - 1 : h \in 1 .. Len(s)
      BY <1>2
    <3>4. Filling(u, i + 1)
      BY <1>2, <3>2, <3>3 DEF Filling
    <3> QED
      BY <2>1, <3>1, <3>4
  <2>2. CASE i - Len(s) \in 1 .. Len(t) /\ u[i] = t[i - Len(s)]
    <3> DEFINE g == i - Len(s)
    <3>1. Ends(t[g]) /\ Filling(t, g + 1)
      BY <2>2 DEF Piece, Orderly, SlotOrder
    <3>2. PICK j \in g + 1 .. Len(t) :
            /\ t[j].op = "armSlots"
            /\ \A h \in g + 1 .. j - 1 : t[h].op \in {"configure", "enable"} /\ Ends(t[h])
      BY <3>1 DEF Filling
    <3>3. /\ j \in 1 .. Len(t) /\ Len(s) + j \in i + 1 .. Len(u)
          /\ \A h \in i + 1 .. Len(s) + j - 1 :
               /\ h - Len(s) \in 1 .. Len(t) /\ h - Len(s) \in g + 1 .. j - 1
               /\ Len(s) + (h - Len(s)) = h
      BY <1>2, <2>2
    <3>4. u[Len(s) + j] = t[j] /\ \A h \in i + 1 .. Len(s) + j - 1 : u[h] = t[h - Len(s)]
      BY <1>2, <3>3
    <3>5. \A h \in i + 1 .. Len(s) + j - 1 : u[h].op \in {"configure", "enable"} /\ Ends(u[h])
      BY <3>2, <3>3, <3>4
    <3>6. Filling(u, i + 1)
      <4> DEFINE m == Len(s) + j
      <4>1. m \in i + 1 .. Len(u) /\ u[m].op = "armSlots"
        BY <3>2, <3>3, <3>4
      <4>2. \A h \in i + 1 .. m - 1 : u[h].op \in {"configure", "enable"} /\ Ends(u[h])
        BY <3>5
      <4> HIDE DEF m
      <4> QED
        BY <4>1, <4>2, Zenon DEF Filling
    <3> QED
      BY <2>2, <3>1, <3>6
  <2> QED
    BY <1>3, <2>1, <2>2
<1> QED
  BY <1>2, <1>4, <1>5, <1>6 DEF Piece, Orderly, u

(* A part without one of the four steps the order is about is one.          *)
LEMMA PlainPiece ==
  ASSUME NEW own, NEW s \in Seq(StepSet(own)),
         \A i \in 1 .. Len(s) : s[i].op \notin {"dtcOff", "commOff", "enable", "erase"}
  PROVE  s \in Piece(own)
  BY DEF Piece, Orderly, BusOrder, SlotOrder, EraseOrder

LEMMA OptPiece ==
  ASSUME NEW own, NEW condition, NEW s, condition => s \in Piece(own)
  PROVE  Opt(condition, s) \in Piece(own)
<1>1. <<>> \in Seq(StepSet(own)) /\ Len(<<>>) = 0
  OBVIOUS
<1>2. \A i \in 1 .. Len(<<>>) : <<>>[i].op \notin {"dtcOff", "commOff", "enable", "erase"}
  BY <1>1
<1>3. <<>> \in Piece(own)
  BY <1>1, <1>2, PlainPiece, Zenon
<1> QED
  BY <1>3 DEF Opt

LEMMA FillSlotsPiece ==
  ASSUME NEW own
  PROVE  FillSlots \in Piece(own)
<1> DEFINE e == [i \in 1 .. 2 * Slots |-> IF i % 2 = 1 THEN Must("configure", (i + 1) \div 2)
                                                      ELSE Must("enable", i \div 2)]
           u == e \o <<Local("armSlots")>>
<1>1. Slots \in Nat /\ 2 * Slots \in Nat
  BY VerbAssumption
<1>2. \A i \in 1 .. 2 * Slots : /\ i % 2 = 1 => (i + 1) \div 2 \in 1 .. Slots
                               /\ i % 2 # 1 => i \div 2 \in 1 .. Slots
  BY <1>1, SMT
<1>3. \A i \in 1 .. 2 * Slots : e[i] \in StepSet(own)
  <2>1. \A k \in 1 .. Slots : Must("configure", k) \in StepSet(own) /\ Must("enable", k) \in StepSet(own)
    BY StepsOf
  <2>2. ASSUME NEW i \in 1 .. 2 * Slots PROVE e[i] \in StepSet(own)
    <3>1. CASE i % 2 = 1
      <4>1. e[i] = Must("configure", (i + 1) \div 2)
        BY <3>1, Zenon
      <4>2. (i + 1) \div 2 \in 1 .. Slots
        BY <1>1, <3>1, SMT
      <4> QED
        BY <2>1, <4>1, <4>2, Zenon
    <3>2. CASE i % 2 # 1
      <4>1. e[i] = Must("enable", i \div 2) /\ i \div 2 \in 1 .. Slots
        BY <1>2, <3>2
      <4> QED
        BY <2>1, <4>1, Zenon
    <3> QED
      BY <3>1, <3>2
  <2> QED
    BY <2>2
<1>4. e \in Seq(StepSet(own)) /\ Len(e) = 2 * Slots
  BY <1>1, <1>3
<1>5. \A i \in 1 .. 2 * Slots : e[i].op \in {"configure", "enable"} /\ Ends(e[i])
  BY DEF Must, Step, Ends
<1>6. <<Local("armSlots")>> \in Seq(StepSet(own)) /\ Len(<<Local("armSlots")>>) = 1
      /\ <<Local("armSlots")>>[1].op = "armSlots"
  <2>1. Local("armSlots") \in StepSet(own)
    BY StepsOf DEF PlainOps, LocalOps
  <2> QED
    BY <2>1 DEF Local, Step
<1>7. /\ u \in Seq(StepSet(own)) /\ Len(u) = 2 * Slots + 1
      /\ \A i \in 1 .. 2 * Slots : u[i] = e[i]
      /\ u[2 * Slots + 1] = <<Local("armSlots")>>[1]
  <2> HIDE DEF e
  <2> QED
    BY <1>1, <1>4, <1>6, Joined
<1> HIDE DEF u, e
<1>8. \A i \in 1 .. Len(u) :
        \/ i \in 1 .. 2 * Slots /\ u[i].op \in {"configure", "enable"} /\ Ends(u[i])
        \/ i = 2 * Slots + 1 /\ u[i].op = "armSlots"
  BY <1>1, <1>5, <1>6, <1>7
<1>9. BusOrder(u) /\ EraseOrder(u)
  BY <1>8 DEF BusOrder, EraseOrder
<1>10. SlotOrder(u)
  <2> SUFFICES ASSUME NEW i \in 1 .. Len(u), u[i].op = "enable"
               PROVE  Ends(u[i]) /\ Filling(u, i + 1)
    BY DEF SlotOrder
  <2>1. i \in 1 .. 2 * Slots /\ Ends(u[i])
    BY <1>8
  <2>2. 2 * Slots + 1 \in i + 1 .. Len(u) /\ u[2 * Slots + 1].op = "armSlots"
    BY <1>1, <1>6, <1>7, <2>1
  <2>3. \A h \in i + 1 .. 2 * Slots + 1 - 1 : h \in 1 .. Len(u) /\ h # 2 * Slots + 1
    BY <1>1, <1>7, <2>1
  <2> QED
    BY <1>8, <2>1, <2>2, <2>3 DEF Filling
<1> QED
  BY <1>7, <1>9, <1>10 DEF Piece, Orderly, FillSlots, u, e

LEMMA ClearSlotsPiece ==
  ASSUME NEW own
  PROVE  ClearSlots \in Piece(own)
<1>1. Slots \in Nat
  BY VerbAssumption
<1>2. ClearSlots \in Seq(StepSet(own)) /\ Len(ClearSlots) = Slots
  BY <1>1, StepsOf DEF ClearSlots
<1>3. \A i \in 1 .. Len(ClearSlots) : ClearSlots[i].op = "disable"
  BY <1>2 DEF ClearSlots, Try, Step
<1> QED
  BY <1>2, <1>3, PlainPiece

LEMMA BusPreludePiece ==
  ASSUME NEW own
  PROVE  BusPrelude \in Piece(own)
<1> DEFINE a == <<Must("read", 0), Must("session", "default"), Must("session", "extended"),
                  Must("session", "extended")>>
           b == <<Must("dtcOff", 0), Must("commOff", 0)>>
           c == <<Local("armBus")>>
<1>1. a \in Piece(own)
  <2>1. a \in Seq(StepSet(own)) /\ Len(a) = 4
    BY StepsOf DEF PlainOps, LocalOps, Sessions
  <2>2. \A i \in 1 .. 4 : a[i].op \in {"read", "session"}
    BY DEF Must, Step
  <2> HIDE DEF a
  <2> QED
    BY <2>1, <2>2, PlainPiece
<1>2. b \o c \in Piece(own)
  <2> DEFINE u == b \o c
  <2>1. /\ b \in Seq(StepSet(own)) /\ Len(b) = 2
        /\ c \in Seq(StepSet(own)) /\ Len(c) = 1
    BY StepsOf DEF PlainOps, LocalOps
  <2>2. /\ b[1].op = "dtcOff" /\ b[1].stop = Failures /\ b[2].op = "commOff"
        /\ b[2].stop = Failures /\ c[1].op = "armBus"
    BY DEF Must, Local, Step
  <2> HIDE DEF b, c
  <2>0. \A x, y \in Seq(StepSet(own)) :
          /\ x \o y \in Seq(StepSet(own)) /\ Len(x \o y) = Len(x) + Len(y)
          /\ \A i \in 1 .. Len(x) : (x \o y)[i] = x[i]
          /\ \A i \in 1 .. Len(y) : (x \o y)[Len(x) + i] = y[i]
    BY Joined
  <2>3. /\ u \in Seq(StepSet(own)) /\ Len(u) = Len(b) + Len(c)
        /\ \A i \in 1 .. Len(b) : u[i] = b[i]
        /\ \A i \in 1 .. Len(c) : u[Len(b) + i] = c[i]
    BY <2>0, <2>1, Zenon
  <2> HIDE DEF u
  <2>4. Len(u) = 3 /\ u[1] = b[1] /\ u[2] = b[2] /\ u[3] = c[1]
    BY <2>1, <2>3
  <2>5. \A i \in 1 .. 3 : i = 1 \/ i = 2 \/ i = 3
    OBVIOUS
  <2>6. BusOrder(u)
    BY <2>2, <2>4, <2>5 DEF BusOrder, Ends
  <2>7. SlotOrder(u) /\ EraseOrder(u)
    BY <2>2, <2>4, <2>5 DEF SlotOrder, EraseOrder
  <2>8. u \in Piece(own)
    BY <2>3, <2>6, <2>7, Zenon DEF Piece, Orderly
  <2> QED
    BY <2>8, Zenon DEF u
<1>3. a \o (b \o c) \in Piece(own)
  BY <1>1, <1>2, PieceConcat
<1>4. BusPrelude = (a \o b) \o c
  BY DEF BusPrelude, Quiet
<1>5. (a \o b) \o c = a \o (b \o c)
  OBVIOUS
<1> QED
  BY <1>3, <1>4, <1>5

LEMMA SectorCyclePiece ==
  ASSUME NEW own, NEW s \in own, NEW failed \in {0, 1}
  PROVE  /\ SectorCycle(s, failed) \in Piece(own)
         /\ Len(SectorCycle(s, failed)) = Blocks + 2
         /\ SectorCycle(s, failed)[1] = Step("declare", s, Failures, failed)
         /\ SectorCycle(s, failed)[2] = Step("erase", 0, Failures, failed)
         /\ \A b \in 1 .. Blocks :
              SectorCycle(s, failed)[b + 2]
                = Step("block", [sector |-> s, index |-> b], Failures, failed)
<1> DEFINE a == <<Step("declare", s, Failures, failed), Step("erase", 0, Failures, failed)>>
           b == [i \in 1 .. Blocks |-> Step("block", [sector |-> s, index |-> i], Failures, failed)]
           u == a \o b
<1>1. Blocks \in Nat \ {0}
  BY VerbAssumption
<1>2. a \in Seq(StepSet(own)) /\ Len(a) = 2
  BY StepsOf DEF PlainOps, LocalOps, Failures
<1>3. b \in Seq(StepSet(own)) /\ Len(b) = Blocks
  BY <1>1, StepsOf
<1>4. a[1] = Step("declare", s, Failures, failed) /\ a[2] = Step("erase", 0, Failures, failed)
  OBVIOUS
<1>5. \A i \in 1 .. Blocks : b[i] = Step("block", [sector |-> s, index |-> i], Failures, failed)
  OBVIOUS
<1> HIDE DEF a, b
<1>6. /\ u \in Seq(StepSet(own)) /\ Len(u) = Blocks + 2
      /\ u[1] = a[1] /\ u[2] = a[2]
      /\ \A i \in 1 .. Blocks : u[2 + i] = b[i]
  <2>0. \A x, y \in Seq(StepSet(own)) :
          /\ x \o y \in Seq(StepSet(own)) /\ Len(x \o y) = Len(x) + Len(y)
          /\ \A i \in 1 .. Len(x) : (x \o y)[i] = x[i]
          /\ \A i \in 1 .. Len(y) : (x \o y)[Len(x) + i] = y[i]
    BY Joined
  <2>1. /\ u \in Seq(StepSet(own)) /\ Len(u) = Len(a) + Len(b)
        /\ \A i \in 1 .. Len(a) : u[i] = a[i]
        /\ \A i \in 1 .. Len(b) : u[Len(a) + i] = b[i]
    BY <2>0, <1>2, <1>3, Zenon
  <2> HIDE DEF u
  <2> QED
    BY <1>1, <1>2, <1>3, <2>1
<1> HIDE DEF u
<1>7. u = SectorCycle(s, failed)
  BY DEF SectorCycle, u, a, b
<1>8. /\ u[1] = Step("declare", s, Failures, failed)
      /\ u[2] = Step("erase", 0, Failures, failed)
      /\ \A i \in 1 .. Blocks : i + 2 = 2 + i
                               /\ u[i + 2] = Step("block", [sector |-> s, index |-> i], Failures, failed)
  BY <1>1, <1>4, <1>5, <1>6
<1>9. \A i \in 1 .. Len(u) : i = 1 \/ i = 2 \/ (i - 2 \in 1 .. Blocks /\ u[i].op = "block")
  <2> SUFFICES ASSUME NEW i \in 1 .. Len(u), i # 1, i # 2
               PROVE  i - 2 \in 1 .. Blocks /\ u[i].op = "block"
    OBVIOUS
  <2>1. i - 2 \in 1 .. Blocks /\ (i - 2) + 2 = i
    BY <1>1, <1>6
  <2>2. u[(i - 2) + 2] = Step("block", [sector |-> s, index |-> i - 2], Failures, failed)
    BY <1>8, <2>1
  <2> QED
    BY <2>1, <2>2 DEF Step
<1>10. u[1].op = "declare" /\ u[1].stop = Failures /\ u[2].op = "erase"
  BY <1>8 DEF Step
<1>11. BusOrder(u) /\ SlotOrder(u) /\ EraseOrder(u)
  BY <1>9, <1>10 DEF BusOrder, SlotOrder, EraseOrder, Ends
<1>12. u \in Piece(own)
  BY <1>6, <1>11 DEF Piece, Orderly
<1> QED
  BY <1>6, <1>7, <1>8, <1>12

(* Where a step of the cycles is.                                           *)
LEMMA CycleIndex ==
  ASSUME NEW n \in Nat, NEW i \in 1 .. n * CycleLength
  PROVE  /\ (i - 1) \div CycleLength \in 0 .. n - 1
         /\ (i - 1) % CycleLength \in 0 .. CycleLength - 1
         /\ i = CycleLength * ((i - 1) \div CycleLength) + ((i - 1) % CycleLength) + 1
<1> DEFINE C == CycleLength
<1>1. C \in Nat /\ C >= 3
  BY VerbAssumption DEF CycleLength
<1> HIDE DEF C
<1>2. n * C \in Nat /\ i \in Int /\ i - 1 \in Int
  BY <1>1, SMT DEF C
<1> DEFINE k == (i - 1) \div C
           r == (i - 1) % C
<1>3. r \in 0 .. C - 1 /\ k \in Int /\ i - 1 = C * k + r
  BY <1>1, <1>2, Division
<1> HIDE DEF k, r
<1>4. 0 <= i - 1 /\ i - 1 < n * C
  BY <1>2 DEF C
<1>5. ~ (k <= -1)
  <2> SUFFICES ASSUME k <= -1 PROVE FALSE
    OBVIOUS
  <2>1. C * k <= C * (-1)
    BY <1>1, <1>3, SMT
  <2> QED
    BY <1>1, <1>2, <1>3, <1>4, <2>1, SMT
<1>6. ~ (k >= n)
  <2> SUFFICES ASSUME k >= n PROVE FALSE
    OBVIOUS
  <2>1. C * k >= n * C
    BY <1>1, <1>3, SMT
  <2> QED
    BY <1>1, <1>2, <1>3, <1>4, <2>1, SMT
<1>7. C * k \in Int
  BY <1>1, <1>3, SMT
<1>8. k \in 0 .. n - 1 /\ r \in 0 .. C - 1 /\ i = C * k + r + 1
  BY <1>1, <1>2, <1>3, <1>5, <1>6, <1>7
<1> QED
  BY <1>8 DEF k, r, C

LEMMA CycleStep ==
  ASSUME NEW n \in Nat, NEW k \in 0 .. n - 1, NEW r \in 0 .. CycleLength - 1
  PROVE  /\ CycleLength * k + r + 1 \in 1 .. n * CycleLength
         /\ (CycleLength * k + r) \div CycleLength = k
         /\ (CycleLength * k + r) % CycleLength = r
<1> DEFINE C == CycleLength
<1>1. C \in Nat /\ C >= 3
  BY VerbAssumption DEF CycleLength
<1> HIDE DEF C
<1>2. r \in 0 .. C - 1 /\ k \in Int /\ k >= 0 /\ k + 1 <= n /\ C * k \in Int /\ C * k >= 0
  BY <1>1, SMT DEF C
<1>3. C * k + C <= n * C
  <2>1. C * (k + 1) <= C * n
    BY <1>1, <1>2, SMT
  <2> QED
    BY <1>1, <1>2, <2>1, SMT
<1>4. C * k + r + 1 \in 1 .. n * C
  BY <1>1, <1>2, <1>3, SMT
<1> DEFINE a == C * k + r
<1>5. a \in Int /\ 0 <= a /\ a < n * C
  BY <1>1, <1>2, <1>4, SMT
<1> HIDE DEF a
<1>6. a % C \in 0 .. C - 1 /\ a \div C \in Int /\ a = C * (a \div C) + (a % C)
  BY <1>1, <1>5, Division
<1> DEFINE x == a \div C
<1> HIDE DEF x
<1>7. a % C \in 0 .. C - 1 /\ x \in Int /\ a = C * x + (a % C) /\ C * x \in Int
  BY <1>1, <1>6, SMT DEF x
<1>8. ~ (x <= k - 1)
  <2> SUFFICES ASSUME x <= k - 1 PROVE FALSE
    OBVIOUS
  <2>1. C * x <= C * (k - 1)
    BY <1>1, <1>2, <1>7, SMT
  <2> QED
    BY <1>1, <1>2, <1>7, <2>1, SMT DEF a
<1>9. ~ (x >= k + 1)
  <2> SUFFICES ASSUME x >= k + 1 PROVE FALSE
    OBVIOUS
  <2>1. C * x >= C * (k + 1)
    BY <1>1, <1>2, <1>7, SMT
  <2> QED
    BY <1>1, <1>2, <1>7, <2>1, SMT DEF a
<1>10. x = k
  BY <1>2, <1>7, <1>8, <1>9
<1>11. a % C = r
  BY <1>2, <1>7, <1>10 DEF a
<1> QED
  BY <1>4, <1>10, <1>11 DEF x, a, C

LEMMA SectorwiseIs ==
  ASSUME NEW own, NEW q \in Seq(own)
  PROVE  /\ Sectorwise(q) \in Seq(StepSet(own))
         /\ Len(Sectorwise(q)) = Len(q) * CycleLength
         /\ \A k \in 0 .. Len(q) - 1, r \in 0 .. CycleLength - 1 :
              Sectorwise(q)[CycleLength * k + r + 1] = SectorCycle(q[k + 1], 1)[r + 1]
<1>1. Len(q) \in Nat /\ CycleLength \in Nat /\ CycleLength = Blocks + 2 /\ Len(q) * CycleLength \in Nat
  <2>1. Len(q) \in Nat /\ CycleLength \in Nat /\ CycleLength = Blocks + 2
    BY VerbAssumption DEF CycleLength
  <2> QED
    BY <2>1, SMT
<1>2. \A k \in 0 .. Len(q) - 1, r \in 0 .. CycleLength - 1 :
        SectorCycle(q[k + 1], 1)[r + 1] \in StepSet(own)
  <2> TAKE k \in 0 .. Len(q) - 1, r \in 0 .. CycleLength - 1
  <2>1. q[k + 1] \in own /\ 1 \in {0, 1}
    BY <1>1
  <2>2. SectorCycle(q[k + 1], 1) \in Seq(StepSet(own)) /\ Len(SectorCycle(q[k + 1], 1)) = CycleLength
    BY <1>1, <2>1, SectorCyclePiece DEF Piece
  <2>3. r + 1 \in 1 .. CycleLength
    BY <1>1
  <2> QED
    BY <2>2, <2>3
<1>3. \A i \in 1 .. Len(q) * CycleLength :
        SectorCycle(q[(i - 1) \div CycleLength + 1], 1)[((i - 1) % CycleLength) + 1] \in StepSet(own)
  BY <1>1, <1>2, CycleIndex
<1>4. Sectorwise(q) \in Seq(StepSet(own)) /\ Len(Sectorwise(q)) = Len(q) * CycleLength
  <2> DEFINE n == Len(q) * CycleLength
             e(i) == SectorCycle(q[(i - 1) \div CycleLength + 1], 1)[((i - 1) % CycleLength) + 1]
  <2>1. \A i \in 1 .. n : e(i) \in StepSet(own)
    BY <1>3
  <2>2. Sectorwise(q) = [i \in 1 .. n |-> e(i)]
    BY DEF Sectorwise
  <2>3. n \in Nat
    BY <1>1
  <2> HIDE DEF n, e
  <2>4. Sectorwise(q) \in Seq(StepSet(own)) /\ Len(Sectorwise(q)) = n
    BY <2>1, <2>2, <2>3
  <2> QED
    BY <2>4 DEF n
<1>5. ASSUME NEW k \in 0 .. Len(q) - 1, NEW r \in 0 .. CycleLength - 1
      PROVE  Sectorwise(q)[CycleLength * k + r + 1] = SectorCycle(q[k + 1], 1)[r + 1]
  <2> DEFINE i == CycleLength * k + r + 1
  <2>1. /\ i \in 1 .. Len(q) * CycleLength
        /\ (CycleLength * k + r) \div CycleLength = k /\ (CycleLength * k + r) % CycleLength = r
    BY <1>1, CycleStep
  <2>2. CycleLength * k \in Int
    BY <1>1, SMT
  <2>3. i - 1 = CycleLength * k + r
    BY <1>1, <2>2
  <2>4. Sectorwise(q)[i] = SectorCycle(q[(i - 1) \div CycleLength + 1], 1)[((i - 1) % CycleLength) + 1]
    <3> HIDE DEF i
    <3> QED
      BY <2>1 DEF Sectorwise
  <2> QED
    BY <2>1, <2>3, <2>4
<1> QED
  BY <1>4, <1>5

LEMMA SectorwisePiece ==
  ASSUME NEW own, NEW q \in Seq(own)
  PROVE  /\ Sectorwise(q) \in Piece(own)
         /\ \A i \in 1 .. Len(Sectorwise(q)) : Ends(Sectorwise(q)[i]) /\ Sectorwise(q)[i].code = 1
<1> DEFINE u == Sectorwise(q)
           C == CycleLength
<1>1. /\ u \in Seq(StepSet(own)) /\ Len(u) = Len(q) * C
      /\ \A k \in 0 .. Len(q) - 1, r \in 0 .. C - 1 : u[C * k + r + 1] = SectorCycle(q[k + 1], 1)[r + 1]
      /\ Len(q) \in Nat /\ C \in Nat /\ C = Blocks + 2 /\ C >= 3
  <2>1. Len(q) \in Nat /\ C \in Nat /\ C = Blocks + 2 /\ C >= 3
    BY VerbAssumption DEF CycleLength
  <2> QED
    BY <2>1, SectorwiseIs
<1> HIDE DEF C, u
<1>0. Len(q) \in Nat /\ C \in Nat /\ C = Blocks + 2 /\ C >= 3 /\ Blocks \in Nat
  BY <1>1, VerbAssumption
<1>2. ASSUME NEW k \in 0 .. Len(q) - 1, NEW r \in 0 .. C - 1
      PROVE  /\ r = 0 => u[C * k + r + 1].op = "declare"
             /\ r = 1 => u[C * k + r + 1].op = "erase"
             /\ r >= 2 => u[C * k + r + 1].op = "block"
             /\ Ends(u[C * k + r + 1]) /\ u[C * k + r + 1].code = 1
  <2> DEFINE v == SectorCycle(q[k + 1], 1)
  <2>1. q[k + 1] \in own /\ 1 \in {0, 1}
    BY <1>1
  <2>2. /\ v[1] = Step("declare", q[k + 1], Failures, 1) /\ v[2] = Step("erase", 0, Failures, 1)
        /\ \A b \in 1 .. Blocks : v[b + 2] = Step("block", [sector |-> q[k + 1], index |-> b], Failures, 1)
    BY <2>1, SectorCyclePiece
  <2>3. r >= 2 => r - 1 \in 1 .. Blocks /\ (r - 1) + 2 = r + 1
    BY <1>0
  <2>4. u[C * k + r + 1] = v[r + 1]
    BY <1>1
  <2> HIDE DEF v
  <2>5. CASE r = 0
    BY <2>2, <2>4, <2>5 DEF Step, Ends
  <2>6. CASE r = 1
    BY <2>2, <2>4, <2>6 DEF Step, Ends
  <2>7. CASE r >= 2
    <3>1. v[r + 1] = Step("block", [sector |-> q[k + 1], index |-> r - 1], Failures, 1)
      BY <2>2, <2>3, <2>7
    <3> QED
      BY <2>4, <2>7, <3>1 DEF Step, Ends
  <2> QED
    BY <1>1, <2>5, <2>6, <2>7
<1>3. ASSUME NEW i \in 1 .. Len(u)
      PROVE  /\ u[i].op \in {"declare", "erase", "block"}
             /\ u[i].op = "erase" => i > 1 /\ u[i - 1].op = "declare" /\ Ends(u[i - 1])
             /\ Ends(u[i]) /\ u[i].code = 1
  <2> DEFINE k == (i - 1) \div C
             r == (i - 1) % C
  <2>1. k \in 0 .. Len(q) - 1 /\ r \in 0 .. C - 1 /\ i = C * k + r + 1
    <3>1. Len(q) \in Nat /\ i \in 1 .. Len(q) * CycleLength
      BY <1>1 DEF C
    <3> QED
      BY <3>1, CycleIndex DEF C
  <2> HIDE DEF k, r
  <2>2. /\ r = 0 => u[i].op = "declare"
        /\ r = 1 => u[i].op = "erase"
        /\ r >= 2 => u[i].op = "block"
        /\ Ends(u[i]) /\ u[i].code = 1
    BY <1>2, <2>1
  <2>3. ASSUME u[i].op = "erase" PROVE i > 1 /\ u[i - 1].op = "declare" /\ Ends(u[i - 1])
    <3>1. r = 1
      BY <1>1, <2>1, <2>2, <2>3
    <3>2. C * k \in Nat
      <4>1. k \in Nat /\ C \in Nat
        BY <1>0, <2>1
      <4> QED
        BY <4>1, SMT
    <3>3. i - 1 = C * k + 0 + 1 /\ i > 1 /\ 0 \in 0 .. C - 1
      BY <1>0, <2>1, <3>1, <3>2
    <3>4. u[C * k + 0 + 1].op = "declare" /\ Ends(u[C * k + 0 + 1])
      BY <1>2, <2>1, <3>3
    <3> QED
      BY <3>3, <3>4
  <2>4. r = 0 \/ r = 1 \/ r >= 2
    BY <1>0, <2>1
  <2> QED
    BY <2>2, <2>3, <2>4
<1>4. BusOrder(u) /\ SlotOrder(u) /\ EraseOrder(u)
  BY <1>3 DEF BusOrder, SlotOrder, EraseOrder
<1> QED
  BY <1>1, <1>3, <1>4 DEF Piece, Orderly, u

LEMMA ShortPiece ==
  ASSUME NEW own, NEW x \in StepSet(own), NEW y \in StepSet(own), NEW z \in StepSet(own),
         x.op \notin {"dtcOff", "commOff", "enable", "erase"},
         y.op \notin {"dtcOff", "commOff", "enable", "erase"},
         z.op \notin {"dtcOff", "commOff", "enable", "erase"}
  PROVE  <<x>> \in Piece(own) /\ <<x, y>> \in Piece(own) /\ <<x, y, z>> \in Piece(own)
<1>1. <<x>> \in Piece(own)
  <2> DEFINE s == <<x>>
  <2>1. s \in Seq(StepSet(own)) /\ Len(s) = 1 /\ s[1] = x
    OBVIOUS
  <2> HIDE DEF s
  <2>2. \A i \in 1 .. Len(s) : s[i].op \notin {"dtcOff", "commOff", "enable", "erase"}
    BY <2>1
  <2>3. s \in Piece(own)
    BY <2>1, <2>2, PlainPiece
  <2> QED
    BY <2>3 DEF s
<1>2. <<x, y>> \in Piece(own)
  <2> DEFINE s == <<x, y>>
  <2>1. s \in Seq(StepSet(own)) /\ Len(s) = 2 /\ s[1] = x /\ s[2] = y
    OBVIOUS
  <2> HIDE DEF s
  <2>2. \A i \in 1 .. Len(s) : s[i].op \notin {"dtcOff", "commOff", "enable", "erase"}
    BY <2>1
  <2>3. s \in Piece(own)
    BY <2>1, <2>2, PlainPiece
  <2> QED
    BY <2>3 DEF s
<1>3. <<x, y, z>> \in Piece(own)
  <2> DEFINE s == <<x, y, z>>
  <2>1. s \in Seq(StepSet(own)) /\ Len(s) = 3 /\ s[1] = x /\ s[2] = y /\ s[3] = z
    OBVIOUS
  <2> HIDE DEF s
  <2>2. \A i \in 1 .. Len(s) : s[i].op \notin {"dtcOff", "commOff", "enable", "erase"}
    <3>1. \A i \in 1 .. 3 : i = 1 \/ i = 2 \/ i = 3
      OBVIOUS
    <3> QED
      BY <2>1, <3>1
  <2>3. s \in Piece(own)
    BY <2>1, <2>2, PlainPiece
  <2> QED
    BY <2>3 DEF s
<1> QED
  BY <1>1, <1>2, <1>3

(* The programs are pieces.                                                 *)
LEMMA ApplyPiece ==
  ASSUME NEW own, NEW c \in RunType
  PROVE  ApplyPrelude(c) \in Piece(own)
<1> DEFINE fill   == FillSlots \o <<Local("startWorker")>>
           second == BusPrelude \o Opt(c.follow, Unlock)
           key    == Unlock \o Opt(c.high, second)
           clear  == <<Local("stopWorker"), Local("joinWorker")>> \o ClearSlots
<1>1. /\ Audible \in Piece(own) /\ Unlock \in Piece(own)
      /\ <<Local("startWorker")>> \in Piece(own)
      /\ <<Local("stopWorker"), Local("joinWorker")>> \in Piece(own)
      /\ <<Must("session", "extended")>> \in Piece(own)
  <2>1. /\ Try("dtcOn", 0) \in StepSet(own) /\ Try("commOn", 0) \in StepSet(own)
        /\ Must("seed", 0) \in StepSet(own) /\ Must("key", 0) \in StepSet(own)
        /\ Local("startWorker") \in StepSet(own) /\ Local("stopWorker") \in StepSet(own)
        /\ Local("joinWorker") \in StepSet(own) /\ Must("session", "extended") \in StepSet(own)
    BY StepsOf DEF PlainOps, LocalOps, Sessions
  <2>2. /\ Try("dtcOn", 0).op = "dtcOn" /\ Try("commOn", 0).op = "commOn"
        /\ Must("seed", 0).op = "seed" /\ Must("key", 0).op = "key"
        /\ Local("startWorker").op = "startWorker" /\ Local("stopWorker").op = "stopWorker"
        /\ Local("joinWorker").op = "joinWorker" /\ Must("session", "extended").op = "session"
    BY DEF Must, Try, Local, Step
  <2>3. Audible \in Piece(own) /\ Unlock \in Piece(own)
    BY <2>1, <2>2, ShortPiece DEF Audible, Unlock
  <2> QED
    BY <2>1, <2>2, <2>3, ShortPiece
<1>2. fill \in Piece(own)
  BY <1>1, FillSlotsPiece, PieceConcat
<1>3. clear \in Piece(own)
  BY <1>1, ClearSlotsPiece, PieceConcat
<1>4. Opt(c.follow, Unlock) \in Piece(own)
  BY <1>1, OptPiece
<1>5. second \in Piece(own)
  BY <1>4, BusPreludePiece, PieceConcat
<1>6. Opt(c.high, second) \in Piece(own)
  BY <1>5, OptPiece
<1>7. key \in Piece(own)
  BY <1>1, <1>6, PieceConcat
<1> HIDE DEF fill, second, key, clear
<1>8. /\ Opt(c.inject, fill) \in Piece(own) /\ Opt(c.inject, clear) \in Piece(own)
      /\ Opt(c.enter, <<Must("session", "extended")>>) \in Piece(own)
      /\ Opt(c.unlock, key) \in Piece(own)
  BY <1>1, <1>2, <1>3, <1>7, OptPiece
<1>9. Audible \o Opt(c.inject, fill) \in Piece(own)
  BY <1>1, <1>8, PieceConcat
<1>10. (Audible \o Opt(c.inject, fill)) \o Opt(c.enter, <<Must("session", "extended")>>) \in Piece(own)
  BY <1>8, <1>9, PieceConcat
<1>11. ((Audible \o Opt(c.inject, fill)) \o Opt(c.enter, <<Must("session", "extended")>>))
         \o Opt(c.unlock, key) \in Piece(own)
  BY <1>8, <1>10, PieceConcat
<1>12. (((Audible \o Opt(c.inject, fill)) \o Opt(c.enter, <<Must("session", "extended")>>))
         \o Opt(c.unlock, key)) \o Opt(c.inject, clear) \in Piece(own)
  BY <1>8, <1>11, PieceConcat
<1> QED
  BY <1>12, Zenon DEF ApplyPrelude, fill, second, key, clear

LEMMA WritePiece ==
  ASSUME NEW own, NEW c, c.sectors \in Seq(own)
  PROVE  WriteScript(c) \in Piece(own)
<1>1. Sectorwise(c.sectors) \in Piece(own)
  BY SectorwisePiece
<1>2. Close \in Piece(own)
  <2>1. Must("exit", 0) \in StepSet(own) /\ Must("commit", 0) \in StepSet(own)
    BY StepsOf DEF PlainOps, LocalOps
  <2>2. Must("exit", 0).op = "exit" /\ Must("commit", 0).op = "commit"
    BY DEF Must, Step
  <2> QED
    BY <2>1, <2>2, ShortPiece DEF Close
<1>3. Opt(c.commit, Close) \in Piece(own)
  BY <1>2, OptPiece
<1> QED
  BY <1>1, <1>3, PieceConcat DEF WriteScript

LEMMA UnblockPiece ==
  ASSUME NEW own, NEW c, c.sectors \in Seq(own)
  PROVE  UnblockScript(c) \in Piece(own)
<1> DEFINE check == <<Step("preflight", 0, {"refused"}, 1)>>
           start == <<Must("session", "extended")>>
           prog  == <<Must("read", 0), Must("session", "programming")>>
           close == <<InLine("exit", 0), InLine("echo", 0), Try("commit", 0)>>
           write == SectorCycle(c.sectors[1], 0) \o close
<1>1. /\ check \in Piece(own) /\ start \in Piece(own) /\ prog \in Piece(own)
      /\ close \in Piece(own) /\ Unlock \in Piece(own)
  <2>1. /\ Step("preflight", 0, {"refused"}, 1) \in StepSet(own)
        /\ Must("session", "extended") \in StepSet(own)
        /\ Must("read", 0) \in StepSet(own) /\ Must("session", "programming") \in StepSet(own)
        /\ InLine("exit", 0) \in StepSet(own) /\ InLine("echo", 0) \in StepSet(own)
        /\ Try("commit", 0) \in StepSet(own)
        /\ Must("seed", 0) \in StepSet(own) /\ Must("key", 0) \in StepSet(own)
    BY StepsOf DEF PlainOps, LocalOps, Sessions, Failures
  <2>2. /\ Step("preflight", 0, {"refused"}, 1).op = "preflight"
        /\ Must("session", "extended").op = "session"
        /\ Must("read", 0).op = "read" /\ Must("session", "programming").op = "session"
        /\ InLine("exit", 0).op = "exit" /\ InLine("echo", 0).op = "echo"
        /\ Try("commit", 0).op = "commit"
        /\ Must("seed", 0).op = "seed" /\ Must("key", 0).op = "key"
    BY DEF Must, Try, InLine, Step
  <2>3. check \in Piece(own) /\ start \in Piece(own)
    BY <2>1, <2>2, ShortPiece
  <2>4. prog \in Piece(own) /\ Unlock \in Piece(own)
    BY <2>1, <2>2, ShortPiece DEF Unlock
  <2>5. close \in Piece(own)
    BY <2>1, <2>2, ShortPiece
  <2> QED
    BY <2>3, <2>4, <2>5
<1>2. c.sectors # <<>> => write \in Piece(own)
  <2> SUFFICES ASSUME c.sectors # <<>> PROVE write \in Piece(own)
    OBVIOUS
  <2>1. c.sectors[1] \in own /\ 0 \in {0, 1}
    OBVIOUS
  <2>2. SectorCycle(c.sectors[1], 0) \in Piece(own)
    BY <2>1, SectorCyclePiece
  <2> HIDE DEF close
  <2> QED
    BY <1>1, <2>2, PieceConcat
<1> HIDE DEF check, start, prog, write
<1>3. /\ Opt(~c.force, check) \in Piece(own) /\ Opt(c.inject, FillSlots) \in Piece(own)
      /\ Opt(c.unlock, Unlock) \in Piece(own) /\ Opt(c.sectors # <<>>, write) \in Piece(own)
  BY <1>1, <1>2, FillSlotsPiece, OptPiece
<1>4. Opt(~c.force, check) \o Opt(c.inject, FillSlots) \in Piece(own)
  BY <1>3, PieceConcat
<1>5. (Opt(~c.force, check) \o Opt(c.inject, FillSlots)) \o start \in Piece(own)
  BY <1>1, <1>4, PieceConcat
<1>6. ((Opt(~c.force, check) \o Opt(c.inject, FillSlots)) \o start) \o Opt(c.unlock, Unlock) \in Piece(own)
  BY <1>3, <1>5, PieceConcat
<1>7. (((Opt(~c.force, check) \o Opt(c.inject, FillSlots)) \o start) \o Opt(c.unlock, Unlock))
        \o prog \in Piece(own)
  BY <1>1, <1>6, PieceConcat
<1>8. ((((Opt(~c.force, check) \o Opt(c.inject, FillSlots)) \o start) \o Opt(c.unlock, Unlock))
        \o prog) \o Opt(c.sectors # <<>>, write) \in Piece(own)
  BY <1>3, <1>7, PieceConcat
<1> QED
  BY <1>8, Zenon DEF UnblockScript, check, start, prog, write, close

LEMMA OtherPieces ==
  ASSUME NEW own
  PROVE  /\ CommitScript \in Piece(own)
         /\ PresenceScript \in Piece(own)
         /\ \A c : c.session \in Sessions => TrySessionScript(c) \in Piece(own)
<1>1. /\ Step("exit", 0, {"silent"}, 1) \in StepSet(own) /\ Must("commit", 0) \in StepSet(own)
      /\ Must("read", 0) \in StepSet(own) /\ InLine("read", 0) \in StepSet(own)
      /\ \A m \in Sessions : Must("session", m) \in StepSet(own)
  BY StepsOf DEF PlainOps, LocalOps, Failures
<1>2. /\ Step("exit", 0, {"silent"}, 1).op = "exit" /\ Must("commit", 0).op = "commit"
      /\ Must("read", 0).op = "read" /\ InLine("read", 0).op = "read"
      /\ \A m \in Sessions : Must("session", m).op = "session"
  BY DEF Must, InLine, Step
<1>3. CommitScript \in Piece(own)
  BY <1>1, <1>2, ShortPiece DEF CommitScript
<1>4. PresenceScript \in Piece(own)
  <2>1. <<Must("read", 0), InLine("read", 0)>> \in Piece(own)
    BY <1>1, <1>2, ShortPiece
  <2> QED
    BY <2>1, FillSlotsPiece, PieceConcat DEF PresenceScript
<1>5. ASSUME NEW c, c.session \in Sessions PROVE TrySessionScript(c) \in Piece(own)
  BY <1>1, <1>2, <1>5, ShortPiece DEF TrySessionScript
<1> QED
  BY <1>3, <1>4, <1>5

LEMMA ScriptPiece ==
  ASSUME NEW c \in CommandType
  PROVE  /\ c.verb \in {"write", "restore", "unblock", "commit", "presence", "try"}
         /\ c.verb \in {"write", "restore", "unblock"} => /\ c.sectors \in Seq(Sectors)
                                                         /\ Script(c) \in Piece(ToSet(c.sectors))
         /\ c.verb \notin {"write", "restore", "unblock"} => Script(c) \in Piece({})
<1>1. c.verb \in {"write", "restore", "unblock", "commit", "presence", "try"}
  BY DEF CommandType
<1>2. CASE c.verb \in {"write", "restore", "unblock"}
  <2>1. c.sectors \in Seq(Sectors)
    BY <1>2 DEF CommandType
  <2>2. c.sectors \in Seq(ToSet(c.sectors))
    BY <2>1 DEF ToSet
  <2>3. CASE c.verb \in {"write", "restore"}
    <3>1. Script(c) = WriteScript(c)
      BY <2>3 DEF Script
    <3> QED
      BY <1>1, <1>2, <2>1, <2>2, <3>1, WritePiece
  <2>4. CASE c.verb = "unblock"
    <3>1. Script(c) = UnblockScript(c)
      BY <2>4 DEF Script
    <3> QED
      BY <1>1, <1>2, <2>1, <2>2, <3>1, UnblockPiece
  <2> QED
    BY <1>2, <2>3, <2>4
<1>3. CASE c.verb \in {"commit", "presence", "try"}
  <2>1. c.verb = "try" => c.session \in Sessions
    BY DEF CommandType
  <2>2. /\ c.verb = "commit" => Script(c) = CommitScript
        /\ c.verb = "presence" => Script(c) = PresenceScript
        /\ c.verb = "try" => Script(c) = TrySessionScript(c)
    BY DEF Script
  <2> QED
    BY <1>3, <2>1, <2>2, OtherPieces
<1> QED
  BY <1>1, <1>2, <1>3

LEMMA ProgramPiece ==
  ASSUME ApplyOK \/ cmd \in CommandType
  PROVE  Program \in Piece(Own) /\ Own \subseteq Sectors
<1>1. CASE ApplyOK
  BY <1>1, ApplyPiece DEF ApplyOK, Program, Own
<1>2. CASE cmd \in CommandType
  <2>1. Program = Script(cmd)
    BY <1>2, ScriptPiece DEF Program
  <2>2. CASE cmd.verb \in {"write", "restore", "unblock"}
    <3>1. Own = ToSet(cmd.sectors) /\ cmd.sectors \in Seq(Sectors)
      BY <1>2, <2>2, ScriptPiece DEF Own
    <3>2. ToSet(cmd.sectors) \subseteq Sectors
      BY <3>1 DEF ToSet
    <3> QED
      BY <1>2, <2>1, <2>2, <3>1, <3>2, ScriptPiece
  <2>3. CASE cmd.verb \notin {"write", "restore", "unblock"}
    <3>1. Own = {}
      BY <1>2, <2>3, ScriptPiece DEF Own
    <3> QED
      BY <1>2, <2>1, <2>3, <3>1, ScriptPiece
  <2> QED
    BY <2>2, <2>3
<1> QED
  BY <1>1, <1>2

-----------------------------------------------------------------------------
(* The guards undo what they are armed for.                                 *)
LEMMA UndoingSteps ==
  ASSUME NEW own
  PROVE  /\ Undoing \subseteq StepSet(own)
         /\ \A x \in Undoing : /\ x.stop = {}
                               /\ x.op \in {"dtcOn", "commOn", "session", "stopWorker",
                                            "joinWorker", "disable"}
                               /\ x.op # "disable" /\ x.op # "session" => x.arg = 0
                               /\ x.op = "session" => x.arg = "extended"
<1>1. /\ Try("dtcOn", 0) \in StepSet(own) /\ Try("commOn", 0) \in StepSet(own)
      /\ Try("session", "extended") \in StepSet(own)
      /\ Local("stopWorker") \in StepSet(own) /\ Local("joinWorker") \in StepSet(own)
      /\ \A k \in 1 .. Slots : Try("disable", k) \in StepSet(own)
  BY StepsOf DEF PlainOps, LocalOps, Sessions
<1>2. Undoing \subseteq StepSet(own)
  BY <1>1 DEF Undoing
<1> QED
  BY <1>2 DEF Undoing, Try, Local, Step

LEMMA HoldsConcat ==
  ASSUME NEW s \in Seq(Undoing), NEW t \in Seq(Undoing)
  PROVE  /\ s \o t \in Seq(Undoing)
         /\ \A op, arg : Holds(s, op, arg) \/ Holds(t, op, arg) => Holds(s \o t, op, arg)
<1> DEFINE u == s \o t
<1>1. /\ u \in Seq(Undoing) /\ Len(u) = Len(s) + Len(t) /\ Len(s) \in Nat /\ Len(t) \in Nat
      /\ \A i \in 1 .. Len(s) : u[i] = s[i]
      /\ \A i \in 1 .. Len(t) : u[Len(s) + i] = t[i]
  BY Joined
<1> HIDE DEF u
<1>2. ASSUME NEW op, NEW arg, Holds(s, op, arg) PROVE Holds(u, op, arg)
  <2>1. PICK i \in 1 .. Len(s) : s[i].op = op /\ s[i].arg = arg
    BY <1>2 DEF Holds
  <2>2. i \in 1 .. Len(u)
    BY <1>1
  <2> QED
    BY <1>1, <2>1, <2>2 DEF Holds
<1>3. ASSUME NEW op, NEW arg, Holds(t, op, arg) PROVE Holds(u, op, arg)
  <2>1. PICK i \in 1 .. Len(t) : t[i].op = op /\ t[i].arg = arg
    BY <1>3 DEF Holds
  <2>2. Len(s) + i \in 1 .. Len(u)
    BY <1>1
  <2>3. u[Len(s) + i] = t[i]
    BY <1>1
  <2> QED
    BY <2>1, <2>2, <2>3 DEF Holds
<1> QED
  BY <1>1, <1>2, <1>3 DEF u

LEMMA GuardsUndo ==
  ASSUME NEW a
  PROVE  LET g == Guards(a)
         IN  /\ g \in Seq(Undoing) /\ Holds(g, "joinWorker", 0)
             /\ "bus" \in a => Holds(g, "dtcOn", 0) /\ Holds(g, "commOn", 0)
             /\ "slots" \in a => \A k \in 1 .. Slots : Holds(g, "disable", k)
<1> DEFINE first  == <<Try("session", "extended")>> \o Audible
           last   == <<Local("stopWorker"), Local("joinWorker")>>
           bus    == Opt("bus" \in a, first)
           slots  == Opt("slots" \in a, ClearSlots)
<1>1. first \in Seq(Undoing) /\ Holds(first, "dtcOn", 0) /\ Holds(first, "commOn", 0)
  <2>1. <<Try("session", "extended")>> \in Seq(Undoing)
    BY DEF Undoing
  <2>2. Audible \in Seq(Undoing) /\ Len(Audible) = 2 /\ Audible[1] = Try("dtcOn", 0)
        /\ Audible[2] = Try("commOn", 0)
    BY DEF Undoing, Audible
  <2>3. Holds(Audible, "dtcOn", 0) /\ Holds(Audible, "commOn", 0)
    BY <2>2 DEF Holds, Try, Step
  <2> QED
    BY <2>1, <2>2, <2>3, HoldsConcat
<1>2. last \in Seq(Undoing) /\ Holds(last, "joinWorker", 0)
  <2>1. last \in Seq(Undoing) /\ Len(last) = 2 /\ last[2] = Local("joinWorker")
    BY DEF Undoing
  <2> HIDE DEF last
  <2> QED
    BY <2>1 DEF Holds, Local, Step
<1>3. ClearSlots \in Seq(Undoing) /\ \A k \in 1 .. Slots : Holds(ClearSlots, "disable", k)
  <2>1. ClearSlots \in Seq(Undoing) /\ Len(ClearSlots) = Slots
    BY VerbAssumption DEF ClearSlots, Undoing
  <2>2. \A k \in 1 .. Slots : ClearSlots[k].op = "disable" /\ ClearSlots[k].arg = k
    BY DEF ClearSlots, Try, Step
  <2> QED
    BY <2>1, <2>2 DEF Holds
<1>4. <<>> \in Seq(Undoing)
  OBVIOUS
<1> HIDE DEF first, last
<1>5. bus \in Seq(Undoing) /\ ("bus" \in a => Holds(bus, "dtcOn", 0) /\ Holds(bus, "commOn", 0))
  BY <1>1, <1>4 DEF Opt
<1>6. slots \in Seq(Undoing) /\ ("slots" \in a => \A k \in 1 .. Slots : Holds(slots, "disable", k))
  BY <1>3, <1>4 DEF Opt
<1> HIDE DEF bus, slots
<1>7. /\ bus \o slots \in Seq(Undoing)
      /\ "bus" \in a => Holds(bus \o slots, "dtcOn", 0) /\ Holds(bus \o slots, "commOn", 0)
      /\ "slots" \in a => \A k \in 1 .. Slots : Holds(bus \o slots, "disable", k)
  BY <1>5, <1>6, HoldsConcat
<1>8. /\ (bus \o slots) \o last \in Seq(Undoing)
      /\ Holds((bus \o slots) \o last, "joinWorker", 0)
      /\ "bus" \in a => /\ Holds((bus \o slots) \o last, "dtcOn", 0)
                        /\ Holds((bus \o slots) \o last, "commOn", 0)
      /\ "slots" \in a => \A k \in 1 .. Slots : Holds((bus \o slots) \o last, "disable", k)
  BY <1>2, <1>7, HoldsConcat
<1>9. Guards(a) = (bus \o slots) \o last
  BY Zenon DEF Guards, bus, slots, first, last
<1> QED
  BY <1>8, <1>9

(* Past its first step.                                                     *)
LEMMA HoldsTail ==
  ASSUME NEW s \in Seq(Undoing), s # <<>>
  PROVE  /\ Tail(s) \in Seq(Undoing) /\ Head(s) \in Undoing
         /\ \A op, arg : Holds(s, op, arg) /\ ~(Head(s).op = op /\ Head(s).arg = arg)
                           => Holds(Tail(s), op, arg)
<1>1. /\ Tail(s) \in Seq(Undoing) /\ Len(Tail(s)) = Len(s) - 1 /\ Head(s) = s[1]
      /\ Head(s) \in Undoing /\ Len(s) \in Nat
      /\ \A i \in 1 .. Len(s) - 1 : Tail(s)[i] = s[i + 1]
  OBVIOUS
<1>2. ASSUME NEW op, NEW arg, Holds(s, op, arg), ~(Head(s).op = op /\ Head(s).arg = arg)
      PROVE  Holds(Tail(s), op, arg)
  <2>1. PICK i \in 1 .. Len(s) : s[i].op = op /\ s[i].arg = arg
    BY <1>2 DEF Holds
  <2>2. i # 1
    BY <1>1, <1>2, <2>1
  <2>3. i - 1 \in 1 .. Len(Tail(s)) /\ i - 1 \in 1 .. Len(s) - 1 /\ (i - 1) + 1 = i
    BY <1>1, <2>2
  <2>4. Tail(s)[i - 1] = s[i]
    BY <1>1, <2>3
  <2> QED
    BY <2>1, <2>3, <2>4 DEF Holds
<1> QED
  BY <1>1, <1>2

-----------------------------------------------------------------------------
(* The next step of a running command.                                      *)
LEMMA NextOfProgram ==
  ASSUME TypeInv, phase = "running"
  PROVE  /\ Program \in Piece(Own) /\ Own \subseteq Sectors
         /\ Len(Program) \in Nat /\ Len(script) \in Nat /\ Done \in Nat /\ Done <= Len(Program)
         /\ script = <<>> => Done = Len(Program)
         /\ script # <<>> =>
              /\ Done < Len(Program) /\ Head(script) = Program[Done + 1]
              /\ Head(script) \in StepSet(Own)
              /\ Tail(script) \in Seq(StepSet(Own)) /\ Len(Tail(script)) = Len(script) - 1
              /\ \A i \in 1 .. Len(Tail(script)) : Tail(script)[i] = Program[(Done + 1) + i]
<1>1. Program \in Piece(Own) /\ Own \subseteq Sectors
  BY ProgramPiece DEF TypeInv, CommandOK
<1>2. /\ script \in Seq(StepSet(Own)) /\ Len(script) <= Len(Program)
      /\ \A i \in 1 .. Len(script) : script[i] = Program[Done + i]
  BY DEF TypeInv, ScriptOK
<1>3. Len(Program) \in Nat
  BY <1>1 DEF Piece
<1>4. Len(script) \in Nat
  BY <1>2
<1>5. Done \in Nat /\ Done <= Len(Program) /\ Done = Len(Program) - Len(script)
  BY <1>2, <1>3, <1>4 DEF Done
<1>6. script = <<>> => Done = Len(Program)
  BY <1>3, <1>5
<1>7. ASSUME script # <<>>
      PROVE  /\ Done < Len(Program) /\ Head(script) = Program[Done + 1]
             /\ Head(script) \in StepSet(Own)
             /\ Tail(script) \in Seq(StepSet(Own)) /\ Len(Tail(script)) = Len(script) - 1
             /\ \A i \in 1 .. Len(Tail(script)) : Tail(script)[i] = Program[(Done + 1) + i]
  <2>1. /\ Head(script) = script[1] /\ Head(script) \in StepSet(Own) /\ Len(script) >= 1
        /\ Tail(script) \in Seq(StepSet(Own)) /\ Len(Tail(script)) = Len(script) - 1
        /\ \A i \in 1 .. Len(script) - 1 : Tail(script)[i] = script[i + 1]
    BY <1>2, <1>7
  <2>2. 1 \in 1 .. Len(script) /\ Done < Len(Program)
    BY <1>3, <1>4, <1>5, <2>1
  <2>3. script[1] = Program[Done + 1]
    BY <1>2, <2>2
  <2>4. ASSUME NEW i \in 1 .. Len(script) - 1
        PROVE  Tail(script)[i] = Program[(Done + 1) + i]
    <3>1. i + 1 \in 1 .. Len(script) /\ Done + (i + 1) = (Done + 1) + i
      BY <1>4, <1>5
    <3>2. script[i + 1] = Program[Done + (i + 1)]
      BY <1>2, <3>1
    <3> QED
      BY <2>1, <3>1, <3>2
  <2> QED
    BY <2>1, <2>2, <2>3, <2>4
<1> QED
  BY <1>1, <1>3, <1>4, <1>5, <1>6, <1>7

(* One step further.                                                        *)
LEMMA Advance ==
  ASSUME TypeInv, phase = "running", script # <<>>,
         phase' = "running", cmd' = cmd, script' = Tail(script)
  PROVE  ScriptOK' /\ Done' = Done + 1 /\ Program' = Program /\ Own' = Own
<1>1. Program' = Program /\ Own' = Own
  BY DEF Program, Own
<1>2. Done' = Done + 1 /\ Len(script') <= Len(Program')
  BY <1>1, NextOfProgram DEF Done
<1>3. script' \in Seq(StepSet(Own'))
  BY <1>1, NextOfProgram
<1>4. \A i \in 1 .. Len(script') : script'[i] = Program'[Done' + i]
  BY <1>1, <1>2, NextOfProgram
<1> QED
  BY <1>1, <1>2, <1>3, <1>4 DEF ScriptOK

(* The first of the steps that are left, of a program or of the guards.     *)
LEMMA StepOfActive ==
  ASSUME TypeInv, Active, script # <<>>
  PROVE  /\ Head(script) \in StepSet(Own) /\ Own \subseteq Sectors
         /\ phase = "leaving" => Head(script) \in Undoing /\ Tail(script) \in Seq(Undoing)
<1>1. CASE phase = "running"
  BY <1>1, NextOfProgram
<1>2. CASE phase = "leaving"
  <2>1. script \in Seq(Undoing)
    BY <1>2 DEF TypeInv, ScriptOK
  <2>2. Head(script) \in Undoing /\ Tail(script) \in Seq(Undoing)
    BY <2>1, HoldsTail
  <2>3. Own \subseteq Sectors
    BY <1>2, ProgramPiece DEF TypeInv, CommandOK
  <2> QED
    BY <1>2, <2>2, <2>3, UndoingSteps
<1> QED
  BY <1>1, <1>2 DEF Active

-----------------------------------------------------------------------------
(* Types.                                                                   *)
HistoryType == [bus : SUBSET {"dtc", "comm"}, slots : SUBSET (1 .. Slots)]

LEMMA AfterTyped ==
  ASSUME TypeInv, NEW step \in StepSet(Own), Own \subseteq Sectors, Able(step)
  PROVE  /\ After(step) \in CarType
         /\ After(step).stage # "closed" => After(step).declared \in Sectors
<1>1. car \in CarType /\ (car.stage # "closed" => car.declared \in Sectors)
  BY DEF TypeInv, TypeOK, Negotiated
<1>2. /\ step.op \in {"configure", "enable", "disable"} => step.arg \in 1 .. Slots
      /\ step.op = "session" => step.arg \in Sessions
      /\ step.op = "declare" => step.arg \in Sectors
      /\ step.op = "block" => step.arg.index \in 1 .. Blocks
  BY StepFacts
<1>3. /\ step.op = "erase" => car.stage = "declared"
      /\ step.op = "block" => car.stage = "erased"
      /\ step.op = "exit" => car.stage = "erased"
  BY DEF Able
<1>4. CASE step.op \in {"dtcOff", "commOff", "dtcOn", "commOn"}
  BY <1>1, <1>4 DEF After, CarType
<1>5. CASE step.op \in {"enable", "disable"}
  BY <1>1, <1>2, <1>5 DEF After, CarType
<1>6. CASE step.op = "session"
  BY <1>1, <1>2, <1>6 DEF After, CarType, Sessions
<1>7. CASE step.op \in {"declare", "commit"}
  BY <1>1, <1>2, <1>7 DEF After, CarType
<1>8. CASE step.op = "erase"
  BY <1>1, <1>3, <1>8 DEF After, CarType
<1>9. CASE step.op = "block"
  BY <1>1, <1>2, <1>3, <1>9 DEF After, CarType
<1>10. CASE step.op = "exit"
  BY <1>1, <1>3, <1>10 DEF After, CarType
<1>11. CASE step.op \notin {"dtcOff", "commOff", "dtcOn", "commOn", "enable", "disable", "session",
                           "declare", "commit", "erase", "block", "exit"}
  BY <1>1, <1>11 DEF After
<1> QED
  BY <1>4, <1>5, <1>6, <1>7, <1>8, <1>9, <1>10, <1>11

LEMMA FlashedTyped ==
  ASSUME TypeInv, NEW step
  PROVE  Flashed(step) \in [Sectors -> {"old", "broken", "rewritten"}]
<1>1. content \in [Sectors -> {"old", "broken", "rewritten"}]
  BY DEF TypeInv, TypeOK
<1>2. CASE step.op = "erase"
  BY <1>1, <1>2 DEF Flashed
<1>3. CASE step.op = "block"
  BY <1>1, <1>3 DEF Flashed
<1>4. CASE step.op \notin {"erase", "block"}
  BY <1>1, <1>4 DEF Flashed
<1> QED
  BY <1>2, <1>3, <1>4

LEMMA HistoryTyped ==
  ASSUME TypeInv, NEW step \in StepSet(Own), NEW ok \in BOOLEAN, NEW done \in BOOLEAN
  PROVE  /\ Acked(step, ok) \in HistoryType
         /\ Missed(step, done) \in HistoryType
         /\ Stop(step) \in {"none", "quieting", "filling", "elsewhere"}
<1>1. acked \in HistoryType /\ missed \in HistoryType
  BY DEF TypeInv, TypeOK, HistoryType
<1>2. step.op \in {"enable", "disable"} => step.arg \in 1 .. Slots
  BY StepFacts
<1>3. Acked(step, ok) \in HistoryType
  <2>1. CASE step.op \in {"dtcOff", "commOff"} /\ ok
    BY <1>1, <2>1 DEF Acked, HistoryType
  <2>2. CASE step.op = "enable" /\ ok
    BY <1>1, <1>2, <2>2 DEF Acked, HistoryType
  <2>3. CASE ~(step.op \in {"dtcOff", "commOff", "enable"} /\ ok)
    BY <1>1, <2>3 DEF Acked
  <2> QED
    BY <2>1, <2>2, <2>3
<1>4. Missed(step, done) \in HistoryType
  <2>1. CASE step.op \in {"dtcOn", "commOn"}
    BY <1>1, <2>1 DEF Missed, HistoryType
  <2>2. CASE step.op = "disable"
    BY <1>1, <1>2, <2>2 DEF Missed, HistoryType
  <2>3. CASE step.op \notin {"dtcOn", "commOn", "disable"}
    BY <1>1, <2>3 DEF Missed
  <2> QED
    BY <2>1, <2>2, <2>3
<1>5. Stop(step) \in {"none", "quieting", "filling", "elsewhere"}
  BY DEF Stop
<1> QED
  BY <1>3, <1>4, <1>5

(* The sectors of a plan are the image's.                                   *)
LEMMA PlanSectorsOf ==
  ASSUME NEW image, NEW layout \in BOOLEAN
  PROVE  PlanSectors(PlanOf(image, layout), 0) \subseteq Sectors
<1>1. ASSUME NEW k \in Sectors PROVE (Write(image, k, 0).address - 0) \div SectorSize = k
  <2>1. SectorSize \in Nat \ {0} /\ k \in Int
    BY GateAssumption DEF Sectors
  <2> DEFINE a == k * SectorSize
  <2>2. a \in Int /\ Write(image, k, 0).address - 0 = a
    <3>1. k * SectorSize \in Int
      BY <2>1, SMT
    <3> QED
      BY <3>1 DEF Write
  <2> DEFINE x == a \div SectorSize
  <2>3. a % SectorSize \in 0 .. SectorSize - 1 /\ x \in Int /\ a = SectorSize * x + (a % SectorSize)
    <3> HIDE DEF a
    <3> QED
      BY <2>1, <2>2, Division
  <2> HIDE DEF x
  <2>4. ~ (x <= k - 1)
    <3> SUFFICES ASSUME x <= k - 1 PROVE FALSE
      OBVIOUS
    <3>1. SectorSize * x <= SectorSize * (k - 1)
      BY <2>1, <2>3, SMT
    <3> QED
      BY <2>1, <2>2, <2>3, <3>1, SMT
  <2>5. ~ (x >= k + 1)
    <3> SUFFICES ASSUME x >= k + 1 PROVE FALSE
      OBVIOUS
    <3>1. SectorSize * x >= SectorSize * (k + 1)
      BY <2>1, <2>3, SMT
    <3> QED
      BY <2>1, <2>2, <2>3, <3>1, SMT
  <2>6. x = k
    BY <2>1, <2>3, <2>4, <2>5
  <2> QED
    BY <2>2, <2>6 DEF x
<1>2. \A w \in PlanOf(image, layout) : \E k \in Sectors : w = Write(image, k, 0)
  BY DEF PlanOf, LayoutPlan, UniformPlan, DeltaLayout, Delta
<1> QED
  BY <1>1, <1>2 DEF PlanSectors

-----------------------------------------------------------------------------
(* Type correctness.                                                        *)
LEMMA TypeExchange ==
  ASSUME TypeInv, Exchange
  PROVE  TypeInv'
<1> DEFINE step == Head(script)
<1>1. Active /\ script # <<>> /\ UNCHANGED <<cmd, armed, worker, asked, job, issued>>
  BY DEF Exchange
<1>2. PICK done \in BOOLEAN, reply \in {"ok", "silent", "refused"} :
        /\ done => Able(step)
        /\ car'     = IF done THEN After(step) ELSE car
        /\ content' = IF done THEN Flashed(step) ELSE content
        /\ acked'   = Acked(step, reply = "ok")
        /\ missed'  = Missed(step, done)
        /\ stopped' = IF reply \in step.stop THEN Stop(step) ELSE stopped
        /\ phase'   = IF reply \in step.stop THEN "leaving" ELSE phase
        /\ script'  = IF reply \in step.stop THEN Guards(armed) ELSE Tail(script)
        /\ code'    = IF reply \in step.stop THEN step.code ELSE code
  BY DEF Exchange
<1>3. step \in StepSet(Own) /\ Own \subseteq Sectors
      /\ (phase = "leaving" => step \in Undoing /\ Tail(script) \in Seq(Undoing))
  BY <1>1, StepOfActive
<1>4. step.code \in {0, 1} /\ Guards(armed) \in Seq(Undoing)
  BY <1>3, StepFacts, GuardsUndo
<1> HIDE DEF step
<1>5. car' \in CarType /\ (car'.stage # "closed" => car'.declared \in Sectors)
  BY <1>2, <1>3, AfterTyped DEF TypeInv, TypeOK, Negotiated
<1>6. content' \in [Sectors -> {"old", "broken", "rewritten"}]
  BY <1>2, FlashedTyped DEF TypeInv, TypeOK
<1>7. /\ {acked', missed'} \subseteq HistoryType
      /\ stopped' \in {"none", "quieting", "filling", "elsewhere"}
  <2>1. /\ Acked(step, TRUE) \in HistoryType /\ Acked(step, FALSE) \in HistoryType
        /\ Missed(step, done) \in HistoryType
        /\ Stop(step) \in {"none", "quieting", "filling", "elsewhere"}
    BY <1>3, HistoryTyped
  <2>2. acked' \in HistoryType
    <3>1. (reply = "ok") = TRUE \/ (reply = "ok") = FALSE
      OBVIOUS
    <3> QED
      BY <1>2, <2>1, <3>1
  <2> QED
    BY <1>2, <2>1, <2>2 DEF TypeInv, TypeOK
<1>8. phase \in {"running", "leaving"} /\ phase' \in {"running", "leaving"}
      /\ (phase = "leaving" => phase' = "leaving")
  BY <1>1, <1>2 DEF Active
<1>9. TypeOK'
  BY <1>1, <1>2, <1>4, <1>5, <1>6, <1>7, <1>8 DEF TypeInv, TypeOK, HistoryType, job
<1>10. CommandOK'
  BY <1>1, <1>8 DEF TypeInv, CommandOK, ApplyOK
<1>11. ScriptOK'
  <2>1. CASE reply \in step.stop
    BY <1>2, <1>4, <2>1 DEF ScriptOK
  <2>2. CASE reply \notin step.stop /\ phase = "running"
    BY <1>1, <1>2, <2>2, Advance
  <2>3. CASE reply \notin step.stop /\ phase = "leaving"
    BY <1>2, <1>3, <2>3 DEF ScriptOK
  <2> QED
    BY <1>8, <2>1, <2>2, <2>3
<1>12. JobOK'
  BY <1>1, <1>8 DEF TypeInv, JobOK, job
<1> QED
  BY <1>5, <1>9, <1>10, <1>11, <1>12 DEF TypeInv, Negotiated

LEMMA TypeTake ==
  ASSUME TypeInv, Take, UNCHANGED <<phase, cmd, code, car, content, job, issued, history>>,
         armed' \subseteq {"bus", "slots"}, worker' \in {"none", "on", "ended"}, asked' \in BOOLEAN
  PROVE  TypeInv'
<1>1. TypeOK'
  BY DEF TypeInv, TypeOK, job, history
<1>2. CommandOK'
  BY DEF TypeInv, CommandOK, ApplyOK
<1>3. ScriptOK'
  <2>1. CASE phase = "running"
    BY <2>1, Advance DEF Take
  <2>2. CASE phase = "leaving"
    BY <2>2, StepOfActive DEF Take, ScriptOK
  <2> QED
    BY <2>1, <2>2 DEF Take, Active
<1>4. JobOK'
  BY DEF TypeInv, JobOK, job
<1>5. Negotiated'
  BY DEF TypeInv, Negotiated
<1> QED
  BY <1>1, <1>2, <1>3, <1>4, <1>5 DEF TypeInv

(* A step that leaves the process alone.                                    *)
LEMMA TypeQuiet ==
  ASSUME TypeInv, UNCHANGED <<phase, cmd, script, armed, code, job, issued>>,
         worker' \in {"none", "on", "ended"}, asked' \in BOOLEAN,
         car' \in CarType, car'.stage # "closed" => car'.declared \in Sectors,
         content' = content, missed' \in HistoryType, UNCHANGED <<acked, stopped>>
  PROVE  TypeInv'
<1>1. TypeOK'
  BY DEF TypeInv, TypeOK, job, HistoryType
<1>2. CommandOK'
  BY DEF TypeInv, CommandOK, ApplyOK
<1>3. ScriptOK'
  <2>1. Program' = Program /\ Own' = Own /\ Done' = Done
    BY DEF Program, Own, Done
  <2> QED
    BY <2>1 DEF TypeInv, ScriptOK
<1>4. JobOK'
  BY DEF TypeInv, JobOK, job
<1> QED
  BY <1>1, <1>2, <1>3, <1>4 DEF TypeInv, Negotiated

(* A command begins with its whole program.                                 *)
LEMMA BeginsOther ==
  ASSUME cmd' \in CommandType, phase' = "running", script' = Script(cmd')
  PROVE  ScriptOK' /\ Done' = 0 /\ Program' = script' /\ Program' \in Piece(Own')
<1>1. Program' = Script(cmd')
  BY ScriptPiece DEF Program
<1>2. Script(cmd') \in Piece(Own')
  BY ScriptPiece DEF Own
<1>3. Len(Script(cmd')) \in Nat
  BY <1>2 DEF Piece
<1>4. Done' = 0
  BY <1>1, <1>3 DEF Done
<1> QED
  BY <1>1, <1>2, <1>3, <1>4 DEF ScriptOK, Piece

LEMMA BeginsApply ==
  ASSUME cmd'.verb = "apply", cmd'.run \in RunType, phase' = "running",
         script' = ApplyPrelude(cmd'.run)
  PROVE  ScriptOK' /\ Done' = 0 /\ Program' = script' /\ Program' \in Piece(Own')
<1>1. Program' = ApplyPrelude(cmd'.run)
  BY DEF Program
<1>2. ApplyPrelude(cmd'.run) \in Piece(Own')
  BY ApplyPiece
<1>3. Len(ApplyPrelude(cmd'.run)) \in Nat
  BY <1>2 DEF Piece
<1>4. Done' = 0
  BY <1>1, <1>3 DEF Done
<1> QED
  BY <1>1, <1>2, <1>3, <1>4 DEF ScriptOK, Piece

LEMMA TypeIssue ==
  ASSUME TypeInv, IssueApply \/ IssueOther
  PROVE  TypeInv'
<1>1. /\ phase = "shell" /\ issued < MaxCommands /\ issued' = issued + 1
      /\ content' = [s \in Sectors |-> IF content[s] = "rewritten" THEN "old" ELSE content[s]]
      /\ armed' = {} /\ UNCHANGED <<worker, asked, car, job, missed>>
      /\ acked' = Nothing /\ stopped' = "none"
  BY DEF IssueApply, IssueOther, Issue
<1>2. /\ content' \in [Sectors -> {"old", "broken", "rewritten"}]
      /\ issued' \in 0 .. MaxCommands
      /\ {acked', missed'} \subseteq [bus : SUBSET {"dtc", "comm"}, slots : SUBSET (1 .. Slots)]
  BY <1>1, CliAssumption DEF TypeInv, TypeOK, Nothing
<1>3. CASE IssueApply
  <2>1. PICK image \in Targets, layout \in BOOLEAN, options \in Applies :
          LET plan    == IF layout THEN LayoutPlan(image) ELSE UniformPlan(image, 0)
              action  == OverallAction(plan, Source, options.profile)
              passes  == options.profiled => GateAllows(action, options.reasoned)
          IN  /\ phase' = IF passes THEN "gated" ELSE "shell"
              /\ code'  = IF passes THEN 0 ELSE 3
              /\ cmd'   = [verb |-> "gate", image |-> image, plan |-> plan, options |-> options]
    BY <1>3 DEF IssueApply
  <2>2. phase' \in {"gated", "shell"} /\ code' \in {0, 3}
    BY <2>1
  <2>3. cmd'.verb = "gate" /\ cmd'.options = options /\ cmd'.plan = PlanOf(image, layout)
    BY <2>1 DEF PlanOf
  <2>4. options.run \in RunType
    BY CliAssumption DEF OptionsType
  <2>5. PlanSectors(cmd'.plan, 0) \subseteq Sectors
    BY <2>3, PlanSectorsOf
  <2>6. TypeOK'
    BY <1>1, <1>2, <2>2 DEF TypeInv, TypeOK, job
  <2>7. CommandOK'
    BY <2>2, <2>3, <2>4, <2>5 DEF CommandOK
  <2> QED
    BY <1>1, <2>2, <2>6, <2>7 DEF TypeInv, ScriptOK, JobOK, Negotiated, job
<1>4. CASE IssueOther
  <2>1. cmd' \in Others /\ script' = Script(cmd') /\ phase' = "running" /\ code' = 0
    BY <1>4 DEF IssueOther
  <2>2. cmd' \in CommandType
    BY <2>1, CliAssumption
  <2>3. TypeOK'
    BY <1>1, <1>2, <2>1 DEF TypeInv, TypeOK, job
  <2>4. CommandOK'
    BY <2>1, <2>2 DEF CommandOK
  <2>5. ScriptOK'
    BY <2>1, <2>2, BeginsOther
  <2> QED
    BY <1>1, <2>1, <2>3, <2>4, <2>5 DEF TypeInv, JobOK, Negotiated, job
<1> QED
  BY <1>3, <1>4

LEMMA TypeOpen ==
  ASSUME TypeInv, Open
  PROVE  TypeInv'
<1>1. /\ phase = "gated" /\ cmd.options.run \in RunType /\ PlanSectors(cmd.plan, 0) \subseteq Sectors
      /\ UNCHANGED <<armed, worker, asked, car, content, job, issued, history>>
      /\ phase' \in {"shell", "running"} /\ code' \in {code, 1}
      /\ phase' = "running" => script' = ApplyPrelude(cmd'.run)
  BY DEF Open, TypeInv, CommandOK
<1>2. cmd'.verb = "apply" /\ cmd'.run \in RunType /\ cmd'.sectors \subseteq Sectors
  BY <1>1 DEF Open
<1>3. TypeOK'
  BY <1>1 DEF TypeInv, TypeOK, job, history
<1>4. CommandOK'
  BY <1>1, <1>2 DEF CommandOK, ApplyOK
<1>5. ScriptOK'
  <2>1. CASE phase' = "running"
    BY <1>1, <1>2, <2>1, BeginsApply
  <2>2. CASE phase' = "shell"
    BY <2>2 DEF ScriptOK
  <2> QED
    BY <1>1, <2>1, <2>2
<1> QED
  BY <1>1, <1>3, <1>4, <1>5 DEF TypeInv, JobOK, Negotiated, job

LEMMA TypeEnd ==
  ASSUME TypeInv, Return \/ Exit
  PROVE  TypeInv'
<1>1. /\ phase \in {"running", "leaving"} /\ phase' \in {"leaving", "shell"}
      /\ phase' = "leaving" => script' = Guards(armed)
      /\ UNCHANGED <<cmd, armed, code, worker, asked, car, content, job, issued, history>>
  BY DEF Return, Exit
<1>2. TypeOK'
  BY <1>1 DEF TypeInv, TypeOK, job, history
<1>3. CommandOK'
  BY <1>1 DEF TypeInv, CommandOK, ApplyOK
<1>4. ScriptOK'
  BY <1>1, GuardsUndo DEF ScriptOK
<1> QED
  BY <1>1, <1>2, <1>3, <1>4 DEF TypeInv, JobOK, Negotiated, job

LEMMA TypeExecute ==
  ASSUME TypeInv, Execute \/ EnterProgramming \/ ExecuteStep \/ ExecuteDone \/ ExecuteFails
  PROVE  TypeInv'
<1>1. UNCHANGED <<cmd, script, armed, worker, asked, acked, missed, stopped, issued>>
  BY DEF Execute, EnterProgramming, ExecuteStep, ExecuteDone, ExecuteFails, process, history
<1>2. ApplyOK
  <2>1. CASE Execute
    <3>1. phase = "leaving" /\ cmd.verb = "apply"
      BY <2>1 DEF Execute
    <3>2. cmd \notin CommandType
      BY <3>1, ScriptPiece
    <3> QED
      BY <3>1, <3>2 DEF TypeInv, CommandOK
  <2>2. CASE EnterProgramming \/ ExecuteStep \/ ExecuteDone \/ ExecuteFails
    BY <2>2 DEF EnterProgramming, ExecuteStep, ExecuteDone, ExecuteFails, TypeInv, CommandOK
  <2> QED
    BY <2>1, <2>2
<1>3. ApplyOK'
  BY <1>1, <1>2 DEF ApplyOK
<1>4. CASE Execute
  <2>1. /\ phase = "leaving" /\ phase' = "entering" /\ pending' = cmd.sectors
        /\ UNCHANGED <<code, car, content, target>>
    BY <1>4 DEF Execute, Job!Begin
  <2>2. TypeOK' /\ JobOK' /\ Negotiated'
    BY <1>1, <1>2, <2>1 DEF TypeInv, TypeOK, JobOK, Negotiated, ApplyOK
  <2> QED
    BY <1>3, <2>1, <2>2 DEF TypeInv, CommandOK, ScriptOK
<1>5. CASE EnterProgramming
  <2>1. /\ phase = "entering" /\ phase' = "executing"
        /\ car' = [car EXCEPT !.session = "programming"]
        /\ UNCHANGED <<code, content, pending, target>>
    BY <1>5 DEF EnterProgramming, job
  <2>2. car' \in CarType /\ car'.stage = car.stage /\ car'.declared = car.declared
    BY <2>1 DEF TypeInv, TypeOK, CarType, Sessions
  <2>3. TypeOK' /\ JobOK' /\ Negotiated'
    BY <1>1, <2>1, <2>2 DEF TypeInv, TypeOK, JobOK, Negotiated
  <2> QED
    BY <1>3, <2>1, <2>3 DEF TypeInv, CommandOK, ScriptOK
<1>6. CASE ExecuteStep
  <2>1. phase = "executing" /\ phase' = "executing" /\ UNCHANGED <<code, car>>
    BY <1>6 DEF ExecuteStep, process
  <2>2. /\ content \in [Sectors -> {"old", "broken", "rewritten"}]
        /\ pending \subseteq cmd.sectors /\ cmd.sectors \subseteq Sectors
        /\ target \in pending \cup {NoSector}
    BY <1>2, <2>1 DEF TypeInv, TypeOK, JobOK, ApplyOK
  <2>3. Job!Choose \/ Job!Damage \/ Job!Rewrite \/ Job!Close
    BY <1>6 DEF ExecuteStep
  <2>4. /\ content' \in [Sectors -> {"old", "broken", "rewritten"}]
        /\ pending' \subseteq cmd.sectors /\ target' \in pending' \cup {NoSector}
    <3>1. CASE Job!Choose
      BY <2>2, <3>1 DEF Job!Choose
    <3>2. CASE Job!Damage
      BY <2>2, <3>2 DEF Job!Damage
    <3>3. CASE Job!Rewrite
      BY <2>2, <3>3 DEF Job!Rewrite
    <3>4. CASE Job!Close
      BY <2>2, <3>4 DEF Job!Close
    <3> QED
      BY <2>3, <3>1, <3>2, <3>3, <3>4
  <2>5. TypeOK' /\ JobOK' /\ Negotiated'
    BY <1>1, <2>1, <2>2, <2>4 DEF TypeInv, TypeOK, JobOK, Negotiated
  <2> QED
    BY <1>3, <2>1, <2>5 DEF TypeInv, CommandOK, ScriptOK
<1>7. CASE ExecuteDone
  <2>1. /\ phase = "executing" /\ phase' = "shell" /\ code' = 0 /\ pending = {}
        /\ UNCHANGED <<car, content, pending, target>>
    BY <1>7 DEF ExecuteDone, Job!Succeed
  <2>2. TypeOK' /\ JobOK' /\ Negotiated'
    BY <1>1, <2>1 DEF TypeInv, TypeOK, JobOK, Negotiated
  <2> QED
    BY <2>1, <2>2 DEF TypeInv, CommandOK, ScriptOK
<1>8. CASE ExecuteFails
  <2>1. /\ phase \in {"entering", "executing"} /\ phase' = "shell" /\ code' = 1
        /\ pending' = {} /\ target' = NoSector /\ content' = content
        /\ \/ car' = car
           \/ /\ target # NoSector
              /\ car' = [car EXCEPT !.declared = target, !.stage = "declared", !.blocks = {}]
    BY <1>8 DEF ExecuteFails, Job!Abort
  <2>2. car' \in CarType /\ (car'.stage # "closed" => car'.declared \in Sectors)
    <3>1. target # NoSector => target \in Sectors
      BY DEF TypeInv, TypeOK
    <3> QED
      BY <2>1, <3>1 DEF TypeInv, TypeOK, CarType, Negotiated
  <2>3. TypeOK' /\ JobOK' /\ Negotiated'
    BY <1>1, <2>1, <2>2 DEF TypeInv, TypeOK, JobOK, Negotiated
  <2> QED
    BY <2>1, <2>3 DEF TypeInv, CommandOK, ScriptOK
<1> QED
  BY <1>4, <1>5, <1>6, <1>7, <1>8

LEMMA FreshCarTyped ==
  /\ FreshCar \in CarType
  /\ \A o \in SUBSET Sectors : [FreshCar EXCEPT !.open = o] \in CarType
  BY DEF FreshCar, CarType, Sessions

LEMMA TypeOthers ==
  ASSUME TypeInv, WorkerEnds \/ SessionEnds \/ PowerCycle
  PROVE  TypeInv'
<1>1. CASE WorkerEnds
  BY <1>1, TypeQuiet DEF WorkerEnds, TypeInv, TypeOK, Negotiated, HistoryType, history
<1>2. CASE SessionEnds
  <2>1. /\ car' = [car EXCEPT !.session = "default", !.declared = NoSector, !.stage = "closed",
                             !.blocks = {}]
        /\ UNCHANGED <<process, content, job, issued, acked, missed, stopped>>
    BY <1>2 DEF SessionEnds, history
  <2>2. car' \in CarType /\ car'.stage = "closed"
    BY <2>1 DEF TypeInv, TypeOK, CarType, Sessions
  <2> QED
    BY <2>1, <2>2, TypeQuiet DEF TypeInv, TypeOK, HistoryType, process
<1>3. CASE PowerCycle
  <2>1. /\ car' = [FreshCar EXCEPT !.open = car.open] /\ missed' = Nothing
        /\ UNCHANGED <<process, content, job, issued, acked, stopped>>
    BY <1>3 DEF PowerCycle
  <2>2. car.open \in SUBSET Sectors
    BY DEF TypeInv, TypeOK, CarType
  <2>3. car' \in CarType /\ car'.stage = "closed" /\ missed' \in HistoryType
    BY <2>1, <2>2, FreshCarTyped DEF FreshCar, Nothing, HistoryType
  <2> QED
    BY <2>1, <2>3, TypeQuiet DEF TypeInv, TypeOK, process
<1> QED
  BY <1>1, <1>2, <1>3

LEMMA TypeStep == TypeInv /\ [Next]_vars => TypeInv'
<1> SUFFICES ASSUME TypeInv, [Next]_vars PROVE TypeInv'
  OBVIOUS
<1>1. CASE IssueApply \/ IssueOther
  BY <1>1, TypeIssue
<1>2. CASE Open
  BY <1>2, TypeOpen
<1>3. CASE Exchange
  BY <1>3, TypeExchange
<1>4. CASE Arm
  BY <1>4, TypeTake DEF Arm, TypeInv, TypeOK
<1>5. CASE StartWorker \/ StopWorker \/ JoinWorker
  BY <1>5, TypeTake DEF StartWorker, StopWorker, JoinWorker, TypeInv, TypeOK
<1>6. CASE Return \/ Exit
  BY <1>6, TypeEnd
<1>7. CASE Execute \/ EnterProgramming \/ ExecuteStep \/ ExecuteDone \/ ExecuteFails
  BY <1>7, TypeExecute
<1>8. CASE WorkerEnds \/ SessionEnds \/ PowerCycle
  BY <1>8, TypeOthers
<1>9. CASE UNCHANGED vars
  BY <1>9, TypeQuiet DEF vars, process, history, TypeInv, TypeOK, Negotiated, HistoryType
<1> QED
  BY <1>1, <1>2, <1>3, <1>4, <1>5, <1>6, <1>7, <1>8, <1>9 DEF Next

LEMMA TypeInitially == Init => TypeInv
<1> SUFFICES ASSUME Init PROVE TypeInv
  OBVIOUS
<1>1. TypeOK
  <2>1. {acked, missed} \subseteq [bus : SUBSET {"dtc", "comm"}, slots : SUBSET (1 .. Slots)]
    BY DEF Init, Nothing
  <2>2. content \in [Sectors -> {"old", "broken", "rewritten"}]
    BY DEF Init
  <2>3. issued \in 0 .. MaxCommands
    BY CliAssumption DEF Init
  <2>4. car \in CarType
    BY FreshCarTyped DEF Init
  <2> QED
    BY <2>1, <2>2, <2>3, <2>4 DEF Init, TypeOK
<1> QED
  BY <1>1 DEF Init, TypeInv, CommandOK, ScriptOK, JobOK, Negotiated, FreshCar

(* The state of the shell, of the commands and of the car has its type, for *)
(* any commands in any number and whatever the car answers.                 *)
THEOREM TypeCorrect == Spec => []TypeOK
<1>1. TypeInv => TypeOK
  BY DEF TypeInv
<1> QED
  BY <1>1, TypeInitially, TypeStep, PTL DEF Spec

-----------------------------------------------------------------------------
(* A car that does no more than it is asked.                                *)
LEMMA AfterOnOff ==
  ASSUME TypeInv, NEW step
  PROVE  /\ After(step).off = IF step.op = "dtcOff" THEN car.off \cup {"dtc"}
                              ELSE IF step.op = "commOff" THEN car.off \cup {"comm"}
                              ELSE IF step.op = "dtcOn" THEN car.off \ {"dtc"}
                              ELSE IF step.op = "commOn" THEN car.off \ {"comm"} ELSE car.off
         /\ After(step).on = IF step.op = "enable" THEN car.on \cup {step.arg}
                             ELSE IF step.op = "disable" THEN car.on \ {step.arg} ELSE car.on
<1>1. car \in CarType
  BY DEF TypeInv, TypeOK
<1>2. CASE step.op \in {"dtcOff", "commOff", "dtcOn", "commOn", "enable", "disable"}
  BY <1>1, <1>2 DEF After, CarType
<1>3. CASE step.op \in {"session", "declare", "erase", "block"}
  BY <1>1, <1>3 DEF After, CarType
<1>4. CASE step.op \in {"exit", "commit"}
  BY <1>1, <1>4 DEF After, CarType
<1>5. CASE step.op \notin {"dtcOff", "commOff", "dtcOn", "commOn", "enable", "disable", "session",
                          "declare", "erase", "block", "exit", "commit"}
  BY <1>1, <1>5 DEF After
<1> QED
  BY <1>2, <1>3, <1>4, <1>5

(* What is left off or on after a request: more only by the request that    *)
(* turns it off or on, and nothing that the request is to turn back.        *)
LEMMA LeftAfter ==
  ASSUME TypeInv, NEW step \in StepSet(Own), NEW ok \in BOOLEAN, NEW done \in BOOLEAN,
         car' = IF done THEN After(step) ELSE car,
         acked' = Acked(step, ok), missed' = Missed(step, done)
  PROVE  /\ step.op \notin {"dtcOff", "commOff"} => LeftOff' \subseteq LeftOff
         /\ step.op = "dtcOn"  => "dtc" \notin LeftOff'
         /\ step.op = "commOn" => "comm" \notin LeftOff'
         /\ step.op # "enable" => LeftOn' \subseteq LeftOn
         /\ step.op = "disable" => step.arg \notin LeftOn'
<1>1. acked \in HistoryType /\ missed \in HistoryType
  BY DEF TypeInv, TypeOK, HistoryType
<1>2. /\ car'.off = IF done THEN After(step).off ELSE car.off
      /\ car'.on = IF done THEN After(step).on ELSE car.on
      /\ acked'.bus = Acked(step, ok).bus /\ acked'.slots = Acked(step, ok).slots
      /\ missed'.bus = Missed(step, done).bus /\ missed'.slots = Missed(step, done).slots
  OBVIOUS
<1>3. CASE step.op \in {"dtcOff", "commOff"}
  <2>1. car'.on = car.on
    BY <1>2, <1>3, AfterOnOff
  <2>2. acked'.slots = acked.slots /\ missed'.slots = missed.slots
    BY <1>1, <1>2, <1>3 DEF Acked, Missed, HistoryType
  <2>3. LeftOn' = LeftOn
    BY <2>1, <2>2 DEF LeftOn
  <2> QED
    BY <1>3, <2>3
<1>4. CASE step.op \in {"dtcOn", "commOn"}
  <2>1. PICK thing \in {"dtc", "comm"} :
          /\ thing = IF step.op = "dtcOn" THEN "dtc" ELSE "comm"
          /\ After(step).off = car.off \ {thing}
          /\ missed'.bus = IF done THEN missed.bus \ {thing} ELSE missed.bus \cup {thing}
    <3>1. CASE step.op = "dtcOn"
      <4>1. After(step).off = car.off \ {"dtc"}
        BY <3>1, AfterOnOff
      <4>2. missed'.bus = IF done THEN missed.bus \ {"dtc"} ELSE missed.bus \cup {"dtc"}
        BY <1>1, <1>2, <3>1 DEF Missed, HistoryType
      <4> QED
        BY <3>1, <4>1, <4>2
    <3>2. CASE step.op = "commOn"
      <4>1. After(step).off = car.off \ {"comm"}
        BY <3>2, AfterOnOff
      <4>2. missed'.bus = IF done THEN missed.bus \ {"comm"} ELSE missed.bus \cup {"comm"}
        BY <1>1, <1>2, <3>2 DEF Missed, HistoryType
      <4> QED
        BY <3>2, <4>1, <4>2
    <3> QED
      BY <1>4, <3>1, <3>2
  <2>2. car'.on = car.on
    BY <1>2, <1>4, AfterOnOff
  <2>3. acked'.slots = acked.slots /\ missed'.slots = missed.slots /\ acked'.bus = acked.bus
    BY <1>1, <1>2, <1>4 DEF Acked, Missed, HistoryType
  <2>4. LeftOn' = LeftOn
    BY <2>2, <2>3 DEF LeftOn
  <2>5. LeftOff' \subseteq LeftOff /\ thing \notin LeftOff'
    BY <1>2, <2>1, <2>3 DEF LeftOff
  <2> QED
    BY <1>4, <2>1, <2>4, <2>5
<1>5. CASE step.op \in {"enable", "disable"}
  <2>1. car'.off = car.off
    BY <1>2, <1>5, AfterOnOff
  <2>2. acked'.bus = acked.bus /\ missed'.bus = missed.bus
    BY <1>1, <1>2, <1>5 DEF Acked, Missed, HistoryType
  <2>3. LeftOff' = LeftOff
    BY <2>1, <2>2 DEF LeftOff
  <2>4. CASE step.op = "disable"
    <3>1. After(step).on = car.on \ {step.arg}
      BY <2>4, AfterOnOff
    <3>2. missed'.slots = IF done THEN missed.slots \ {step.arg} ELSE missed.slots \cup {step.arg}
      BY <1>1, <1>2, <2>4 DEF Missed, HistoryType
    <3>3. acked'.slots = acked.slots
      BY <1>2, <2>4 DEF Acked
    <3>4. LeftOn' \subseteq LeftOn /\ step.arg \notin LeftOn'
      BY <1>2, <3>1, <3>2, <3>3 DEF LeftOn
    <3> QED
      BY <2>3, <2>4, <3>4
  <2> QED
    BY <1>5, <2>3, <2>4
<1>6. CASE step.op \notin {"dtcOff", "commOff", "dtcOn", "commOn", "enable", "disable"}
  <2>1. car'.off = car.off /\ car'.on = car.on
    BY <1>2, <1>6, AfterOnOff
  <2>2. acked' = acked /\ missed' = missed
    BY <1>6 DEF Acked, Missed
  <2> QED
    BY <1>6, <2>1, <2>2 DEF LeftOff, LeftOn
<1> QED
  BY <1>3, <1>4, <1>5, <1>6

LEMMA LeftTyped ==
  ASSUME TypeInv
  PROVE  LeftOff \subseteq {"dtc", "comm"} /\ LeftOn \subseteq 1 .. Slots
  BY DEF TypeInv, TypeOK, CarType, LeftOff, LeftOn

(* A request of a running command.                                          *)
LEMMA RunningExchange ==
  ASSUME TypeInv, TypeInv', OnAndOff, Exchange, phase = "running"
  PROVE  OnAndOff'
<1> DEFINE step == Head(script)
<1>1. script # <<>> /\ UNCHANGED <<cmd, armed, worker, asked, job, issued>>
      /\ step.op \notin LocalOps
  BY DEF Exchange
<1>2. PICK done \in BOOLEAN, reply \in {"ok", "silent", "refused"} :
        /\ car'     = IF done THEN After(step) ELSE car
        /\ acked'   = Acked(step, reply = "ok")
        /\ missed'  = Missed(step, done)
        /\ stopped' = IF reply \in step.stop THEN Stop(step) ELSE stopped
        /\ phase'   = IF reply \in step.stop THEN "leaving" ELSE phase
        /\ script'  = IF reply \in step.stop THEN Guards(armed) ELSE Tail(script)
  BY DEF Exchange
<1>3. /\ Program \in Piece(Own) /\ Done \in Nat /\ Done < Len(Program) /\ Len(Program) \in Nat
      /\ step = Program[Done + 1] /\ step \in StepSet(Own)
      /\ Done + 1 \in 1 .. Len(Program)
  BY <1>1, NextOfProgram
<1>5. /\ step.op = "dtcOff"  => Done + 1 < Len(Program) /\ Program[Done + 2].op = "commOff"
      /\ step.op = "commOff" => Done + 1 < Len(Program) /\ Program[Done + 2].op = "armBus"
      /\ step.op = "enable"  => Filling(Program, Done + 2)
  <2>1. (Done + 1) + 1 = Done + 2
    BY <1>3
  <2>2. BusOrder(Program) /\ SlotOrder(Program)
    BY <1>3 DEF Piece, Orderly
  <2> HIDE DEF step
  <2>3. /\ Program[Done + 1].op = "dtcOff"  => Done + 1 < Len(Program) /\ Program[(Done + 1) + 1].op = "commOff"
        /\ Program[Done + 1].op = "commOff" => Done + 1 < Len(Program) /\ Program[(Done + 1) + 1].op = "armBus"
    BY <1>3, <2>2 DEF BusOrder
  <2>4. Program[Done + 1].op = "enable"  => Filling(Program, (Done + 1) + 1)
    BY <1>3, <2>2 DEF SlotOrder
  <2> QED
    BY <1>3, <2>1, <2>3, <2>4
<1>7. BusGuarded /\ SlotsGuarded /\ stopped = "none"
  BY DEF OnAndOff
<1>8. step.op \notin {"commOff", "armBus"} => LeftOff = {} \/ "bus" \in armed
  BY <1>3, <1>7 DEF BusGuarded
<1>9. step.op \notin {"configure", "enable"} => LeftOn = {} \/ "slots" \in armed
  <2> SUFFICES ASSUME step.op \notin {"configure", "enable"}, Filling(Program, Done + 1)
               PROVE  FALSE
    BY <1>7 DEF SlotsGuarded
  <2>1. PICK j \in Done + 1 .. Len(Program) :
          /\ Program[j].op = "armSlots"
          /\ \A h \in Done + 1 .. j - 1 : Program[h].op \in {"configure", "enable"}
    BY DEF Filling
  <2>2. j # Done + 1
    BY <1>1, <1>3, <2>1 DEF LocalOps, step
  <2>3. Done + 1 \in Done + 1 .. j - 1
    BY <1>3, <2>2
  <2> QED
    BY <1>3, <2>1, <2>3
<1>10. step.op \notin LocalOps
  BY <1>1
<1> HIDE DEF step
<1>11. /\ step.op \notin {"dtcOff", "commOff"} => LeftOff' \subseteq LeftOff
       /\ step.op # "enable" => LeftOn' \subseteq LeftOn
  <2>1. (reply = "ok") \in BOOLEAN
    OBVIOUS
  <2> QED
    BY <1>2, <1>3, <2>1, LeftAfter
<1>12. LeftOff' \subseteq {"dtc", "comm"} /\ LeftOn' \subseteq 1 .. Slots
  <2>1. (TypeInv => LeftOff \subseteq {"dtc", "comm"} /\ LeftOn \subseteq 1 .. Slots)'
    BY LeftTyped, PTL
  <2> QED
    BY <2>1
<1>13. CASE reply \in step.stop
  <2>1. phase' = "leaving" /\ script' = Guards(armed) /\ stopped' = Stop(step)
    BY <1>2, <1>13
  <2>2. /\ Holds(script', "joinWorker", 0)
        /\ "bus" \in armed => Holds(script', "dtcOn", 0) /\ Holds(script', "commOn", 0)
        /\ "slots" \in armed => \A k \in 1 .. Slots : Holds(script', "disable", k)
    BY <2>1, GuardsUndo
  <2>3. stopped' = "quieting" \/ "bus" \in armed \/ LeftOff' = {}
    BY <1>8, <1>10, <1>11, <2>1 DEF Stop, LocalOps
  <2>4. stopped' = "filling" \/ "slots" \in armed \/ LeftOn' = {}
    BY <1>9, <1>11, <2>1 DEF Stop
  <2>5. Undone'
    BY <1>12, <2>2, <2>3, <2>4 DEF Undone, Left
  <2> QED
    BY <2>1, <2>5 DEF OnAndOff
<1>14. CASE reply \notin step.stop
  <2>1. phase' = "running" /\ script' = Tail(script) /\ stopped' = "none"
    BY <1>2, <1>7, <1>14
  <2>2. Done' = Done + 1 /\ Program' = Program /\ (Done + 1) + 1 = Done + 2
    BY <1>1, <1>3, <2>1, Advance
  <2>3. BusGuarded'
    <3>1. CASE step.op \in {"dtcOff", "commOff"}
      BY <1>5, <2>2, <3>1 DEF BusGuarded
    <3>2. CASE step.op \notin {"dtcOff", "commOff"}
      BY <1>1, <1>8, <1>10, <1>11, <3>2 DEF BusGuarded, LocalOps
    <3> QED
      BY <3>1, <3>2
  <2>4. SlotsGuarded'
    <3>1. CASE step.op = "enable"
      <4>1. Filling(Program', Done' + 1)
        BY <1>5, <2>2, <3>1
      <4> QED
        BY <4>1 DEF SlotsGuarded
    <3>2. CASE step.op # "enable" /\ (LeftOn = {} \/ "slots" \in armed)
      BY <1>1, <1>11, <3>2 DEF SlotsGuarded
    <3>3. CASE Filling(Program, Done + 1)
      <4>1. PICK j \in Done + 1 .. Len(Program) :
              /\ Program[j].op = "armSlots"
              /\ \A h \in Done + 1 .. j - 1 : Program[h].op \in {"configure", "enable"} /\ Ends(Program[h])
        BY <3>3 DEF Filling
      <4>2. j # Done + 1
        BY <1>1, <1>3, <4>1 DEF LocalOps, step
      <4>3. j \in Done + 2 .. Len(Program) /\ \A h \in Done + 2 .. j - 1 : h \in Done + 1 .. j - 1
        BY <1>3, <4>2
      <4>4. Filling(Program, Done + 2)
        BY <4>1, <4>3 DEF Filling
      <4> QED
        BY <2>2, <4>4 DEF SlotsGuarded
    <3> QED
      BY <1>7, <3>1, <3>2, <3>3 DEF SlotsGuarded
  <2> QED
    BY <2>1, <2>3, <2>4 DEF OnAndOff
<1> QED
  BY <1>13, <1>14

(* A request of the guards.                                                 *)
LEMMA LeavingExchange ==
  ASSUME TypeInv, OnAndOff, Exchange, phase = "leaving"
  PROVE  OnAndOff'
<1> DEFINE step == Head(script)
<1>1. script # <<>> /\ UNCHANGED <<cmd, armed, worker, asked, job, issued>>
      /\ step.op \notin LocalOps
  BY DEF Exchange
<1>2. script \in Seq(Undoing) /\ step \in Undoing /\ step \in StepSet(Own)
  BY <1>1, HoldsTail, StepOfActive DEF TypeInv, ScriptOK, Active
<1>3. step.stop = {}
  BY <1>2, UndoingSteps
<1>4. PICK done \in BOOLEAN, reply \in {"ok", "silent", "refused"} :
        /\ car'     = IF done THEN After(step) ELSE car
        /\ acked'   = Acked(step, reply = "ok")
        /\ missed'  = Missed(step, done)
        /\ stopped' = IF reply \in step.stop THEN Stop(step) ELSE stopped
        /\ phase'   = IF reply \in step.stop THEN "leaving" ELSE phase
        /\ script'  = IF reply \in step.stop THEN Guards(armed) ELSE Tail(script)
  BY DEF Exchange
<1>5. /\ step.op \in {"dtcOn", "commOn", "session", "disable"}
      /\ step.op \in {"dtcOn", "commOn"} => step.arg = 0
  BY <1>1, <1>2, UndoingSteps DEF LocalOps
<1>6. Undone
  BY DEF OnAndOff
<1>7. stopped' = stopped /\ phase' = phase /\ script' = Tail(script)
  BY <1>3, <1>4
<1>8. \A op, arg : Holds(script, op, arg) /\ ~(step.op = op /\ step.arg = arg) => Holds(script', op, arg)
  BY <1>1, <1>2, <1>7, HoldsTail
<1> HIDE DEF step
<1>9. /\ LeftOff' \subseteq LeftOff /\ LeftOn' \subseteq LeftOn
      /\ step.op = "dtcOn"  => "dtc" \notin LeftOff'
      /\ step.op = "commOn" => "comm" \notin LeftOff'
      /\ step.op = "disable" => step.arg \notin LeftOn'
  <2>1. (reply = "ok") \in BOOLEAN
    OBVIOUS
  <2> QED
    BY <1>2, <1>4, <1>5, <2>1, LeftAfter
<1>10. worker' # "none" => Left("joinWorker", 0)'
  BY <1>1, <1>5, <1>6, <1>8 DEF Undone, Left
<1>11. ASSUME stopped' # "quieting"
       PROVE  /\ "dtc" \in LeftOff' => Left("dtcOn", 0)'
              /\ "comm" \in LeftOff' => Left("commOn", 0)'
  BY <1>6, <1>7, <1>8, <1>9, <1>11 DEF Undone, Left
<1>12. ASSUME stopped' # "filling", NEW k \in LeftOn' PROVE Left("disable", k)'
  BY <1>6, <1>7, <1>8, <1>9, <1>12 DEF Undone, Left
<1>13. Undone'
  BY <1>10, <1>11, <1>12 DEF Undone
<1> QED
  BY <1>7, <1>13 DEF OnAndOff

(* The steps inside the command: the guards armed, the thread.              *)
LEMMA OnAndOffLocal ==
  ASSUME TypeInv, OnAndOff, Arm \/ StartWorker \/ StopWorker \/ JoinWorker
  PROVE  OnAndOff'
<1>1. /\ Take /\ UNCHANGED <<phase, cmd, code, car, content, job, issued, stopped>>
      /\ LeftOff' = LeftOff /\ LeftOn' = LeftOn
      /\ Active /\ script # <<>> /\ script' = Tail(script)
  BY DEF Arm, StartWorker, StopWorker, JoinWorker, Take, history, LeftOff, LeftOn
<1>2. /\ Head(script).op = "armBus" => "bus" \in armed'
      /\ Head(script).op = "armSlots" => "slots" \in armed'
      /\ Head(script).op \in LocalOps
      /\ armed \subseteq armed'
      /\ worker' = worker \/ Head(script).op \in {"startWorker", "joinWorker"}
      /\ Head(script).op = "joinWorker" => worker' = "none"
      /\ Head(script).op \in {"startWorker", "stopWorker", "joinWorker"} => armed' = armed
  BY DEF Arm, StartWorker, StopWorker, JoinWorker, LocalOps
<1>3. CASE phase = "running"
  <2>1. /\ Done \in Nat /\ Done < Len(Program) /\ Len(Program) \in Nat
        /\ Head(script) = Program[Done + 1]
    BY <1>1, <1>3, NextOfProgram
  <2>2. Done' = Done + 1 /\ Program' = Program
    BY <1>1, <1>3, Advance
  <2>3. BusGuarded /\ SlotsGuarded /\ stopped = "none"
    BY <1>3 DEF OnAndOff
  <2>4. BusGuarded'
    BY <1>1, <1>2, <2>1, <2>3 DEF BusGuarded, LocalOps
  <2>5. SlotsGuarded'
    <3>1. CASE Filling(Program, Done + 1)
      <4>1. PICK j \in Done + 1 .. Len(Program) :
              /\ Program[j].op = "armSlots"
              /\ \A h \in Done + 1 .. j - 1 : Program[h].op \in {"configure", "enable"} /\ Ends(Program[h])
        BY <3>1 DEF Filling
      <4>2. j = Done + 1
        <5> SUFFICES ASSUME j # Done + 1 PROVE FALSE
          OBVIOUS
        <5>1. Done + 1 \in Done + 1 .. j - 1
          BY <2>1
        <5> QED
          BY <1>2, <2>1, <4>1, <5>1 DEF LocalOps
      <4> QED
        BY <1>2, <2>1, <4>1, <4>2 DEF SlotsGuarded
    <3> QED
      BY <1>1, <1>2, <2>3, <3>1 DEF SlotsGuarded
  <2> QED
    BY <1>1, <1>3, <2>3, <2>4, <2>5 DEF OnAndOff
<1>4. CASE phase = "leaving"
  <2>1. script \in Seq(Undoing) /\ Head(script) \in Undoing
    BY <1>1, <1>4, HoldsTail DEF TypeInv, ScriptOK
  <2>2. Head(script).op \in {"stopWorker", "joinWorker"}
    BY <1>2, <2>1, UndoingSteps DEF LocalOps
  <2>3. \A op, arg : Holds(script, op, arg) /\ ~(Head(script).op = op /\ Head(script).arg = arg)
                       => Holds(script', op, arg)
    BY <1>1, <2>1, HoldsTail
  <2>4. Undone
    BY <1>4 DEF OnAndOff
  <2>5. Undone'
    BY <1>1, <1>2, <2>2, <2>3, <2>4 DEF Undone, Left
  <2> QED
    BY <1>1, <1>4, <2>5 DEF OnAndOff
<1> QED
  BY <1>1, <1>3, <1>4 DEF Active

LEMMA OnAndOffStep == TypeInv /\ TypeInv' /\ OnAndOff /\ [Next]_vars => OnAndOff'
<1> SUFFICES ASSUME TypeInv, TypeInv', OnAndOff, [Next]_vars PROVE OnAndOff'
  OBVIOUS
<1>1. CASE IssueApply \/ IssueOther
  <2>1. /\ phase = "shell" /\ phase' \in {"gated", "shell", "running"} /\ worker' = worker
        /\ acked' = Nothing /\ stopped' = "none"
    BY <1>1 DEF IssueApply, IssueOther, Issue
  <2>2. LeftOff' = {} /\ LeftOn' = {}
    BY <2>1 DEF LeftOff, LeftOn, Nothing
  <2> QED
    BY <2>1, <2>2 DEF OnAndOff, Clear, BusGuarded, SlotsGuarded
<1>3. CASE Open
  <2>1. /\ phase = "gated" /\ phase' \in {"shell", "running"} /\ UNCHANGED <<worker, stopped>>
        /\ LeftOff' = LeftOff /\ LeftOn' = LeftOn
    BY <1>3 DEF Open, history, LeftOff, LeftOn
  <2> QED
    BY <2>1 DEF OnAndOff, Clear, BusGuarded, SlotsGuarded
<1>4. CASE Exchange
  BY <1>4, RunningExchange, LeavingExchange DEF Exchange, Active
<1>5. CASE Arm \/ StartWorker \/ StopWorker \/ JoinWorker
  BY <1>5, OnAndOffLocal
<1>6. CASE Return
  <2>1. /\ phase = "running" /\ script = <<>> /\ phase' = "leaving" /\ script' = Guards(armed)
        /\ UNCHANGED <<armed, worker, stopped>> /\ LeftOff' = LeftOff /\ LeftOn' = LeftOn
    BY <1>6 DEF Return, history, LeftOff, LeftOn
  <2>2. Done = Len(Program) /\ Len(Program) \in Nat
    BY <2>1, NextOfProgram
  <2>3. BusGuarded /\ SlotsGuarded
    BY <2>1 DEF OnAndOff
  <2>4. (LeftOff = {} \/ "bus" \in armed) /\ (LeftOn = {} \/ "slots" \in armed)
    <3>1. ~Filling(Program, Done + 1)
      BY <2>2 DEF Filling
    <3> QED
      BY <2>2, <2>3, <3>1 DEF BusGuarded, SlotsGuarded
  <2>5. /\ Holds(script', "joinWorker", 0)
        /\ "bus" \in armed => Holds(script', "dtcOn", 0) /\ Holds(script', "commOn", 0)
        /\ "slots" \in armed => \A k \in 1 .. Slots : Holds(script', "disable", k)
    BY <2>1, GuardsUndo
  <2>6. LeftOn \subseteq 1 .. Slots
    BY LeftTyped
  <2>7. Undone'
    BY <2>1, <2>4, <2>5, <2>6 DEF Undone, Left
  <2> QED
    BY <2>1, <2>7 DEF OnAndOff
<1>7. CASE Exit \/ Execute
  <2>1. /\ phase = "leaving" /\ script = <<>> /\ phase' \in {"shell", "entering"}
        /\ UNCHANGED <<worker, stopped>> /\ LeftOff' = LeftOff /\ LeftOn' = LeftOn
    BY <1>7 DEF Exit, Execute, history, LeftOff, LeftOn
  <2>2. \A op, arg : ~Left(op, arg)
    <3>1. Len(script) = 0
      BY <2>1
    <3> QED
      BY <3>1 DEF Left, Holds
  <2>3. Undone /\ LeftOff \subseteq {"dtc", "comm"}
    BY <2>1, LeftTyped DEF OnAndOff
  <2>4. Clear
    BY <2>2, <2>3 DEF Undone, Clear
  <2> QED
    BY <2>1, <2>4 DEF OnAndOff, Clear
<1>8. CASE EnterProgramming \/ ExecuteStep \/ ExecuteDone \/ ExecuteFails
  <2>1. /\ phase \in {"entering", "executing"} /\ phase' \in {"executing", "shell"}
        /\ UNCHANGED <<worker, acked, missed, stopped>>
    BY <1>8 DEF EnterProgramming, ExecuteStep, ExecuteDone, ExecuteFails, process, history
  <2>2. car'.off = car.off /\ car'.on = car.on
    BY <1>8 DEF EnterProgramming, ExecuteStep, ExecuteDone, ExecuteFails, TypeInv, TypeOK, CarType
  <2>3. LeftOff' = LeftOff /\ LeftOn' = LeftOn
    BY <2>1, <2>2 DEF LeftOff, LeftOn
  <2> QED
    BY <2>1, <2>3 DEF OnAndOff, Clear
<1>9. CASE WorkerEnds \/ SessionEnds \/ PowerCycle \/ UNCHANGED vars
  <2>1. /\ UNCHANGED <<phase, cmd, script, armed, stopped>>
        /\ worker' = worker \/ (worker = "on" /\ worker' = "ended")
        /\ \/ car'.off = car.off /\ car'.on = car.on /\ UNCHANGED <<acked, missed>>
           \/ car'.off = {} /\ car'.on = {}
    <3>1. CASE WorkerEnds \/ UNCHANGED vars
      BY <3>1 DEF WorkerEnds, vars, process, history
    <3>2. CASE SessionEnds
      BY <3>2 DEF SessionEnds, process, history, TypeInv, TypeOK, CarType
    <3>3. CASE PowerCycle
      BY <3>3 DEF PowerCycle, process, FreshCar
    <3> QED
      BY <1>9, <3>1, <3>2, <3>3
  <2>2. Program' = Program /\ Done' = Done
    BY <2>1 DEF Program, Done
  <2>3. LeftOff' \subseteq LeftOff /\ LeftOn' \subseteq LeftOn
    BY <2>1 DEF LeftOff, LeftOn
  <2>4. phase = "running" => BusGuarded' /\ SlotsGuarded' /\ stopped' = "none"
    BY <2>1, <2>2, <2>3 DEF OnAndOff, BusGuarded, SlotsGuarded
  <2>5. phase = "leaving" => Undone'
    BY <2>1, <2>3 DEF OnAndOff, Undone, Left
  <2>6. phase \in {"shell", "gated", "entering", "executing"} => Clear'
    BY <2>1, <2>3 DEF OnAndOff, Clear
  <2> QED
    BY <2>1, <2>4, <2>5, <2>6 DEF OnAndOff
<1> QED
  BY <1>1, <1>3, <1>4, <1>5, <1>6, <1>7, <1>8, <1>9 DEF Next

(* At every exit of a command, and when flash-apply hands over to execute,  *)
(* the thread is joined, and nothing is left off that was acknowledged off  *)
(* unless the command stopped while it turned the bus off, nor on unless it *)
(* stopped while it filled the slots, or the car did not do what the guard  *)
(* asked: for any number of slots, at whichever step the command fails.     *)
THEOREM NothingIsLeftOn == Spec => []NothingLeftOn
<1>1. Init => TypeInv /\ OnAndOff
  BY TypeInitially DEF Init, OnAndOff, Clear, FreshCar, LeftOff, LeftOn
<1>2. TypeInv /\ OnAndOff /\ [Next]_vars => TypeInv' /\ OnAndOff'
  BY TypeStep, OnAndOffStep
<1>3. OnAndOff => NothingLeftOn
  BY DEF OnAndOff, Clear, NothingLeftOn
<1> QED
  BY <1>1, <1>2, <1>3, PTL DEF Spec

-----------------------------------------------------------------------------
(* Own sectors.  What comes before an erase is the negotiation of one of    *)
(* the command's sectors.                                                   *)
LEMMA BeforeErase ==
  ASSUME TypeInv, phase = "running", script # <<>>,
         Done + 1 < Len(Program), Program[Done + 2].op = "erase"
  PROVE  Head(script).op = "declare" /\ Ends(Head(script)) /\ Head(script).arg \in Own
<1>1. /\ Program \in Piece(Own) /\ Done \in Nat /\ Len(Program) \in Nat
      /\ Head(script) = Program[Done + 1] /\ Head(script) \in StepSet(Own)
  BY NextOfProgram
<1>2. Done + 2 \in 1 .. Len(Program) /\ (Done + 2) - 1 = Done + 1
  BY <1>1
<1>3. Program[(Done + 2) - 1].op = "declare" /\ Ends(Program[(Done + 2) - 1])
  BY <1>1, <1>2 DEF Piece, Orderly, EraseOrder
<1>4. Head(script).op = "declare" /\ Ends(Head(script))
  BY <1>1, <1>2, <1>3
<1> QED
  BY <1>1, <1>4, StepFacts

LEMMA EraseStep == TypeInv /\ EraseOK /\ [Next]_vars => EraseOK'
<1> SUFFICES ASSUME TypeInv, EraseOK, [Next]_vars,
                    phase' = "running", Done' < Len(Program'), Program'[Done' + 1].op = "erase",
                    car'.stage = "declared"
             PROVE  car'.declared \in Own'
  BY DEF EraseOK
<1>1. CASE IssueOther \/ Open
  <2>1. Program' \in Piece(Own') /\ Done' = 0
    <3>1. CASE IssueOther
      <4>1. cmd' \in CommandType /\ script' = Script(cmd')
        BY <3>1, CliAssumption DEF IssueOther
      <4> QED
        BY <4>1, BeginsOther
    <3>2. CASE Open
      <4>1. cmd'.verb = "apply" /\ cmd'.run \in RunType /\ script' = ApplyPrelude(cmd'.run)
        BY <3>2 DEF Open, TypeInv, CommandOK
      <4> QED
        BY <4>1, BeginsApply
    <3> QED
      BY <1>1, <3>1, <3>2
  <2>2. Len(Program') \in Nat /\ EraseOrder(Program')
    BY <2>1 DEF Piece, Orderly
  <2>3. 1 \in 1 .. Len(Program') /\ Program'[1].op = "erase"
    BY <2>1, <2>2
  <2> QED
    BY <2>2, <2>3 DEF EraseOrder
<1>2. CASE Exchange
  <2> DEFINE step == Head(script)
  <2>1. PICK done \in BOOLEAN, reply \in {"ok", "silent", "refused"} :
          /\ reply = "ok" => done
          /\ car'     = IF done THEN After(step) ELSE car
          /\ phase'   = IF reply \in step.stop THEN "leaving" ELSE phase
          /\ script'  = IF reply \in step.stop THEN Guards(armed) ELSE Tail(script)
    BY <1>2 DEF Exchange
  <2>2. reply \notin step.stop /\ phase = "running" /\ script # <<>> /\ script' = Tail(script) /\ cmd' = cmd
    BY <1>2, <2>1 DEF Exchange
  <2>3. Done' = Done + 1 /\ Program' = Program /\ Own' = Own /\ Done \in Nat
    BY <2>2, Advance, NextOfProgram
  <2>4. step.op = "declare" /\ Ends(step) /\ step.arg \in Own
    <3>1. Done + 1 < Len(Program) /\ Program[Done + 2].op = "erase"
      <4>1. (Done + 1) + 1 = Done + 2
        BY <2>3
      <4> QED
        BY <2>3, <4>1
    <3> QED
      BY <2>2, <3>1, BeforeErase
  <2>5. done
    BY <2>1, <2>2, <2>4 DEF Ends, Failures
  <2> HIDE DEF step
  <2>6. After(step).declared = step.arg
    BY <2>4 DEF After, TypeInv, TypeOK, CarType
  <2> QED
    BY <2>1, <2>3, <2>4, <2>5, <2>6
<1>3. CASE Arm \/ StartWorker \/ StopWorker \/ JoinWorker
  <2>1. /\ phase = "running" /\ script # <<>> /\ script' = Tail(script) /\ cmd' = cmd
        /\ Head(script).op \in LocalOps
    BY <1>3 DEF Arm, StartWorker, StopWorker, JoinWorker, Take, LocalOps
  <2>2. Done' = Done + 1 /\ Program' = Program /\ Done \in Nat
    BY <2>1, Advance, NextOfProgram
  <2>3. (Done + 1) + 1 = Done + 2
    BY <2>2
  <2> QED
    BY <2>1, <2>2, <2>3, BeforeErase DEF LocalOps
<1>4. CASE WorkerEnds \/ SessionEnds \/ PowerCycle \/ UNCHANGED vars
  <2>1. UNCHANGED <<phase, cmd, script>> /\ (car' = car \/ car'.stage = "closed")
    <3>1. CASE WorkerEnds \/ UNCHANGED vars
      BY <3>1 DEF WorkerEnds, vars, process
    <3>2. CASE SessionEnds
      BY <3>2 DEF SessionEnds, process, TypeInv, TypeOK, CarType
    <3>3. CASE PowerCycle
      BY <3>3 DEF PowerCycle, process, FreshCar
    <3> QED
      BY <1>4, <3>1, <3>2, <3>3
  <2>2. Program' = Program /\ Done' = Done /\ Own' = Own
    BY <2>1 DEF Program, Done, Own
  <2> QED
    BY <2>1, <2>2 DEF EraseOK
<1>5. CASE IssueApply \/ Return \/ Exit \/ Execute \/ EnterProgramming \/ ExecuteStep
             \/ ExecuteDone \/ ExecuteFails
  BY <1>5 DEF IssueApply, Return, Exit, Execute, EnterProgramming, ExecuteStep,
              ExecuteDone, ExecuteFails, process
<1> QED
  BY <1>1, <1>2, <1>3, <1>4, <1>5 DEF Next

LEMMA OwnStep ==
  ASSUME TypeInv, EraseOK, Next, phase # "shell", NEW s \in Sectors \ Own
  PROVE  content'[s] = content[s]
<1>1. content \in [Sectors -> {"old", "broken", "rewritten"}]
  BY DEF TypeInv, TypeOK
<1>2. CASE Exchange
  <2> DEFINE step == Head(script)
  <2>1. Active /\ script # <<>>
    BY <1>2 DEF Exchange
  <2>2. \/ content' = content
        \/ Able(step) /\ content' = Flashed(step)
    BY <1>2 DEF Exchange
  <2>3. step \in StepSet(Own)
    BY <2>1, StepOfActive
  <2>4. ASSUME Able(step), step.op = "erase" PROVE car.declared \in Own
    <3>1. car.stage = "declared"
      BY <2>4 DEF Able
    <3>2. phase = "running"
      <4>1. phase = "leaving" => step \in Undoing
        BY <2>1, StepOfActive
      <4> QED
        BY <2>1, <2>4, <4>1, UndoingSteps DEF Active
    <3>3. Done < Len(Program) /\ step = Program[Done + 1]
      BY <2>1, <3>2, NextOfProgram
    <3> QED
      BY <2>4, <3>1, <3>2, <3>3 DEF EraseOK
  <2>5. step.op = "block" => step.arg.sector \in Own
    BY <2>3, StepFacts
  <2> HIDE DEF step
  <2>6. ASSUME Able(step), content' = Flashed(step) PROVE content'[s] = content[s]
    <3>1. CASE step.op = "erase"
      BY <1>1, <2>4, <2>6, <3>1 DEF Flashed
    <3>2. CASE step.op = "block"
      BY <1>1, <2>5, <2>6, <3>2 DEF Flashed
    <3>3. CASE step.op \notin {"erase", "block"}
      BY <2>6, <3>3 DEF Flashed
    <3> QED
      BY <3>1, <3>2, <3>3
  <2> QED
    BY <2>2, <2>6
<1>3. CASE ExecuteStep
  <2>1. /\ phase = "executing"
        /\ Job!Choose \/ Job!Damage \/ Job!Rewrite \/ Job!Close
    BY <1>3 DEF ExecuteStep
  <2>2. Own = cmd.sectors /\ target \in Own \cup {NoSector}
    BY <2>1 DEF TypeInv, CommandOK, ApplyOK, JobOK, Own
  <2>3. CASE Job!Choose \/ Job!Close
    BY <2>3 DEF Job!Choose, Job!Close
  <2>4. CASE Job!Damage \/ Job!Rewrite
    BY <1>1, <2>2, <2>4 DEF Job!Damage, Job!Rewrite
  <2> QED
    BY <2>1, <2>3, <2>4
<1>4. CASE IssueApply \/ IssueOther
  BY <1>4 DEF IssueApply, IssueOther, Issue
<1>5. CASE Open \/ Arm \/ StartWorker \/ StopWorker \/ JoinWorker \/ WorkerEnds \/ Return \/ Exit
             \/ EnterProgramming \/ SessionEnds \/ PowerCycle
  BY <1>5 DEF Open, Arm, StartWorker, StopWorker, JoinWorker, WorkerEnds, Return, Exit,
              EnterProgramming, SessionEnds, PowerCycle
<1>6. CASE Execute \/ ExecuteDone \/ ExecuteFails
  BY <1>6 DEF Execute, ExecuteDone, ExecuteFails, Job!Begin, Job!Succeed, Job!Abort
<1> QED
  BY <1>2, <1>3, <1>4, <1>5, <1>6 DEF Next

(* No command alters a sector it was not given, whatever sector an earlier  *)
(* one left negotiated: the erase, which names none, comes right after an   *)
(* acknowledged negotiation, or finds none.                                 *)
THEOREM OwnSectorsOnly == Spec => OnlyOwnSectors
<1>1. Init => TypeInv /\ EraseOK
  BY TypeInitially DEF Init, EraseOK
<1>2. TypeInv /\ EraseOK /\ [Next]_vars => TypeInv' /\ EraseOK'
  BY TypeStep, EraseStep
<1>3. TypeInv /\ EraseOK /\ [Next]_vars
        => [phase # "shell" => \A s \in Sectors \ Own : content'[s] = content[s]]_vars
  BY OwnStep
<1> QED
  BY <1>1, <1>2, <1>3, PTL DEF Spec, OnlyOwnSectors

-----------------------------------------------------------------------------
(* Success.  The program of a write command, step by step.                  *)
LEMMA WriteProgram ==
  ASSUME cmd \in CommandType, Writes
  PROVE  /\ cmd.sectors \in Seq(Sectors) /\ Len(cmd.sectors) \in Nat /\ cmd.commit \in BOOLEAN
         /\ Len(Program) = CycleLength * Len(cmd.sectors) + (IF cmd.commit THEN 2 ELSE 0)
         /\ \A i \in 1 .. Len(Program) : Ends(Program[i]) /\ Program[i].code = 1
         /\ \A k \in 0 .. Len(cmd.sectors) - 1, r \in 0 .. CycleLength - 1 :
              Program[CycleLength * k + r + 1] = SectorCycle(cmd.sectors[k + 1], 1)[r + 1]
         /\ cmd.commit => /\ Program[CycleLength * Len(cmd.sectors) + 1] = Must("exit", 0)
                          /\ Program[CycleLength * Len(cmd.sectors) + 2] = Must("commit", 0)
<1> DEFINE q == cmd.sectors
           S == StepSet(Sectors)
           body == Sectorwise(q)
           close == Opt(cmd.commit, Close)
<1>1. q \in Seq(Sectors) /\ Len(q) \in Nat /\ cmd.commit \in BOOLEAN
  BY DEF CommandType, Writes
<1>2. Program = body \o close
  BY DEF Program, Script, Writes, WriteScript
<1>3. CycleLength \in Nat
  BY VerbAssumption DEF CycleLength
<1>4. /\ body \in Seq(S) /\ Len(body) = Len(q) * CycleLength
      /\ \A k \in 0 .. Len(q) - 1, r \in 0 .. CycleLength - 1 :
           body[CycleLength * k + r + 1] = SectorCycle(q[k + 1], 1)[r + 1]
      /\ \A i \in 1 .. Len(body) : Ends(body[i]) /\ body[i].code = 1
  BY <1>1, SectorwiseIs, SectorwisePiece
<1>5. Close \in Seq(S) /\ Len(Close) = 2 /\ Close[1] = Must("exit", 0) /\ Close[2] = Must("commit", 0)
  BY StepsOf DEF Close, PlainOps, LocalOps
<1>6. /\ close \in Seq(S) /\ Len(close) = IF cmd.commit THEN 2 ELSE 0
      /\ cmd.commit => close[1] = Must("exit", 0) /\ close[2] = Must("commit", 0)
  <2>1. <<>> \in Seq(S) /\ Len(<<>>) = 0
    OBVIOUS
  <2>2. CASE cmd.commit
    <3>1. close = Close
      BY <2>2 DEF Opt
    <3> QED
      BY <1>5, <2>2, <3>1
  <2>3. CASE ~cmd.commit
    <3>1. close = <<>>
      BY <2>3 DEF Opt
    <3> QED
      BY <2>1, <2>3, <3>1
  <2> QED
    BY <2>2, <2>3
<1>7. \A i \in 1 .. Len(close) : Ends(close[i]) /\ close[i].code = 1
  <2>1. \A i \in 1 .. 2 : i = 1 \/ i = 2
    OBVIOUS
  <2>2. ~cmd.commit => 1 .. Len(close) = {}
    BY <1>6
  <2>3. Must("exit", 0).stop = Failures /\ Must("exit", 0).code = 1
        /\ Must("commit", 0).stop = Failures /\ Must("commit", 0).code = 1
    BY DEF Must, Step
  <2> HIDE DEF close
  <2> QED
    BY <1>1, <1>6, <2>1, <2>2, <2>3 DEF Ends
<1>8. Len(body) = CycleLength * Len(q) /\ Len(body) \in Nat
  BY <1>1, <1>3, <1>4, SMT
<1> HIDE DEF body, close, q, S
<1>9. PICK b \in Seq(S), c \in Seq(S) : b = body /\ c = close
  BY <1>4, <1>6
<1>10. /\ Len(Program) = Len(body) + Len(close)
       /\ \A i \in 1 .. Len(body) : Program[i] = body[i]
       /\ \A i \in 1 .. Len(close) : Program[Len(body) + i] = close[i]
  <2>1. /\ Len(b \o c) = Len(b) + Len(c)
        /\ \A i \in 1 .. Len(b) : (b \o c)[i] = b[i]
        /\ \A i \in 1 .. Len(c) : (b \o c)[Len(b) + i] = c[i]
    BY Joined
  <2> QED
    BY <1>2, <1>9, <2>1, Zenon
<1>11. Len(Program) = CycleLength * Len(q) + (IF cmd.commit THEN 2 ELSE 0)
  BY <1>6, <1>8, <1>10, Zenon
<1>12. ASSUME NEW i \in 1 .. Len(Program) PROVE Ends(Program[i]) /\ Program[i].code = 1
  <2>0. Len(body) \in Nat /\ Len(close) \in Nat /\ Len(Program) = Len(body) + Len(close)
    BY <1>1, <1>6, <1>8, <1>10
  <2>1. CASE i \in 1 .. Len(body)
    BY <1>4, <1>10, <2>1
  <2>2. CASE i \notin 1 .. Len(body)
    <3>1. i - Len(body) \in 1 .. Len(close) /\ Len(body) + (i - Len(body)) = i
      BY <2>0, <2>2
    <3>2. Program[i] = close[i - Len(body)]
      BY <1>10, <3>1
    <3> QED
      BY <1>7, <3>1, <3>2
  <2> QED
    BY <2>1, <2>2
<1>13. ASSUME NEW k \in 0 .. Len(q) - 1, NEW r \in 0 .. CycleLength - 1
       PROVE  Program[CycleLength * k + r + 1] = SectorCycle(q[k + 1], 1)[r + 1]
  <2>1. CycleLength * k + r + 1 \in 1 .. Len(q) * CycleLength
    BY <1>1, CycleStep DEF q
  <2>2. CycleLength * k + r + 1 \in 1 .. Len(body)
    BY <1>4, <2>1
  <2>3. Program[CycleLength * k + r + 1] = body[CycleLength * k + r + 1]
    BY <1>10, <2>2, Zenon
  <2> QED
    BY <1>4, <2>3, Zenon
<1>14. ASSUME cmd.commit
       PROVE  /\ Program[CycleLength * Len(q) + 1] = Must("exit", 0)
              /\ Program[CycleLength * Len(q) + 2] = Must("commit", 0)
  <2>1. 1 \in 1 .. Len(close) /\ 2 \in 1 .. Len(close)
    BY <1>6, <1>14
  <2>2. Program[Len(body) + 1] = close[1] /\ Program[Len(body) + 2] = close[2]
    BY <1>10, <2>1, Zenon
  <2> QED
    BY <1>6, <1>8, <1>14, <2>2
<1> QED
  BY <1>1, <1>11, <1>12, <1>13, <1>14 DEF q

(* The step at a point of the progress.                                     *)
LEMMA StepAt ==
  ASSUME TypeInv, phase = "running", Writes, script # <<>>,
         NEW k \in 0 .. Len(cmd.sectors), NEW r \in Nat, Progress(k, r)
  PROVE  LET step == Head(script)
             n    == Len(cmd.sectors)
         IN  /\ Ends(step) /\ step.code = 1
             /\ k < n /\ r = 0  => step.op = "declare" /\ step.arg = cmd.sectors[k + 1]
             /\ k < n /\ r = 1  => step.op = "erase"
             /\ k < n /\ r >= 2 => step.op = "block" /\ step.arg.sector = cmd.sectors[k + 1]
                                                    /\ step.arg.index = r - 1
             /\ k = n => (r = 0 /\ step.op = "exit") \/ (r = 1 /\ step.op = "commit")
<1> DEFINE n == Len(cmd.sectors)
           C == CycleLength
<1>1. cmd \in CommandType
  BY DEF TypeInv, CommandOK, ApplyOK, Writes
<1>2. /\ cmd.sectors \in Seq(Sectors) /\ n \in Nat /\ cmd.commit \in BOOLEAN
      /\ Len(Program) = C * n + (IF cmd.commit THEN 2 ELSE 0)
      /\ \A i \in 1 .. Len(Program) : Ends(Program[i]) /\ Program[i].code = 1
      /\ \A a \in 0 .. n - 1, b \in 0 .. C - 1 :
           Program[C * a + b + 1] = SectorCycle(cmd.sectors[a + 1], 1)[b + 1]
      /\ cmd.commit => /\ Program[C * n + 1] = Must("exit", 0)
                       /\ Program[C * n + 2] = Must("commit", 0)
  BY <1>1, WriteProgram
<1>3. C \in Nat /\ C = Blocks + 2 /\ Blocks \in Nat \ {0}
  BY VerbAssumption DEF CycleLength
<1>4. /\ Head(script) = Program[Done + 1] /\ Done < Len(Program) /\ Done \in Nat /\ Len(Program) \in Nat
  BY NextOfProgram
<1>5. Done = C * k + r /\ (IF k < n THEN r < C ELSE r <= 2)
  BY DEF Progress
<1>6. Ends(Head(script)) /\ Head(script).code = 1
  <2>1. Done + 1 \in 1 .. Len(Program)
    BY <1>4
  <2> QED
    BY <1>2, <1>4, <2>1
<1>7. CASE k < n
  <2> DEFINE v == SectorCycle(cmd.sectors[k + 1], 1)
  <2>1. k \in 0 .. n - 1 /\ r \in 0 .. C - 1
    BY <1>2, <1>3, <1>5, <1>7
  <2>2. Head(script) = v[r + 1]
    BY <1>2, <1>4, <1>5, <2>1
  <2>3. cmd.sectors[k + 1] \in Sectors /\ 1 \in {0, 1}
    BY <1>2, <2>1
  <2>4. /\ v[1] = Step("declare", cmd.sectors[k + 1], Failures, 1)
        /\ v[2] = Step("erase", 0, Failures, 1)
        /\ \A b \in 1 .. Blocks :
             v[b + 2] = Step("block", [sector |-> cmd.sectors[k + 1], index |-> b], Failures, 1)
    BY <2>3, SectorCyclePiece
  <2> HIDE DEF v
  <2>5. ASSUME r >= 2
        PROVE  v[r + 1] = Step("block", [sector |-> cmd.sectors[k + 1], index |-> r - 1], Failures, 1)
    <3>1. r - 1 \in 1 .. Blocks /\ (r - 1) + 2 = r + 1
      BY <1>3, <2>1, <2>5
    <3> QED
      BY <2>4, <3>1
  <2>6. /\ r = 0  => Head(script).op = "declare" /\ Head(script).arg = cmd.sectors[k + 1]
        /\ r = 1  => Head(script).op = "erase"
    BY <2>2, <2>4 DEF Step
  <2>7. r >= 2 => /\ Head(script).op = "block" /\ Head(script).arg.sector = cmd.sectors[k + 1]
                  /\ Head(script).arg.index = r - 1
    BY <2>2, <2>5 DEF Step
  <2> QED
    BY <1>2, <1>6, <1>7, <2>6, <2>7
<1>8. CASE k = n
  <2>1. C * n \in Nat
    <3>1. C \in Nat /\ n \in Nat
      BY <1>2, <1>3
    <3> HIDE DEF C, n
    <3> QED
      BY <3>1, SMT
  <2>2. cmd.commit /\ r \in {0, 1}
    BY <1>2, <1>4, <1>5, <1>8, <2>1
  <2>3. r = 0 => Head(script) = Must("exit", 0)
    BY <1>2, <1>4, <1>5, <1>8, <2>1, <2>2
  <2>4. r = 1 => Head(script) = Must("commit", 0)
    <3>1. r = 1 => Done + 1 = C * n + 2
      BY <1>5, <1>8, <2>1
    <3> QED
      BY <1>2, <1>4, <2>2, <3>1
  <2>5. Must("exit", 0).op = "exit" /\ Must("commit", 0).op = "commit"
    BY DEF Must, Step
  <2> QED
    BY <1>2, <1>6, <1>8, <2>2, <2>3, <2>4, <2>5
<1> QED
  BY <1>2, <1>7, <1>8

(* A request of a write command that is answered.                           *)
LEMMA ProgressExchange ==
  ASSUME TypeInv, phase = "running", Writes, script # <<>>,
         NEW k \in 0 .. Len(cmd.sectors), NEW r \in Nat, Progress(k, r),
         Able(Head(script)), car' = After(Head(script)), content' = Flashed(Head(script)),
         cmd' = cmd, Done' = Done + 1
  PROVE  \E a \in 0 .. Len(cmd.sectors), b \in Nat : Progress(a, b)'
<1> DEFINE q    == cmd.sectors
           n    == Len(cmd.sectors)
           C    == CycleLength
           step == Head(script)
<1>1. /\ k < n /\ r = 0  => step.op = "declare" /\ step.arg = q[k + 1]
      /\ k < n /\ r = 1  => step.op = "erase"
      /\ k < n /\ r >= 2 => step.op = "block" /\ step.arg.sector = q[k + 1] /\ step.arg.index = r - 1
      /\ k = n => (r = 0 /\ step.op = "exit") \/ (r = 1 /\ step.op = "commit")
  BY StepAt
<1>2. /\ q \in Seq(Sectors) /\ n \in Nat
  <2>1. cmd \in CommandType
    BY DEF TypeInv, CommandOK, ApplyOK, Writes
  <2> QED
    BY <2>1, WriteProgram
<1>3. C \in Nat /\ C = Blocks + 2 /\ Blocks \in Nat /\ Blocks >= 1
  BY VerbAssumption DEF CycleLength
<1>4. /\ Done = C * k + r
      /\ IF k < n THEN r < C ELSE r <= 2
      /\ \A j \in 1 .. k : \/ content[q[j]] = "rewritten"
                           \/ k < n /\ r >= 2 /\ q[j] = q[k + 1]
      /\ k < n /\ r = 1 /\ car.stage = "declared" => car.declared = q[k + 1]
      /\ k < n /\ r >= 2 /\ car.stage = "erased" => car.declared = q[k + 1] /\ car.blocks = 1 .. r - 2
      /\ k = n /\ r = 2 => car.open = {}
  BY DEF Progress
<1>5. /\ k \in Int /\ 0 <= k /\ k <= n /\ r \in Int /\ 0 <= r /\ (k < n => r < C)
      /\ Done' = Done + 1
  BY <1>2, <1>4
<1>6. car \in CarType /\ content \in [Sectors -> {"old", "broken", "rewritten"}]
  BY DEF TypeInv, TypeOK
<1>7. \A j \in 1 .. n : q[j] \in Sectors
  BY <1>2
<1>8. k < n => q[k + 1] \in Sectors /\ k + 1 \in 0 .. n
  BY <1>2, <1>5, <1>7
<1>9. C * k \in Int /\ C * (k + 1) = C * k + C
  <2>1. C \in Int /\ k \in Int
    BY <1>3, <1>5
  <2> HIDE DEF C
  <2> QED
    BY <2>1, SMT
<1>10. Able(step) /\ car' = After(step) /\ content' = Flashed(step)
  OBVIOUS
<1> HIDE DEF step, C, n
<1>11. CASE k < n /\ r = 0
  <2>1. car'.declared = q[k + 1] /\ content' = content
    BY <1>1, <1>6, <1>10, <1>11 DEF After, Flashed, CarType
  <2>2. Done' = C * k + 1 /\ 1 < C
    BY <1>3, <1>4, <1>5, <1>9, <1>11
  <2>3. \A j \in 1 .. k : content'[q[j]] = "rewritten"
    BY <1>4, <1>11, <2>1
  <2>4. Progress(k, 1)'
    BY <1>11, <2>1, <2>2, <2>3 DEF Progress, C, n
  <2> QED
    BY <1>5, <2>4 DEF n
<1>12. CASE k < n /\ r = 1
  <2>1. car.stage = "declared" /\ car.declared = q[k + 1]
    BY <1>1, <1>4, <1>10, <1>12 DEF Able
  <2>2. /\ car'.stage = "erased" /\ car'.declared = q[k + 1] /\ car'.blocks = {}
        /\ content' = [content EXCEPT ![q[k + 1]] = "broken"]
    BY <1>1, <1>6, <1>10, <1>12, <2>1 DEF After, Flashed, CarType
  <2>3. Done' = C * k + 2 /\ 2 < C
    BY <1>3, <1>4, <1>5, <1>9, <1>12
  <2>4. \A j \in 1 .. k : content'[q[j]] = "rewritten" \/ q[j] = q[k + 1]
    <3> TAKE j \in 1 .. k
    <3>1. j \in 1 .. n /\ content[q[j]] = "rewritten"
      BY <1>2, <1>4, <1>5, <1>12 DEF n
    <3> QED
      BY <1>6, <1>7, <2>2, <3>1
  <2>5. 1 .. 2 - 2 = {}
    OBVIOUS
  <2>6. Progress(k, 2)'
    BY <1>12, <2>2, <2>3, <2>4, <2>5 DEF Progress, C, n
  <2> QED
    BY <1>5, <2>6 DEF n
<1>13. CASE k < n /\ r >= 2
  <2>1. /\ step.op = "block" /\ step.arg.sector = q[k + 1] /\ step.arg.index = r - 1
    BY <1>1, <1>13
  <2>2. car.stage = "erased" /\ car.declared = q[k + 1] /\ car.blocks = 1 .. r - 2
    BY <1>4, <1>10, <1>13, <2>1 DEF Able
  <2>3. car.blocks \cup {r - 1} = 1 .. r - 1
    BY <1>5, <1>13, <2>2
  <2>4. /\ car'.stage = "erased" /\ car'.declared = q[k + 1]
        /\ car'.blocks = car.blocks \cup {r - 1}
    <3>1. After(step) = [car EXCEPT !.blocks = car.blocks \cup {r - 1}]
      BY <2>1 DEF After
    <3> QED
      BY <1>6, <1>10, <2>2, <3>1 DEF CarType
  <2>5. content' = [content EXCEPT ![q[k + 1]] =
                      IF car.blocks \cup {r - 1} = 1 .. Blocks THEN "rewritten" ELSE "broken"]
    BY <1>10, <2>1, <2>2 DEF Flashed
  <2>6. \A j \in 1 .. k : content'[q[j]] = "rewritten" \/ q[j] = q[k + 1]
    <3> TAKE j \in 1 .. k
    <3>1. j \in 1 .. n /\ (content[q[j]] = "rewritten" \/ q[j] = q[k + 1])
      BY <1>2, <1>4, <1>5 DEF n
    <3> QED
      BY <1>6, <1>7, <2>5, <3>1
  <2>7. CASE r + 1 < C
    <3>1. Done' = C * k + (r + 1) /\ (r + 1) - 2 = r - 1 /\ r + 1 >= 2 /\ r + 1 # 1
      BY <1>4, <1>5, <1>9, <1>13
    <3>2. Progress(k, r + 1)'
      <4>1. car'.blocks = 1 .. (r + 1) - 2
        BY <2>3, <2>4, <3>1
      <4>2. k # n
        BY <1>2, <1>5, <1>13
      <4> DEFINE b == r + 1
      <4>3. Done' = C * k + b /\ b >= 2 /\ b # 1 /\ b < C /\ car'.blocks = 1 .. b - 2
        BY <2>7, <3>1, <4>1
      <4> HIDE DEF b
      <4>4. Progress(k, b)'
        BY <1>13, <2>4, <2>6, <4>2, <4>3 DEF Progress, C, n
      <4> QED
        BY <4>4 DEF b
    <3>3. r + 1 \in Nat /\ k \in 0 .. Len(cmd.sectors)
      BY <1>5
    <3> QED
      BY <3>2, <3>3
  <2>8. CASE r + 1 = C
    <3>1. r - 1 = Blocks
      BY <1>3, <1>5, <2>8
    <3>2. content'[q[k + 1]] = "rewritten"
      BY <1>6, <1>8, <1>13, <2>3, <2>5, <3>1
    <3>3. Done' = C * (k + 1) + 0
      BY <1>4, <1>5, <1>9, <2>8
    <3>4. \A j \in 1 .. k + 1 : content'[q[j]] = "rewritten"
      <4> TAKE j \in 1 .. k + 1
      <4>1. j = k + 1 \/ j \in 1 .. k
        BY <1>5
      <4> QED
        BY <2>6, <3>2, <4>1
    <3>5. IF k + 1 < n THEN 0 < C ELSE 0 <= 2
      BY <1>3
    <3>6. Progress(k + 1, 0)'
      BY <3>3, <3>4, <3>5 DEF Progress, C, n
    <3> QED
      BY <1>8, <1>13, <3>6 DEF n
  <2>9. r + 1 < C \/ r + 1 = C
    BY <1>3, <1>5, <1>13
  <2> QED
    BY <2>7, <2>8, <2>9
<1>14. CASE k = n
  <2>1. \A j \in 1 .. k : content[q[j]] = "rewritten"
    BY <1>4, <1>5, <1>14
  <2>2. CASE r = 0
    <3>1. content' = content /\ step.op = "exit"
      BY <1>1, <1>10, <1>14, <2>2 DEF Flashed
    <3>2. Done' = C * k + 1
      BY <1>4, <1>5, <1>9, <2>2
    <3>3. Progress(k, 1)'
      BY <1>5, <1>14, <2>1, <3>1, <3>2 DEF Progress, C, n
    <3> QED
      BY <1>5, <3>3 DEF n
  <2>3. CASE r = 1
    <3>1. step.op = "commit"
      BY <1>1, <1>14, <2>3
    <3>2. content' = content /\ car'.open = {}
      BY <1>6, <1>10, <3>1 DEF Flashed, After, CarType
    <3>3. Done' = C * k + 2
      BY <1>4, <1>5, <1>9, <2>3
    <3>4. Progress(k, 2)'
      BY <1>5, <1>14, <2>1, <3>2, <3>3 DEF Progress, C, n
    <3> QED
      BY <1>5, <3>4 DEF n
  <2> QED
    BY <1>1, <1>14, <2>2, <2>3
<1> QED
  BY <1>2, <1>5, <1>11, <1>12, <1>13, <1>14

(* Everything of a write command is done when nothing is left of it.        *)
LEMMA ProgressEnds ==
  ASSUME TypeInv, phase = "running", script = <<>>, Writes, cmd.commit,
         NEW k \in 0 .. Len(cmd.sectors), NEW r \in Nat, Progress(k, r)
  PROVE  \A s \in ToSet(cmd.sectors) : content[s] = "rewritten" /\ s \notin car.open
<1> DEFINE n == Len(cmd.sectors)
           C == CycleLength
<1>1. cmd \in CommandType
  BY DEF TypeInv, CommandOK, ApplyOK, Writes
<1>2. cmd.sectors \in Seq(Sectors) /\ n \in Nat /\ Len(Program) = C * n + 2
  BY <1>1, WriteProgram
<1>3. C \in Nat
  BY VerbAssumption DEF CycleLength
<1>4. /\ Done = C * k + r /\ (IF k < n THEN r < C ELSE r <= 2)
      /\ \A j \in 1 .. k : \/ content[cmd.sectors[j]] = "rewritten"
                           \/ k < n /\ r >= 2 /\ cmd.sectors[j] = cmd.sectors[k + 1]
      /\ k = n /\ r = 2 => car.open = {}
  BY DEF Progress
<1>5. Done = C * n + 2
  BY <1>2, NextOfProgram
<1>6. k = n
  <2> SUFFICES ASSUME k < n PROVE FALSE
    BY <1>2
  <2>1. C \in Int /\ n \in Int /\ k \in Int /\ k + 1 <= n /\ r \in Int /\ r < C
        /\ C * k + r = C * n + 2 /\ C >= 0
    BY <1>2, <1>3, <1>4, <1>5
  <2> HIDE DEF C, n
  <2>2. C * (k + 1) <= C * n
    BY <2>1, SMT
  <2>3. C * (k + 1) = C * k + C /\ C * k \in Int /\ C * n \in Int
    BY <2>1, SMT
  <2> QED
    BY <2>1, <2>2, <2>3
<1>7. r = 2
  <2>1. C * n \in Int
    <3> HIDE DEF C, n
    <3> QED
      BY <1>2, <1>3, SMT
  <2> QED
    BY <1>4, <1>5, <1>6, <2>1
<1>8. car.open = {} /\ \A j \in 1 .. n : content[cmd.sectors[j]] = "rewritten"
  BY <1>4, <1>6, <1>7
<1>9. \A s \in ToSet(cmd.sectors) : \E j \in 1 .. n : s = cmd.sectors[j]
  BY <1>2 DEF ToSet
<1> QED
  BY <1>8, <1>9

(* What a step does not touch stays as it is told.                          *)
LEMMA ProgressStays ==
  ASSUME UNCHANGED <<cmd, script, content>>, car'.open = car.open,
         car' = car \/ car'.stage = "closed",
         NEW k \in 0 .. Len(cmd.sectors), NEW r \in Nat, Progress(k, r)
  PROVE  Progress(k, r)'
<1>1. Done' = Done
  BY DEF Done, Program
<1>2. CASE car' = car
  BY <1>1, <1>2 DEF Progress
<1>3. CASE car'.stage = "closed"
  BY <1>1, <1>3 DEF Progress
<1> QED
  BY <1>2, <1>3

(* The requests of the guards change no sector and commit none.             *)
LEMMA UndoingKeeps ==
  ASSUME TypeInv, NEW step \in Undoing
  PROVE  Flashed(step) = content /\ After(step).open = car.open
<1>1. step.op \in {"dtcOn", "commOn", "session", "stopWorker", "joinWorker", "disable"}
      /\ (step.op = "session" => step.arg = "extended")
  BY UndoingSteps
<1>2. Flashed(step) = content
  BY <1>1 DEF Flashed
<1>3. car \in CarType
  BY DEF TypeInv, TypeOK
<1>4. step.op \in {"dtcOn", "commOn"} => After(step).open = car.open
  BY <1>3 DEF After, CarType
<1>5. step.op = "disable" => After(step).open = car.open
  BY <1>3 DEF After, CarType
<1>6. step.op = "session" => After(step).open = car.open
  BY <1>1, <1>3 DEF After, CarType
<1>7. step.op \in {"stopWorker", "joinWorker"} => After(step).open = car.open
  BY <1>3 DEF After, CarType
<1> QED
  BY <1>1, <1>2, <1>4, <1>5, <1>6, <1>7

LEMMA SuccessExchange ==
  ASSUME TypeInv, SuccessInv, Exchange
  PROVE  SuccessInv'
<1> DEFINE step == Head(script)
<1>1. Active /\ script # <<>> /\ UNCHANGED <<cmd, armed, worker, asked, job, issued>>
  BY DEF Exchange
<1>2. PICK done \in BOOLEAN, reply \in {"ok", "silent", "refused"} :
        /\ done => Able(step)
        /\ reply = "ok" => done
        /\ car'     = IF done THEN After(step) ELSE car
        /\ content' = IF done THEN Flashed(step) ELSE content
        /\ phase'   = IF reply \in step.stop THEN "leaving" ELSE phase
        /\ script'  = IF reply \in step.stop THEN Guards(armed) ELSE Tail(script)
        /\ code'    = IF reply \in step.stop THEN step.code ELSE code
  BY DEF Exchange
<1>3. CASE phase = "leaving"
  <2>1. step \in Undoing
    BY <1>1, <1>3, StepOfActive
  <2>2. step.stop = {}
    BY <2>1, UndoingSteps
  <2>3. phase' = "leaving" /\ code' = code /\ content' = content /\ car'.open = car.open
    BY <1>2, <1>3, <2>1, <2>2, UndoingKeeps
  <2> QED
    BY <1>1, <1>3, <2>3 DEF SuccessInv, Succeeded, Writes
<1>4. CASE phase = "running" /\ ~Writes
  <2>1. phase' \in {"running", "leaving"} /\ (phase' = "running" => code' = code) /\ ~Writes'
    BY <1>1, <1>2, <1>4 DEF Writes
  <2> QED
    BY <1>4, <2>1 DEF SuccessInv, Succeeded
<1>5. CASE phase = "running" /\ Writes
  <2>1. PICK k \in 0 .. Len(cmd.sectors) : \E r \in Nat : Progress(k, r)
    BY <1>5 DEF SuccessInv
  <2>2. PICK r \in Nat : Progress(k, r)
    BY <2>1
  <2>3. Ends(step) /\ step.code = 1
    BY <1>1, <1>5, <2>2, StepAt
  <2>4. CASE reply \in step.stop
    <3>1. phase' = "leaving" /\ code' = 1
      BY <1>2, <2>3, <2>4
    <3> QED
      BY <3>1 DEF SuccessInv
  <2>5. CASE reply \notin step.stop
    <3>1. done
      BY <1>2, <2>3, <2>5 DEF Ends, Failures
    <3>2. /\ Able(step) /\ car' = After(step) /\ content' = Flashed(step)
          /\ phase' = "running" /\ script' = Tail(script) /\ code' = code
      BY <1>2, <1>5, <2>5, <3>1
    <3>3. Done' = Done + 1
      BY <1>1, <1>5, <3>2, Advance
    <3>4. \E a \in 0 .. Len(cmd.sectors), b \in Nat : Progress(a, b)'
      BY <1>1, <1>5, <2>2, <3>2, <3>3, ProgressExchange
    <3>5. cmd'.sectors = cmd.sectors
      BY <1>1
    <3> QED
      BY <1>5, <3>2, <3>4, <3>5 DEF SuccessInv
  <2> QED
    BY <2>4, <2>5
<1> QED
  BY <1>1, <1>3, <1>4, <1>5 DEF Active

LEMMA SuccessExecute ==
  ASSUME TypeInv, SuccessInv,
         Execute \/ EnterProgramming \/ ExecuteStep \/ ExecuteDone \/ ExecuteFails
  PROVE  SuccessInv'
<1>1. CASE Execute
  <2>1. phase' = "entering" /\ pending' = cmd.sectors /\ cmd' = cmd
    BY <1>1 DEF Execute
  <2> QED
    BY <2>1 DEF SuccessInv
<1>2. CASE EnterProgramming
  <2>1. phase = "entering" /\ phase' = "executing" /\ UNCHANGED <<cmd, content, pending>>
    BY <1>2 DEF EnterProgramming, job
  <2> QED
    BY <2>1 DEF SuccessInv
<1>3. CASE ExecuteStep
  <2>1. /\ phase = "executing" /\ phase' = "executing" /\ cmd' = cmd
        /\ Job!Choose \/ Job!Damage \/ Job!Rewrite \/ Job!Close
    BY <1>3 DEF ExecuteStep, process
  <2>2. /\ content \in [Sectors -> {"old", "broken", "rewritten"}]
        /\ pending \subseteq cmd.sectors /\ cmd.sectors \subseteq Sectors
        /\ target \in pending \cup {NoSector}
        /\ \A s \in cmd.sectors \ pending : content[s] = "rewritten"
    BY <2>1 DEF TypeInv, TypeOK, JobOK, CommandOK, ApplyOK, SuccessInv
  <2>3. \A s \in cmd.sectors \ pending' : content'[s] = "rewritten"
    <3>1. CASE Job!Choose
      BY <2>2, <3>1 DEF Job!Choose
    <3>2. CASE Job!Damage
      BY <2>2, <3>2 DEF Job!Damage
    <3>3. CASE Job!Rewrite
      BY <2>2, <3>3 DEF Job!Rewrite
    <3>4. CASE Job!Close
      BY <2>2, <3>4 DEF Job!Close
    <3> QED
      BY <2>1, <3>1, <3>2, <3>3, <3>4
  <2> QED
    BY <2>1, <2>3 DEF SuccessInv
<1>4. CASE ExecuteDone
  <2>1. phase = "executing" /\ phase' = "shell" /\ pending = {} /\ UNCHANGED <<cmd, content>>
    BY <1>4 DEF ExecuteDone, Job!Succeed
  <2>2. cmd.verb = "apply" /\ \A s \in cmd.sectors : content[s] = "rewritten"
    BY <2>1 DEF TypeInv, CommandOK, ApplyOK, SuccessInv
  <2> QED
    BY <2>1, <2>2 DEF SuccessInv, Succeeded, Writes
<1>5. CASE ExecuteFails
  BY <1>5 DEF ExecuteFails, SuccessInv
<1> QED
  BY <1>1, <1>2, <1>3, <1>4, <1>5

LEMMA SuccessStep == TypeInv /\ SuccessInv /\ [Next]_vars => SuccessInv'
<1> SUFFICES ASSUME TypeInv, SuccessInv, [Next]_vars PROVE SuccessInv'
  OBVIOUS
<1>1. CASE IssueApply
  <2>1. (phase' = "gated" /\ code' = 0) \/ (phase' = "shell" /\ code' = 3)
    BY <1>1 DEF IssueApply
  <2> QED
    BY <2>1 DEF SuccessInv
<1>2. CASE IssueOther
  <2>1. cmd' \in CommandType /\ phase' = "running" /\ code' = 0 /\ script' = Script(cmd')
    BY <1>2, CliAssumption DEF IssueOther
  <2>2. Done' = 0
    BY <2>1, BeginsOther
  <2>3. ASSUME Writes' PROVE \E k \in 0 .. Len(cmd'.sectors), r \in Nat : Progress(k, r)'
    <3>1. Len(cmd'.sectors) \in Nat
      BY <2>1, <2>3 DEF CommandType, Writes
    <3>2. CycleLength \in Nat /\ CycleLength > 0
      BY VerbAssumption DEF CycleLength
    <3>3. Done' = CycleLength * 0 + 0
      BY <2>2, <3>2
    <3>4. Progress(0, 0)'
      BY <3>1, <3>2, <3>3 DEF Progress
    <3> QED
      BY <3>1, <3>4
  <2> QED
    BY <2>1, <2>3 DEF SuccessInv
<1>3. CASE Open
  <2>1. /\ phase = "gated" /\ cmd'.verb = "apply"
        /\ (phase' = "shell" /\ code' = 1) \/ (phase' = "running" /\ code' = code)
    BY <1>3 DEF Open
  <2> QED
    BY <2>1 DEF SuccessInv, Writes
<1>4. CASE Exchange
  BY <1>4, SuccessExchange
<1>5. CASE Arm \/ StartWorker \/ StopWorker \/ JoinWorker
  <2>1. /\ script # <<>> /\ Active /\ UNCHANGED <<phase, cmd, code, car, content, job, issued>>
        /\ Head(script).op \in LocalOps
    BY <1>5 DEF Arm, StartWorker, StopWorker, JoinWorker, Take, LocalOps
  <2>2. ~(phase = "running" /\ Writes)
    <3> SUFFICES ASSUME phase = "running", Writes PROVE FALSE
      OBVIOUS
    <3>1. PICK k \in 0 .. Len(cmd.sectors) : \E r \in Nat : Progress(k, r)
      BY DEF SuccessInv
    <3>2. PICK r \in Nat : Progress(k, r)
      BY <3>1
    <3>3. \/ k < Len(cmd.sectors) /\ (r = 0 \/ r = 1 \/ r >= 2)
          \/ k = Len(cmd.sectors)
      <4>1. cmd \in CommandType
        BY DEF TypeInv, CommandOK, ApplyOK, Writes
      <4>2. Len(cmd.sectors) \in Nat
        BY <4>1, WriteProgram
      <4> QED
        BY <4>2
    <3>4. Head(script).op \in {"declare", "erase", "block", "exit", "commit"}
      BY <2>1, <3>2, <3>3, StepAt
    <3> QED
      BY <2>1, <3>4 DEF LocalOps
  <2> QED
    BY <2>1, <2>2 DEF SuccessInv, Succeeded, Writes, Active
<1>6. CASE Return
  <2>1. /\ phase = "running" /\ script = <<>> /\ phase' = "leaving"
        /\ UNCHANGED <<cmd, code, car, content>>
    BY <1>6 DEF Return
  <2>2. ASSUME Writes, cmd.commit
        PROVE  \A s \in ToSet(cmd.sectors) : content[s] = "rewritten" /\ s \notin car.open
    <3>1. PICK k \in 0 .. Len(cmd.sectors) : \E r \in Nat : Progress(k, r)
      BY <2>1, <2>2 DEF SuccessInv
    <3>2. PICK r \in Nat : Progress(k, r)
      BY <3>1
    <3> QED
      BY <2>1, <2>2, <3>2, ProgressEnds
  <2> QED
    BY <2>1, <2>2 DEF SuccessInv, Succeeded, Writes
<1>7. CASE Exit
  <2>1. /\ phase = "leaving" /\ phase' = "shell" /\ ~(cmd.verb = "apply" /\ code = 0)
        /\ UNCHANGED <<cmd, code, car, content>>
    BY <1>7 DEF Exit
  <2> QED
    BY <2>1 DEF SuccessInv, Succeeded, Writes
<1>8. CASE Execute \/ EnterProgramming \/ ExecuteStep \/ ExecuteDone \/ ExecuteFails
  BY <1>8, SuccessExecute
<1>9. CASE WorkerEnds \/ SessionEnds \/ PowerCycle \/ UNCHANGED vars
  <2>1. /\ UNCHANGED <<phase, cmd, script, code, content, pending, issued>>
        /\ car'.open = car.open /\ (car' = car \/ car'.stage = "closed")
    <3>1. CASE WorkerEnds \/ UNCHANGED vars
      BY <3>1 DEF WorkerEnds, vars, process, job
    <3>2. CASE SessionEnds
      BY <3>2 DEF SessionEnds, process, job, TypeInv, TypeOK, CarType
    <3>3. CASE PowerCycle
      BY <3>3 DEF PowerCycle, process, job, FreshCar
    <3> QED
      BY <1>9, <3>1, <3>2, <3>3
  <2>2. ASSUME phase = "running", Writes
        PROVE  \E k \in 0 .. Len(cmd'.sectors), r \in Nat : Progress(k, r)'
    <3>1. PICK k \in 0 .. Len(cmd.sectors) : \E r \in Nat : Progress(k, r)
      BY <2>2 DEF SuccessInv
    <3>2. PICK r \in Nat : Progress(k, r)
      BY <3>1
    <3>3. Progress(k, r)'
      BY <2>1, <3>2, ProgressStays
    <3> QED
      BY <2>1, <3>3
  <2> QED
    BY <2>1, <2>2 DEF SuccessInv, Succeeded, Writes
<1> QED
  BY <1>1, <1>2, <1>3, <1>4, <1>5, <1>6, <1>7, <1>8, <1>9 DEF Next

(* A write command with its commit, or a flash-apply, that exits with 0 has *)
(* rewritten every sector it was given and, a write, left none of them      *)
(* uncommitted: for any sectors in any order, any number of blocks, and     *)
(* requests that are lost or refused anywhere.                              *)
THEOREM SuccessIsTrue == Spec => []SuccessHolds
<1>1. Init => TypeInv /\ SuccessInv
  BY TypeInitially DEF Init, SuccessInv
<1>2. TypeInv /\ SuccessInv /\ [Next]_vars => TypeInv' /\ SuccessInv'
  BY TypeStep, SuccessStep
<1>3. SuccessInv => SuccessHolds
  BY DEF SuccessInv, Succeeded, SuccessHolds, Writes
<1> QED
  BY <1>1, <1>2, <1>3, PTL DEF Spec
=============================================================================
