# TLA+ models of SubuwuTuner

SubuwuTuner reads, edits and flashes the engine computers (ECUs) of Subaru
cars. The parts modelled here are those where several threads, a wire, a disk or
a processor can get between the program and what it tells its user: the flash
orchestrator and the commands that lead up to it, reading an image out of a car,
the way of a feature from its graph to the code an ECU runs, the datalogger, the
client of the AccessPort handheld, and the store of tuning projects.

Each part has a specification written from its C++ source, instances for TLC and
theorems checked by TLAPS. `PROJECT.json`
lists the components, the runs, the lines every definition models, the hazards
of the code with the properties aimed at them, the findings and the theorems.

To check one instance, or the proofs of one module:

    tlc -workers 2 -config FlashExecute.cfg MCFlash.tla
    tlapm FlashExecuteProofs.tla

## 1. Inventory

Paths are relative to `src/src/`. "State" is what outlives one call.

### Flash orchestrator: `flash/src/flash.cpp`, `flash/include/st/flash.hpp`

- **State.** In a call of `Flasher::execute`: the ordered writes, the current
  `SectorOutcome`, the `FlashReport`, the block counter. Outside it: the atomic
  cancel flag, the journal file, the audit log, the ECU (session, download under
  way, bus muted or not, flash contents).
- **Operations.** `execute` (programming session, optional bus silence; per
  sector erase, RequestDownload, TransferData blocks, RequestTransferExit,
  dependency check, read-back; journal and audit after each), `cancel_cleanup`,
  `bail`, `build_manifest`, `plan_resume`.
- **Interaction.** A worker thread of the GUI or the CLI calls it; the GUI
  thread raises cancel; it talks to the ECU through `UdsClient` and appends to
  the audit log; `flash-resume` (`cli/main.cpp`) reads the journal.
- **Hard.** Answers lost after the ECU acted; cancel at any step; a host crash
  between two steps, or inside the write of the journal; an ECU reset; resuming
  from a journal; the sector with the boot check must come last.
- **Correct when** the report is true of the ECU, success means every sector,
  the bus is not left silent by a call that says it restored it, cancel stops
  soon, a dry run changes nothing, and a resumed chain leaves no hole.

### Flash commands and the policy gate: `cli/main.cpp`, `flash/src/flash.cpp`

- **State.** Of a command: the guards it armed, its counter thread, its exit code.
  Of the car, which outlives the command: the session, the sector negotiated, DTC
  recording and communication on or off, the frames the adapter sends by itself,
  the flash.
- **Operations.** `flash-delta` (whole sectors, of one size or of a layout),
  `evaluate_plan_policy`, `run_policy_gate`, `flash-apply` up to and including
  `Flasher::execute`, the unblock sequence with its inline write,
  `flash-write-cycle`, `flash-restore-from-stock`, `flash-commit`; the presence test,
  which fills the slots and reads, and `dsc-try`, one cold session request.
- **Interaction.** The plan a command writes is a file the next one reads; the ECU's
  session and sector are left to the next command; a thread refreshes frames.
- **Hard.** Any request may go unanswered after it was done; guards run on every
  way out and talk to the car themselves; power loss between two commands; the
  gate works on tables and the plan on sectors.
- **Correct when** no change of a protected table passes the gate unseen, nothing
  stays switched off that the command could switch on, an exit code of zero
  means the sectors are written, and a command touches no sector but its own.

### Reading an image: `ui/src/modals/read_rom.cpp`, `flash/src/flash.cpp`, `transport/`, `audit/src/audit.cpp`

- **State.** The modal's state, result and flags, shared with a thread; the chunk
  loop's buffer and chunk size; frames nobody has read; the lines of the log.
- **Operations.** Read, Cancel, Save, Discard, Back; `read_full_rom` with its probe
  and its ladder of smaller chunks, `read_full_rom_ssm`; the exchange of the OBDX
  and of the native driver; `AuditLog::append`.
- **Interaction.** The frame loop polls the thread; the thread blocks in a driver;
  each outcome goes to the log.
- **Hard.** An answer that comes after its request was given up carries no address;
  the chunk size changes while reading; the modal may be replaced while a read
  runs; a crash inside an append.
- **Correct when** the image saved is the ECU's, the log tells what happened to each
  read, and a read ends.

### Features: `feature/`, `feature_codegen/`, `feature_patch/`, `cli/main.cpp` (`feature-flash`)

- **State.** Pure between its stages, but each hands the next one state: the graph,
  the program lowered from it, the code and slots per hook, the allocator's
  cursors, the image with splices and manifest; then the flash and the ECU's RAM
  and registers.
- **Operations.** `validate`, `lower`, `compile` with two backends (SH-2A, RH850),
  `gate_patch`, `RomAllocator::claim`, `apply`, the flash plan.
- **Interaction.** A pack gives hooks, free RAM and free ROM; the ECU jumps from a
  hook's site into the code, which ends with a return.
- **Hard.** Instructions with short reaches; registers and intermediate results of a
  nested expression; words that wrap; alignment and overlap of what is placed; several
  hooks that share regions.
- **Correct when** an ECU that comes through a hook has in its RAM what the graph
  means, nothing of the image changed but what the manifest lists, claims are
  apart, and code writes only RAM of its own.

### Datalogger: `log/src/log.cpp`, `log/src/live_buffer.cpp`

- **State.** `LogStream`: a lock-free ring, its counters, its drop counter.
  `LogSession`: `running_`, `stop_requested_`, the thread handle, counters, the
  attached buffers. `LiveBuffer`: per channel a ring and `write_count`.
- **Operations.** `try_push`, `try_pop`, `reset`; `start`, `stop`,
  `attach_live_buffer`, `io_loop`; `push`, `snapshot`, `latest`.
- **Interaction.** The I/O thread produces, one reader pops, the UI copies from
  the live buffers; the transport is lent to the session while it runs.
- **Hard.** No lock anywhere: memory order, counters that wrap, overwriting
  under a reader, restart while a thread is still there.
- **Correct when** the ring is a bounded FIFO queue, producer and consumer
  never share a slot, a snapshot is not torn within its stated window, `stop`
  returns and leaves no thread, the counters account for every read.

### AccessPort client: `devices/ets/src/client.cpp`

- **State.** `queue_`, `worker_`, `stop_worker_`, `session_warmed_up_`, bytes on
  the way in both directions; on the device a file vault and what of it a power
  cycle would keep.
- **Operations.** The verbs: `ls`, `read_file`, `write_file`, `remove_file`
  queued for the worker; `query_state`, `remount_user_filesystem`,
  `get_capabilities`, `nand_barrier_best_effort` on the caller's thread; stop
  tokens; the destructor.
- **Interaction.** The GUI's panel and the CLI call it; it owns the channel.
- **Hard.** No request identifier on the wire; reads that time out before the
  reply comes; an error frame where a reply is expected; a device that loses
  power; destruction with tasks queued; a caller and the worker on one channel.
- **Correct when** replies meet their requests, an acknowledged write survives
  a power cut, tasks run one at a time and in order, every future resolves and
  the destructor returns.

### Project store and edit history: `project/src/project.cpp`, `edit/src/edit.cpp`, with their callers in `ui/src/` and `cli/main.cpp`

- **State.** In memory the images, histories, notes, active slot and
  checkpoints of a `Project`; on disk `project.toml`, one image and one
  `edits.toml` per slot, and checkpoint images.
- **Operations.** `open`, `save_working_rom`, `save_all`, `save_metadata`,
  `verify_persisted_state`, `create_checkpoint`, `restore_checkpoint`;
  `History::record`, `undo`, `redo`, `load`; the GUI's table edits, byte edits,
  copies, slot switches, and the CLI's edit, undo, redo and restore.
- **Interaction.** GUI and CLI open the same directory, one after the other.
- **Hard.** Several files, written one after the other and truncated first; a
  stream flushed in a destructor nobody asks; a crash in between; a rollback
  that saves; values that lose digits when printed; several slots, each with a
  history of its own.
- **Correct when** undo and redo pass through the images that were, a save that
  reports success can be reopened as it was, and checkpoints neither vanish nor
  change.

### The rest

| Component | State and operations | Hard part | Status |
|---|---|---|---|
| AccessPort browser (`ui/src/panels/ets_browser.cpp`) | worker threads, a second client, results polled per frame | closing while one runs; two clients on one channel | planned |
| Backup store (`flash/src/backup_store.cpp`) | a directory of images, pins, eviction | eviction order; the application never calls it | not modelled |
| Transport drivers, beyond the exchange of `RomRead` | response-pending, a streaming reader | a thread against the caller | planned |
| Preflight (`flash_preflight.cpp`), tune export (`TuneBalance`) | a pure decision; 16-bit sums | completeness of its table; overflow | planned |
| ECU protocols, definitions, formats, ciphers, diff, dbc, can, ai, config, autotune, library | parsers, encoders, numeric analysis: no state of their own | arithmetic, text | not modelled |

## 2. Modules

    FlashJob         abstract: one rewrite of a set of sectors
    FlashExecute     execute, the ECU, journal, crash, resume   -> FlashJob
    FlashClaims      what comments and documents say of it (does not hold)
    FlashExecuteProofs, MCFlash
    FlashGate        the plan of flash-delta, the policy gate: pure
    CliVerbs         the commands as scripts of requests: pure
    CliFlash         a shell, its commands and the car, EXTENDS both; its
                     execute is FlashJob
    CliFlashProofs, MCCliFlash
    RomRead          modal, thread, driver and ECU, audit log; RomReadProofs
    RomSpace         lengths and places in an image, regions
    RomAllocator     cursors and claims of one pack; RomAllocatorProofs
    Lists            sequences: elements at places, sequences joined
    CodeWords        words, the meaning of a program of slots and operators
    Sh2aCode, Rh850Code   one backend each: the code of a hook, and the processor
                     that runs it
    FeatureGraph     nodes, pins and edges; validate and lower
    FeatureBuild     feature-flash from graph to ECU, EXTENDS CodeWords,
                     FeatureGraph, RomSpace, each of which EXTENDS Lists;
                     INSTANCEs of both backends and of the allocator
    FeatureBuildProofs (with RomAllocatorProofs for its claims), MCFeatureBuild
    SampleQueue      abstract: a bounded queue with a drop counter
    LogStream        the ring, one step per shared access       -> SampleQueue
    LiveBuffer       one channel, writer and snapshot
    LogSession       start/stop/attach and the I/O thread, EXTENDS LogStream,
                     with one LiveBuffer of its own (size: LiveBufferSize)
    LogSessionProofs (of the ring alone and of the buffer alone, too), MCLogSession
    EtsWire          channel, exchanges and device
    EtsClient        queue, worker, callers, destructor, EXTENDS EtsWire;
                     EtsClientProofs
    EditHistory      records, cursor, undo and redo
    ProjectStore     project in memory and on disk, EXTENDS EditHistory
    ProjectStoreProofs, MCProjectStore

A definition whose comment says "mutant" or "a bug to rule out" is not the
code: it is a plausible wrong version of the definition that follows it, kept
to show that a property notices it. No specification uses one.

## 3. How the models correspond to the code

### FlashExecute

One action per exchange with the ECU, per decision of the sector loop and per
write of the journal; `pc` is the place in `execute`, `resumeAt` where the code
goes once `commit_outcome` is through (`boundary`, `bail` or the cancel exit).

- **Exchanges.** `UdsClient` sends a request once. `Answers(accepted, effects)`
  gives the three outcomes: done and answered, done and the answer lost, not
  done (refused, or the request lost). The caller cannot tell the last two.
- **The ECU** has a session, a muted bus, at most one download under way (its
  sector, the block it expects, the blocks it got) and the contents of each
  sector: `old`, `erased`, `partial`, `new`, or `spoilt`/`garbled` when a cell
  did not take what was sent. `EcuReset` may come at any time. That side is
  modelled from the requests the code sends and the answers it handles.
- **Options.** `OptionType` holds the plan fields that `execute` branches on;
  the bulk path (0xB6) with its arming is one of them.
- **Journal.** `CommitOutcome` truncates it, `WriteJournal` fills it, with all of the
  text or a first part: `Cut` is what `read_manifest` makes of a text cut short, the
  first entries, the last of them perhaps without its flags; a text it refuses is torn.
  `Manifest` pairs plan and outcomes by position, as `build_manifest`.
- **Resume.** `Resume` replaces the plan by what `plan_resume` leaves of it;
  `Start` may as well run the same plan again.
- **History variables.** `late` counts erases and blocks sent since cancel was
  raised, `lastPdu` is the last request. Neither influences a step.

### CliFlash, CliVerbs, FlashGate

A behaviour is a shell in which the user issues commands, one after another. A
command is a process; `phase` says where it is: `gated` (the plan passed, the
transport not yet open), `running` (requests of its script), `leaving` (its guards,
then the exit), `entering` and `executing` (`Flasher::execute`).

- **Scripts.** `CliVerbs` has the requests of each command in the order of the code.
  A step carries the answers that make the command stop there and the exit code if
  so: `Must`, `Try`, and `InLine` for the write inside the unblock sequence, whose
  failure does not change the exit code. Arming a guard, and starting, stopping and
  joining the counter thread, are local steps.
- **Exchange.** A request is done or not, and answered, refused or unanswered; a
  positive answer means it was done. `Able` says what the car can do at all, taken
  from the order in which the code asks.
- **Guards** run on every way out once armed, in the order C++ destroys them.
- **`Flasher::execute`** is what `FlashJob` says of it, which `FlashExecute`
  implements; `flash-apply`'s guards have already run when it begins.
- **The gate.** `FlashGate` cuts the plan as `flash-delta` does, of one sector size
  or of a layout (with the refusals of `LayoutRefuses`), and decides as
  `evaluate_plan_policy` and `run_policy_gate` do, for every profile.

`acked`, `missed` and `stopped` are history variables: what the car acknowledged having
turned off or on, what a guard asked it to turn back without its doing so, and whether
the last command stopped on a request that turns something off (`quieting`) or on
(`filling`). No step looks at them.

### RomRead

The modal's frame is three steps, in the order of the code: join a thread that has
ended, log an outcome, one button or none. The thread runs between any two. The
chunk loop is `LoopTop`, `Send`, `TakeAck`, `TakeAnswer`, `TimeOut`; `Fails` has the
whole ladder (the probe's halving, one repetition, one halving, the range that
ends early). `way` is the protocol and the driver: the OBDX driver takes the first
frame as the acknowledgement and the next as the answer; the native one wants its
own sequence number, and its adapter is taken to put an ECU's answer under the
number of its request. Bytes are the addresses they came from. A crash may cut an
append; what is appended next is glued to it. `dropped` is a history variable: the
reads whose outcome was overwritten before a frame had logged it.

### FeatureGraph, CodeWords, Sh2aCode, Rh850Code, RomAllocator, FeatureBuild

`phase` follows `feature-flash`: `lower`, `compile` (one step per store), `apply` (one
step per hook), `patched`, `flashed`, then `car`, where the ECU runs; `refused` and
`lost` are its failures.

- **Graph.** Nodes, their pins and the edges between them, by place. `FeatureGraph`
  refuses what `validate` refuses and lowers by the schedule `lower` uses; what a graph
  means is said without it (`Holds`), so that the lowering is not compared with itself.
- **Backends.** `Sh2aCode` and `Rh850Code` have one interface: the instructions of a
  hook as the compiler emits them, their size, and what the processor does with each.
  Register numbers, the slots for intermediate results, the short and long forms and
  the limits of a displacement are those of the code. Encodings are not: an instruction is a
  record, and its size is what the layout needs. Words have `2 * Half` values in place
  of 2^32; `and` and `or` are bitwise; a float is a word with the same operators; the
  SH-2A's transfer between integer and float registers is a copy. A quotient that
  overflows differs between the processors.
- **Space.** Addresses of the image count halfwords, addresses of RAM bytes. The
  allocator's cursor wraps at `AddressLimit`, in place of 2^32; the length in a record
  of the manifest wraps at `LengthLimit` halfwords, in place of 2^16 bytes.
  `PackAssumption` is what the parser of a pack ensures: regions of that width, no site
  before the image.
- **The ECU** enters a hook at the splice, runs instruction by instruction and
  leaves at the return. Other code of the ECU is not there: a hook
  begins with the registers the last one left, and RAM the pack does not give away
  must not change.

### LogStream, LogSession, LiveBuffer

`LogStream` has one step per access to memory the other thread uses: loading
the other side's counter, each field of a slot, storing one's own counter. The
stores are release and the loads acquire, so interleaving these steps covers
what the build can do. Counters wrap at `Capacity * Wraps`, in place of 2^64:
what matters is that the modulus is a multiple of the capacity and larger.

`LogSession` keeps the order of stores in `start` (running, stop flag and
counters, head, tail, spawn) and in `stop` (flag, joinable, join, running).
Assigning to a joinable thread, and an exception in a `noexcept` function, are
`dead`. Every caller in the repository starts, stops and pops on one thread:
`MayCall` and `MayPop` say so; section 7 tells what is lost without it.

`LiveBuffer` numbers samples by their push, so that a torn or an old sample is
visible as a wrong number in one of its two fields. `behind` counts the pushes
begun since the reader loaded `write_count`. In `LogSession` the I/O thread is its
writer: a sample goes to the ring, then to the buffers attached when `start` ran.

### EtsWire, EtsClient

A verb is the script of its exchanges (`Script`), preceded by the six probes of
`ensure_session_warmup` until these were answered once. `send_packet` is `Send`;
`receive_packet_body` is `ReadHead` and `ReadRest`, two calls of `read_exact` with
a deadline each, which `GiveUp` ends. Requests and replies carry the task they
belong to; nothing but the properties and the device looks at it. Bytes left by a
reader that gave up are `ReadJunk` when read as a header. The device carries a
request out or not, and answers, refuses or stays silent; `PowerCut` loses what
no remount made durable.

`EtsClient` has the mutex sections of `enqueue` and `worker_loop` as steps of their
own, `notify_one` apart from the append it follows, and the destructor in three
steps. A token is looked at once, when the task is taken.

Modelled is the build with the workflow verbs switched on. Left out: `show_cur`
and its stream of task messages, `pull_marriage_backup`, the drain mode and the
settings from the environment.

### EditHistory, ProjectStore

An image is a function from a few addresses to a few values, or `Torn` for a
file too short to write into. A record keeps the values before and after, for
the addresses it covers. `Printed` is what six printed digits keep of a value:
table records go through it when saved, byte records do not.

A saving call is a `call` record: its kind, the file it writes next, the slots
left. `WriteWhole`, `WriteLost` and `WriteFails` are the outcomes of `write_file`
(the last two may leave a cut file), `VerifySave` is `verify_persisted_state`, and
`Failed` the failure path of each call, including the rollback of
`restore_checkpoint`, which saves again. `Crash` ends the process between two
writes or inside one. A cut file is cut between the things it lists.

Undoing by tag and jumping in the history are runs of `UndoActive`. `inStep` is a
history variable: the slots whose image and history fitted when the project was
opened and whose edits were recorded whole, in their own history. Two of the
GUI's edits take a slot out of it; the run `project_undo` is about their effect. The
commands of the command line stay in step: where the GUI
keeps two changes of one byte, they merge them (`ToggleCodes`).

## 4. Runs

| Run | Instance | States | What it shows |
|---|---|---|---|
| `flash_execute` | 2 sectors of 2 blocks, counter modulo 2, every option, integrity sector none/first/second, 2 calls, resumed or run anew, from journals whole or cut | 1 084 088 | the report, the ECU and the cancel flag agree; a resumed chain is complete; the integrity sector comes last; `execute` implements `FlashJob` and ends |
| `cli_flash` | an image of 5 bytes in 3 sectors (the last short), 2 tables, targets that differ in up to 2 bytes, every profile with and without a reason, 9 other commands; 2 commands, 1 slot, 2 blocks, power loss | 450 440 | the gate sees every change; the guards undo what they span; success holds; only own sectors are touched |
| `rom_read` | 3 units, chunks of up to 2, 2 reads, 1 late answer each, 1 cut append | 1 014 948 | the image is the ECU's; the log tells the read; reads end |
| `feature_build` | every primitive, nested, shared, default and refused graphs on 8 packs: plenty of room, little, none to spare, odd places, mixed, fenced, RH850, an unknown processor | 110 661 | RAM holds what the graph means; the image differs where the manifest says; claims are apart; code writes its own RAM only |
| `log_session` | 1 controller, 2 runs of 2 reads, a ring of 1, counters modulo 4, 1 live buffer of 2 with 4 pushes | 70 563 | thread, ring, counters and buffer stay in step; a restart begins empty; `stop` returns |
| `ets_client` | 1 caller, 1 file, 2 tasks; write, remove, read queued, query and barrier direct | 258 760 | pairing, durability, resolution, destruction |
| `project_store` | 1 address, 2 values that print alike, 2 slots, 1 checkpoint, 2 edits, 2 saving calls, 2 failing writes | 2.6 million | histories in step, saves reopen, checkpoints kept |
| `flash_resume_done`, `cli_guards`, `rom_audit`, `feature_two_stores`, `project_undo` | one call, command, graph or edit; two reads | | findings, section 6 |

### Why the bounds are enough

- **Flash.** Two sectors are a current one and one before or after it, and let
  the integrity sector be moved or not; two blocks with a counter modulo 2 make
  it wrap inside a sector; two calls let the second meet whatever the first left
  in the ECU, and be its resumption, with one sector done and one torn. The
  theorems of section 5 hold for any plan, block count, modulus and number of calls.
- **Commands.** The second command is the one that meets what the first left in the
  car; a target two bytes away changes two sectors, or a table and its neighbour in
  one sector; the short last sector is where the plan and the image differ. The
  theorem on the gate holds for any image, tables and layout.
- **Reading.** Three units in chunks of two make a chunk, a shorter last one, and
  three after a halving; one late answer suffices to shift every later one; the
  second read can meet the thread and the log of the first.
- **Features.** The graphs have each primitive once and each way of composing them
  (nesting that spills, a value used twice, an unconnected pin, two stores of one
  hook, a cycle, types that do not fit). The packs put a displacement in reach and
  out of it, leave a region too short by one, put regions at odd addresses, and end
  at the address limit. Codes are shorter and longer than `LengthLimit`. Words of 8 values have overflow in every operator.
- **Rings.** One slot is empty or full. Two reads of a run do not wrap counters modulo
  4: that a wrapped difference is right is proved (`NeverMoreThanFits`), not run. The
  live buffer has 4 pushes over 2 slots, so that every slot is overwritten while it
  is read. The theorems hold for any capacity and width.
- **Session.** The second run is the one that can meet the first's thread,
  counters and samples; 2 reads overflow a ring of 1.
- **AccessPort.** Two tasks are enough for a reply of the first to reach the
  second, for the second to wait in the queue at destruction, and for a write
  and a remove of one file; warm-up makes the first exchange seven requests.
- **Project.** One address suffices, since undo works per address and the
  number of changes to a byte is what matters (`Seen`). One slot beside `working`
  makes `save_all` write two images; two faults allow the rollback to fail, too.
  In this run all slots begin with one image (`SpecFromCopies`); no property
  relates the images of two slots, and the proved ones hold for any images.
  `project_undo` uses three values, for a byte with the bits of two codes, and a slot
  beside `working`; with two values there is no such byte, and TLC finds the copy instead.

### Fairness

- `FlashExecute`: weak fairness of the worker's steps. Every exchange ends with an
  answer, a refusal or the transport's timeout. The ECU is under no obligation.
- `LogSession`: weak fairness of the I/O thread (each read has a timeout) and of a
  controller inside a call. Nobody is obliged to call or to pop.
- `EtsClient`: weak fairness of the worker, of a caller inside a call and of the
  destructor once begun. The device may stay silent for ever: every read has a
  deadline.
- `CliFlash`: weak fairness of the command under way and of its thread. The user,
  the session's timer and the battery are under no obligation.
- `RomRead`: weak fairness of the frame (it is drawn again and again) and of the
  thread, whose waits the drivers bound. The ECU may stay silent.
- The rings, `ProjectStore` and `FeatureBuild` assert no liveness.

### Deadlock

Checked in the session: some thread can always go on. Not checked where the system
may stop: when the bound on calls of `execute`, on commands or on reads is used up;
when a build was refused or the ECU has come through all its hooks; when the
AccessPort client is destroyed; and when a project no longer opens, or its bounds
are used up.

## 5. Proofs

All theorems hold for every value of the constants that their named `ASSUME`
admits: any plan without repeated sectors, any number of blocks, any counter
modulus above 1, any capacity, any sets of addresses, values, slots and
checkpoints. TLC evaluates the assumptions in every run.

| Module | Theorem | States | Rests on |
|---|---|---|---|
| `CliFlashProofs` | `GateHolds` | `GateSeesEveryChange` | `GateIsSound`, below |
| | `TypeCorrect` | `TypeOK` | `TypeInv`, below |
| | `NothingIsLeftOn` | `NothingLeftOn` | `OnAndOff`, below |
| | `OwnSectorsOnly` | `OnlyOwnSectors` | `EraseOK`, below |
| | `SuccessIsTrue` | `SuccessHolds` | `SuccessInv`, below |
| `RomAllocatorProofs` | `NothingGivenTwice` | claims do not overlap and lie in regions | claims stay behind their region's cursor |
| `FeatureBuildProofs` | `BuildTypeCorrect` | `TypeOK` | `BuildInv` and `Made`, below |
| | `BuildClaimsApart` | `ClaimsApart` | `BuildInv`, with the allocator's invariant |
| | `RecordsAccountForThePatch` | `PatchAccounted`, lengths cut to their width | `BuildInv` |
| | `PlanIsEnough` | the flashed ECU has the patched image | `BuildInv` |
| | `PatchReachesTheCar` | codes, jumps and manifest are whole in the ECU | `Standing`, below; sites apart |
| | `LowerFindsTheSources` | `SourcesAreFound`, the first part of `PinsHoldTheGraph` | `Sorting` and `WiredTo`, below |
| | `TheProgramIsTheGraph` | the schedule is complete and in order, and the program is the graph | `Sorting` and `WiredTo`, below |
| | `OnlyOwnRamHolds` | `OnlyOwnRam` | `OnTheWay`, below, with `Made` and `Standing` |
| `FlashExecuteProofs` | `TypeCorrect` | `TypeOK` | `TypeInv`: with `Place`, which ties `pc` to the current sector |
| | `CancelPrompt` | `CancelIsPrompt` | `PromptInv`: once a write went out after cancel, `pc` is at no writing step |
| | `RestoredAudible` | `RestoredMeansAudible` | `AudibleInv`: before the bus is silenced nothing was reported restored |
| | `ReportTrue` | `ReportIsTrue` | `ReportInv`, below |
| | `DryRunHarmless` | `DryRunKeepsFlash` | `DryInv`: a dry run never reaches a writing step |
| | `SuccessComplete` | `SuccessIsComplete` | `PlanInv`, below |
| | `IntegrityLast` | `IntegritySectorLast` | `PlanInv` and `ReportInv` |
| | `ExecuteIsAJob` | `ImplementsFlashJob` | those and `Begun`, below |
| | `ChainComplete` | `ResumedChainIsComplete` | those and `ChainInv`, below; a journal per call (`~SharedJournal`) |
| `LogSessionProofs` | `StreamTypeCorrect` | `StreamTypeOK` | |
| | `SlotsNeverShared` | `NoSharedSlot` | `RingInv`, below |
| | `NeverMoreThanFits` | `NeverOverfull` | `RingInv` |
| | `RingIsAQueue` | `ImplementsSampleQueue` | `RingInv` and the refinement mapping |
| | `SessionTypeCorrect` | `SessionTypeOK` | `SessionInv`, below; one controller, as in the next six |
| | `RunsApart` | `RingOfThisRun` | `SessionInv` |
| | `CountersTrue` | `CountersAgree` | `SessionInv`, `RingCount`; fewer reads in a run than counter values |
| | `SessionSlotsApart` | `NoSharedSlot` | `SessionInv` |
| | `SessionSnapshotExact` | `SnapshotIsRecent` | `SessionInv`, with the buffer's `BufferInv` |
| | `AttachStable` | `AttachListStable` | `SessionInv` |
| | `RestartsQueue` | `RestartsAnEmptyQueue` | `SessionInv` and the refinement mapping |
| | `BufferTypeCorrect` | `TypeOK` | |
| | `SnapshotExact` | `SnapshotIsRecent` | `BufferInv`, below |
| `EtsClientProofs` | `TypeCorrect` | `TypeOK` | `WhoInv`, below; one exchange at a time, as in the next two |
| | `RepliesMatch` | `RepliesFindTheirRequests` | `DeliveryInv`, below |
| | `AckedIsDurable` | `AckedSurvives` | `DeliveryInv` |
| `RomReadProofs` | `TypeCorrect` | `TypeOK` | `ReadInv`, below |
| | `ImageTrue` | `ImageFaithful` | `ReadInv` |
| | `AuditTrue` | `AuditTellsTheRead` | `AuditInv`, below |
| `ProjectStoreProofs` | `TypeCorrect` | `TypeOK` | `IInv`, below |
| | `StaysInStep` | `HistoryInStep` | `IInv` |
| | `SavesReopen` | `SavedReopens` | `IInv` and `CallInv`, below |
| | `CheckpointsStay` | `CheckpointsKept` | `IInv` and `CallInv` |

- **`GateIsSound`.** A byte that changes is in a sector (`SectorOf`), that sector is
  written by the plan with the target's bytes (`WriteHolds`), and so the table the
  byte belongs to is one the policy looks at (`ChangeIsTouched`), for a plan of
  either kind, short last sector included.
- **`TypeInv`** of the commands says that the command at hand is one of those there are
  and what its script is made of (`StepFacts`, `StepsOf`): the sectors of its steps
  are its own. That is needed before any of them can be taken.
- **`OnAndOff`.** While a script runs, what is switched off or on has an armed guard
  or the very next steps switch the rest and then arm it; while the command leaves, the
  exits that undo it are still to be done, the car did not do what they asked, or the
  command stopped on one of those steps (`stopped`); else there is nothing.
- **`EraseOK`.** Before an erase the sector negotiated is the command's own, since the
  step before it negotiated one or ended the command.
- **`SuccessInv`.** A running write has done `k` whole cycles, one per sector, and `r`
  steps of the next (`Progress`): the first `k` sectors are whole, unless the next is one
  of them again; after two steps of a cycle its sector is erased and has the first
  `r - 2` blocks. `CycleLength * k + r` determines `k` and `r`, which is where the
  division lemmas come in.
- **`NothingGivenTwice`** is about the allocator's own specification: any sizes,
  alignments and order of requests, sums that wrap. It needs `RegionsApart`, which
  the code does not check of a pack. The run `feature_build` has the allocator with
  the regions of each of its packs (`ClaimsApart`).
- **`BuildInv`.** The order has each hook with work once and each is declared by the pack
  (`Hooks`); a store adds a hook at most, so that the order is never longer than the
  program has stores (`Steps`); while hooks are applied there is one claim and a pair of
  records for each (`Counted`); and the cursors and claims have the allocator's
  invariant (`Given`). A step keeps it as long as the code of each hook has a length and
  is not empty (`CompilesToCode`), and that follows from `Made`.
- **`Made`.** In the program of a build operands stand before their use and a store has
  one (`Program`), and the code of a hook begins with the finalized code of its first
  store, which writes to slots in the hook's free RAM and nowhere else (`Tame`: on an
  SH-2A each store has its literal before it, on an RH850 its two immediates). `lower`,
  the schedule, the walk of nested calls and the values are recursive functions. The
  theory of functions does not say that such a definition has a function that satisfies
  it: each is built here by a lemma that joins what is defined below a place to its row
  (`Upwards`, over `WellFoundedInduction`), and what one step of it keeps (`WellMade`
  for `lower`) then holds of all. Of code, `Tame` is shown one fragment at a time, for
  every primitive of both backends.
- **`Sorting`.** While the schedule is made each side waits for as many arcs as lead to it
  from sides not yet in the order (`Waiting`), and the sides ready are those that wait for
  none, each once; so an arc's origin is in the order before its end (`Topological`), and
  when none is ready the sides left over would be a cycle, which `validate` has refused
  (`NothingWaits`). The order is thus all sides of all nodes.
- **`WiredTo`.** After n visits of `lower` each value given is of an output side visited,
  got from the sources of its node's inputs (`GivenBy`, `Gets`); each store is of an
  input of a hook and takes its source (`StoreOf`); and what was visited has its
  values and stores. A visit adds instructions and values and changes none (`Grows`), a
  driver stands before what takes it (`DriversBefore`), and no side is visited twice.
- **`Standing`.** The n-th claim is the code of the n-th hook of the order, whole, and the
  jump at that hook's site was made for it. A step that applies the next hook writes a
  fresh claim, apart from the older ones (`GivenApart`), and a site, apart from other
  sites and from every region, so from every claim (`SitesApart`). Nothing in the code
  checks `SitesApart` of a pack; a pack without it is the hazard at inserter.cpp:120.
- **`OnTheWay`.** From the site of a hook until it returns the ECU is at the site, in the
  jump with the register that leads it, or in the code of the hook's first store
  (`Where`). It goes on from place to place (`ShBodyGoesOn`, `RhBodyGoesOn`): a store has
  its address in its register, because its literal, or its two immediates, come before it
  and no branch leads between them. On an SH-2A this takes the layout of the pool
  (`ShLayout`) and, for code with more literals than a displacement reaches, that one cut
  off leads to no literal (`ShRead`): there the model's ECU is lost, and no store before
  that place is wrong. The last two literals within the limit are always cut off when
  there are more (`TooFar`), and a branch passes one at most, so that none is passed over.
  So the theorem, unlike `PinsHoldTheGraph`, needs no `whole`.
- **`ReportInv`.** The report alone is not inductive: a later step could spoil a
  reported sector. `Untouched` says the sectors reported, the current one and the
  ones to do are apart; `Counted` that at the top of the block loop the download
  open in the ECU, if a reset has not closed it, is this sector's and holds
  exactly the blocks counted; `Marked` that each flag of the current outcome was
  earned.
- **`PlanInv`.** The outcomes reported are those of the first sectors of the ordered
  plan and the sectors to do are the rest (`Listed`, `Aligned`); the flags of the
  current outcome follow the place in the sequence (`Flags`); a call without an
  error so far has reported whole sectors only (`Errors`, `Whole`, `Finished`). The
  order theorem adds that a step changes no sector of the flash but the one at
  hand (`FlashChange`).
- **`Begun`.** For the refinement: while blocks are missing the sector at hand is
  neither old nor rewritten, and an outcome that is being journaled is still true.
  The proof has one lemma per kind of abstract step (`AsDamage`, `AsRewrite`,
  `AsClose`, ...) and one case per action of `FlashExecute`.
- **`ChainInv`.** What a whole journal lists as transferred is rewritten and not to do
  again (`Recorded`); a sector of the first plan that is no longer in the current
  one is rewritten (`Behind`); and the integrity sector, if any, stays last
  (`InPlanOrder`), so that `execute` does not reorder what resume takes for the plan's
  order.
- **`RingInv`.** Where the two calls stand relative to the counters (`PushPlace`,
  `PopPlace`), that a published slot is whole, and that the distance from tail
  to head fits, all modulo the counters' width (`DistanceSlot`, `WrapKeepsSlot`).
  For the refinement the abstract queue is the slots between tail and head.
- **`SessionInv`.** There is an I/O thread exactly from a spawn to its join, and
  `running` covers it and the `start` that leads to it (`CallsOK`); it pushes from one
  place of its loop into the ring and from another into the buffers (`PushesOK`); each
  read is counted or in hand (`ReadsOK`); the ring is sound and holds this run's samples
  but between the two stores of `reset` (`SessionRing`). The hypothesis `OneController`
  is what the callers keep to: with two, TLC finds a `stop` between the exchange of
  `running` and the spawn of a `start`, after which a thread pushes into the ring that the
  next `start` resets. `WideCounters` is about 2^64 reads.
- **`WhoInv`** of the AccessPort client: a direct call finds the worker at rest and the
  queue empty; what a verb has left to send follows its script (`Plan`).
- **`DeliveryInv`.** While no exchange has lapsed, all that is on the wire, in either
  direction and in the device, belongs to the exchange that waits (`HeadOK`, `RestOK`),
  and is its request or its reply; what the requests of a write or a remove have done
  so far is in the vault (`Done`); what was acknowledged is durable (`Promised`). The
  hypothesis `OneAtATime` is that the client has one calling thread, or that only
  queued verbs are called: with two callers and direct verbs TLC finds a wire with two
  exchanges on it.
- **`ReadInv`.** Nothing on its way begins behind the bytes read so far (`Behind`); a
  request or a frame that is not old belongs to the exchange under way, and on an OBDX
  link that is not late every answer is such a one (`CurrentOK`); so the bytes an answer
  brings are appended at their place (`ImageOK`).
- **`AuditInv`.** How many reads have ended and what the modal shows of the last
  (`RunsOK`); an outcome is in the log only when the flag says so, so that it is not
  logged again (`ToldOK`); the entries that cannot be read back are as many as appends
  were cut, less the piece at the end of the file if there is one (`LostOK`): it costs the
  next entry; and an outcome is told, still to be told, or was overwritten (`OutcomesOK`).
- **`BufferInv`.** What the last `Capacity` pushes left (`Kept`, `Filled`), how far
  the writer can have come (`Window`), and that a field copied before the writer
  reached its slot is right (`CopiedRight`).
- **`IInv`** of the project: `HistoryInStep` with `PriorFits` (what a failed restore
  brings back fits as well), `ClosedIdle` (no call without an open project) and
  `Named` (the file a call writes is one there is). The lemmas say what recording,
  undoing, redoing, printing and cutting do to the images a history passes
  through (`RecordFits`, `UndoFits`, `RedoFits`, `RenderedIsHistory`, `CutIsHistory`).
- **`CallInv`** of the project: a call under way has told nobody of success; when it
  comes to read back what it wrote, `project.toml` does not parse or has the notes of
  memory (`verify_persisted_state` compares everything else, but no notes); the file of a
  checkpoint is written only before the checkpoint is listed.

Twelve theorems state no run's property: `DryRunHarmless`; the four of the ring alone,
the two of one buffer alone and the one of the allocator alone, which others build on;
`LowerFindsTheSources` and `TheProgramIsTheGraph`, about lowering, the first of them the
first part of `PinsHoldTheGraph`; and `PlanIsEnough` and `PatchReachesTheCar`, about the
end of a build.

Model-checked only:

- everything temporal under fairness (`ExecuteEnds`, `StopReturns`, `FuturesResolve`,
  `DestructorReturns`, `ReadEnds`), which is out of the prover's reach;
- `PinsHoldTheGraph` of `FeatureBuild`, but for its first part: what a graph means is a
  value computed along it, by recursion over data, and that the code of a fragment
  computes it is a matter of every operation's bits. What is proved is that lowering
  succeeds and the program is the graph, pin by pin (`WiredTo`), the structure of the code
  (`Made`), and the way the ECU takes through it (`OnTheWay`).

## 6. Findings

Each has a run that finds the behaviour; `PROJECT.json` quotes both sides.

- **The guards do not span the command** (`cli_guards`): flash-apply arms the guard of
  the bus after both steps that quiet it (main.cpp:13301-13334), so that DTC recording
  stays off when communication control fails; the guard of the adapter's slots after the
  last slot (13116), so that those before a failing one go on transmitting. The trace
  shows the first. The property fails as well when all goes well: the block that quiets
  the bus, and so its guard, ends before `Flasher::execute` is called (13401 and 13403),
  and the bus is loud again when programming begins. The comments say "every exit path"
  and a quiet bus during the transfer.
- **The audit log loses entries** (`rom_audit`): the menu puts the modal back to its form
  whatever state it has (menubar.cpp:264), so that a read that ended while the modal was
  hidden loses its outcome, the trace of the run; and the entry after one that a crash
  cut is glued to the piece and lost with it (audit.cpp:367), though audit.hpp:130
  grants the entry in flight only.
- **The second store of a hook is lost** (`feature_two_stores`): the code of a hook
  leaves after its first store, and the next one of the same hook never runs.
- **A failed sector can be journaled as done** (`flash_resume_done`): `verified`
  starts true, so a sector whose transfer exit or dependency check failed counts.
- **Edits that do not undo** (`project_undo`): two codes in one byte are two changes of
  one record, and undo writes their old values back in the order they were made, the
  trace of the run; and Copy B to A writes the working image and records in the active
  history, which another slot may have.

Disagreements between source and text met while modelling, without a run:

- *Flash.* A verify mismatch stops nothing: `execute` records it, erases the next
  sector and returns without error; the documents say the flow halts at once
  (brick-protection.md:34, flashing.md:176 against flash.cpp:1123;
  `FlashClaims!VerifyFailureHalts`). Outcomes are in the order written, the plan in its
  own, and the journal pairs them by position (flash.cpp:1593 against flash.hpp:173;
  `FlashClaims!JournalNamesFlashedSectors`). A journal path shared between jobs keeps the older journal until the
  first outcome. When the restore of the bus fails, `bail` tries once more, so the
  session request is not the last one of a cancelled job (`docs/08`, against
  flash.cpp:829). The integrity sector keeps its old, valid contents until its turn, the
  last: flash.hpp:186-193 says it is erased first and stays invalid until the very end,
  flash.cpp:900-904 that it stays invalid throughout the body, so that a power loss there
  is detected at boot; no such erase is in `execute` (`FlashClaims!ChecksumInvalidThroughBody`,
  which TLC finds broken at the first erase; `IntegritySectorLast` says only that this
  sector becomes whole last). A successful job leaves the programming
  session open (flash.hpp:118). The journal is written after a step, not before
  (brick-protection.md:37). Offering to resume when a project is opened
  (`docs/05`, `docs/08`) is not implemented.
- *Commands.* A `--base-address` other than 0 shifts the comparison of plan and image
  in the policy (main.cpp, near 12082; `docs/06`:87). The comment on the
  order of the guards (main.cpp:12957) is the wrong way round. The unblock sequence exits with
  0 when its inline write failed. The commands that write or commit on their own
  never arm the bulk transfer (0xB7).
- *Reading.* menubar.cpp:264 and command_palette.cpp:367 set the modal idle without
  looking at its thread; Ctrl+K replaces the modal while it reads. On the OBDX driver
  an answer that comes late may be taken for the next chunk's.
- *Features.* Nothing checks that splices and claims are apart, so that patched bytes
  need not match what was generated (`docs/30`). `inserter.hpp` has the manifest among
  the records and in the first region; the code does neither. The length of a record
  is cut to 16 bits (inserter.cpp:103-104, 124-126): a manifest does not name every byte
  (manifest.hpp:4-6) of code of 64 KiB and more. Regions or free RAM that overlap are not refused. Displaced
  instructions do not move into a preamble, an active bank is not refused and the
  manifest has no checksums, all of which `docs/30` describes. The gate looks at the
  length of the code at the splice's address, not at the splice. The displacement of a
  literal is cut to 8 bits (feature_codegen.cpp:1235 says any depth is supported).
  `and`, `or` and `select` on a Bool input that is neither 0 nor 1 differ between the
  processors. `feature-flash` writes its plan without `--confirm`.
- *Datalogger.* log.hpp:120 allows a pop at any time and log.hpp:124 `start` and
  `stop` from any thread; a pop during `reset`, or a `stop` between two stores of
  `start`, is lost or breaks the ring. A `LiveBuffer` attached over a restart mixes
  two clocks; a snapshot of all its slots is torn by the first push.
- *AccessPort.* `docs/41` calls several threads on one client safe; two callers
  of direct verbs, or one beside a running task, share the channel without a
  lock. Queued futures are run at destruction, not broken. An error frame in
  answer to one of the older probes fails `query_state`. The panel's mirror blocks the
  frame and cannot be cancelled (ets_browser.cpp:885–951, against the comment at
  874); its backup pull uses a second client on the channel of the first, and may
  outlive it (ets_browser.cpp:772–791 and 371–397).
- *Project.* Notes with a line break make `project.toml` unreadable, though
  `docs/21` allows them. `create_checkpoint` is said to update atomically; a cut
  write leaves `project.toml` torn. `verify_persisted_state` does not notice that
  checkpoint entries are missing.
- *Audit.* A stream that failed once stays failed (audit.cpp:370).

## 7. What the properties do not say

- `RepliesFindTheirRequests` and `AckedSurvives` hold until an
  exchange lapses (ends without its own reply). From then on replies are shifted
  by one, and nothing drains the channel. That is what the code does.
- `ResumedChainIsComplete` needs a plan that is not reordered and a journal of
  its own for every run; the findings show why.
- `SnapshotIsRecent` needs room: at most capacity minus `take` pushes begun.
- `GateSeesEveryChange` is about a base address of 0. `NothingLeftOn` excludes what the
  car did not do when a guard asked for it, and commands that stop on the requests that
  quiet the bus or fill the slots: `cli_guards` shows what those leave.
- `IntegritySectorLast` says nothing of what the integrity sector holds before its turn.
- `ImageFaithful` leaves out reads on the OBDX driver that met a late answer.
  `AuditTellsTheRead` says which entries the code loses: the one after a cut append, and
  the outcome the menu or a crash forestalls; `AuditLosesNothing` is what was promised.
- `PatchAccounted` excludes code whose length does not fit into a record.
- `PinsHoldTheGraph` speaks of the first store of a hook, of packs whose places are
  apart (`PackApart`) and of displacements in reach (`InReach`); Bool inputs are 0 or 1.
- `LogSession` and `EtsClient` keep to the callers there are: one thread.
- `HistoryInStep` says nothing of a slot that was out of step when opened. A
  crash between the write of an image and of its history leaves one so, and
  nothing in the code detects it.
- `SavedReopens` does not speak of the contents of checkpoints.
- `CheckpointsKept` excludes the call that made a checkpoint and fails to list it.

## 8. Not modelled

- Text and byte formats, ciphers, checksums, units and numeric analysis, which are
  most of the program's lines: pure functions, which unit tests reach well. They appear
  as what they may lose (`Printed`, cut files) or refuse (a reply with `ok` false).
- The transports under UDS, but for the exchanges of `RomRead`: an exchange is
  answered, lost or refused. The loop for response-pending and the streaming reader.
- In the modelled components: estimates and the plan builders (flash); CSV output
  (log); streams, marriage backup and drain mode (AccessPort); `add_additional_rom`
  and legacy paths (project); adding an image read to a project (it ends like Discard);
  editing a graph in the designer, the interpreter of programs and its trace, units,
  removing a patch by its manifest (features).
- Commands: the probes of an ECU's services and the single steps of a write
  (`flash-erase` alone and the like). `can-id-sweep` returns without clearing its slot
  when a reading fails (main.cpp:15996), unlike its other returns after the slot is on;
  it is read, not modelled.
- `BackupStore`: nothing in the application calls it.
- Layout, drawing, dialogs; parsing of the command line.

## 9. Plan

Done: flash, datalogger, AccessPort client, project store; then the commands with the
gate, reading an image with the log, and features from graph to ECU, in this order,
since a mistake in the first costs an ECU and in the last an evening's work.

1. `EtsPanel`: the frame loop of the AccessPort browser, its two clients on one
   `EtsWire` and its closing while a backup is pulled. Two hazards of `PROJECT.json`
   (ets_browser.cpp:911 and :784) wait for it.
2. `AuditLog`: the copy per calibration, with `FlashExecute` and `RomRead` as writers;
   abstract: the entries acknowledged are a prefix of those read.
3. The streaming reader and response-pending; abstract: the exchange `FlashExecute`
   and `RomRead` assume.
4. `Preflight`: the decision table and its equivalence to the reference; `TuneBalance`:
   the 16-bit balance.

Proofs: every safety property of a passing run is a theorem but `PinsHoldTheGraph` of
`FeatureBuild`, of which the first part is one. For the rest: one fragment at a time, that the code a
backend emits for one primitive computes it, for any word size and operands.

The runs of section 6 stay until the code changes.
