---------------------------- MODULE ProjectStore ----------------------------
(***************************************************************************)
(* A tuning project (src/src/project, with its callers in the GUI and the   *)
(* command line): what a Project object holds in memory, the files of its   *)
(* directory, and the calls that change either.  A call that saves writes   *)
(* its files one after the other, truncating each before it fills it.  A    *)
(* write can be refused, can fail half way, or can be lost without an error *)
(* (a stream is flushed by its destructor, whose failure nobody sees), and  *)
(* the process can end between two writes or inside one.                    *)
(*                                                                         *)
(* A cut file is cut between the things it lists: project.toml loses        *)
(* entries, an edit history loses whole records, or neither can be parsed.  *)
(***************************************************************************)
EXTENDS EditHistory, FiniteSets, Functions

CONSTANTS Additional,    \* the slots of [[rom]] entries, beside working
          CheckpointId,  \* slugs that checkpoints may be given
          Printed,       \* a value as edits.toml prints it and reads it back
          Absent,        \* a file that does not exist
          Garbled,       \* a file that cannot be parsed
          MaxEdits,      \* bound: edits, restored checkpoints counted
          MaxCalls,      \* bound: calls that write
          MaxFaults      \* bound: writes that go wrong

ASSUME PrintedAssumption ==
  Printed \in [Val -> Val] /\ \A v \in Val : Printed[Printed[v]] = Printed[v]

ASSUME FilesAssumption ==
  /\ Torn \notin Rom /\ Absent \notin Rom \union {Torn}
  /\ {Absent, Garbled} \intersect History = {} /\ Absent # Garbled
  /\ {"working", "source"} \intersect Additional = {}

ASSUME CheckpointsAssumption == IsFiniteSet(CheckpointId)

ASSUME BoundsAssumption == MaxEdits \in Nat /\ MaxCalls \in Nat /\ MaxFaults \in Nat

VARIABLES
  tool,     \* who has the project open
  mem,      \* the Project object: roms (the [[rom]] entries), rom, history,
            \* active, notes, checkpoints, warned (how many warnings open gave)
  disk,     \* the files: rom, history, manifest (project.toml), check
  call,     \* the call in progress, the file it writes next, the slots it has
            \* left, the checkpoint it is about
  prior,    \* what restore_checkpoint brings back when it fails
  result,   \* "saved" after a save that succeeded, "opened" after open
  edits,    \* edits so far
  calls,    \* calls that write so far
  faults,   \* writes that went wrong
  inStep    \* slots that fitted their history when they were opened, and
            \* whose edits since then were recorded there, whole

vars == <<tool, mem, disk, call, prior, result, edits, calls, faults, inStep>>

Slot == {"working"} \union Additional
Image == Rom \union {Torn}
Notes == {"oneline", "lines"}

File(kind, of) == [kind |-> kind, of |-> of]
Manifest == File("manifest", "project")
Verify == File("verify", "project")

NoCall == [kind |-> "none", at |-> Verify, left |-> {}]
Idle == call.kind = "none"
Writing == ~Idle /\ call.at.kind # "verify"

NoPrior == [image |-> Torn, history |-> EmptyHistory]

Blank == [roms |-> {}, rom |-> [s \in Slot |-> Torn],
          history |-> [s \in Slot |-> EmptyHistory], active |-> "working",
          notes |-> "oneline", checkpoints |-> <<>>, warned |-> 0]

---------------------------------------------------------------------------
(* What the files say.                                                      *)

(* render_history_toml: table values are printed with six digits.           *)
PrintedEdit(e) ==
  IF e.kind = "bytes" THEN e
  ELSE [e EXCEPT !.before = [a \in e.at |-> Printed[e.before[a]]],
                 !.after  = [a \in e.at |-> Printed[e.after[a]]]]

Rendered(h) ==
  [h EXCEPT !.records = [i \in 1 .. Len(h.records) |-> PrintedEdit(h.records[i])]]

(* render_project_toml                                                      *)
ManifestOf(m) == [roms |-> m.roms, active |-> m.active, notes |-> m.notes,
                  checkpoints |-> m.checkpoints]

(* A missing history is an empty one; one of an additional slot that cannot *)
(* be parsed is reset to empty.                                             *)
HistoryOn(d, s) ==
  IF d.history[s] \in {Absent, Garbled} THEN EmptyHistory ELSE d.history[s]

(* Project::open succeeds.  Notes are written between double quotes with    *)
(* their line breaks as they are, which TOML does not allow.                *)
Opens(d) ==
  /\ d.manifest # Garbled
  /\ d.manifest.notes = "oneline"
  /\ d.history["working"] # Garbled

(* Project::open: a checkpoint whose file is missing is dropped, one whose  *)
(* file is not the recorded one is kept with what is there; both warn.      *)
Loaded(d) ==
  LET m == d.manifest
      open == {"working"} \union m.roms
      listed == DOMAIN m.checkpoints
  IN  [roms        |-> m.roms,
       rom         |-> [s \in Slot |-> IF s \in open THEN d.rom[s] ELSE Torn],
       history     |-> [s \in Slot |-> IF s \in open THEN HistoryOn(d, s)
                                       ELSE EmptyHistory],
       active      |-> m.active,
       notes       |-> m.notes,
       checkpoints |-> Restrict(d.check, {c \in listed : d.check[c] # Absent}),
       warned      |-> Cardinality({c \in listed : d.check[c] # m.checkpoints[c]})]

(* Project::verify_persisted_state                                          *)
Matches(d, m) ==
  /\ Opens(d)
  /\ LET l == Loaded(d)
     IN  /\ l.roms = m.roms /\ l.rom = m.rom /\ l.active = m.active
         /\ \A s \in Slot : l.history[s] = Rendered(m.history[s])
         /\ l.warned = m.warned

---------------------------------------------------------------------------
(* Writing one file.                                                        *)

(* What a whole write leaves in the file.                                   *)
Content(m, f) ==
  CASE f.kind = "rom"      -> m.rom[f.of]
    [] f.kind = "history"  -> Rendered(m.history[f.of])
    [] f.kind = "check"    -> m.rom["working"]
    [] f.kind = "manifest" -> ManifestOf(m)

HistoryCuts(h) ==
  {Garbled} \union {Read(SubSeq(h.records, 1, k), h.cursor) : k \in 0 .. Len(h.records)}

(* The [[rom]] entries come before the [[checkpoint]] entries.              *)
ManifestCuts(m) ==
  {Garbled}
    \union {[ManifestOf(m) EXCEPT !.checkpoints = Restrict(@, kept)] :
              kept \in SUBSET DOMAIN m.checkpoints}
    \union {[ManifestOf(m) EXCEPT !.roms = kept, !.checkpoints = <<>>] :
              kept \in SUBSET m.roms}

(* What a write that is cut short may leave.                                *)
Cuts(m, f) ==
  CASE f.kind = "history"  -> HistoryCuts(Rendered(m.history[f.of]))
    [] f.kind = "manifest" -> ManifestCuts(m)
    [] OTHER               -> {Torn}

Put(d, f, content) ==
  CASE f.kind = "rom"      -> [d EXCEPT !.rom[f.of] = content]
    [] f.kind = "history"  -> [d EXCEPT !.history[f.of] = content]
    [] f.kind = "check"    -> [d EXCEPT !.check[f.of] = content]
    [] f.kind = "manifest" -> [d EXCEPT !.manifest = content]

---------------------------------------------------------------------------
(* The order in which a call writes its files.                              *)

Edited(m) == {s \in m.roms : m.history[s].records # <<>>}

(* save_all writes the additional slots in the order of their entries, any  *)
(* here, and ends with save_working_rom.                                    *)
NextSlot(c) ==
  IF c.left = {} THEN {[c EXCEPT !.at = File("rom", "working")]}
  ELSE {[c EXCEPT !.at = File("rom", s), !.left = @ \ {s}] : s \in c.left}

AfterSlot(c) ==
  IF c.at.of = "working" THEN {[c EXCEPT !.at = Manifest]} ELSE NextSlot(c)

(* A bug to rule out: no save reopens what it wrote.                        *)
NeverVerified(kind) == FALSE

(* save_working_rom ends with verify_persisted_state; save_metadata and     *)
(* create_checkpoint do not.                                                *)
Verified(kind) == kind \in {"save", "restore", "rollback"}

(* A history without records is not written: an older file stays.           *)
AfterWrite(m, c) ==
  CASE c.at.kind = "rom" ->
         IF m.history[c.at.of].records # <<>>
         THEN {[c EXCEPT !.at = File("history", c.at.of)]} ELSE AfterSlot(c)
    [] c.at.kind = "history"  -> AfterSlot(c)
    [] c.at.kind = "check"    -> {[c EXCEPT !.at = File("manifest", c.at.of)]}
    [] c.at.kind = "manifest" ->
         IF Verified(c.kind) THEN {[c EXCEPT !.at = Verify]} ELSE {NoCall}

---------------------------------------------------------------------------
(* Opening and closing.  The project begins as Project::create leaves it,   *)
(* with any checkpoints that were made since.                               *)

Init ==
  /\ tool = "none" /\ mem = Blank /\ call = NoCall /\ prior = NoPrior
  /\ result = "none" /\ edits = 0 /\ calls = 0 /\ faults = 0 /\ inStep = {}
  /\ \E rom \in [Slot -> Rom], made \in UNION {[C -> Rom] : C \in SUBSET CheckpointId} :
       disk = [rom |-> rom, history |-> [s \in Slot |-> Absent],
               manifest |-> [roms |-> Additional, active |-> "working",
                             notes |-> "oneline", checkpoints |-> made],
               check |-> [c \in CheckpointId |->
                            IF c \in DOMAIN made THEN made[c] ELSE Absent]]

(* try_open_project, or the start of a command.                             *)
OpenProject(t) ==
  /\ tool = "none" /\ Opens(disk)
  /\ tool' = t /\ mem' = Loaded(disk) /\ result' = "opened"
  /\ inStep' = {s \in Slot : Fits(mem'.rom[s], mem'.history[s])}
  /\ UNCHANGED <<disk, call, prior, edits, calls, faults>>

Left ==
  /\ tool' = "none" /\ mem' = Blank /\ call' = NoCall /\ prior' = NoPrior
  /\ result' = "none" /\ inStep' = {}
  /\ UNCHANGED <<edits, calls, faults>>

CloseProject == tool # "none" /\ Idle /\ Left /\ UNCHANGED disk

(* The process ends between two writes, or inside one.                      *)
Crash ==
  /\ ~Idle /\ Left
  /\ \/ UNCHANGED disk
     \/ /\ Writing
        /\ \E cut \in Cuts(mem, call.at) : disk' = Put(disk, call.at, cut)

---------------------------------------------------------------------------
(* Edits in memory.                                                         *)

(* active_rom_mut: the source and a slot that is gone are read-only.        *)
Editable(s) == s \in {"working"} \union mem.roms /\ mem.rom[s] # Torn

(* A value is stored over one image and recorded in the history of a slot.  *)
EditOf(s, recordedIn, kind, before, after) ==
  /\ Editable(s) /\ edits < MaxEdits
  /\ edits' = edits + 1
  /\ mem' = [mem EXCEPT
       !.rom[s] = Stored(@, after),
       !.history[recordedIn] = Recorded(@, Change(kind, before, after))]

(* A table edit: the cells as they were and as they are.                    *)
TableEdit(s, recordedIn) ==
  \E A \in SUBSET Addr \ {{}} : \E after \in [A -> Val] :
    /\ EditOf(s, recordedIn, "table", Restrict(mem.rom[s], A), after)
    /\ inStep' = IF s = recordedIn THEN inStep ELSE inStep \ {s, recordedIn}

(* A byte edit made of one change after the other.  The bulk toggle of      *)
(* trouble codes may change a byte twice, for two of its bits: writing the  *)
(* "before" values back in that order leaves the one that was seen last.    *)
Seen(value, stored) == {value} \union {v \in Val \ {value} : stored \notin {v, value}}

ByteEdit(s) ==
  \E A \in SUBSET Addr \ {{}} : \E before, after \in [A -> Val] :
    /\ Editable(s)
    /\ \A a \in A : before[a] \in Seen(mem.rom[s][a], after[a])
    /\ EditOf(s, s, "bytes", before, after)
    /\ inStep' = IF before = Restrict(mem.rom[s], A) THEN inStep ELSE inStep \ {s}

UndoOf(s) ==
  /\ Editable(s) /\ CanUndo(mem.history[s])
  /\ LET e == mem.history[s].records[mem.history[s].cursor]
     IN  mem' = [mem EXCEPT !.rom[s] = Stored(@, e.before),
                            !.history[s] = Undone(@)]
  /\ UNCHANGED edits

RedoOf(s) ==
  /\ Editable(s) /\ CanRedo(mem.history[s])
  /\ LET e == mem.history[s].records[mem.history[s].cursor + 1]
     IN  mem' = [mem EXCEPT !.rom[s] = Stored(@, e.after),
                            !.history[s] = Redone(@)]
  /\ UNCHANGED edits

(* An undo or redo that cannot write moves the cursor back: nothing changes.*)
UndoOrRedo(s) == (UndoOf(s) \/ RedoOf(s)) /\ UNCHANGED inStep

(* active_history: working's, unless an additional slot is active.          *)
ActiveHistory == IF mem.active \in mem.roms THEN mem.active ELSE "working"

InMemory ==
  /\ tool = "gui" /\ Idle
  /\ result' = "none"
  /\ UNCHANGED <<tool, disk, call, prior, calls, faults>>

(* apply_op, the toggles of trouble codes, do_undo and do_redo work on the  *)
(* active slot, the checksum repair of the readiness panel on working.      *)
EditActive == InMemory /\ (TableEdit(mem.active, mem.active) \/ ByteEdit(mem.active))
UndoActive == InMemory /\ UndoOrRedo(mem.active)
RepairWorking == InMemory /\ ByteEdit("working")

(* "Copy B to A" of the compare panel, and the trouble code of the TGV and  *)
(* EGR workflow: working is written, the active history keeps the record.   *)
CopyToWorking == InMemory /\ TableEdit("working", ActiveHistory)

---------------------------------------------------------------------------
(* Calls that write.                                                        *)

OneMore == calls < MaxCalls /\ calls' = calls + 1

Begin(kind, at) ==
  /\ Idle /\ OneMore
  /\ call' = [kind |-> kind, at |-> at, left |-> {}]
  /\ result' = "none"
  /\ UNCHANGED <<tool, disk, faults>>

(* Ctrl+S: Project::save_all.                                               *)
SaveAll ==
  /\ tool = "gui" /\ Idle /\ OneMore
  /\ call' \in NextSlot([kind |-> "save", at |-> Verify, left |-> Edited(mem)])
  /\ result' = "none"
  /\ UNCHANGED <<tool, mem, disk, prior, edits, faults, inStep>>

(* project-disable-dtc and project-enable-dtc merge what they change of one *)
(* byte, so that the record keeps the byte as it was.                       *)
ToggleCodes ==
  \E A \in SUBSET Addr \ {{}} : \E after \in [A -> Val] :
    /\ EditOf("working", "working", "bytes", Restrict(mem.rom["working"], A), after)
    /\ UNCHANGED inStep

(* A command edits, undoes or redoes the working slot and saves it.         *)
Command ==
  /\ tool = "cli" /\ result = "opened"
  /\ TableEdit("working", "working") \/ ToggleCodes \/ UndoOrRedo("working")
  /\ Begin("save", File("rom", "working"))
  /\ UNCHANGED prior

(* The Save button of the settings.                                         *)
SetNotes ==
  /\ tool = "gui"
  /\ \E notes \in Notes : mem' = [mem EXCEPT !.notes = notes]
  /\ Begin("metadata", Manifest)
  /\ UNCHANGED <<prior, edits, inStep>>

(* set_active_view_rom                                                      *)
SetActive ==
  /\ tool = "gui"
  /\ \E id \in {"working", "source"} \union mem.roms : mem' = [mem EXCEPT !.active = id]
  /\ Begin("metadata", Manifest)
  /\ UNCHANGED <<prior, edits, inStep>>

(* A bug to rule out: an id that exists is taken again.                     *)
NewOrTaken(c) == TRUE

NewId(c) == c \notin DOMAIN mem.checkpoints

CreateCheckpoint ==
  /\ tool = "gui"
  /\ \E c \in CheckpointId : NewId(c) /\ Begin("create", File("check", c))
  /\ UNCHANGED <<mem, prior, edits, inStep>>

(* restore_checkpoint: one byte edit of the addresses that differ, saved.   *)
RestoreCheckpoint ==
  /\ tool = "cli" /\ result = "opened"
  /\ \E c \in DOMAIN mem.checkpoints :
       LET working == mem.rom["working"]
           differ == {a \in Addr : mem.checkpoints[c][a] # working[a]}
       IN  /\ Torn \notin {working, mem.checkpoints[c]} /\ differ # {}
           /\ EditOf("working", "working", "bytes", Restrict(working, differ),
                     Restrict(mem.checkpoints[c], differ))
  /\ prior' = [image |-> mem.rom["working"], history |-> mem.history["working"]]
  /\ Begin("restore", File("rom", "working"))
  /\ UNCHANGED inStep

---------------------------------------------------------------------------
(* The steps of a call that writes.                                         *)

(* create_checkpoint puts the entry in the list before it writes the        *)
(* manifest, and takes it out again when that fails.                        *)
Listed(m, c) ==
  IF c.at.kind = "check"
  THEN [m EXCEPT !.checkpoints =
          [id \in DOMAIN @ \union {c.at.of} |->
             IF id = c.at.of THEN m.rom["working"] ELSE @[id]]]
  ELSE m

Delisted(m, id) ==
  [m EXCEPT !.checkpoints = Restrict(@, DOMAIN @ \ {id})]

(* What the caller is told: that the project is saved, or anything else.    *)
Outcome(kind) == IF kind \in {"save", "restore"} THEN "saved" ELSE "none"

Return(outcome) == call' = NoCall /\ prior' = NoPrior /\ result' = outcome

(* The call fails, having left the files as d.  restore_checkpoint brings   *)
(* back what it replaced and saves that, whatever comes of it.              *)
Failed(d) ==
  \/ /\ call.kind = "restore"
     /\ mem' = [mem EXCEPT !.rom["working"] = prior.image,
                           !.history["working"] = prior.history]
     /\ call' = [call EXCEPT !.kind = "rollback", !.at = File("rom", "working")]
     /\ disk' = d
     /\ UNCHANGED <<prior, result>>
  \/ /\ call.kind = "create" /\ call.at.kind = "manifest"
     /\ mem' = Delisted(mem, call.at.of)
     /\ disk' = [d EXCEPT !.check[call.at.of] = Absent]
     /\ Return("none")
  \/ /\ \/ call.kind \in {"save", "metadata", "rollback"}
        \/ call.kind = "create" /\ call.at.kind = "check"
     /\ disk' = d
     /\ UNCHANGED mem
     /\ Return("none")

(* The write seems to go well, and the call goes on.                        *)
GoesOn(content) ==
  /\ disk' = Put(disk, call.at, content)
  /\ mem' = Listed(mem, call)
  /\ \E next \in AfterWrite(mem, call) :
       IF next = NoCall THEN Return(Outcome(call.kind))
       ELSE call' = next /\ UNCHANGED <<prior, result>>
  /\ UNCHANGED <<tool, inStep>>

WriteWhole ==
  /\ Writing
  /\ GoesOn(Content(mem, call.at))
  /\ UNCHANGED <<edits, calls, faults>>

WriteLost ==
  /\ Writing
  /\ faults < MaxFaults /\ faults' = faults + 1
  /\ \E cut \in Cuts(mem, call.at) : GoesOn(cut)
  /\ UNCHANGED <<edits, calls>>

WriteFails ==
  /\ Writing
  /\ faults < MaxFaults /\ faults' = faults + 1
  /\ \/ Failed(disk)
     \/ \E cut \in Cuts(mem, call.at) : Failed(Put(disk, call.at, cut))
  /\ UNCHANGED <<tool, edits, calls, inStep>>

VerifySave ==
  /\ ~Idle /\ ~Writing
  /\ IF Matches(disk, mem)
     THEN Return(Outcome(call.kind)) /\ UNCHANGED <<mem, disk>>
     ELSE Failed(disk)
  /\ UNCHANGED <<tool, edits, calls, faults, inStep>>

Next ==
  \/ \E t \in {"gui", "cli"} : OpenProject(t)
  \/ CloseProject \/ Crash
  \/ EditActive \/ UndoActive \/ RepairWorking \/ CopyToWorking
  \/ SaveAll \/ Command \/ SetNotes \/ SetActive
  \/ CreateCheckpoint \/ RestoreCheckpoint
  \/ WriteWhole \/ WriteLost \/ WriteFails \/ VerifySave

Spec == Init /\ [][Next]_vars

---------------------------------------------------------------------------
(* Properties.                                                              *)

Checkpoints == UNION {[C -> Image] : C \in SUBSET CheckpointId}

MemType == [roms : SUBSET Additional, rom : [Slot -> Image],
            history : [Slot -> History], active : Slot \union {"source"},
            notes : Notes, checkpoints : Checkpoints, warned : Nat]

ManifestType == [roms : SUBSET Additional, active : Slot \union {"source"},
                 notes : Notes, checkpoints : Checkpoints]

DiskType == [rom : [Slot -> Image],
             history : [Slot -> History \union {Absent, Garbled}],
             manifest : ManifestType \union {Garbled},
             check : [CheckpointId -> Image \union {Absent}]]

CallType == [kind : {"none", "save", "restore", "rollback", "metadata", "create"},
             at : [kind : {"rom", "history", "check", "manifest", "verify"},
                   of : Slot \union CheckpointId \union {"project"}],
             left : SUBSET Additional]

(* The types of the variables; a cursor never passes the end of its history.*)
TypeOK ==
  /\ tool \in {"none", "gui", "cli"}
  /\ mem \in MemType /\ disk \in DiskType /\ call \in CallType
  /\ prior \in [image : Image, history : History]
  /\ result \in {"none", "opened", "saved"}
  /\ edits \in 0 .. MaxEdits /\ calls \in 0 .. MaxCalls /\ faults \in 0 .. MaxFaults
  /\ inStep \subseteq Slot

(* A slot whose image and history fitted when the project was opened, and   *)
(* whose edits were recorded whole in its own history, fits as long as it   *)
(* is open, whatever was edited, undone, redone, restored and brought back: *)
(* every undo and redo reproduces an image that was there.                  *)
HistoryInStep == \A s \in inStep : Fits(mem.rom[s], mem.history[s])

(* After a save that said it succeeded, the files open and give back the    *)
(* images, the notes, the active slot and the histories as printed,         *)
(* whichever writes were lost without an error.                             *)
SavedReopens ==
  result = "saved" =>
    /\ Opens(disk)
    /\ LET l == Loaded(disk)
       IN  /\ l.roms = mem.roms /\ l.rom = mem.rom
           /\ l.active = mem.active /\ l.notes = mem.notes
           /\ \A s \in Slot : l.history[s] = Rendered(mem.history[s])

(* Checkpoints are immutable: no call writes or removes the file of one the *)
(* program offers, save the call that has just made it and fails to list it.*)
CheckpointsKept ==
  [][\A c \in DOMAIN mem.checkpoints :
       \/ call.kind = "create" /\ call.at = File("manifest", c)
       \/ disk'.check[c] = disk.check[c]]_vars

(* dtcs.cpp: a bulk toggle is recorded "in one ByteEdit so Ctrl+Z reverses   *)
(* the entire batch"; readiness.cpp: an edit is recorded in the history of   *)
(* the slot it writes, or it "could point at an additional slot and desync   *)
(* undo".  So undoing the record an edit of the GUI has just made, in the    *)
(* slot whose history has it, gives back every image as it was before it.    *)
EditsUndo ==
  [][tool = "gui" /\ edits' = edits + 1 =>
       \A s \in Slot : mem'.history[s] # mem.history[s] =>
         LET h == mem'.history[s]
             e == h.records[h.cursor]
         IN  \A t \in Slot :
               mem.rom[t] = IF t = s THEN Stored(mem'.rom[t], e.before)
                                     ELSE mem'.rom[t]]_vars
=============================================================================
