------------------------- MODULE ProjectStoreProofs -------------------------
(***************************************************************************)
(* Proofs about ProjectStore: the types of its variables; that a slot's      *)
(* edit history stays in step with its image; that what a save reported     *)
(* saved reopens as it was; and that the files of a checkpoint stay.         *)
(***************************************************************************)
EXTENDS ProjectStore, FiniteSetTheorems, SequenceTheorems, TLAPS

---------------------------------------------------------------------------
(* Lemmas about one history.                                                *)

(* The fields of a record, for the set of addresses it covers.              *)
EditFields(e, A) ==
  /\ e.at = A /\ e.kind \in {"table", "bytes"}
  /\ e.before \in [A -> Val] /\ e.after \in [A -> Val]

(* A record covers some set of addresses, with a value before and after for *)
(* each.                                                                    *)
LEMMA EditCovers ==
  ASSUME NEW e \in Edit
  PROVE  \E A \in SUBSET Addr : EditFields(e, A)
<1>1. PICK A \in SUBSET Addr :
        e \in [kind : {"table", "bytes"}, at : {A},
               before : [A -> Val], after : [A -> Val]]
  BY DEF Edit
<1>2. EditFields(e, A)
  BY <1>1 DEF EditFields
<1> QED
  BY <1>2

(* What apply_op and its like record is a record.                           *)
LEMMA ChangeIsEdit ==
  ASSUME NEW kind \in {"table", "bytes"}, NEW A \in SUBSET Addr,
         NEW before \in [A -> Val], NEW after \in [A -> Val]
  PROVE  /\ Change(kind, before, after) \in Edit
         /\ EditFields(Change(kind, before, after), A)
<1>1. Change(kind, before, after)
        \in [kind : {"table", "bytes"}, at : {A},
             before : [A -> Val], after : [A -> Val]]
  BY DEF Change
<1>2. Change(kind, before, after) \in Edit
  BY <1>1 DEF Edit
<1>3. EditFields(Change(kind, before, after), A)
  BY <1>1 DEF EditFields
<1> QED
  BY <1>2, <1>3

(* Writing one side of a record into an image gives an image.               *)
LEMMA StoredIsRom ==
  ASSUME NEW image \in Rom, NEW A \in SUBSET Addr, NEW values \in [A -> Val]
  PROVE  Stored(image, values) \in Rom
BY DEF Stored, Rom

(* The image an edit was applied to and the one it gave, one record apart.  *)
LEMMA ChangeLeads ==
  ASSUME NEW image \in Rom, NEW A \in SUBSET Addr, NEW after \in [A -> Val], NEW kind
  PROVE  Leads(image, Change(kind, Restrict(image, A), after), Stored(image, after))
<1>1. DOMAIN after = A
  OBVIOUS
<1> QED
  BY <1>1 DEF Leads, Change, Stored, Restrict, Rom

(* The images on the two sides of a record determine each other: writing    *)
(* the values before gives the first, the values after the second.          *)
LEMMA LeadsBothWays ==
  ASSUME NEW first \in Rom, NEW second \in Rom, NEW e \in Edit, Leads(first, e, second)
  PROVE  first = Stored(second, e.before) /\ second = Stored(first, e.after)
<1>1. PICK A \in SUBSET Addr : EditFields(e, A)
  BY EditCovers
<1>2. e.at = A /\ DOMAIN e.before = A /\ DOMAIN e.after = A
  BY <1>1 DEF EditFields
<1>3. \A a \in Addr : first[a] = Stored(second, e.before)[a]
  BY <1>2 DEF Leads, Stored
<1>4. \A a \in Addr : second[a] = Stored(first, e.after)[a]
  BY <1>2 DEF Leads, Stored
<1> QED
  BY <1>3, <1>4 DEF Stored, Rom

(* The parts of a history.                                                  *)
LEMMA HistoryParts ==
  ASSUME NEW h \in History
  PROVE  /\ h.records \in Seq(Edit) /\ Len(h.records) \in Nat
         /\ h.cursor \in Nat /\ h.cursor <= Len(h.records)
BY DEF History

(* Recording an edit: the records up to the cursor, then the new one.       *)
LEMMA RecordedParts ==
  ASSUME NEW h \in History, NEW e \in Edit
  PROVE  /\ Recorded(h, e) \in History
         /\ Recorded(h, e).cursor = h.cursor + 1
         /\ Len(Recorded(h, e).records) = h.cursor + 1
         /\ \A i \in 1 .. h.cursor : Recorded(h, e).records[i] = h.records[i]
         /\ Recorded(h, e).records[h.cursor + 1] = e
<1> DEFINE r == h.records
           c == h.cursor
           kept == SubSeq(r, 1, c)
<1>1. r \in Seq(Edit) /\ c \in Nat /\ c <= Len(r) /\ Len(r) \in Nat
  BY HistoryParts
<1>2. kept \in Seq(Edit) /\ Len(kept) = c /\ \A i \in 1 .. c : kept[i] = r[i]
  BY <1>1, SubSeqProperties
<1> HIDE DEF r, c, kept
<1>3. /\ Append(kept, e) \in Seq(Edit) /\ Len(Append(kept, e)) = c + 1
      /\ \A i \in 1 .. c : Append(kept, e)[i] = kept[i]
      /\ Append(kept, e)[c + 1] = e
  BY <1>1, <1>2, AppendProperties
<1>4. Recorded(h, e) = [records |-> Append(kept, e), cursor |-> c + 1]
  BY DEF Recorded, kept, r, c
<1>5. Recorded(h, e) \in History
  BY <1>1, <1>3, <1>4 DEF History
<1> QED
  BY <1>1, <1>2, <1>3, <1>4, <1>5 DEF r, c

(* A recorded edit keeps a history in step with its image.                  *)
LEMMA RecordFits ==
  ASSUME NEW image \in Rom, NEW h \in History, Fits(image, h),
         NEW A \in SUBSET Addr, NEW after \in [A -> Val],
         NEW kind \in {"table", "bytes"}
  PROVE  Fits(Stored(image, after),
              Recorded(h, Change(kind, Restrict(image, A), after)))
<1> DEFINE e == Change(kind, Restrict(image, A), after)
           new == Recorded(h, e)
           c == h.cursor
           next == Stored(image, after)
<1>1. Restrict(image, A) \in [A -> Val]
  BY DEF Restrict, Rom
<1>2. e \in Edit
  BY <1>1, ChangeIsEdit
<1>3. PICK stages \in [0 .. Len(h.records) -> Rom] :
        /\ stages[c] = image
        /\ \A i \in 1 .. Len(h.records) : Leads(stages[i - 1], h.records[i], stages[i])
  BY DEF Fits
<1>4. c \in Nat /\ c <= Len(h.records) /\ Len(h.records) \in Nat
  BY HistoryParts
<1>5. next \in Rom
  BY StoredIsRom
<1>6. Leads(image, e, next)
  BY ChangeLeads
<1>7. /\ new.cursor = c + 1 /\ Len(new.records) = c + 1
      /\ \A i \in 1 .. c : new.records[i] = h.records[i]
      /\ new.records[c + 1] = e
  BY <1>2, RecordedParts
<1> DEFINE longer == [i \in 0 .. c + 1 |-> IF i <= c THEN stages[i] ELSE next]
<1> HIDE DEF e, new, next, c
<1>8. longer \in [0 .. Len(new.records) -> Rom]
  <2>1. ASSUME NEW i \in 0 .. c + 1
        PROVE  (IF i <= c THEN stages[i] ELSE next) \in Rom
    <3>1. i <= c => i \in 0 .. Len(h.records)
      BY <1>4
    <3> QED
      BY <3>1, <1>5
  <2>2. longer \in [0 .. c + 1 -> Rom]
    BY <2>1
  <2> QED
    BY <2>2, <1>7
<1>9. longer[new.cursor] = next
  BY <1>4, <1>7
<1>10. ASSUME NEW i \in 1 .. Len(new.records)
       PROVE  Leads(longer[i - 1], new.records[i], longer[i])
  <2>1. CASE i <= c
    <3>1. longer[i - 1] = stages[i - 1] /\ longer[i] = stages[i]
      BY <1>4, <1>7, <2>1
    <3>2. new.records[i] = h.records[i] /\ i \in 1 .. Len(h.records)
      BY <1>4, <1>7, <2>1
    <3> QED
      BY <3>1, <3>2, <1>3
  <2>2. CASE ~(i <= c)
    <3>1. i = c + 1
      BY <1>4, <1>7, <2>2
    <3>2. longer[i - 1] = image /\ longer[i] = next /\ new.records[i] = e
      BY <1>3, <1>4, <1>7, <3>1
    <3> QED
      BY <3>2, <1>6
  <2> QED
    BY <2>1, <2>2
<1> HIDE DEF longer
<1>11. Fits(next, new)
  BY <1>8, <1>9, <1>10 DEF Fits
<1> QED
  BY <1>11 DEF next, new, e

(* Undo and redo move the cursor over a record, whose values give an image. *)
LEMMA UndoIsHistory ==
  ASSUME NEW image \in Rom, NEW h \in History, CanUndo(h)
  PROVE  /\ Undone(h) \in History
         /\ Stored(image, h.records[h.cursor].before) \in Rom
<1>1. /\ h.cursor \in 1 .. Len(h.records) /\ h.cursor - 1 \in Nat
      /\ h.records \in Seq(Edit) /\ Len(h.records) \in Nat
  BY HistoryParts DEF CanUndo
<1>2. Undone(h) = [records |-> h.records, cursor |-> h.cursor - 1]
  BY DEF Undone, History
<1>3. PICK A \in SUBSET Addr : EditFields(h.records[h.cursor], A)
  BY <1>1, ElementOfSeq, EditCovers
<1>4. Stored(image, h.records[h.cursor].before) \in Rom
  <2>1. h.records[h.cursor].before \in [A -> Val]
    BY <1>3 DEF EditFields
  <2> QED
    BY <2>1, StoredIsRom
<1>5. Undone(h) \in History
  BY <1>1, <1>2 DEF History
<1> QED
  BY <1>4, <1>5

LEMMA RedoIsHistory ==
  ASSUME NEW image \in Rom, NEW h \in History, CanRedo(h)
  PROVE  /\ Redone(h) \in History
         /\ Stored(image, h.records[h.cursor + 1].after) \in Rom
<1>1. /\ h.cursor + 1 \in 1 .. Len(h.records) /\ h.cursor + 1 \in Nat
      /\ h.records \in Seq(Edit) /\ Len(h.records) \in Nat
  BY HistoryParts DEF CanRedo
<1>2. Redone(h) = [records |-> h.records, cursor |-> h.cursor + 1]
  BY DEF Redone, History
<1>3. PICK A \in SUBSET Addr : EditFields(h.records[h.cursor + 1], A)
  BY <1>1, ElementOfSeq, EditCovers
<1>4. Stored(image, h.records[h.cursor + 1].after) \in Rom
  <2>1. h.records[h.cursor + 1].after \in [A -> Val]
    BY <1>3 DEF EditFields
  <2> QED
    BY <2>1, StoredIsRom
<1>5. Redone(h) \in History
  BY <1>1, <1>2 DEF History
<1> QED
  BY <1>4, <1>5

(* Undo keeps a history in step: the values before the record that the      *)
(* cursor passes give the image one position back.                          *)
LEMMA UndoFits ==
  ASSUME NEW image \in Rom, NEW h \in History, Fits(image, h), CanUndo(h)
  PROVE  Fits(Stored(image, h.records[h.cursor].before), Undone(h))
<1> DEFINE c == h.cursor
           e == h.records[c]
<1>1. PICK stages \in [0 .. Len(h.records) -> Rom] :
        /\ stages[c] = image
        /\ \A i \in 1 .. Len(h.records) : Leads(stages[i - 1], h.records[i], stages[i])
  BY DEF Fits
<1>2. /\ c \in 1 .. Len(h.records) /\ Len(h.records) \in Nat
      /\ h.records \in Seq(Edit)
  BY HistoryParts DEF CanUndo
<1>3. e \in Edit
  BY <1>2, ElementOfSeq
<1>4. c - 1 \in 0 .. Len(h.records) /\ stages[c - 1] \in Rom /\ stages[c] \in Rom
  BY <1>2
<1>5. Leads(stages[c - 1], e, stages[c])
  BY <1>1, <1>2
<1> HIDE DEF e
<1>6. stages[c - 1] = Stored(image, e.before)
  BY <1>1, <1>3, <1>4, <1>5, LeadsBothWays
<1>7. Undone(h) = [records |-> h.records, cursor |-> c - 1]
  BY DEF Undone, History
<1>8. Fits(stages[c - 1], Undone(h))
  BY <1>1, <1>7 DEF Fits
<1> QED
  BY <1>6, <1>8 DEF e

(* Redo likewise, with the values after the record.                         *)
LEMMA RedoFits ==
  ASSUME NEW image \in Rom, NEW h \in History, Fits(image, h), CanRedo(h)
  PROVE  Fits(Stored(image, h.records[h.cursor + 1].after), Redone(h))
<1> DEFINE c == h.cursor
           e == h.records[c + 1]
<1>1. PICK stages \in [0 .. Len(h.records) -> Rom] :
        /\ stages[c] = image
        /\ \A i \in 1 .. Len(h.records) : Leads(stages[i - 1], h.records[i], stages[i])
  BY DEF Fits
<1>2. /\ c \in Nat /\ c + 1 \in 1 .. Len(h.records) /\ Len(h.records) \in Nat
      /\ h.records \in Seq(Edit)
  BY HistoryParts DEF CanRedo
<1>3. e \in Edit
  BY <1>2, ElementOfSeq
<1>4. stages[c] \in Rom /\ stages[c + 1] \in Rom /\ (c + 1) - 1 = c
  BY <1>2
<1>5. Leads(stages[c], e, stages[c + 1])
  BY <1>1, <1>2, <1>4
<1> HIDE DEF e
<1>6. stages[c + 1] = Stored(image, e.after)
  BY <1>1, <1>3, <1>4, <1>5, LeadsBothWays
<1>7. Redone(h) = [records |-> h.records, cursor |-> c + 1]
  BY DEF Redone, History
<1>8. Fits(stages[c + 1], Redone(h))
  BY <1>1, <1>7 DEF Fits
<1> QED
  BY <1>6, <1>8 DEF e

---------------------------------------------------------------------------
(* Lemmas about the files.                                                  *)

(* Writing an edit history down and reading it back gives a history.        *)
LEMMA RenderedIsHistory ==
  ASSUME NEW h \in History
  PROVE  Rendered(h) \in History
<1>1. /\ h.records \in Seq(Edit) /\ Len(h.records) \in Nat
      /\ h.cursor \in Nat /\ h.cursor <= Len(h.records)
  BY HistoryParts
<1> DEFINE printed == [i \in 1 .. Len(h.records) |-> PrintedEdit(h.records[i])]
<1>2. ASSUME NEW e \in Edit
      PROVE  PrintedEdit(e) \in Edit
  <2>1. PICK A \in SUBSET Addr :
          e \in [kind : {"table", "bytes"}, at : {A},
                 before : [A -> Val], after : [A -> Val]]
    BY DEF Edit
  <2>2. PrintedEdit(e)
          \in [kind : {"table", "bytes"}, at : {A},
               before : [A -> Val], after : [A -> Val]]
    BY <2>1, PrintedAssumption DEF PrintedEdit
  <2> QED
    BY <2>2 DEF Edit
<1>3. \A i \in 1 .. Len(h.records) : PrintedEdit(h.records[i]) \in Edit
  BY <1>1, <1>2, ElementOfSeq
<1>4. printed \in Seq(Edit) /\ Len(printed) = Len(h.records)
  BY <1>1, <1>3
<1>5. Rendered(h) = [records |-> printed, cursor |-> h.cursor]
  BY DEF Rendered, History
<1> HIDE DEF printed
<1> QED
  BY <1>1, <1>4, <1>5 DEF History

(* So does a file that lost its last records.                               *)
LEMMA CutIsHistory ==
  ASSUME NEW h \in History, NEW cut \in HistoryCuts(h)
  PROVE  cut \in History \union {Garbled}
<1>1. SUFFICES ASSUME NEW k \in 0 .. Len(h.records),
                      cut = Read(SubSeq(h.records, 1, k), h.cursor)
               PROVE  cut \in History
  BY DEF HistoryCuts
<1>2. /\ h.records \in Seq(Edit) /\ Len(h.records) \in Nat /\ h.cursor \in Nat
  BY HistoryParts
<1>3. SubSeq(h.records, 1, k) \in Seq(Edit) /\ Len(SubSeq(h.records, 1, k)) = k
  BY <1>2, SubSeqProperties
<1> QED
  BY <1>1, <1>2, <1>3 DEF Read, History

(* What a file may hold: of its kind, or the marks of a file that is        *)
(* missing, cut or garbled.                                                 *)
FileHolds(f, content) ==
  /\ f.kind = "rom" => content \in Image
  /\ f.kind = "history" => content \in History \union {Absent, Garbled}
  /\ f.kind = "check" => content \in Image \union {Absent}
  /\ f.kind = "manifest" => content \in ManifestType \union {Garbled}

(* The file names are those a call writes; rom and history files are those  *)
(* of slots, checkpoint files those of checkpoints.                         *)
Named(f) ==
  /\ f \in [kind : {"rom", "history", "check", "manifest", "verify"},
            of : Slot \union CheckpointId \union {"project"}]
  /\ f.kind \in {"rom", "history"} => f.of \in Slot
  /\ f.kind = "check" => f.of \in CheckpointId

(* Putting content of its kind into a file leaves the files well-typed.     *)
LEMMA PutKeepsDisk ==
  ASSUME NEW d \in DiskType, NEW f, Named(f), f.kind # "verify",
         NEW content, FileHolds(f, content)
  PROVE  Put(d, f, content) \in DiskType
<1>1. CASE f.kind = "rom"
  BY <1>1 DEF Put, DiskType, FileHolds, Named
<1>2. CASE f.kind = "history"
  BY <1>2 DEF Put, DiskType, FileHolds, Named
<1>3. CASE f.kind = "check"
  BY <1>3 DEF Put, DiskType, FileHolds, Named
<1>4. CASE f.kind = "manifest"
  BY <1>4 DEF Put, DiskType, FileHolds, Named
<1> QED
  BY <1>1, <1>2, <1>3, <1>4 DEF Named

(* What a whole write leaves is of the kind of its file.                    *)
LEMMA ContentHolds ==
  ASSUME NEW m \in MemType, NEW f, Named(f), f.kind # "verify"
  PROVE  FileHolds(f, Content(m, f))
<1>1. CASE f.kind = "rom"
  BY <1>1 DEF Content, FileHolds, Named, MemType
<1>2. CASE f.kind = "history"
  <2>1. m.history[f.of] \in History
    BY <1>2 DEF Named, MemType
  <2>2. Content(m, f) = Rendered(m.history[f.of])
    BY <1>2 DEF Content
  <2> QED
    BY <1>2, <2>1, <2>2, RenderedIsHistory DEF FileHolds
<1>3. CASE f.kind = "check"
  BY <1>3 DEF Content, FileHolds, Named, MemType, Slot
<1>4. CASE f.kind = "manifest"
  BY <1>4 DEF Content, FileHolds, ManifestOf, ManifestType, MemType
<1> QED
  BY <1>1, <1>2, <1>3, <1>4 DEF Named

(* So is what a write that was cut short leaves.                            *)
LEMMA CutHolds ==
  ASSUME NEW m \in MemType, NEW f, Named(f), f.kind # "verify", NEW cut \in Cuts(m, f)
  PROVE  FileHolds(f, cut)
<1>1. CASE f.kind = "history"
  <2>1. m.history[f.of] \in History
    BY <1>1 DEF Named, MemType
  <2>2. cut \in HistoryCuts(Rendered(m.history[f.of]))
    BY <1>1 DEF Cuts
  <2>3. cut \in History \union {Garbled}
    BY <2>1, <2>2, RenderedIsHistory, CutIsHistory
  <2> QED
    BY <1>1, <2>3 DEF FileHolds
<1>2. CASE f.kind = "manifest"
  <2>1. cut \in ManifestCuts(m)
    BY <1>2 DEF Cuts
  <2>2. ManifestOf(m) \in ManifestType
    BY DEF ManifestOf, ManifestType, MemType
  <2>3. m.checkpoints \in Checkpoints /\ m.roms \in SUBSET Additional
    BY DEF MemType
  <2>4. ASSUME NEW kept \in SUBSET DOMAIN m.checkpoints
        PROVE  [ManifestOf(m) EXCEPT !.checkpoints = Restrict(@, kept)] \in ManifestType
    <3>1. Restrict(m.checkpoints, kept) \in Checkpoints
      BY <2>3 DEF Checkpoints, Restrict
    <3> QED
      BY <2>2, <3>1 DEF ManifestType, ManifestOf
  <2>5. ASSUME NEW kept \in SUBSET m.roms
        PROVE  [ManifestOf(m) EXCEPT !.roms = kept, !.checkpoints = <<>>] \in ManifestType
    <3>1. <<>> \in Checkpoints
      BY DEF Checkpoints
    <3> QED
      BY <2>2, <2>3, <3>1 DEF ManifestType
  <2>6. cut \in ManifestType \union {Garbled}
    BY <2>1, <2>4, <2>5 DEF ManifestCuts
  <2> QED
    BY <1>2, <2>6 DEF FileHolds
<1>3. CASE f.kind \in {"rom", "check"}
  BY <1>3 DEF Cuts, FileHolds, Image
<1> QED
  BY <1>1, <1>2, <1>3 DEF Named

(* A project that opens holds what its files hold.                          *)
LEMMA LoadedIsMem ==
  ASSUME NEW d \in DiskType, Opens(d)
  PROVE  Loaded(d) \in MemType
<1> DEFINE m == d.manifest
           listed == DOMAIN m.checkpoints
           lost == {c \in listed : d.check[c] # m.checkpoints[c]}
           there == {c \in listed : d.check[c] # Absent}
<1>1. m \in ManifestType
  BY DEF DiskType, Opens
<1>2. listed \subseteq CheckpointId
  BY <1>1 DEF ManifestType, Checkpoints
<1>3. Cardinality(lost) \in Nat
  <2>1. lost \subseteq CheckpointId
    BY <1>2
  <2>2. IsFiniteSet(lost)
    BY <2>1, CheckpointsAssumption, FS_Subset
  <2> QED
    BY <2>2, FS_CardinalityType
<1>4. Restrict(d.check, there) \in Checkpoints
  <2>1. there \in SUBSET CheckpointId
    BY <1>2
  <2>2. \A c \in there : d.check[c] \in Image
    BY <2>1 DEF DiskType
  <2>3. Restrict(d.check, there) \in [there -> Image]
    BY <2>2 DEF Restrict
  <2> HIDE DEF there
  <2> QED
    BY <2>1, <2>3 DEF Checkpoints
<1>5. \A s \in Slot : d.rom[s] \in Image /\ HistoryOn(d, s) \in History
  <2>1. EmptyHistory \in History
    BY EmptySeq DEF EmptyHistory, History
  <2> QED
    BY <2>1 DEF HistoryOn, DiskType
<1>6. EmptyHistory \in History /\ Torn \in Image
  BY EmptySeq DEF EmptyHistory, History, Image
<1> DEFINE roms == [s \in Slot |-> IF s \in {"working"} \union m.roms
                                  THEN d.rom[s] ELSE Torn]
           histories == [s \in Slot |-> IF s \in {"working"} \union m.roms
                                       THEN HistoryOn(d, s) ELSE EmptyHistory]
<1>7. roms \in [Slot -> Image] /\ histories \in [Slot -> History]
  BY <1>5, <1>6
<1>8. /\ m.roms \in SUBSET Additional /\ m.active \in Slot \union {"source"}
      /\ m.notes \in Notes
  BY <1>1 DEF ManifestType
<1>9. Loaded(d) = [roms |-> m.roms, rom |-> roms, history |-> histories,
                   active |-> m.active, notes |-> m.notes,
                   checkpoints |-> Restrict(d.check, there),
                   warned |-> Cardinality(lost)]
  BY DEF Loaded
<1> HIDE DEF m, listed, lost, there, roms, histories
<1> QED
  BY <1>3, <1>4, <1>7, <1>8, <1>9 DEF MemType

---------------------------------------------------------------------------
(* The inductive invariant: the types, the property, that a call writes     *)
(* files that exist, that it ends with the tool, and that what a failing    *)
(* restore_checkpoint brings back is in step as well.                       *)

PriorFits ==
  call.kind = "restore" /\ "working" \in inStep => Fits(prior.image, prior.history)

ClosedIdle == tool = "none" => Idle

IInv == TypeOK /\ Named(call.at) /\ ClosedIdle /\ PriorFits /\ HistoryInStep

(* An edit stores its values over one image, records itself in one history  *)
(* and touches no other slot; in the slot's own history, with the values    *)
(* that were there, it leaves the slot in step.                             *)
LEMMA EditOfStep ==
  ASSUME TypeOK, NEW s \in Slot, NEW r \in Slot, NEW kind \in {"table", "bytes"},
         NEW A \in SUBSET Addr, NEW before \in [A -> Val], NEW after \in [A -> Val],
         EditOf(s, r, kind, before, after)
  PROVE  /\ mem' \in MemType /\ edits' \in 0 .. MaxEdits
         /\ \A t \in Slot \ {s, r} :
              mem'.rom[t] = mem.rom[t] /\ mem'.history[t] = mem.history[t]
         /\ s = r /\ before = Restrict(mem.rom[s], A) /\ Fits(mem.rom[s], mem.history[s])
              => Fits(mem'.rom[s], mem'.history[s])
<1> DEFINE image == mem.rom[s]
           h == mem.history[r]
           e == Change(kind, before, after)
<1>1. /\ mem \in MemType /\ edits \in Nat /\ edits < MaxEdits /\ edits' = edits + 1
      /\ image # Torn
      /\ mem' = [mem EXCEPT !.rom[s] = Stored(image, after),
                            !.history[r] = Recorded(h, e)]
  BY BoundsAssumption DEF TypeOK, EditOf, Editable
<1>2. image \in Rom /\ h \in History
  BY <1>1 DEF MemType, Image
<1>3. Stored(image, after) \in Rom
  BY <1>2, StoredIsRom
<1>4. e \in Edit
  BY ChangeIsEdit
<1>5. Recorded(h, e) \in History
  BY <1>2, <1>4, RecordedParts
<1> HIDE DEF image, h, e
<1>6. /\ mem' \in MemType
      /\ mem'.rom = [mem.rom EXCEPT ![s] = Stored(image, after)]
      /\ mem'.history = [mem.history EXCEPT ![r] = Recorded(h, e)]
  BY <1>1, <1>3, <1>5 DEF MemType, Image
<1>7. edits' \in 0 .. MaxEdits
  BY <1>1, BoundsAssumption
<1>8. ASSUME NEW t \in Slot \ {s, r}
      PROVE  mem'.rom[t] = mem.rom[t] /\ mem'.history[t] = mem.history[t]
  BY <1>1, <1>6 DEF MemType
<1>9. ASSUME s = r, before = Restrict(mem.rom[s], A), Fits(mem.rom[s], mem.history[s])
      PROVE  Fits(mem'.rom[s], mem'.history[s])
  <2>1. mem'.rom[s] = Stored(image, after) /\ mem'.history[s] = Recorded(h, e)
    BY <1>1, <1>6, <1>9 DEF MemType
  <2>2. Fits(image, h)
    BY <1>9 DEF image, h
  <2>3. Fits(Stored(image, after), Recorded(h, Change(kind, Restrict(image, A), after)))
    BY <1>2, <2>2, RecordFits
  <2> QED
    BY <2>1, <2>3, <1>9 DEF e, image
<1> QED
  BY <1>6, <1>7, <1>8, <1>9

(* Facts a step in memory leaves behind, gathered for every kind of edit.   *)
Kept ==
  /\ mem' \in MemType /\ edits' \in 0 .. MaxEdits /\ inStep' \subseteq inStep
  /\ HistoryInStep'

LEMMA TableEditStep ==
  ASSUME TypeOK, HistoryInStep, NEW s, NEW r \in Slot, TableEdit(s, r)
  PROVE  Kept
<1>1. PICK A \in SUBSET Addr \ {{}} : \E after \in [A -> Val] :
        /\ EditOf(s, r, "table", Restrict(mem.rom[s], A), after)
        /\ inStep' = IF s = r THEN inStep ELSE inStep \ {s, r}
  BY DEF TableEdit
<1>2. PICK after \in [A -> Val] :
        /\ EditOf(s, r, "table", Restrict(mem.rom[s], A), after)
        /\ inStep' = IF s = r THEN inStep ELSE inStep \ {s, r}
  BY <1>1
<1>3. s \in Slot /\ mem.rom[s] \in Rom
  BY <1>2 DEF EditOf, Editable, TypeOK, MemType, Slot, Image
<1>4. Restrict(mem.rom[s], A) \in [A -> Val]
  BY <1>3 DEF Restrict, Rom
<1> DEFINE before == Restrict(mem.rom[s], A)
<1>5. before \in [A -> Val] /\ before = Restrict(mem.rom[s], A)
  BY <1>4
<1> HIDE DEF before
<1>6. EditOf(s, r, "table", before, after)
  BY <1>2 DEF before
<1>7. /\ mem' \in MemType /\ edits' \in 0 .. MaxEdits
      /\ \A t \in Slot \ {s, r} :
           mem'.rom[t] = mem.rom[t] /\ mem'.history[t] = mem.history[t]
      /\ s = r /\ Fits(mem.rom[s], mem.history[s]) => Fits(mem'.rom[s], mem'.history[s])
  BY <1>3, <1>5, <1>6, EditOfStep
<1>8. ASSUME NEW t \in inStep'
      PROVE  Fits(mem'.rom[t], mem'.history[t])
  <2>1. t \in inStep /\ t \in Slot /\ Fits(mem.rom[t], mem.history[t])
    BY <1>2 DEF TypeOK, HistoryInStep
  <2>2. CASE t \in {s, r}
    BY <1>2, <1>7, <2>1, <2>2
  <2>3. CASE t \notin {s, r}
    BY <1>7, <2>1, <2>3
  <2> QED
    BY <2>2, <2>3
<1> QED
  BY <1>2, <1>7, <1>8 DEF Kept, HistoryInStep

LEMMA ByteEditStep ==
  ASSUME TypeOK, HistoryInStep, NEW s, ByteEdit(s)
  PROVE  Kept
<1>1. PICK A \in SUBSET Addr \ {{}} : \E before, after \in [A -> Val] :
        /\ EditOf(s, s, "bytes", before, after)
        /\ inStep' = IF before = Restrict(mem.rom[s], A) THEN inStep ELSE inStep \ {s}
  BY DEF ByteEdit
<1>2. PICK before \in [A -> Val], after \in [A -> Val] :
        /\ EditOf(s, s, "bytes", before, after)
        /\ inStep' = IF before = Restrict(mem.rom[s], A) THEN inStep ELSE inStep \ {s}
  BY <1>1
<1>3. s \in Slot
  BY <1>2 DEF EditOf, Editable, TypeOK, MemType, Slot
<1>4. /\ mem' \in MemType /\ edits' \in 0 .. MaxEdits
      /\ \A t \in Slot \ {s} :
           mem'.rom[t] = mem.rom[t] /\ mem'.history[t] = mem.history[t]
      /\ before = Restrict(mem.rom[s], A) /\ Fits(mem.rom[s], mem.history[s])
           => Fits(mem'.rom[s], mem'.history[s])
  BY <1>2, <1>3, EditOfStep
<1>5. ASSUME NEW t \in inStep'
      PROVE  Fits(mem'.rom[t], mem'.history[t])
  <2>1. t \in inStep /\ t \in Slot /\ Fits(mem.rom[t], mem.history[t])
    BY <1>2 DEF TypeOK, HistoryInStep
  <2>2. CASE t = s
    BY <1>2, <1>4, <2>1, <2>2
  <2>3. CASE t # s
    BY <1>4, <2>1, <2>3
  <2> QED
    BY <2>2, <2>3
<1> QED
  BY <1>2, <1>4, <1>5 DEF Kept, HistoryInStep

LEMMA ToggleCodesStep ==
  ASSUME TypeOK, HistoryInStep, ToggleCodes
  PROVE  Kept
<1>0. PICK A \in SUBSET Addr \ {{}} : \E after \in [A -> Val] :
        EditOf("working", "working", "bytes", Restrict(mem.rom["working"], A), after)
  BY DEF ToggleCodes
<1>1. PICK after \in [A -> Val] :
        EditOf("working", "working", "bytes", Restrict(mem.rom["working"], A), after)
  BY <1>0
<1>2. "working" \in Slot /\ inStep' = inStep /\ mem.rom["working"] \in Rom
  BY <1>1 DEF EditOf, Editable, TypeOK, MemType, Slot, Image, ToggleCodes
<1>3. Restrict(mem.rom["working"], A) \in [A -> Val]
  BY <1>2 DEF Rom, Restrict
<1> DEFINE before == Restrict(mem.rom["working"], A)
<1>4. before \in [A -> Val] /\ before = Restrict(mem.rom["working"], A)
  BY <1>3
<1> HIDE DEF before
<1>5. EditOf("working", "working", "bytes", before, after)
  BY <1>1 DEF before
<1>6. /\ mem' \in MemType /\ edits' \in 0 .. MaxEdits
      /\ \A t \in Slot \ {"working"} :
           mem'.rom[t] = mem.rom[t] /\ mem'.history[t] = mem.history[t]
      /\ Fits(mem.rom["working"], mem.history["working"])
           => Fits(mem'.rom["working"], mem'.history["working"])
  BY <1>2, <1>4, <1>5, EditOfStep
<1>7. ASSUME NEW t \in inStep'
      PROVE  Fits(mem'.rom[t], mem'.history[t])
  BY <1>2, <1>6, <1>7 DEF TypeOK, HistoryInStep
<1> QED
  BY <1>2, <1>6, <1>7 DEF Kept, HistoryInStep, TypeOK

LEMMA UndoOrRedoStep ==
  ASSUME TypeOK, HistoryInStep, NEW s, UndoOrRedo(s)
  PROVE  Kept
<1> DEFINE h == mem.history[s]
<1>1. /\ s \in Slot /\ mem.rom[s] \in Rom /\ h \in History /\ mem \in MemType
      /\ edits' = edits /\ inStep' = inStep /\ edits \in 0 .. MaxEdits
      /\ inStep \subseteq Slot
  BY DEF UndoOrRedo, UndoOf, RedoOf, Editable, TypeOK, MemType, Slot, Image
<1>2. PICK image \in Rom, g \in History :
        /\ mem' = [mem EXCEPT !.rom[s] = image, !.history[s] = g]
        /\ Fits(mem.rom[s], h) => Fits(image, g)
  <2>1. CASE UndoOf(s)
    <3>1. /\ CanUndo(h)
          /\ mem' = [mem EXCEPT !.rom[s] = Stored(mem.rom[s], h.records[h.cursor].before),
                                !.history[s] = Undone(h)]
      BY <2>1 DEF UndoOf
    <3> QED
      BY <1>1, <3>1, UndoFits, UndoIsHistory
  <2>2. CASE RedoOf(s)
    <3>1. /\ CanRedo(h)
          /\ mem' = [mem EXCEPT !.rom[s] = Stored(mem.rom[s], h.records[h.cursor + 1].after),
                                !.history[s] = Redone(h)]
      BY <2>2 DEF RedoOf
    <3> QED
      BY <1>1, <3>1, RedoFits, RedoIsHistory
  <2> QED
    BY <2>1, <2>2 DEF UndoOrRedo
<1>3. mem'.rom[s] = image /\ mem'.history[s] = g /\ mem' \in MemType
  BY <1>1, <1>2 DEF MemType, Image
<1>4. ASSUME NEW t \in Slot \ {s}
      PROVE  mem'.rom[t] = mem.rom[t] /\ mem'.history[t] = mem.history[t]
  BY <1>1, <1>2 DEF MemType
<1>5. ASSUME NEW t \in inStep
      PROVE  Fits(mem'.rom[t], mem'.history[t])
  BY <1>1, <1>2, <1>3, <1>4 DEF HistoryInStep
<1> QED
  BY <1>1, <1>3, <1>5 DEF Kept, HistoryInStep

---------------------------------------------------------------------------
(* Opening, leaving and the steps in memory.                                *)

LEMMA OpenStep ==
  ASSUME IInv, NEW t \in {"gui", "cli"}, OpenProject(t)
  PROVE  IInv'
<1>1. mem' = Loaded(disk) /\ mem' \in MemType
  BY LoadedIsMem DEF IInv, TypeOK, OpenProject
<1>2. TypeOK'
  BY <1>1 DEF IInv, TypeOK, OpenProject
<1>3. HistoryInStep'
  BY DEF OpenProject, HistoryInStep
<1>4. Named(call.at)' /\ ClosedIdle' /\ PriorFits'
  BY DEF IInv, OpenProject, Named, ClosedIdle, Idle, PriorFits
<1> QED
  BY <1>2, <1>3, <1>4 DEF IInv

LEMMA BlankIsMem == Blank \in MemType /\ EmptyHistory \in History
<1>1. EmptyHistory \in History
  BY EmptySeq DEF EmptyHistory, History
<1>2. <<>> \in Checkpoints
  BY DEF Checkpoints
<1> QED
  BY <1>1, <1>2 DEF Blank, MemType, Image, Slot, Notes

LEMMA NoCallIsCall == NoCall \in CallType /\ Named(NoCall.at) /\ NoCall.kind = "none"
BY DEF NoCall, Verify, File, CallType, Named

LEMMA LeaveStep ==
  ASSUME IInv, CloseProject \/ Crash
  PROVE  IInv'
<1>1. Left
  BY DEF CloseProject, Crash
<1>2. disk' \in DiskType
  <2>1. CASE UNCHANGED disk
    BY <2>1 DEF IInv, TypeOK
  <2>2. CASE ~UNCHANGED disk
    <3>1. PICK cut \in Cuts(mem, call.at) : disk' = Put(disk, call.at, cut)
      BY <2>2 DEF CloseProject, Crash
    <3>2. call.at.kind # "verify"
      BY <2>2 DEF CloseProject, Crash, Writing
    <3>3. FileHolds(call.at, cut)
      BY <3>2, CutHolds DEF IInv, TypeOK
    <3> QED
      BY <3>1, <3>2, <3>3, PutKeepsDisk DEF IInv, TypeOK
  <2> QED
    BY <2>1, <2>2
<1>3. prior' \in [image : Image, history : History]
  BY <1>1, BlankIsMem DEF Left, NoPrior, Image
<1>4. TypeOK'
  BY <1>1, <1>2, <1>3, BlankIsMem, NoCallIsCall DEF IInv, TypeOK, Left
<1>5. Named(call.at)' /\ ClosedIdle' /\ PriorFits' /\ HistoryInStep'
  BY <1>1, NoCallIsCall DEF Left, ClosedIdle, Idle, PriorFits, HistoryInStep
<1> QED
  BY <1>4, <1>5 DEF IInv

LEMMA MemoryStep ==
  ASSUME IInv, EditActive \/ UndoActive \/ RepairWorking \/ CopyToWorking
  PROVE  IInv'
<1>1. InMemory
  BY DEF EditActive, UndoActive, RepairWorking, CopyToWorking
<1>2. TypeOK /\ HistoryInStep
  BY DEF IInv
<1>3. Kept
  <2>1. CASE EditActive
    <3>1. CASE TableEdit(mem.active, mem.active)
      <4>1. mem.active \in Slot
        BY <1>2, <3>1 DEF TableEdit, EditOf, Editable, TypeOK, MemType, Slot
      <4> QED
        BY <1>2, <3>1, <4>1, TableEditStep
    <3>2. CASE ByteEdit(mem.active)
      BY <1>2, <3>2, ByteEditStep
    <3> QED
      BY <2>1, <3>1, <3>2 DEF EditActive
  <2>2. CASE UndoActive
    BY <1>2, <2>2, UndoOrRedoStep DEF UndoActive
  <2>3. CASE RepairWorking
    BY <1>2, <2>3, ByteEditStep DEF RepairWorking
  <2>4. CASE CopyToWorking
    <3>1. ActiveHistory \in Slot
      BY <1>2 DEF ActiveHistory, TypeOK, MemType, Slot
    <3> QED
      BY <1>2, <2>4, <3>1, TableEditStep DEF CopyToWorking
  <2> QED
    BY <2>1, <2>2, <2>3, <2>4
<1>4. TypeOK'
  BY <1>1, <1>2, <1>3 DEF InMemory, Kept, TypeOK
<1>5. Named(call.at)' /\ ClosedIdle' /\ PriorFits'
  BY <1>1 DEF IInv, InMemory, Named, ClosedIdle, Idle, PriorFits
<1> QED
  BY <1>3, <1>4, <1>5 DEF IInv, Kept

---------------------------------------------------------------------------
(* The calls that write, and their steps.                                   *)

(* A call of some kind that goes on to some file.                           *)
CallAt(c, kind) ==
  /\ c \in CallType /\ Named(c.at) /\ c.kind = kind

LEMMA NextSlotCalls ==
  ASSUME NEW c \in CallType, NEW next \in NextSlot(c)
  PROVE  CallAt(next, c.kind)
<1>1. CASE c.left = {}
  <2>1. next = [c EXCEPT !.at = File("rom", "working")]
    BY <1>1 DEF NextSlot
  <2> QED
    BY <2>1 DEF CallAt, CallType, Named, File, Slot
<1>2. CASE c.left # {}
  <2>1. PICK s \in c.left : next = [c EXCEPT !.at = File("rom", s), !.left = @ \ {s}]
    BY <1>2 DEF NextSlot
  <2> QED
    BY <2>1 DEF CallAt, CallType, Named, File, Slot
<1> QED
  BY <1>1, <1>2

LEMMA AfterWriteCalls ==
  ASSUME NEW m \in MemType, NEW c \in CallType, Named(c.at), c.at.kind # "verify",
         NEW next \in AfterWrite(m, c)
  PROVE  CallAt(next, c.kind) \/ next = NoCall
<1>1. ASSUME next \in AfterSlot(c)
      PROVE  CallAt(next, c.kind)
  <2>1. CASE c.at.of = "working"
    <3>1. next = [c EXCEPT !.at = Manifest]
      BY <1>1, <2>1 DEF AfterSlot
    <3> QED
      BY <3>1 DEF CallAt, CallType, Named, Manifest, File
  <2>2. CASE c.at.of # "working"
    BY <1>1, <2>2, NextSlotCalls DEF AfterSlot
  <2> QED
    BY <2>1, <2>2
<1>2. CASE c.at.kind = "rom"
  <2>1. CASE next = [c EXCEPT !.at = File("history", c.at.of)]
    BY <1>2, <2>1 DEF CallAt, CallType, Named, File
  <2> QED
    BY <1>1, <1>2, <2>1 DEF AfterWrite
<1>3. CASE c.at.kind = "history"
  BY <1>1, <1>3 DEF AfterWrite
<1>4. CASE c.at.kind = "check"
  <2>1. next = [c EXCEPT !.at = File("manifest", c.at.of)]
    BY <1>4 DEF AfterWrite
  <2> QED
    BY <1>4, <2>1 DEF CallAt, CallType, Named, File
<1>5. CASE c.at.kind = "manifest"
  <2>1. next = [c EXCEPT !.at = Verify] \/ next = NoCall
    BY <1>5 DEF AfterWrite
  <2>2. CASE next = [c EXCEPT !.at = Verify]
    BY <2>2 DEF CallAt, CallType, Named, Verify, File
  <2> QED
    BY <2>1, <2>2
<1> QED
  BY <1>2, <1>3, <1>4, <1>5 DEF Named

(* Beginning a call: which kinds, and that prior is set by restore alone.   *)
LEMMA BeginStep ==
  ASSUME IInv, NEW kind \in {"save", "metadata", "create", "restore"}, NEW at, Named(at),
         Begin(kind, at)
  PROVE  /\ call' \in CallType /\ Named(call.at)' /\ call'.kind = kind
         /\ calls' \in 0 .. MaxCalls /\ faults' \in 0 .. MaxFaults
         /\ tool' \in {"none", "gui", "cli"} /\ disk' \in DiskType /\ result' = "none"
<1>1. call' = [kind |-> kind, at |-> at, left |-> {}]
  BY DEF Begin
<1>2. call' \in CallType /\ Named(call.at)' /\ call'.kind = kind
  BY <1>1 DEF CallType, Named
<1>3. calls' \in 0 .. MaxCalls
  BY BoundsAssumption DEF IInv, TypeOK, Begin, OneMore
<1> QED
  BY <1>2, <1>3 DEF IInv, TypeOK, Begin

LEMMA FilesNamed ==
  /\ Named(Manifest) /\ \A s \in Slot : Named(File("rom", s))
  /\ \A c \in CheckpointId : Named(File("check", c))
BY DEF Named, Manifest, File

LEMMA WorkingIsSlot == "working" \in Slot
BY DEF Slot

LEMMA CallStep ==
  ASSUME IInv, SaveAll \/ Command \/ SetNotes \/ SetActive \/ CreateCheckpoint
                 \/ RestoreCheckpoint
  PROVE  IInv'
<1>0. TypeOK /\ HistoryInStep /\ Named(call.at)
  BY DEF IInv
<1>1. CASE SaveAll
  <2>1. [kind |-> "save", at |-> Verify, left |-> Edited(mem)] \in CallType
    BY <1>0 DEF TypeOK, CallType, Verify, File, Edited, MemType
  <2>2. CallAt(call', "save")
    BY <1>1, <2>1, NextSlotCalls DEF SaveAll
  <2>3. calls' \in 0 .. MaxCalls
    BY <1>0, <1>1, BoundsAssumption DEF TypeOK, SaveAll, OneMore
  <2>4. TypeOK'
    BY <1>0, <1>1, <2>2, <2>3 DEF TypeOK, SaveAll, CallAt
  <2> QED
    BY <1>0, <1>1, <2>2, <2>4
       DEF IInv, SaveAll, CallAt, Named, ClosedIdle, PriorFits, HistoryInStep
<1>2. CASE Command
  <2>1. /\ call' \in CallType /\ Named(call.at)' /\ call'.kind = "save"
        /\ calls' \in 0 .. MaxCalls /\ faults' \in 0 .. MaxFaults
        /\ tool' = "cli" /\ disk' \in DiskType /\ result' = "none"
    BY <1>2, FilesNamed, WorkingIsSlot, BeginStep DEF Command, Begin
  <2>2. Kept
    BY <1>0, <1>2, WorkingIsSlot, TableEditStep, ToggleCodesStep,
       UndoOrRedoStep DEF Command
  <2>3. TypeOK'
    BY <1>0, <1>2, <2>1, <2>2 DEF TypeOK, Command, Kept
  <2> QED
    BY <2>1, <2>2, <2>3 DEF IInv, Kept, ClosedIdle, PriorFits
<1>3. CASE SetNotes \/ SetActive
  <2>1. Begin("metadata", Manifest) /\ tool = "gui"
    BY <1>3 DEF SetNotes, SetActive
  <2>2. /\ call' \in CallType /\ Named(call.at)' /\ call'.kind = "metadata"
        /\ calls' \in 0 .. MaxCalls /\ faults' \in 0 .. MaxFaults
        /\ disk' \in DiskType /\ result' = "none" /\ tool' = "gui"
    BY <2>1, FilesNamed, BeginStep DEF Begin
  <2>3. mem' \in MemType /\ mem'.rom = mem.rom /\ mem'.history = mem.history
    BY <1>0, <1>3 DEF SetNotes, SetActive, TypeOK, MemType, Slot
  <2>4. TypeOK'
    BY <1>0, <1>3, <2>2, <2>3 DEF TypeOK, SetNotes, SetActive
  <2>5. HistoryInStep'
    BY <1>0, <1>3, <2>3 DEF HistoryInStep, SetNotes, SetActive
  <2> QED
    BY <2>2, <2>4, <2>5 DEF IInv, ClosedIdle, PriorFits
<1>4. CASE CreateCheckpoint
  <2>1. PICK c \in CheckpointId : Begin("create", File("check", c))
    BY <1>4 DEF CreateCheckpoint
  <2>2. /\ call' \in CallType /\ Named(call.at)' /\ call'.kind = "create"
        /\ calls' \in 0 .. MaxCalls /\ faults' \in 0 .. MaxFaults
        /\ disk' \in DiskType /\ result' = "none" /\ tool' = "gui"
    BY <1>4, <2>1, FilesNamed, BeginStep DEF Begin, CreateCheckpoint
  <2>3. TypeOK'
    BY <1>0, <1>4, <2>2 DEF TypeOK, CreateCheckpoint
  <2>4. HistoryInStep'
    BY <1>0, <1>4 DEF HistoryInStep, CreateCheckpoint
  <2> QED
    BY <2>2, <2>3, <2>4 DEF IInv, ClosedIdle, PriorFits
<1>5. CASE RestoreCheckpoint
  <2> DEFINE working == mem.rom["working"]
  <2>1. PICK c \in DOMAIN mem.checkpoints :
          /\ Torn \notin {working, mem.checkpoints[c]}
          /\ EditOf("working", "working", "bytes",
                    Restrict(working, {a \in Addr : mem.checkpoints[c][a] # working[a]}),
                    Restrict(mem.checkpoints[c],
                             {a \in Addr : mem.checkpoints[c][a] # working[a]}))
    BY <1>5 DEF RestoreCheckpoint
  <2> DEFINE image == mem.checkpoints[c]
             differ == {a \in Addr : image[a] # working[a]}
             before == Restrict(working, differ)
             after == Restrict(image, differ)
  <2>2. image \in Rom /\ working \in Rom
    BY <1>0, <2>1 DEF TypeOK, MemType, Checkpoints, Image, Slot
  <2>3. differ \in SUBSET Addr /\ before \in [differ -> Val] /\ after \in [differ -> Val]
    BY <2>2 DEF Restrict, Rom
  <2>4. EditOf("working", "working", "bytes", before, after)
    BY <2>1
  <2>5. before = Restrict(mem.rom["working"], differ)
    OBVIOUS
  <2> HIDE DEF image, differ, before, after
  <2>6. /\ mem' \in MemType /\ edits' \in 0 .. MaxEdits
        /\ \A t \in Slot \ {"working"} :
             mem'.rom[t] = mem.rom[t] /\ mem'.history[t] = mem.history[t]
        /\ Fits(mem.rom["working"], mem.history["working"])
             => Fits(mem'.rom["working"], mem'.history["working"])
    BY <1>0, <2>3, <2>4, <2>5, WorkingIsSlot, EditOfStep
  <2>7. /\ call' \in CallType /\ Named(call.at)' /\ call'.kind = "restore"
        /\ calls' \in 0 .. MaxCalls /\ faults' \in 0 .. MaxFaults
        /\ disk' \in DiskType /\ result' = "none" /\ tool' = "cli"
    BY <1>5, FilesNamed, WorkingIsSlot, BeginStep DEF Begin, RestoreCheckpoint
  <2>8. /\ prior' = [image |-> mem.rom["working"], history |-> mem.history["working"]]
        /\ inStep' = inStep
    BY <1>5 DEF RestoreCheckpoint
  <2>9. prior' \in [image : Image, history : History]
    BY <1>0, <2>8, WorkingIsSlot DEF TypeOK, MemType
  <2>10. TypeOK'
    BY <1>0, <2>6, <2>7, <2>8, <2>9 DEF TypeOK
  <2>11. HistoryInStep'
    BY <1>0, <2>6, <2>8 DEF HistoryInStep, TypeOK
  <2>12. PriorFits'
    BY <1>0, <2>8 DEF PriorFits, HistoryInStep
  <2> QED
    BY <2>7, <2>10, <2>11, <2>12 DEF IInv, ClosedIdle
<1> QED
  BY <1>1, <1>2, <1>3, <1>4, <1>5

LEMMA GoesOnStep ==
  ASSUME IInv, Writing, NEW content, FileHolds(call.at, content), GoesOn(content),
         UNCHANGED <<edits, calls>>, faults' \in 0 .. MaxFaults
  PROVE  IInv'
<1>1. /\ TypeOK /\ Named(call.at) /\ HistoryInStep /\ PriorFits /\ ClosedIdle
      /\ call.at.kind # "verify" /\ ~Idle
  BY DEF IInv, Writing
<1>2. disk' \in DiskType
  BY <1>1, PutKeepsDisk DEF GoesOn, TypeOK
<1>3. mem' \in MemType /\ mem'.rom = mem.rom /\ mem'.history = mem.history
  <2>1. CASE call.at.kind = "check"
    <3> DEFINE id == call.at.of
               listed == [c \in DOMAIN mem.checkpoints \union {id} |->
                            IF c = id THEN mem.rom["working"] ELSE mem.checkpoints[c]]
    <3>1. id \in CheckpointId
      BY <1>1, <2>1 DEF Named
    <3>2. mem.checkpoints \in Checkpoints /\ mem.rom["working"] \in Image /\ mem \in MemType
      BY <1>1, WorkingIsSlot DEF TypeOK, MemType
    <3>3. listed \in Checkpoints
      <4>1. PICK C \in SUBSET CheckpointId : mem.checkpoints \in [C -> Image]
        BY <3>2 DEF Checkpoints
      <4>2. listed \in [C \union {id} -> Image]
        BY <3>2, <4>1
      <4>3. C \union {id} \in SUBSET CheckpointId
        BY <3>1, <4>1
      <4> HIDE DEF listed, id
      <4> QED
        BY <4>2, <4>3 DEF Checkpoints
    <3>4. mem' = [mem EXCEPT !.checkpoints = listed]
      BY <2>1 DEF GoesOn, Listed
    <3> HIDE DEF listed
    <3> QED
      BY <3>2, <3>3, <3>4 DEF MemType
  <2>2. CASE call.at.kind # "check"
    BY <1>1, <2>2 DEF GoesOn, Listed, TypeOK
  <2> QED
    BY <2>1, <2>2
<1>4. /\ call' \in CallType /\ Named(call'.at)
      /\ prior' \in [image : Image, history : History]
      /\ result' \in {"none", "opened", "saved"}
      /\ call'.kind = "restore" => call.kind = "restore" /\ prior' = prior
  <2>1. PICK next \in AfterWrite(mem, call) :
          IF next = NoCall THEN Return(Outcome(call.kind))
          ELSE call' = next /\ UNCHANGED <<prior, result>>
    BY DEF GoesOn
  <2>2. CASE next = NoCall
    <3>1. call' = NoCall /\ prior' = NoPrior /\ result' = Outcome(call.kind)
      BY <2>1, <2>2 DEF Return
    <3> QED
      BY <3>1, NoCallIsCall, BlankIsMem DEF NoPrior, Outcome, Image
  <2>3. CASE next # NoCall
    <3>1. CallAt(next, call.kind)
      BY <1>1, <2>3, AfterWriteCalls DEF TypeOK
    <3> QED
      BY <1>1, <2>1, <2>3, <3>1 DEF CallAt, TypeOK
  <2> QED
    BY <2>2, <2>3
<1>5. tool' = tool /\ inStep' = inStep
  BY DEF GoesOn
<1>6. TypeOK'
  BY <1>1, <1>2, <1>3, <1>4, <1>5 DEF TypeOK
<1>7. HistoryInStep' /\ PriorFits' /\ ClosedIdle'
  BY <1>1, <1>3, <1>4, <1>5 DEF HistoryInStep, PriorFits, ClosedIdle, Idle
<1> QED
  BY <1>4, <1>6, <1>7 DEF IInv

LEMMA FailedStep ==
  ASSUME IInv, ~Idle, NEW d \in DiskType, Failed(d),
         UNCHANGED <<tool, edits, calls, inStep>>, faults' \in 0 .. MaxFaults
  PROVE  IInv'
<1>1. TypeOK /\ Named(call.at) /\ HistoryInStep /\ PriorFits /\ ClosedIdle
  BY DEF IInv
<1>2. CASE call.kind = "restore"
  <2>1. /\ mem' = [mem EXCEPT !.rom["working"] = prior.image,
                              !.history["working"] = prior.history]
        /\ call' = [call EXCEPT !.kind = "rollback", !.at = File("rom", "working")]
        /\ disk' = d /\ UNCHANGED <<prior, result>>
    BY <1>1, <1>2 DEF Failed, Named
  <2>2. /\ mem' \in MemType
        /\ \A t \in Slot \ {"working"} :
             mem'.rom[t] = mem.rom[t] /\ mem'.history[t] = mem.history[t]
        /\ mem'.rom["working"] = prior.image /\ mem'.history["working"] = prior.history
    BY <1>1, <2>1, WorkingIsSlot DEF TypeOK, MemType
  <2>3. call' \in CallType /\ Named(call'.at) /\ call'.kind = "rollback"
    BY <1>1, <2>1, WorkingIsSlot DEF TypeOK, CallType, Named, File
  <2>4. TypeOK'
    BY <1>1, <2>1, <2>2, <2>3 DEF TypeOK
  <2>5. HistoryInStep'
    BY <1>1, <1>2, <2>2 DEF HistoryInStep, PriorFits, TypeOK
  <2> QED
    BY <1>1, <2>3, <2>4, <2>5 DEF IInv, PriorFits, ClosedIdle, Idle
<1>3. CASE call.kind # "restore"
  <2>1. /\ Return("none") /\ disk' \in DiskType /\ mem' \in MemType
        /\ mem'.rom = mem.rom /\ mem'.history = mem.history
    <3>1. CASE call.kind = "create" /\ call.at.kind = "manifest" /\ mem' = Delisted(mem, call.at.of)
               /\ disk' = [d EXCEPT !.check[call.at.of] = Absent] /\ Return("none")
      <4>1. Restrict(mem.checkpoints, DOMAIN mem.checkpoints \ {call.at.of}) \in Checkpoints
        <5>1. PICK C \in SUBSET CheckpointId : mem.checkpoints \in [C -> Image]
          BY <1>1 DEF TypeOK, MemType, Checkpoints
        <5>2. Restrict(mem.checkpoints, C \ {call.at.of}) \in [C \ {call.at.of} -> Image]
          BY <5>1 DEF Restrict
        <5> QED
          BY <5>1, <5>2 DEF Checkpoints
      <4>2. /\ mem' \in MemType /\ mem'.rom = mem.rom /\ mem'.history = mem.history
        BY <1>1, <3>1, <4>1 DEF TypeOK, MemType, Delisted
      <4>3. disk' \in DiskType
        BY <3>1 DEF DiskType
      <4> QED
        BY <3>1, <4>2, <4>3
    <3>2. CASE disk' = d /\ UNCHANGED mem /\ Return("none")
      BY <1>1, <3>2 DEF TypeOK
    <3> QED
      BY <1>3, <3>1, <3>2 DEF Failed
  <2>2. /\ call' = NoCall /\ prior' = NoPrior /\ result' = "none"
    BY <2>1 DEF Return
  <2>3. prior' \in [image : Image, history : History]
    BY <2>2, BlankIsMem DEF NoPrior, Image
  <2>4. TypeOK'
    BY <1>1, <2>1, <2>2, <2>3, NoCallIsCall DEF TypeOK
  <2>5. HistoryInStep'
    BY <1>1, <2>1 DEF HistoryInStep
  <2> QED
    BY <2>2, <2>4, <2>5, NoCallIsCall DEF IInv, PriorFits, ClosedIdle, Idle
<1> QED
  BY <1>2, <1>3

LEMMA WriteStep ==
  ASSUME IInv, WriteWhole \/ WriteLost \/ WriteFails \/ VerifySave
  PROVE  IInv'
<1>1. TypeOK /\ Named(call.at)
  BY DEF IInv
<1>2. CASE WriteWhole
  <2>1. FileHolds(call.at, Content(mem, call.at))
    BY <1>1, <1>2, ContentHolds DEF WriteWhole, Writing, TypeOK
  <2>2. faults' \in 0 .. MaxFaults
    BY <1>1, <1>2 DEF WriteWhole, TypeOK
  <2> QED
    BY <1>2, <2>1, <2>2, GoesOnStep DEF WriteWhole
<1>3. CASE WriteLost
  <2>1. PICK cut \in Cuts(mem, call.at) : GoesOn(cut)
    BY <1>3 DEF WriteLost
  <2>2. FileHolds(call.at, cut)
    BY <1>1, <1>3, CutHolds DEF WriteLost, Writing, TypeOK
  <2>3. faults' \in 0 .. MaxFaults
    BY <1>1, <1>3, BoundsAssumption DEF WriteLost, TypeOK
  <2> QED
    BY <1>3, <2>1, <2>2, <2>3, GoesOnStep DEF WriteLost
<1>4. CASE WriteFails
  <2>1. PICK d \in DiskType : Failed(d)
    <3>1. CASE Failed(disk)
      BY <1>1, <3>1 DEF TypeOK
    <3>2. CASE \E cut \in Cuts(mem, call.at) : Failed(Put(disk, call.at, cut))
      <4>1. PICK cut \in Cuts(mem, call.at) : Failed(Put(disk, call.at, cut))
        BY <3>2
      <4>2. Put(disk, call.at, cut) \in DiskType
        BY <1>1, <1>4, CutHolds, PutKeepsDisk DEF WriteFails, Writing, TypeOK
      <4> QED
        BY <4>1, <4>2
    <3> QED
      BY <1>4, <3>1, <3>2 DEF WriteFails
  <2>2. faults' \in 0 .. MaxFaults
    BY <1>1, <1>4, BoundsAssumption DEF WriteFails, TypeOK
  <2> QED
    BY <1>4, <2>1, <2>2, FailedStep DEF WriteFails, Writing
<1>5. CASE VerifySave
  <2>1. CASE Matches(disk, mem)
    <3>1. call' = NoCall /\ prior' = NoPrior /\ result' = Outcome(call.kind)
      BY <1>5, <2>1 DEF VerifySave, Return
    <3>2. UNCHANGED <<mem, disk, tool, edits, calls, faults, inStep>>
      BY <1>5, <2>1 DEF VerifySave
    <3>3. prior' \in [image : Image, history : History]
      BY <3>1, BlankIsMem DEF NoPrior, Image
    <3>4. TypeOK'
      BY <1>1, <3>1, <3>2, <3>3, NoCallIsCall DEF TypeOK, Outcome
    <3> QED
      BY <3>1, <3>2, <3>4, NoCallIsCall
         DEF IInv, PriorFits, ClosedIdle, Idle, HistoryInStep
  <2>2. CASE ~Matches(disk, mem)
    <3>1. Failed(disk) /\ UNCHANGED <<tool, edits, calls, faults, inStep>> /\ ~Idle
      BY <1>5, <2>2 DEF VerifySave
    <3> QED
      BY <1>1, <3>1, FailedStep DEF TypeOK
  <2> QED
    BY <2>1, <2>2
<1> QED
  BY <1>2, <1>3, <1>4, <1>5

---------------------------------------------------------------------------
(* The theorems.                                                            *)

LEMMA IInvInit == Init => IInv
<1> SUFFICES ASSUME Init PROVE IInv
  OBVIOUS
<1>1. PICK rom \in [Slot -> Rom], made \in UNION {[C -> Rom] : C \in SUBSET CheckpointId} :
        disk = [rom |-> rom, history |-> [s \in Slot |-> Absent],
                manifest |-> [roms |-> Additional, active |-> "working",
                              notes |-> "oneline", checkpoints |-> made],
                check |-> [c \in CheckpointId |->
                             IF c \in DOMAIN made THEN made[c] ELSE Absent]]
  BY DEF Init
<1>2. made \in Checkpoints /\ \A c \in DOMAIN made : made[c] \in Rom
  <2>1. PICK C \in SUBSET CheckpointId : made \in [C -> Rom]
    OBVIOUS
  <2>2. made \in [C -> Image]
    BY <2>1 DEF Image
  <2> QED
    BY <2>1, <2>2 DEF Checkpoints
<1>3. [roms |-> Additional, active |-> "working", notes |-> "oneline",
       checkpoints |-> made] \in ManifestType
  BY <1>2 DEF ManifestType, Slot, Notes
<1>4. disk \in DiskType
  BY <1>1, <1>2, <1>3 DEF DiskType, Image
<1>5. prior \in [image : Image, history : History]
  BY BlankIsMem DEF Init, NoPrior, Image
<1>6. TypeOK
  BY <1>4, <1>5, BlankIsMem, NoCallIsCall, BoundsAssumption DEF Init, TypeOK
<1> QED
  BY <1>6, NoCallIsCall DEF Init, IInv, PriorFits, ClosedIdle, Idle, HistoryInStep

LEMMA IInvStep == IInv /\ [Next]_vars => IInv'
<1> SUFFICES ASSUME IInv, [Next]_vars PROVE IInv'
  OBVIOUS
<1>1. CASE \E t \in {"gui", "cli"} : OpenProject(t)
  BY <1>1, OpenStep
<1>2. CASE CloseProject \/ Crash
  BY <1>2, LeaveStep
<1>3. CASE EditActive \/ UndoActive \/ RepairWorking \/ CopyToWorking
  BY <1>3, MemoryStep
<1>4. CASE SaveAll \/ Command \/ SetNotes \/ SetActive \/ CreateCheckpoint \/ RestoreCheckpoint
  BY <1>4, CallStep
<1>5. CASE WriteWhole \/ WriteLost \/ WriteFails \/ VerifySave
  BY <1>5, WriteStep
<1>6. CASE UNCHANGED vars
  BY <1>6 DEF vars, IInv, TypeOK, Named, PriorFits, ClosedIdle, Idle, HistoryInStep
<1> QED
  BY <1>1, <1>2, <1>3, <1>4, <1>5, <1>6 DEF Next

(* The variables keep their types: in particular no cursor of a history     *)
(* passes its last record, also when the file was cut short.                *)
THEOREM TypeCorrect == Spec => []TypeOK
<1>1. IInv => TypeOK
  BY DEF IInv
<1> QED
  BY IInvInit, IInvStep, <1>1, PTL DEF Spec

(* A slot that fitted its history when the project was opened fits it as    *)
(* long as it is open, whatever is edited, undone, redone, restored or      *)
(* brought back after a save that failed.                                   *)
THEOREM StaysInStep == Spec => []HistoryInStep
<1>1. IInv => HistoryInStep
  BY DEF IInv
<1> QED
  BY IInvInit, IInvStep, <1>1, PTL DEF Spec

---------------------------------------------------------------------------
(* What a saving call has left behind.                                      *)

(* A call under way has told nobody of success; when it comes to read back  *)
(* what it wrote, the notes in project.toml, if it parses, are those in     *)
(* memory, which verify_persisted_state does not compare; and it writes the *)
(* file of a checkpoint only before the checkpoint is listed.               *)
CallInv ==
  /\ ~Idle => result = "none"
  /\ ~Idle /\ call.at.kind = "verify" =>
       disk.manifest = Garbled \/ disk.manifest.notes = mem.notes
  /\ call.at.kind = "check" => call.kind = "create" /\ call.at.of \notin DOMAIN mem.checkpoints

(* However the writing of project.toml goes, the notes in it are memory's.  *)
LEMMA ManifestNotes ==
  ASSUME NEW m, NEW f, f.kind = "manifest",
         NEW content, content = Content(m, f) \/ content \in Cuts(m, f)
  PROVE  content = Garbled \/ content.notes = m.notes
<1>1. CASE content = Content(m, f)
  BY <1>1 DEF Content, ManifestOf
<1>2. CASE content \in ManifestCuts(m)
  BY <1>2 DEF ManifestCuts, ManifestOf
<1> QED
  BY <1>1, <1>2 DEF Cuts

(* The call goes on to a file of some kind.                                 *)
Onward(c, next) == next.kind = c.kind /\ next.at.kind \in {"rom", "history", "manifest"}

LEMMA SlotNext ==
  ASSUME NEW c \in CallType, NEW next \in NextSlot(c)
  PROVE  Onward(c, next) /\ next.at.kind = "rom"
<1>1. CASE c.left = {}
  <2>1. next = [c EXCEPT !.at = File("rom", "working")]
    BY <1>1 DEF NextSlot
  <2> QED
    BY <2>1 DEF Onward, CallType, File
<1>2. CASE c.left # {}
  <2>1. PICK s \in c.left : next = [c EXCEPT !.at = File("rom", s), !.left = @ \ {s}]
    BY <1>2 DEF NextSlot
  <2> QED
    BY <2>1 DEF Onward, CallType, File
<1> QED
  BY <1>1, <1>2

(* Where a call goes from a file it has written.                            *)
LEMMA AfterWriteNext ==
  ASSUME NEW m, NEW c \in CallType, c.kind # "none", c.at.kind # "verify",
         NEW next \in AfterWrite(m, c)
  PROVE  /\ next.at.kind # "check"
         /\ next = NoCall => ~Verified(c.kind)
         /\ next # NoCall /\ next.at.kind = "verify" => c.at.kind = "manifest"
<1>1. ASSUME NEW k \in {"rom", "history", "manifest"}, NEW s, next = [c EXCEPT !.at = File(k, s)]
      PROVE  Onward(c, next)
  BY <1>1 DEF Onward, CallType, File
<1>2. ASSUME next \in AfterSlot(c) PROVE Onward(c, next)
  <2>1. CASE next = [c EXCEPT !.at = Manifest]
    BY <1>1, <2>1 DEF Manifest
  <2>2. CASE next \in NextSlot(c)
    BY <2>2, SlotNext
  <2> QED
    BY <1>2, <2>1, <2>2 DEF AfterSlot
<1>3. CASE Onward(c, next)
  BY <1>3 DEF Onward, NoCall
<1>4. CASE c.at.kind \in {"rom", "history", "check"}
  <2>1. Onward(c, next)
    BY <1>1, <1>2, <1>4 DEF AfterWrite
  <2> QED
    BY <1>3, <2>1
<1>5. CASE c.at.kind = "manifest" /\ Verified(c.kind)
  <2>1. next = [c EXCEPT !.at = Verify]
    BY <1>5 DEF AfterWrite
  <2>2. next # NoCall /\ next.at.kind = "verify"
    BY <2>1 DEF CallType, NoCall, Verify, File
  <2> QED
    BY <1>5, <2>2
<1>6. CASE c.at.kind = "manifest" /\ ~Verified(c.kind)
  BY <1>6 DEF AfterWrite, NoCall, Verify, File
<1> QED
  BY <1>4, <1>5, <1>6 DEF CallType

LEMMA CallGoesOn ==
  ASSUME IInv, CallInv, Writing, NEW content, GoesOn(content),
         content = Content(mem, call.at) \/ content \in Cuts(mem, call.at)
  PROVE  CallInv' /\ result' # "saved"
<1>1. TypeOK /\ Named(call.at) /\ call \in CallType /\ call.kind # "none" /\ call.at.kind # "verify"
      /\ result = "none"
  BY DEF IInv, TypeOK, Writing, Idle, CallInv
<1>2. PICK next \in AfterWrite(mem, call) :
        IF next = NoCall THEN Return(Outcome(call.kind))
        ELSE call' = next /\ UNCHANGED <<prior, result>>
  BY DEF GoesOn
<1>3. /\ next.at.kind # "check" /\ (next = NoCall => ~Verified(call.kind))
      /\ next # NoCall /\ next.at.kind = "verify" => call.at.kind = "manifest"
  BY <1>1, <1>2, AfterWriteNext
<1>4. CASE next = NoCall
  <2>1. call' = NoCall /\ result' = "none"
    BY <1>2, <1>3, <1>4 DEF Return, Outcome, Verified
  <2> QED
    BY <2>1 DEF CallInv, Idle, NoCall, Verify, File
<1>5. CASE next # NoCall
  <2>1. call' = next /\ result' = "none"
    BY <1>1, <1>2, <1>5
  <2>2. ASSUME call'.at.kind = "verify"
        PROVE  disk'.manifest = Garbled \/ disk'.manifest.notes = mem'.notes
    <3>1. call.at.kind = "manifest"
      BY <1>3, <1>5, <2>1, <2>2
    <3>2. mem' = mem /\ disk' = [disk EXCEPT !.manifest = content]
      BY <3>1 DEF GoesOn, Listed, Put
    <3>3. disk'.manifest = content
      BY <1>1, <3>2 DEF TypeOK, DiskType
    <3> QED
      BY <3>1, <3>2, <3>3, ManifestNotes
  <2> QED
    BY <1>3, <2>1, <2>2 DEF CallInv
<1> QED
  BY <1>4, <1>5

LEMMA CallFails ==
  ASSUME IInv, CallInv, ~Idle, NEW d, Failed(d)
  PROVE  CallInv' /\ result' # "saved"
<1>1. result = "none" /\ call \in CallType
  BY DEF CallInv, IInv, TypeOK
<1>2. CASE call' = [call EXCEPT !.kind = "rollback", !.at = File("rom", "working")]
           /\ UNCHANGED result
  <2>1. call'.at.kind = "rom"
    BY <1>1, <1>2 DEF CallType, File
  <2> QED
    BY <1>1, <1>2, <2>1 DEF CallInv
<1>3. CASE Return("none")
  BY <1>3 DEF Return, CallInv, Idle, NoCall, Verify, File
<1> QED
  BY <1>2, <1>3 DEF Failed

(* A call that begins.                                                      *)
LEMMA CallBegins ==
  ASSUME IInv, SaveAll \/ Command \/ SetNotes \/ SetActive \/ CreateCheckpoint
                 \/ RestoreCheckpoint
  PROVE  CallInv' /\ result' # "saved"
<1>1. ASSUME NEW kind, NEW at, Begin(kind, at), at.kind \in {"rom", "manifest"}
      PROVE  CallInv' /\ result' # "saved"
  BY <1>1 DEF Begin, CallInv
<1>2. CASE SaveAll
  <2> DEFINE c == [kind |-> "save", at |-> Verify, left |-> Edited(mem)]
  <2>1. call' \in NextSlot(c) /\ result' = "none"
    BY <1>2 DEF SaveAll
  <2>2. call'.at.kind = "rom"
    <3>1. c \in CallType
      BY DEF IInv, TypeOK, MemType, CallType, Verify, File, Edited
    <3> QED
      BY <2>1, <3>1, SlotNext
  <2> QED
    BY <2>1, <2>2 DEF CallInv
<1>3. CASE Command \/ RestoreCheckpoint
  BY <1>1, <1>3 DEF Command, RestoreCheckpoint, File
<1>4. CASE SetNotes \/ SetActive
  BY <1>1, <1>4 DEF SetNotes, SetActive, Manifest, File
<1>5. CASE CreateCheckpoint
  <2>1. PICK c \in CheckpointId : NewId(c) /\ Begin("create", File("check", c))
    BY <1>5 DEF CreateCheckpoint
  <2>2. mem' = mem /\ result' = "none"
        /\ call' = [kind |-> "create", at |-> File("check", c), left |-> {}]
    BY <1>5, <2>1 DEF CreateCheckpoint, Begin
  <2> QED
    BY <2>1, <2>2 DEF CallInv, NewId, File
<1> QED
  BY <1>2, <1>3, <1>4, <1>5

(* After a save that said so, or a step that says nothing of the kind.      *)
LEMMA SaveVerified ==
  ASSUME IInv, CallInv, ~Idle, ~Writing, Matches(disk, mem), UNCHANGED <<mem, disk>>
  PROVE  SavedReopens'
<1> DEFINE l == Loaded(disk)
<1>1. /\ Opens(disk) /\ l.roms = mem.roms /\ l.rom = mem.rom /\ l.active = mem.active
      /\ \A s \in Slot : l.history[s] = Rendered(mem.history[s])
  BY DEF Matches
<1>2. l.notes = mem.notes
  BY <1>1 DEF CallInv, Writing, Opens, Loaded
<1> HIDE DEF l
<1>3. /\ Opens(disk) /\ Loaded(disk).roms = mem.roms /\ Loaded(disk).rom = mem.rom
      /\ Loaded(disk).active = mem.active /\ Loaded(disk).notes = mem.notes
      /\ \A s \in Slot : Loaded(disk).history[s] = Rendered(mem.history[s])
  BY <1>1, <1>2 DEF l
<1>4. disk' = disk /\ mem' = mem
  OBVIOUS
<1> QED
  BY <1>3, <1>4 DEF SavedReopens

LEMMA SavedStep ==
  ASSUME IInv, CallInv, SavedReopens, [Next]_vars
  PROVE  CallInv' /\ SavedReopens'
<1>1. CASE \E t \in {"gui", "cli"} : OpenProject(t)
  <2>1. result' = "opened" /\ UNCHANGED call
    BY <1>1 DEF OpenProject
  <2>2. Idle /\ call.at.kind # "check"
    BY <1>1 DEF IInv, ClosedIdle, OpenProject, CallInv, Idle
  <2> QED
    BY <2>1, <2>2 DEF CallInv, SavedReopens, Idle
<1>2. CASE CloseProject \/ Crash
  BY <1>2 DEF CloseProject, Crash, Left, CallInv, SavedReopens, Idle, NoCall, Verify, File
<1>3. CASE EditActive \/ UndoActive \/ RepairWorking \/ CopyToWorking
  <2>1. result' = "none" /\ UNCHANGED call /\ Idle
    BY <1>3 DEF EditActive, UndoActive, RepairWorking, CopyToWorking, InMemory
  <2> QED
    BY <2>1 DEF CallInv, SavedReopens, Idle
<1>4. CASE SaveAll \/ Command \/ SetNotes \/ SetActive \/ CreateCheckpoint \/ RestoreCheckpoint
  BY <1>4, CallBegins DEF SavedReopens
<1>5. CASE WriteWhole \/ WriteLost
  BY <1>5, CallGoesOn DEF WriteWhole, WriteLost, SavedReopens
<1>6. CASE WriteFails
  BY <1>6, CallFails DEF WriteFails, SavedReopens, Writing
<1>7. CASE VerifySave
  <2>1. ~Idle /\ ~Writing
    BY <1>7 DEF VerifySave
  <2>2. CASE Matches(disk, mem)
    <3>1. call' = NoCall /\ UNCHANGED <<mem, disk>>
      BY <1>7, <2>2 DEF VerifySave, Return
    <3>2. SavedReopens'
      BY <2>1, <2>2, <3>1, SaveVerified
    <3> QED
      BY <3>1, <3>2 DEF CallInv, Idle, NoCall, Verify, File
  <2>3. CASE Failed(disk)
    BY <2>1, <2>3, CallFails DEF SavedReopens
  <2> QED
    BY <1>7, <2>2, <2>3 DEF VerifySave
<1>8. CASE UNCHANGED vars
  BY <1>8 DEF vars, CallInv, SavedReopens, Idle
<1> QED
  BY <1>1, <1>2, <1>3, <1>4, <1>5, <1>6, <1>7, <1>8 DEF Next

LEMMA SavedInit == Init => CallInv /\ SavedReopens
BY DEF Init, CallInv, SavedReopens, Idle, NoCall, Verify, File

(* Writing a file leaves the other files' checkpoints alone.                *)
LEMMA PutCheck ==
  ASSUME NEW d \in DiskType, NEW f, Named(f), f.kind # "verify", NEW content,
         NEW c \in CheckpointId, f.kind = "check" => f.of # c
  PROVE  Put(d, f, content).check[c] = d.check[c]
  BY DEF Put, DiskType, Named

LEMMA CheckpointStep ==
  ASSUME IInv, CallInv, [Next]_vars, NEW c \in DOMAIN mem.checkpoints
  PROVE  \/ call.kind = "create" /\ call.at = File("manifest", c)
         \/ disk'.check[c] = disk.check[c]
<1>1. /\ disk \in DiskType /\ Named(call.at) /\ call \in CallType /\ c \in CheckpointId
      /\ call.at.kind = "check" => call.at.of # c
  BY DEF IInv, TypeOK, MemType, Checkpoints, CallInv
<1>2. ASSUME Writing, NEW content PROVE Put(disk, call.at, content).check[c] = disk.check[c]
  BY <1>1, <1>2, PutCheck DEF Writing
<1>3. CASE UNCHANGED disk
  BY <1>3
<1>4. CASE \E content : Writing /\ disk' = Put(disk, call.at, content)
  BY <1>2, <1>4
<1>5. CASE \E d : (d = disk \/ \E cut : Writing /\ d = Put(disk, call.at, cut)) /\ Failed(d)
  <2>1. PICK d : (d = disk \/ \E cut : Writing /\ d = Put(disk, call.at, cut)) /\ Failed(d)
    BY <1>5
  <2>2. d.check[c] = disk.check[c]
    BY <1>2, <2>1
  <2>3. CASE disk' = d
    BY <2>2, <2>3
  <2>4. CASE /\ call.kind = "create" /\ call.at.kind = "manifest"
             /\ disk' = [d EXCEPT !.check[call.at.of] = Absent]
    <3>1. CASE call.at.of = c
      BY <1>1, <2>4, <3>1 DEF CallType, File
    <3>2. CASE call.at.of # c
      BY <2>2, <2>4, <3>2
    <3> QED
      BY <3>1, <3>2
  <2> QED
    BY <2>1, <2>3, <2>4 DEF Failed
<1>6. CASE Crash
  BY <1>3, <1>4, <1>6 DEF Crash
<1>7. CASE WriteWhole \/ WriteLost
  BY <1>4, <1>7 DEF WriteWhole, WriteLost, GoesOn
<1>8. CASE WriteFails
  BY <1>5, <1>8 DEF WriteFails
<1>9. CASE VerifySave
  BY <1>3, <1>5, <1>9 DEF VerifySave
<1> QED
  BY <1>3, <1>6, <1>7, <1>8, <1>9
     DEF Next, OpenProject, CloseProject, EditActive, UndoActive, RepairWorking, CopyToWorking,
         InMemory, SaveAll, Command, SetNotes, SetActive, CreateCheckpoint, RestoreCheckpoint,
         Begin, vars

(* A save that said it succeeded can be reopened as it was, notes and       *)
(* printed histories included, although notes are never read back: a        *)
(* project.toml that parses has those of memory, however its writing went.  *)
THEOREM SavesReopen == Spec => []SavedReopens
<1>1. Init => IInv /\ CallInv /\ SavedReopens
  BY IInvInit, SavedInit
<1>2. IInv /\ CallInv /\ SavedReopens /\ [Next]_vars => (IInv /\ CallInv /\ SavedReopens)'
  BY IInvStep, SavedStep
<1> QED
  BY <1>1, <1>2, PTL DEF Spec

(* No file of a checkpoint that is offered is written or removed, whatever  *)
(* fails, but by the call that has just made it and cannot list it.         *)
THEOREM CheckpointsStay == Spec => CheckpointsKept
<1>1. Init => IInv /\ CallInv /\ SavedReopens
  BY IInvInit, SavedInit
<1>2. IInv /\ CallInv /\ SavedReopens /\ [Next]_vars => (IInv /\ CallInv /\ SavedReopens)'
  BY IInvStep, SavedStep
<1>3. IInv /\ CallInv /\ [Next]_vars =>
        [\A c \in DOMAIN mem.checkpoints :
           \/ call.kind = "create" /\ call.at = File("manifest", c)
           \/ disk'.check[c] = disk.check[c]]_vars
  BY CheckpointStep
<1> QED
  BY <1>1, <1>2, <1>3, PTL DEF Spec, CheckpointsKept
=============================================================================
