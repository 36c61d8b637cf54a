---------------------------- MODULE EditHistory ----------------------------
(***************************************************************************)
(* The edit history of one ROM slot (src/src/edit): the records, the cursor *)
(* that separates applied records from undone ones, and what applying one   *)
(* side of a record does to the ROM.  History is a record-keeper: undo()    *)
(* and redo() only move the cursor and hand the record to the caller, who   *)
(* writes the bytes.                                                        *)
(*                                                                         *)
(* A ROM image is a function from the addresses the model tells apart to    *)
(* the values stored there.  An image whose file was cut short is Torn:     *)
(* Rom::from_file loads it, but no write into it is in range.               *)
(***************************************************************************)
EXTENDS Integers, Sequences

CONSTANTS Addr,     \* the addresses the model tells apart
          Val,      \* the values a ROM can store there
          Torn      \* the image of a file whose write was cut short

Rom == [Addr -> Val]

(* A record keeps the values an edit replaced and the values it stored, for *)
(* the addresses it covers.  A table edit is written to disk as printed     *)
(* engineering values, a byte edit as the bytes themselves.                 *)
Edit == UNION {[kind : {"table", "bytes"}, at : {A},
                before : [A -> Val], after : [A -> Val]] : A \in SUBSET Addr}

History == {h \in [records : Seq(Edit), cursor : Nat] : h.cursor <= Len(h.records)}

EmptyHistory == [records |-> <<>>, cursor |-> 0]

(* A record of the bytes or cells that an edit covers.                      *)
Change(kind, before, after) ==
  [kind |-> kind, at |-> DOMAIN after, before |-> before, after |-> after]

(* Writing one side of a record: the covered addresses take its values.     *)
Stored(image, values) ==
  [a \in Addr |-> IF a \in DOMAIN values THEN values[a] ELSE image[a]]

CanUndo(h) == h.cursor > 0

CanRedo(h) == h.cursor < Len(h.records)

Undone(h) == [h EXCEPT !.cursor = @ - 1]

Redone(h) == [h EXCEPT !.cursor = @ + 1]

(* A bug to rule out: the undone records stay behind the new one.           *)
RecordedBeforeTail(h, e) ==
  [records |-> Append(SubSeq(h.records, 1, h.cursor), e)
               \o SubSeq(h.records, h.cursor + 1, Len(h.records)),
   cursor  |-> h.cursor + 1]

(* History::record drops the undone records before it appends.              *)
Recorded(h, e) ==
  [records |-> Append(SubSeq(h.records, 1, h.cursor), e),
   cursor  |-> h.cursor + 1]

(* A bug to rule out: the cursor of the file is taken as it is.             *)
ReadUnclamped(records, cursor) == [records |-> records, cursor |-> cursor]

(* History::load clamps the cursor to the records there are.                *)
Read(records, cursor) ==
  [records |-> records,
   cursor  |-> IF cursor > Len(records) THEN Len(records) ELSE cursor]

---------------------------------------------------------------------------
(* The edit takes the first image to the second, and back.                  *)
Leads(first, e, second) ==
  /\ \A a \in e.at : first[a] = e.before[a] /\ second[a] = e.after[a]
  /\ \A a \in Addr \ e.at : first[a] = second[a]

(* The image is the one the cursor stands at: there is an image for every   *)
(* cursor position, one record apart, so that any run of undos and redos    *)
(* passes through exactly these images.                                     *)
Fits(image, h) ==
  \E stages \in [0 .. Len(h.records) -> Rom] :
    /\ stages[h.cursor] = image
    /\ \A i \in 1 .. Len(h.records) :
         Leads(stages[i - 1], h.records[i], stages[i])
=============================================================================
