--------------------------- MODULE MCProjectStore ---------------------------
(* Instances of ProjectStore for TLC.                                       *)
EXTENDS ProjectStore

(* Two values that print alike.                                             *)
FirstTwoAlike == [v \in Val |-> CHOOSE w \in Val : TRUE]

(* Every slot begins with the same image: the additional ROM is a copy.     *)
InitFromCopies == Init /\ \A s \in Slot : disk.rom[s] = disk.rom["working"]

SpecFromCopies == InitFromCopies /\ [][Next]_vars
=============================================================================
