------------------------------ MODULE FlashGate ------------------------------
(***************************************************************************)
(* Between two ROM images and an ECU: flash-delta cuts the difference of a  *)
(* source and a target image into the sectors of a plan, evaluate_plan_     *)
(* policy finds the tables the plan changes, and run_policy_gate decides    *)
(* with the profile whether flash-apply may go on.  All of it is pure.      *)
(***************************************************************************)
EXTENDS Integers

CONSTANTS
    RomSize,         \* bytes of an image
    SectorSize,      \* bytes of a sector; the last one may be short
    Values,          \* the values of a byte
    Blank,           \* 0x00, what a byte past the source's end counts as
    Source,          \* the image the car holds
    Tables,          \* the definition's tables, and the bytes each covers
    LayoutSectors,   \* the sectors of the fixed layout (--layout)
    Signature        \* the offsets of the boot signatures

Offsets == 0 .. RomSize - 1
Sectors == 0 .. (RomSize + SectorSize - 1) \div SectorSize - 1
Images  == [Offsets -> Values]

Profiles == {"motorsport-only", "alberta-ca", "eu-roadworthy", "california-us"}

(* table_byte_extent: each table covers the bytes from first up to past.    *)
TableType == [first : Nat, past : Nat, safety : BOOLEAN, emissions : BOOLEAN]

ASSUME GateAssumption ==
    /\ RomSize \in Nat \ {0} /\ SectorSize \in Nat \ {0}
    /\ Blank \in Values /\ Source \in Images
    /\ Tables \subseteq TableType
    /\ \A t \in Tables : t.past <= RomSize
    /\ LayoutSectors \subseteq Sectors /\ Signature \subseteq Offsets

-----------------------------------------------------------------------------
(* Mutant of SectorBytes: the last byte of a sector forgotten.              *)
SectorBytesShort(k) == {o \in Offsets : k * SectorSize <= o /\ o < (k + 1) * SectorSize - 1}

SectorBytes(k) == {o \in Offsets : k * SectorSize <= o /\ o < (k + 1) * SectorSize}

SectorLength(k) ==
    IF (k + 1) * SectorSize <= RomSize THEN SectorSize ELSE RomSize - k * SectorSize

Changed(source, target) == {o \in Offsets : source[o] # target[o]}

(* compute_delta: the sectors in which the images differ.                   *)
Delta(source, target) ==
    {k \in Sectors : SectorBytes(k) \cap Changed(source, target) # {}}

(* compute_delta_layout: the same over the sectors of a layout; bytes that  *)
(* changed outside all of them are counted apart.                           *)
DeltaLayout(source, target) == Delta(source, target) \cap LayoutSectors

GapChanged(source, target) ==
    Changed(source, target) \ UNION {SectorBytes(k) : k \in LayoutSectors}

(* verify_boot_signatures_sh2a_2mb *)
SignaturesHold(image) == \A o \in Signature : image[o] = Source[o]

(* flash-delta: a plan is a set of writes.  Without a layout the addresses  *)
(* start at --base-address; with one they are absolute.  A layout refuses   *)
(* images with bad signatures and changes that it cannot express.           *)
Write(target, k, base) ==
    [address |-> base + k * SectorSize,
     data    |-> [j \in 0 .. SectorLength(k) - 1 |-> target[k * SectorSize + j]]]

UniformPlan(target, base) == {Write(target, k, base) : k \in Delta(Source, target)}

LayoutPlan(target) == {Write(target, k, 0) : k \in DeltaLayout(Source, target)}

LayoutRefuses(target) ==
    ~SignaturesHold(Source) \/ ~SignaturesHold(target)
        \/ GapChanged(Source, target) # {}

(* The sectors of a plan whose first byte is at address base.               *)
PlanSectors(writes, base) == {(w.address - base) \div SectorSize : w \in writes}

-----------------------------------------------------------------------------
(* plan_touches_changed_byte_in: both the table's extent and the source are *)
(* addressed as the writes are.                                             *)
TouchesChanged(writes, source, t) ==
    \E w \in writes : \E j \in DOMAIN w.data :
        LET o == w.address + j
        IN  /\ t.first <= o /\ o < t.past
            /\ w.data[j] # (IF o \in Offsets THEN source[o] ELSE Blank)

OnFlash(profile) ==
    CASE profile \in {"motorsport-only", "alberta-ca"} -> "Silent"
      [] profile = "eu-roadworthy" -> "Confirm"
      [] profile = "california-us" -> "ConfirmWithReason"

(* evaluate_plan_policy: engine safety blocks under every profile, emissions *)
(* as the profile says.                                                     *)
OverallAction(writes, source, profile) ==
    LET touched == {t \in Tables : TouchesChanged(writes, source, t)}
    IN  IF \E t \in touched : t.safety THEN "Block"
        ELSE IF \E t \in touched : t.emissions THEN OnFlash(profile) ELSE "Silent"

(* run_policy_gate.  flash-apply on real hardware always has --confirm; what *)
(* --reason adds is whether one was given.                                  *)
GateAllows(action, reasoned) ==
    action \in {"Silent", "Confirm"} \/ (action = "ConfirmWithReason" /\ reasoned)
=============================================================================
