----------------------------- MODULE RomAllocator -----------------------------
(***************************************************************************)
(* feature_patch::RomAllocator: gives away places in the code regions of a  *)
(* definition pack, each once, from the front of the first region that has  *)
(* room.                                                                    *)
(***************************************************************************)
EXTENDS RomSpace

VARIABLES regions,     \* regions_: where code may be put
          cursors,     \* cursors_: the first free address of each
          claims       \* what was given away, in order

RegionType == [base : Address, length : Address]

(* The constructor. *)
Bases == [i \in DOMAIN regions |-> regions[i].base]

Init ==
    /\ regions \in Seq(RegionType)
    /\ cursors = Bases /\ claims = <<>>

At(i, align) == RoundUp(cursors[i], align)

(* region_end, a sum of 32 bits.                                            *)
End(i) == (regions[i].base + regions[i].length) % AddressLimit

(* A region has room when neither the rounding nor the size wraps and the   *)
(* claim ends in it; the mutant asks only that it begins there.             *)
BeginsInside(i, size, align) == At(i, align) < End(i)

Fits(i, size, align) ==
    /\ cursors[i] + align - 1 < AddressLimit
    /\ At(i, align) + size < AddressLimit
    /\ At(i, align) + size <= End(i)

Roomy(size, align) == {i \in DOMAIN regions : Fits(i, size, align)}

(* claim: first fit, in the order the pack declares the regions.  The code  *)
(* asks for a power of two to align to; any other number would do here.     *)
Chosen(i, size, align) ==
    i \in Roomy(size, align) /\ \A j \in Roomy(size, align) : i <= j

Claim(size, align) ==
    \E i \in Roomy(size, align) :
        /\ Chosen(i, size, align)
        /\ cursors' = [cursors EXCEPT ![i] = At(i, align) + size]
        /\ claims' = Append(claims, [address |-> At(i, align), length |-> size])

Next ==
    \E size, align \in Nat \ {0} : Claim(size, align) /\ UNCHANGED regions

Spec == Init /\ [][Next]_<<regions, cursors, claims>>
-----------------------------------------------------------------------------
Region(i) == Extent(regions[i].base, regions[i].length)
Taken(k)  == Extent(claims[k].address, claims[k].length)

(* What a pack promises and nothing checks. *)
RegionsApart == Disjoint([i \in DOMAIN regions |-> Region(i)])

(* No two claims overlap, and each lies in one region of the pack, whatever *)
(* is claimed in which order and also when a region ends at the last        *)
(* address.                                                                 *)
ClaimsApart ==
    RegionsApart =>
        /\ Disjoint([k \in DOMAIN claims |-> Taken(k)])
        /\ \A k \in DOMAIN claims : \E i \in DOMAIN regions : Taken(k) \subseteq Region(i)
=============================================================================
