------------------------------- MODULE RomSpace -------------------------------
(***************************************************************************)
(* Addresses of an image and places in it, shared by the allocator of free  *)
(* ROM and by the build that uses it.                                       *)
(***************************************************************************)
EXTENDS Integers, Lists

CONSTANT AddressLimit      \* what an address wraps at: 2^32 bytes

ASSUME SpaceAssumption == AddressLimit \in Nat \ {0}

Address == 0 .. AddressLimit - 1

(* The addresses of n units from a on. *)
Extent(a, n) == a .. a + n - 1

RoundUp(n, align) == ((n + align - 1) \div align) * align

(* No two members of a family of sets have an element in common. *)
Disjoint(s) == \A i, j \in DOMAIN s : i # j => s[i] \cap s[j] = {}
=============================================================================
