-------------------------- MODULE RomAllocatorProofs --------------------------
(***************************************************************************)
(* RomAllocator gives no address away twice, for every pack whose code      *)
(* regions do not overlap, every size and every alignment, also where the   *)
(* sums of 32 bits wrap.                                                    *)
(*                                                                         *)
(* The invariant: every claim lies in one region, before its cursor, and a  *)
(* cursor does not pass the end of its region.                              *)
(***************************************************************************)
EXTENDS RomAllocator, TLAPS

ClaimType == [address : Nat, length : Nat]

TypeOK ==
    /\ regions \in Seq(RegionType)
    /\ cursors \in [DOMAIN regions -> Address]
    /\ claims \in Seq(ClaimType)

CursorInRegion(i) ==
    regions[i].base <= cursors[i] /\ cursors[i] <= regions[i].base + regions[i].length

Behind(k, i) ==
    /\ regions[i].base <= claims[k].address
    /\ claims[k].address + claims[k].length <= cursors[i]

Placed ==
    /\ \A i \in DOMAIN regions : CursorInRegion(i)
    /\ \A k \in DOMAIN claims : \E i \in DOMAIN regions : Behind(k, i)

ClaimsDisjoint ==
    RegionsApart => \A k, l \in DOMAIN claims : k # l => Taken(k) \cap Taken(l) = {}

Inv == TypeOK /\ Placed /\ ClaimsDisjoint

LEMMA ExtentsApart ==
  ASSUME NEW a \in Nat, NEW m \in Nat, NEW b \in Nat, NEW n \in Nat, a + m <= b
  PROVE  Extent(a, m) \cap Extent(b, n) = {}
BY DEF Extent

(* Rounding up does not go down. *)
LEMMA RoundsUp ==
  ASSUME NEW n \in Nat, NEW align \in Nat \ {0}
  PROVE  /\ RoundUp(n, align) \in Nat
         /\ n <= RoundUp(n, align)
<1> DEFINE m == n + align - 1
<1>1. m \in Nat /\ m % align \in 0 .. align - 1 /\ m \div align \in Nat
      /\ m = align * (m \div align) + (m % align)
  BY SMT
<1>2. RoundUp(n, align) = (m \div align) * align
  BY DEF RoundUp
<1>3. (m \div align) * align = align * (m \div align) /\ align * (m \div align) \in Nat
  BY <1>1, SMT
<1> HIDE DEF m
<1>4. m = n + align - 1
  BY DEF m
<1> QED
  BY <1>1, <1>2, <1>3, <1>4

(* The end of a region is computed by a sum that may wrap; what is less than *)
(* the wrapped sum is less than the sum.                                    *)
LEMMA EndIsNoFurther ==
  ASSUME TypeOK, NEW i \in DOMAIN regions
  PROVE  /\ End(i) \in Nat
         /\ End(i) <= regions[i].base + regions[i].length
         /\ regions[i].base \in Nat /\ regions[i].length \in Nat
<1>1. regions[i] \in RegionType
  BY DEF TypeOK
<1>2. regions[i].base \in Nat /\ regions[i].length \in Nat
  BY <1>1, SpaceAssumption DEF RegionType, Address
<1>3. ASSUME NEW s \in Nat PROVE s % AddressLimit \in Nat /\ s % AddressLimit <= s
  BY SpaceAssumption, SMT
<1> QED
  BY <1>2, <1>3 DEF End

(* What a claim in region i leaves: its cursor behind the claim and inside  *)
(* the region, the claim behind the old cursor.                             *)
LEMMA ClaimFits ==
  ASSUME TypeOK, Placed, NEW size \in Nat \ {0}, NEW align \in Nat \ {0},
         NEW i \in Roomy(size, align)
  PROVE  /\ i \in DOMAIN regions
         /\ At(i, align) \in Nat
         /\ cursors[i] <= At(i, align)
         /\ At(i, align) + size \in Address
         /\ At(i, align) + size <= regions[i].base + regions[i].length
<1>1. i \in DOMAIN regions /\ Fits(i, size, align)
  BY DEF Roomy
<1>2. cursors[i] \in Nat
  BY <1>1, SpaceAssumption DEF TypeOK, Address
<1>3. At(i, align) \in Nat /\ cursors[i] <= At(i, align)
  BY <1>2, RoundsUp DEF At
<1>4. End(i) \in Nat /\ End(i) <= regions[i].base + regions[i].length
      /\ regions[i].base + regions[i].length \in Nat
  BY <1>1, EndIsNoFurther
<1>5. At(i, align) + size < AddressLimit /\ At(i, align) + size <= End(i)
  BY <1>1 DEF Fits
<1>6. At(i, align) + size \in Address
  BY <1>3, <1>5, SpaceAssumption DEF Address
<1> QED
  BY <1>1, <1>3, <1>4, <1>5, <1>6

(* What a claim adds.                                                       *)
LEMMA ClaimAdds ==
  ASSUME TypeOK, Placed, NEW size \in Nat \ {0}, NEW align \in Nat \ {0},
         Claim(size, align), UNCHANGED regions
  PROVE  \E i \in DOMAIN regions :
           /\ TypeOK'
           /\ cursors[i] <= cursors'[i] /\ cursors'[i] <= regions[i].base + regions[i].length
           /\ \A j \in DOMAIN regions : j # i => cursors'[j] = cursors[j]
           /\ DOMAIN claims' = 1 .. Len(claims) + 1
           /\ \A k \in DOMAIN claims : claims'[k] = claims[k]
           /\ cursors[i] <= claims'[Len(claims) + 1].address
           /\ claims'[Len(claims) + 1].address + claims'[Len(claims) + 1].length = cursors'[i]
<1>1. PICK i \in Roomy(size, align) :
         /\ cursors' = [cursors EXCEPT ![i] = At(i, align) + size]
         /\ claims' = Append(claims, [address |-> At(i, align), length |-> size])
  BY DEF Claim
<1> DEFINE a == At(i, align)
           new == [address |-> a, length |-> size]
<1>2. /\ i \in DOMAIN regions /\ a \in Nat /\ cursors[i] <= a
      /\ a + size \in Address /\ a + size <= regions[i].base + regions[i].length
  BY ClaimFits
<1>3. new \in ClaimType /\ new.address = a /\ new.length = size
  BY <1>2 DEF ClaimType
<1>4. cursors' = [cursors EXCEPT ![i] = a + size] /\ claims' = Append(claims, new)
  BY <1>1
<1>5. cursors[i] \in Nat
  BY <1>2, SpaceAssumption DEF TypeOK, Address
<1> HIDE DEF new, a
<1>6. cursors' \in [DOMAIN regions -> Address]
  BY <1>2, <1>4 DEF TypeOK
<1>7. claims' \in Seq(ClaimType)
  BY <1>3, <1>4 DEF TypeOK
<1>8. TypeOK'
  BY <1>6, <1>7 DEF TypeOK
<1>9. claims'[Len(claims) + 1] = new /\ DOMAIN claims' = 1 .. Len(claims) + 1
      /\ \A k \in DOMAIN claims : claims'[k] = claims[k]
  BY <1>3, <1>4 DEF TypeOK
<1>10. cursors'[i] = a + size /\ \A j \in DOMAIN regions : j # i => cursors'[j] = cursors[j]
  BY <1>2, <1>4 DEF TypeOK
<1> QED
  BY <1>2, <1>3, <1>5, <1>8, <1>9, <1>10

LEMMA Stays ==
  ASSUME Inv, UNCHANGED <<regions, cursors, claims>>
  PROVE  Inv'
<1>1. TypeOK'
  BY DEF Inv, TypeOK
<1>2. Placed'
  BY DEF Inv, Placed, CursorInRegion, Behind
<1>3. ClaimsDisjoint'
  <2>1. RegionsApart' <=> RegionsApart
    BY DEF RegionsApart, Disjoint, Region
  <2> QED
    BY <2>1 DEF Inv, ClaimsDisjoint, Taken
<1> QED
  BY <1>1, <1>2, <1>3 DEF Inv

LEMMA Initially == Init => Inv
<1> SUFFICES ASSUME Init PROVE Inv
  OBVIOUS
<1>1. \A i \in DOMAIN regions : regions[i] \in RegionType
  BY DEF Init
<1>2. \A i \in DOMAIN regions : regions[i].base \in Address /\ regions[i].length \in Nat
  BY <1>1, SpaceAssumption DEF RegionType, Address
<1>3. TypeOK
  BY <1>2 DEF Init, TypeOK, Bases
<1>4. Placed
  BY <1>2, SpaceAssumption DEF Init, Placed, CursorInRegion, Bases, Address
<1>5. ClaimsDisjoint
  BY DEF Init, ClaimsDisjoint
<1> QED
  BY <1>3, <1>4, <1>5 DEF Inv

(* A claim keeps the invariant: it lies behind every older claim of its     *)
(* region, and the claims of other regions are in other places.             *)
LEMMA ClaimKeeps ==
  ASSUME Inv, NEW size \in Nat \ {0}, NEW align \in Nat \ {0},
         Claim(size, align), UNCHANGED regions
  PROVE  Inv'
<1> USE DEF Inv
<1>0. PICK n \in Nat \ {0} : n = Len(claims) + 1
  BY DEF TypeOK
<1>1. PICK i \in DOMAIN regions :
        /\ TypeOK'
        /\ cursors[i] <= cursors'[i] /\ cursors'[i] <= regions[i].base + regions[i].length
        /\ \A j \in DOMAIN regions : j # i => cursors'[j] = cursors[j]
        /\ DOMAIN claims' = 1 .. n
        /\ \A k \in DOMAIN claims : claims'[k] = claims[k]
        /\ cursors[i] <= claims'[n].address
        /\ claims'[n].address + claims'[n].length = cursors'[i]
  BY <1>0, ClaimAdds
<1>2. /\ n \in Nat \ {0} /\ DOMAIN claims = 1 .. n - 1
      /\ \A k \in DOMAIN claims : claims[k].address \in Nat /\ claims[k].length \in Nat
      /\ \A k \in DOMAIN claims' : claims'[k].address \in Nat /\ claims'[k].length \in Nat
      /\ \A j \in DOMAIN regions : cursors[j] \in Nat /\ cursors'[j] \in Nat
      /\ \A j \in DOMAIN regions : regions[j].base \in Nat /\ regions[j].length \in Nat
  <2>1. n \in Nat \ {0} /\ DOMAIN claims = 1 .. n - 1
    BY <1>0 DEF TypeOK
  <2>2. \A k \in DOMAIN claims : claims[k] \in ClaimType
    BY DEF TypeOK
  <2>3. \A k \in DOMAIN claims' : claims'[k] \in ClaimType
    BY <1>1 DEF TypeOK
  <2>4. \A j \in DOMAIN regions : cursors[j] \in Nat /\ cursors'[j] \in Nat
    BY <1>1, SpaceAssumption DEF TypeOK, Address
  <2> QED
    BY <2>1, <2>2, <2>3, <2>4, EndIsNoFurther DEF ClaimType
<1>3. \A j \in DOMAIN regions : cursors[j] <= cursors'[j]
  BY <1>1, <1>2
<1>4. \A j \in DOMAIN regions : CursorInRegion(j)'
  BY <1>1, <1>2 DEF Placed, CursorInRegion
<1>5. ASSUME NEW k \in DOMAIN claims PROVE \E j \in DOMAIN regions : Behind(k, j) /\ Behind(k, j)'
  <2>1. PICK j \in DOMAIN regions : Behind(k, j)
    BY DEF Placed
  <2>2. claims'[k] = claims[k] /\ cursors[j] <= cursors'[j]
    BY <1>1, <1>3
  <2>3. Behind(k, j)'
    BY <1>2, <2>1, <2>2 DEF Behind
  <2> QED
    BY <2>1, <2>3
<1>6. Behind(n, i)'
  BY <1>1, <1>2 DEF Behind, Placed, CursorInRegion
<1>7. DOMAIN claims' = DOMAIN claims \cup {n} /\ n \notin DOMAIN claims
  BY <1>1, <1>2
<1>8. Placed'
  BY <1>4, <1>5, <1>6, <1>7 DEF Placed
<1>9. ASSUME RegionsApart, NEW k \in DOMAIN claims
      PROVE  Taken(k)' \cap Taken(n)' = {}
  <2>1. PICK j \in DOMAIN regions : Behind(k, j) /\ Behind(k, j)'
    BY <1>5
  <2>2. claims'[k] = claims[k] /\ k \in DOMAIN claims' /\ n \in DOMAIN claims'
    BY <1>1, <1>7
  <2>3. /\ claims[k].address \in Nat /\ claims[k].length \in Nat
        /\ claims'[n].address \in Nat /\ claims'[n].length \in Nat
    BY <1>2, <2>2
  <2>4. /\ cursors[j] \in Nat /\ regions[j].base \in Nat /\ regions[j].length \in Nat
        /\ cursors[i] \in Nat /\ cursors'[i] \in Nat
        /\ regions[i].base \in Nat /\ regions[i].length \in Nat
    BY <1>2
  <2>5. /\ regions[j].base <= claims[k].address
        /\ claims[k].address + claims[k].length <= cursors[j]
    BY <2>1 DEF Behind
  <2>6. /\ cursors[j] <= regions[j].base + regions[j].length
        /\ regions[i].base <= cursors[i]
    BY DEF Placed, CursorInRegion
  <2>7. /\ cursors[i] <= claims'[n].address
        /\ claims'[n].address + claims'[n].length = cursors'[i]
        /\ cursors'[i] <= regions[i].base + regions[i].length
    BY <1>1
  <2>8. /\ Taken(k)' = Extent(claims[k].address, claims[k].length)
        /\ Taken(n)' = Extent(claims'[n].address, claims'[n].length)
    BY <2>2 DEF Taken
  <2>9. CASE j = i
    <3>1. claims[k].address + claims[k].length <= claims'[n].address
      BY <2>9, <2>3, <2>4, <2>5, <2>7
    <3> QED
      BY <2>3, <2>8, <3>1, ExtentsApart
  <2>10. CASE j # i
    <3>1. /\ claims[k].address + claims[k].length <= regions[j].base + regions[j].length
          /\ regions[i].base <= claims'[n].address
          /\ claims'[n].address + claims'[n].length <= regions[i].base + regions[i].length
      BY <2>3, <2>4, <2>5, <2>6, <2>7
    <3>2. Extent(claims[k].address, claims[k].length) \subseteq Region(j)
      BY <2>3, <2>4, <2>5, <3>1 DEF Region, Extent
    <3>3. Extent(claims'[n].address, claims'[n].length) \subseteq Region(i)
      BY <2>3, <2>4, <3>1 DEF Region, Extent
    <3>4. Region(j) \cap Region(i) = {}
      BY <1>9, <2>10 DEF RegionsApart, Disjoint
    <3> QED
      BY <2>8, <3>2, <3>3, <3>4
  <2> QED
    BY <2>9, <2>10
<1>10. ASSUME RegionsApart, NEW k \in DOMAIN claims, NEW l \in DOMAIN claims, k # l
       PROVE  Taken(k)' \cap Taken(l)' = {}
  BY <1>1, <1>10 DEF ClaimsDisjoint, Taken
<1>11. RegionsApart' <=> RegionsApart
  BY DEF RegionsApart, Disjoint, Region
<1>12. ClaimsDisjoint'
  BY <1>7, <1>9, <1>10, <1>11 DEF ClaimsDisjoint
<1> QED
  BY <1>1, <1>8, <1>12

LEMMA AlwaysInv == Spec => []Inv
<1>1. ASSUME Inv, [Next]_<<regions, cursors, claims>> PROVE Inv'
  BY <1>1, ClaimKeeps, Stays DEF Next
<1> QED
  BY <1>1, Initially, PTL DEF Spec

(* Claims that lie behind one another in regions that do not overlap do not *)
(* overlap.                                                                 *)
LEMMA PlacedApart ==
  ASSUME Inv
  PROVE  ClaimsApart
<1> SUFFICES ASSUME RegionsApart
             PROVE  /\ Disjoint([k \in DOMAIN claims |-> Taken(k)])
                    /\ \A k \in DOMAIN claims : \E i \in DOMAIN regions :
                          Taken(k) \subseteq Region(i)
  BY DEF ClaimsApart
<1>1. Disjoint([k \in DOMAIN claims |-> Taken(k)])
  BY DEF Inv, ClaimsDisjoint, Disjoint
<1>2. ASSUME NEW k \in DOMAIN claims
      PROVE  \E i \in DOMAIN regions : Taken(k) \subseteq Region(i)
  <2>1. PICK i \in DOMAIN regions : Behind(k, i)
    BY DEF Inv, Placed
  <2>2. claims[k] \in ClaimType /\ cursors[i] \in Nat
    BY SpaceAssumption DEF Inv, TypeOK, Address
  <2>3. claims[k].address \in Nat /\ claims[k].length \in Nat
    BY <2>2 DEF ClaimType
  <2>4. regions[i].base \in Nat /\ regions[i].length \in Nat
    BY EndIsNoFurther DEF Inv
  <2>5. CursorInRegion(i)
    BY DEF Inv, Placed
  <2> QED
    BY <2>1, <2>2, <2>3, <2>4, <2>5 DEF Behind, Taken, Region, Extent, CursorInRegion
<1> QED
  BY <1>1, <1>2

(* No two claims overlap, and each lies in one code region of the pack.     *)
THEOREM NothingGivenTwice == Spec => []ClaimsApart
  BY PlacedApart, AlwaysInv, PTL
=============================================================================
