-------------------------- MODULE FeatureBuildProofs --------------------------
(***************************************************************************)
(* A feature build, for every graph, pack, size of image and number of      *)
(* hooks: what lower makes is a program and what compile makes of it code,  *)
(* the allocator keeps its promise in it, the records account for the       *)
(* patch, what apply wrote stands whole in the ECU that was flashed with    *)
(* the planned sectors, and the code of a hook writes to its own RAM only.  *)
(*                                                                         *)
(* lower and compile are recursive functions on graphs and programs.  Each  *)
(* is built up by a lemma of its own, and what is shown of it is what every *)
(* one of its steps keeps (Upwards).  The invariant ties the places given   *)
(* away to the hooks applied: the n-th claim is the code of the n-th hook.  *)
(***************************************************************************)
EXTENDS FeatureBuild, FiniteSetTheorems, WellFoundedInduction, TLAPS

Alloc == INSTANCE RomAllocatorProofs WITH regions <- CodeRegions

(* The allocator of the build is the one RomAllocatorProofs is about.       *)
LEMMA RomPlaces ==
  /\ Rom!Bases = Alloc!Bases
  /\ \A i : Rom!At(i, 2) = Alloc!At(i, 2) /\ Rom!End(i) = Alloc!End(i)
  /\ \A i : Rom!Region(i) = Alloc!Region(i) /\ Rom!Taken(i) = Alloc!Taken(i)
BY DEF Rom!Bases, Alloc!Bases, Rom!At, Alloc!At, Rom!End, Alloc!End,
       Rom!Region, Alloc!Region, Rom!Taken, Alloc!Taken,
       Rom!RoundUp, Alloc!RoundUp, Rom!Extent, Alloc!Extent

(* ... and promises the same.                                              *)
LEMMA RomApart ==
  /\ Rom!RegionsApart <=> Alloc!RegionsApart
  /\ Rom!ClaimsApart <=> Alloc!ClaimsApart
<1>1. /\ [i \in DOMAIN CodeRegions |-> Rom!Region(i)]
           = [i \in DOMAIN CodeRegions |-> Alloc!Region(i)]
      /\ [i \in DOMAIN claims |-> Rom!Taken(i)] = [i \in DOMAIN claims |-> Alloc!Taken(i)]
  BY RomPlaces
<1>2. Rom!RegionsApart <=> Alloc!RegionsApart
  BY <1>1 DEF Rom!RegionsApart, Alloc!RegionsApart, Rom!Disjoint, Alloc!Disjoint
<1> QED
  BY <1>1, <1>2, RomPlaces DEF Rom!ClaimsApart, Alloc!ClaimsApart, Rom!Disjoint, Alloc!Disjoint

(* ... has room in the same regions.                                       *)
LEMMA RomRoomy ==
  ASSUME NEW size
  PROVE  /\ Rom!Roomy(size, 2) = Alloc!Roomy(size, 2)
         /\ \A i : Rom!Chosen(i, size, 2) <=> Alloc!Chosen(i, size, 2)
<1>1. \A i : Rom!Fits(i, size, 2) <=> Alloc!Fits(i, size, 2)
  BY RomPlaces DEF Rom!Fits, Alloc!Fits
<1>2. Rom!Roomy(size, 2) = Alloc!Roomy(size, 2)
  BY <1>1 DEF Rom!Roomy, Alloc!Roomy
<1> QED
  BY <1>2 DEF Rom!Chosen, Alloc!Chosen

(* ... and gives away the same places.                                     *)
LEMMA RomClaim ==
  ASSUME NEW size, Rom!Claim(size, 2)
  PROVE  Alloc!Claim(size, 2)
<1>1. PICK i \in Rom!Roomy(size, 2) :
        /\ Rom!Chosen(i, size, 2)
        /\ cursors' = [cursors EXCEPT ![i] = Rom!At(i, 2) + size]
        /\ claims' = Append(claims, [address |-> Rom!At(i, 2), length |-> size])
  BY DEF Rom!Claim
<1>2. i \in Alloc!Roomy(size, 2) /\ Alloc!Chosen(i, size, 2) /\ Rom!At(i, 2) = Alloc!At(i, 2)
  BY <1>1, RomRoomy, RomPlaces
<1> QED
  BY <1>1, <1>2 DEF Alloc!Claim

-----------------------------------------------------------------------------
(* The code regions of a pack.                                              *)

(* A set of natural numbers that is not empty has a least one.              *)
LEMMA Least ==
  ASSUME NEW T \in SUBSET Nat, T # {}
  PROVE  \E n \in T : \A m \in T : n <= m
<1>1. PICK n \in T : \A m \in T : ~ (<<m, n>> \in OpToRel(<, Nat))
  BY WFMin, NatLessThanWellFounded
<1>2. \A m \in T : ~ (m < n)
  BY <1>1 DEF OpToRel
<1> QED
  BY <1>2

(* Among n places there is a k-th one, for every k up to n.                 *)
LEMMA PlaceOfRank ==
  ASSUME NEW N \in Nat, NEW P \in SUBSET (1 .. N), NEW k \in 1 .. Cardinality(P)
  PROVE  \E p \in P : Cardinality({j \in P : j <= p}) = k
<1> DEFINE Upto(m) == {j \in P : j <= m}
           Far == {m \in Nat : Cardinality(Upto(m)) >= k}
<1>0. IsFiniteSet(1 .. N) /\ \A j \in P : j \in Nat /\ 1 <= j /\ j <= N
  BY FS_Interval
<1>1. IsFiniteSet(P) /\ Cardinality(P) \in Nat
  BY <1>0, FS_Subset, FS_CardinalityType
<1>2. ASSUME NEW m \in Nat PROVE IsFiniteSet(Upto(m)) /\ Cardinality(Upto(m)) \in Nat
  BY <1>1, FS_Subset, FS_CardinalityType
<1>3. Upto(N) = P /\ Upto(0) = {}
  <2>1. \A j \in P : j <= N /\ ~(j <= 0)
    BY <1>0
  <2> QED
    BY <2>1
<1>4. N \in Far
  BY <1>1, <1>3
<1>5. PICK p \in Far : \A m \in Far : p <= m
  BY <1>4, Least
<1>6. p \in Nat \ {0}
  <2>1. Cardinality(Upto(0)) = 0
    BY <1>3, FS_EmptySet
  <2> QED
    BY <1>5, <2>1
<1>7. p - 1 \in Nat /\ ~(Cardinality(Upto(p - 1)) >= k)
  <2>1. p - 1 \in Nat /\ ~(p <= p - 1)
    BY <1>6
  <2> QED
    BY <1>5, <2>1
<1>8. CASE p \in P
  <2>0. \A j \in P : (j <= p <=> j <= p - 1 \/ j = p) /\ ~(p <= p - 1)
    BY <1>0, <1>6
  <2>1. Upto(p) = Upto(p - 1) \cup {p} /\ p \notin Upto(p - 1)
    BY <1>8, <2>0
  <2>2. Cardinality(Upto(p)) = Cardinality(Upto(p - 1)) + 1
    BY <1>2, <1>7, <2>1, FS_AddElement
  <2>3. Cardinality(Upto(p)) >= k
    BY <1>5
  <2>4. Cardinality(Upto(p)) = k
    <3>1. Cardinality(Upto(p - 1)) \in Nat /\ k \in Nat
      <4>1. k \in Nat
        BY <1>1
      <4> QED
        BY <1>2, <1>7, <4>1
    <3> QED
      BY <1>7, <2>2, <2>3, <3>1
  <2> QED
    BY <1>8, <2>4
<1>9. CASE p \notin P
  <2>0. \A j \in P : j <= p <=> j <= p - 1
    BY <1>0, <1>6, <1>9
  <2>1. Upto(p) = Upto(p - 1)
    BY <2>0
  <2> QED
    BY <1>5, <1>7, <2>1
<1> QED
  BY <1>8, <1>9

(* What is selected from a sequence is a sequence of its elements.          *)
LEMMA AtPlacesType ==
  ASSUME NEW S, NEW s \in Seq(S), NEW P \in SUBSET DOMAIN s
  PROVE  AtPlaces(s, P) \in Seq(S)
<1>1. PICK N \in Nat : DOMAIN s = 1 .. N
  OBVIOUS
<1>2. Cardinality(P) \in Nat
  <2>1. IsFiniteSet(1 .. N)
    BY FS_Interval
  <2> QED
    BY <1>1, <2>1, FS_Subset, FS_CardinalityType
<1>3. ASSUME NEW n \in 1 .. Cardinality(P)
      PROVE  s[CHOOSE k \in P : Cardinality({j \in P : j <= k}) = n] \in S
  <2> DEFINE k == CHOOSE k \in P : Cardinality({j \in P : j <= k}) = n
  <2>1. \E p \in P : Cardinality({j \in P : j <= p}) = n
    BY <1>1, PlaceOfRank
  <2>2. k \in P
    BY <2>1, Zenon
  <2> HIDE DEF k
  <2>3. s[k] \in S
    BY <2>2
  <2> QED
    BY <2>3 DEF k
<1>4. AtPlaces(s, P) \in [1 .. Cardinality(P) -> S]
  BY <1>3 DEF AtPlaces
<1> HIDE DEF AtPlaces
<1> QED
  BY <1>2, <1>4

(* The code regions of a pack are regions as the allocator has them.        *)
LEMMA CodeRegionsType ==
  ASSUME pack \in Packs
  PROVE  CodeRegions \in Seq(Alloc!RegionType)
<1> DEFINE P == {i \in DOMAIN pack.regions : pack.regions[i].code}
           code == AtPlaces(pack.regions, P)
<1>1. code \in Seq([base : Address, length : Address, code : BOOLEAN])
  BY PackAssumption, AtPlacesType
<1>2. CodeRegions = [i \in DOMAIN code |-> [base |-> code[i].base, length |-> code[i].length]]
  BY DEF CodeRegions
<1> HIDE DEF code
<1>3. ASSUME NEW T, NEW s \in Seq(T) PROVE \A i \in DOMAIN s : s[i] \in T
  OBVIOUS
<1>4. Alloc!RegionType = [base : Address, length : Address]
  BY DEF Alloc!RegionType, Alloc!Address, Address
<1>5. \A i \in DOMAIN code : [base |-> code[i].base, length |-> code[i].length]
                              \in [base : Address, length : Address]
  <2>1. \A i \in DOMAIN code : code[i] \in [base : Address, length : Address, code : BOOLEAN]
    BY <1>1, <1>3
  <2> QED
    BY <2>1
<1>6. PICK n \in Nat : DOMAIN code = 1 .. n
  BY <1>1
<1> QED
  BY <1>2, <1>4, <1>5, <1>6

-----------------------------------------------------------------------------
(* Lists.                                                                   *)

(* What holds at zero and of each number after another holds of all.        *)
LEMMA Upwards ==
  ASSUME NEW N \in Nat, NEW P, 0 \in P, \A n \in 1 .. N : n - 1 \in P => n \in P
  PROVE  \A n \in 0 .. N : n \in P
<1> DEFINE Q == {n \in 0 .. N : n \notin P}
<1>1. SUFFICES Q = {}
  OBVIOUS
<1>2. SUFFICES ASSUME Q # {} PROVE FALSE
  OBVIOUS
<1>3. Q \in SUBSET Nat
  OBVIOUS
<1> HIDE DEF Q
<1>4. PICK n \in Q : \A m \in Q : n <= m
  BY <1>2, <1>3, Least
<1>5. n \in 0 .. N /\ n \notin P
  BY DEF Q
<1>6. n \in 1 .. N
  BY <1>5
<1>7. n - 1 \notin Q /\ n - 1 \in 0 .. N
  BY <1>4, <1>6
<1> QED
  BY <1>5, <1>6, <1>7 DEF Q

(* A sequence is a list, ...                                                *)
LEMMA ListIs ==
  ASSUME NEW S, NEW s \in Seq(S)
  PROVE  IsList(s) /\ Len(s) \in Nat /\ DOMAIN s = 1 .. Len(s) /\ \A k \in DOMAIN s : s[k] \in S
BY DEF IsList

(* ... and what a list is.                                                  *)
LEMMA ListHas ==
  ASSUME NEW s, IsList(s)
  PROVE  Len(s) \in Nat /\ DOMAIN s = 1 .. Len(s)
BY DEF IsList

(* Two sequences over a set, one behind the other, ...                      *)
LEMMA TwoLists ==
  ASSUME NEW S, NEW s \in Seq(S), NEW t \in Seq(S)
  PROVE  /\ s \o t \in Seq(S) /\ Len(s \o t) = Len(s) + Len(t)
         /\ \A k \in 1 .. Len(s) : (s \o t)[k] = s[k]
         /\ \A k \in 1 .. Len(t) : (s \o t)[Len(s) + k] = t[k]
OBVIOUS

(* ... and two lists.                                                       *)
LEMMA Lists ==
  ASSUME NEW s, IsList(s), NEW t, IsList(t)
  PROVE  /\ IsList(s \o t) /\ Len(s \o t) = Len(s) + Len(t)
         /\ \A k \in 1 .. Len(s) : (s \o t)[k] = s[k]
         /\ \A k \in 1 .. Len(t) : (s \o t)[Len(s) + k] = t[k]
<1> DEFINE S == {s[i] : i \in DOMAIN s} \cup {t[i] : i \in DOMAIN t}
<1>1. s \in Seq(S)
  BY DEF IsList
<1>2. t \in Seq(S)
  BY DEF IsList
<1> HIDE DEF S
<1>3. s \o t \in Seq(S)
  BY <1>1, <1>2, TwoLists
<1>4. IsList(s \o t)
  BY <1>3, ListIs
<1> QED
  BY <1>1, <1>2, <1>4, TwoLists

(* The lists of nothing, of one and of two.                                 *)
LEMMA Short ==
  /\ IsList(<<>>) /\ Len(<<>>) = 0
  /\ \A a : IsList(<<a>>) /\ Len(<<a>>) = 1
  /\ \A a, b : IsList(<<a, b>>) /\ Len(<<a, b>>) = 2
<1>1. <<>> \in Seq({})
  OBVIOUS
<1>2. ASSUME NEW a PROVE IsList(<<a>>) /\ Len(<<a>>) = 1
  <2>1. <<a>> \in Seq({a})
    OBVIOUS
  <2> QED
    BY <2>1, ListIs
<1>3. ASSUME NEW a, NEW b PROVE IsList(<<a, b>>) /\ Len(<<a, b>>) = 2
  <2>1. <<a, b>> \in Seq({a, b})
    OBVIOUS
  <2> QED
    BY <2>1, ListIs
<1> QED
  BY <1>1, <1>2, <1>3, ListIs

(* A list with one more at its end.                                         *)
LEMMA Appended ==
  ASSUME NEW s, IsList(s), NEW x
  PROVE  /\ IsList(Append(s, x)) /\ Len(Append(s, x)) = Len(s) + 1
         /\ \A k \in 1 .. Len(s) : Append(s, x)[k] = s[k]
         /\ Append(s, x)[Len(s) + 1] = x
<1> DEFINE S == {s[i] : i \in DOMAIN s} \cup {x}
<1>1. s \in Seq(S) /\ x \in S
  BY DEF IsList
<1> HIDE DEF S
<1>2. Append(s, x) \in Seq(S)
  BY <1>1
<1>3. IsList(Append(s, x))
  BY <1>2, ListIs
<1> QED
  BY <1>1, <1>3

(* Three lists, whichever two are joined first.                             *)
LEMMA Associates ==
  ASSUME NEW s, IsList(s), NEW t, IsList(t), NEW u, IsList(u)
  PROVE  (s \o t) \o u = s \o (t \o u)
<1> DEFINE S == {s[i] : i \in DOMAIN s} \cup {t[i] : i \in DOMAIN t} \cup {u[i] : i \in DOMAIN u}
<1>1. s \in Seq(S) /\ t \in Seq(S) /\ u \in Seq(S)
  <2>1. s \in Seq(S)
    BY DEF IsList
  <2>2. t \in Seq(S)
    BY DEF IsList
  <2>3. u \in Seq(S)
    BY DEF IsList
  <2> QED
    BY <2>1, <2>2, <2>3
<1> HIDE DEF S
<1> QED
  BY <1>1

(* Two instructions are one, and one behind it.                             *)
LEMMA PairIs == \A a, b : <<a, b>> = <<a>> \o <<b>>
<1> TAKE a, b
<1> DEFINE t == <<a>> \o <<b>>
<1>1. <<a>> \in Seq({a, b}) /\ <<b>> \in Seq({a, b}) /\ t \in Seq({a, b})
  OBVIOUS
<1>2. Len(<<a>>) = 1 /\ Len(<<b>>) = 1 /\ <<a>>[1] = a /\ <<b>>[1] = b
  OBVIOUS
<1>3. Len(t) = 2 /\ t[1] = a /\ t[2] = b
  BY <1>1, <1>2, TwoLists
<1> HIDE DEF t
<1>4. t = [i \in 1 .. 2 |-> t[i]]
  BY <1>1, <1>3
<1>5. <<a, b>> = [i \in 1 .. 2 |-> <<a, b>>[i]] /\ <<a, b>>[1] = a /\ <<a, b>>[2] = b
  OBVIOUS
<1>6. \A i \in 1 .. 2 : t[i] = <<a, b>>[i]
  BY <1>3, <1>5
<1>7. t = <<a, b>>
  BY <1>4, <1>5, <1>6
<1> QED
  BY <1>7 DEF t

(* The elements at some places of a list are a list of as many, each from   *)
(* one of those places.                                                     *)
LEMMA AtPlacesList ==
  ASSUME NEW s, IsList(s), NEW P \in SUBSET DOMAIN s
  PROVE  /\ IsList(AtPlaces(s, P)) /\ Len(AtPlaces(s, P)) = Cardinality(P)
         /\ Cardinality(P) \in Nat
         /\ \A k \in DOMAIN AtPlaces(s, P) : \E p \in P : AtPlaces(s, P)[k] = s[p]
<1> DEFINE S == {s[i] : i \in P}
           t == [k \in P |-> k]
<1>1. PICK N \in Nat : DOMAIN s = 1 .. N
  BY ListHas
<1>2. IsFiniteSet(P) /\ Cardinality(P) \in Nat
  <2>1. IsFiniteSet(1 .. N)
    BY FS_Interval
  <2> QED
    BY <1>1, <2>1, FS_Subset, FS_CardinalityType
<1>3. ASSUME NEW n \in 1 .. Cardinality(P)
      PROVE  s[CHOOSE k \in P : Cardinality({j \in P : j <= k}) = n] \in S
  <2> DEFINE k == CHOOSE k \in P : Cardinality({j \in P : j <= k}) = n
  <2>1. \E p \in P : Cardinality({j \in P : j <= p}) = n
    BY <1>1, PlaceOfRank
  <2>2. k \in P
    BY <2>1, Zenon
  <2> HIDE DEF k
  <2>3. s[k] \in S
    BY <2>2
  <2> QED
    BY <2>3 DEF k
<1>4. AtPlaces(s, P) \in [1 .. Cardinality(P) -> S]
  BY <1>3 DEF AtPlaces
<1> HIDE DEF AtPlaces, S
<1>5. AtPlaces(s, P) \in Seq(S) /\ Len(AtPlaces(s, P)) = Cardinality(P)
  BY <1>2, <1>4
<1>6. IsList(AtPlaces(s, P)) /\ \A k \in DOMAIN AtPlaces(s, P) : AtPlaces(s, P)[k] \in S
  BY <1>5, ListIs
<1> QED
  BY <1>2, <1>5, <1>6 DEF S

(* The lists of a list are joined one after the other.                      *)
LEMMA JoinedIs ==
  ASSUME NEW ss, IsList(ss)
  PROVE  \E f : /\ f[0] = <<>> /\ \A n \in 1 .. Len(ss) : f[n] = f[n - 1] \o ss[n]
                /\ Joined(ss) = f[Len(ss)]
<1> DEFINE N == Len(ss)
           Eq(f) == f = [n \in 0 .. N |-> IF n = 0 THEN <<>> ELSE f[n - 1] \o ss[n]]
           From(f, m) == /\ DOMAIN f = 0 .. m /\ f[0] = <<>>
                         /\ \A n \in 1 .. m : f[n] = f[n - 1] \o ss[n]
           P == {m \in 0 .. N : \E f : From(f, m)}
<1>0. N \in Nat
  BY ListHas
<1> HIDE DEF N, From, Eq
<1>1. 0 \in P
  <2>1. From([n \in {0} |-> <<>>], 0)
    BY DEF From
  <2> QED
    BY <1>0, <2>1
<1>2. ASSUME NEW m \in 1 .. N, m - 1 \in P PROVE m \in P
  <2>1. PICK f : From(f, m - 1)
    BY <1>2
  <2> DEFINE g == [n \in 0 .. m |-> IF n = m THEN f[m - 1] \o ss[m] ELSE f[n]]
  <2>2. From(g, m)
    <3>1. \A n \in 0 .. m - 1 : g[n] = f[n] /\ n \in 0 .. m
      BY <1>0
    <3>2. \A n \in 1 .. m : n - 1 \in 0 .. m - 1 /\ (n = m \/ n \in 1 .. m - 1)
      BY <1>0
    <3>3. g[0] = <<>>
      BY <1>0, <2>1, <3>1 DEF From
    <3>4. ASSUME NEW n \in 1 .. m PROVE g[n] = g[n - 1] \o ss[n]
      BY <1>0, <2>1, <3>1, <3>2 DEF From
    <3> QED
      BY <3>3, <3>4 DEF From
  <2> QED
    BY <2>2
<1>3. N \in P
  <2> HIDE DEF P
  <2>1. \A n \in 0 .. N : n \in P
    BY <1>0, <1>1, <1>2, Upwards
  <2> QED
    BY <1>0, <2>1
<1>4. \E f : Eq(f)
  <2>1. PICK f : From(f, N)
    BY <1>3
  <2> DEFINE g == [n \in 0 .. N |-> f[n]]
  <2>2. \A n \in 1 .. N : n - 1 \in 0 .. N /\ n \in 0 .. N /\ n # 0
    BY <1>0
  <2>3. \A n \in 0 .. N : g[n] = IF n = 0 THEN <<>> ELSE g[n - 1] \o ss[n]
    BY <1>0, <2>1, <2>2 DEF From
  <2>4. Eq(g)
    BY <2>3 DEF Eq
  <2> QED
    BY <2>4
<1> DEFINE f == CHOOSE f : Eq(f)
<1>5. Eq(f)
  BY <1>4, Zenon
<1>6. Joined(ss) = f[N]
  BY DEF Joined, N, Eq
<1> HIDE DEF f
<1>7. f[0] = <<>> /\ \A n \in 1 .. N : f[n] = f[n - 1] \o ss[n]
  BY <1>0, <1>5 DEF Eq
<1> QED
  BY <1>6, <1>7 DEF N

(* Sequences over a set are joined to one over it.                          *)
LEMMA JoinedType ==
  ASSUME NEW S, NEW ss, IsList(ss), \A k \in DOMAIN ss : ss[k] \in Seq(S)
  PROVE  Joined(ss) \in Seq(S)
<1>1. PICK f : /\ f[0] = <<>> /\ \A n \in 1 .. Len(ss) : f[n] = f[n - 1] \o ss[n]
               /\ Joined(ss) = f[Len(ss)]
  BY JoinedIs
<1> DEFINE P == {m \in 0 .. Len(ss) : f[m] \in Seq(S)}
<1>2. Len(ss) \in Nat /\ DOMAIN ss = 1 .. Len(ss)
  BY ListHas
<1>3. 0 \in P
  <2>1. <<>> \in Seq(S)
    OBVIOUS
  <2>2. f[0] \in Seq(S)
    BY <1>1, <2>1
  <2>3. 0 \in 0 .. Len(ss)
    BY <1>2
  <2> QED
    BY <2>2, <2>3
<1>4. ASSUME NEW n \in 1 .. Len(ss), n - 1 \in P PROVE n \in P
  <2>1. f[n - 1] \in Seq(S) /\ ss[n] \in Seq(S) /\ f[n] = f[n - 1] \o ss[n]
    BY <1>1, <1>2, <1>4
  <2>2. f[n] \in Seq(S)
    BY <2>1, TwoLists
  <2> QED
    BY <1>2, <2>2
<1> HIDE DEF P
<1>5. \A n \in 0 .. Len(ss) : n \in P
  BY <1>2, <1>3, <1>4, Upwards
<1>6. Len(ss) \in P
  BY <1>2, <1>5
<1> QED
  BY <1>1, <1>6 DEF P

(* What two lists keep when joined, a list of lists keeps.                  *)
LEMMA JoinedIn ==
  ASSUME NEW T, <<>> \in T, \A s, t \in T : s \o t \in T,
         NEW ss, IsList(ss), \A k \in DOMAIN ss : ss[k] \in T
  PROVE  Joined(ss) \in T
<1>1. PICK f : /\ f[0] = <<>> /\ \A n \in 1 .. Len(ss) : f[n] = f[n - 1] \o ss[n]
               /\ Joined(ss) = f[Len(ss)]
  BY JoinedIs
<1> DEFINE P == {m \in 0 .. Len(ss) : f[m] \in T}
<1>2. Len(ss) \in Nat /\ DOMAIN ss = 1 .. Len(ss)
  BY ListHas
<1>3. 0 \in P
  BY <1>1, <1>2
<1>4. ASSUME NEW n \in 1 .. Len(ss), n - 1 \in P PROVE n \in P
  <2>1. f[n - 1] \in T /\ ss[n] \in T /\ f[n] = f[n - 1] \o ss[n]
    BY <1>1, <1>2, <1>4
  <2>2. f[n] \in T
    BY <2>1
  <2> QED
    BY <1>2, <2>2
<1> HIDE DEF P
<1>5. \A n \in 0 .. Len(ss) : n \in P
  BY <1>2, <1>3, <1>4, Upwards
<1>6. Len(ss) \in P
  BY <1>2, <1>5
<1> QED
  BY <1>1, <1>6 DEF P

-----------------------------------------------------------------------------
(* The order in which lower visits a graph.                                 *)

(* The sides of the nodes of a graph, which Schedule puts in order.         *)
Sides(g) == 2 .. 2 * Len(g.nodes) + 1

(* Each side is of a node, and each node has two.                           *)
LEMMA SideOfNode ==
  ASSUME NEW g, IsGraph(g)
  PROVE  /\ Len(g.nodes) \in Nat /\ Nodes(g) = 1 .. Len(g.nodes)
         /\ \A v \in Sides(g) : NodeOf(v) \in Nodes(g)
         /\ \A i \in Nodes(g) : InSide(i) \in Sides(g) /\ OutSide(i) \in Sides(g)
<1>1. PICK N \in Nat : N = Len(g.nodes) /\ Nodes(g) = 1 .. N
  BY ListHas DEF IsGraph, Nodes
<1>2. \A v \in 2 .. 2 * N + 1 : v \div 2 \in 1 .. N
  BY <1>1
<1>3. \A i \in 1 .. N : 2 * i \in 2 .. 2 * N + 1 /\ 2 * i + 1 \in 2 .. 2 * N + 1
  BY <1>1
<1> QED
  BY <1>1, <1>2, <1>3 DEF Sides, NodeOf, InSide, OutSide

(* What a side is before is sides.                                          *)
LEMMA AfterSides ==
  ASSUME NEW g, IsGraph(g), Readable(g), NEW v \in Sides(g)
  PROVE  After(g, v) \in Seq(Sides(g))
<1> DEFINE P == {n \in DOMAIN g.edges : g.edges[n].from = NodeOf(v)}
           from == AtPlaces(g.edges, P)
<1>1. IsList(from) /\ \A k \in DOMAIN from : \E p \in P : from[k] = g.edges[p]
  <2>1. P \in SUBSET DOMAIN g.edges /\ IsList(g.edges)
    BY DEF IsGraph
  <2> HIDE DEF P
  <2>2. \A k \in DOMAIN from : \E p \in P : from[k] = g.edges[p]
    BY <2>1, AtPlacesList
  <2>3. IsList(from)
    BY <2>1, AtPlacesList
  <2> QED
    BY <2>2, <2>3
<1>2. \A n \in DOMAIN g.edges : g.edges[n].to \in Nodes(g)
  BY DEF Readable, Connects
<1> HIDE DEF from
<1>3. \A k \in DOMAIN from : InSide(from[k].to) \in Sides(g)
  BY <1>1, <1>2, SideOfNode
<1>4. PICK N \in Nat : DOMAIN from = 1 .. N
  BY <1>1, ListHas
<1>5. [n \in DOMAIN from |-> InSide(from[n].to)] \in Seq(Sides(g))
  <2> DEFINE h == [n \in 1 .. N |-> InSide(from[n].to)]
  <2>1. \A n \in 1 .. N : h[n] \in Sides(g)
    BY <1>3, <1>4
  <2> HIDE DEF Sides
  <2>2. h \in [1 .. N -> Sides(g)]
    BY <2>1
  <2> QED
    BY <1>4, <2>2
<1>6. OutSide(NodeOf(v)) \in Sides(g)
  BY SideOfNode
<1> HIDE DEF Sides
<1>7. <<>> \in Seq(Sides(g)) /\ <<OutSide(NodeOf(v))>> \in Seq(Sides(g))
  BY <1>6
<1> QED
  BY <1>5, <1>7 DEF After, from

(* Where Schedule stands: sides in order, sides that wait for nothing.      *)
Scheduling(g, s) ==
    /\ s = [waits |-> s.waits, order |-> s.order, ready |-> s.ready]
    /\ s.order \in Seq(Sides(g)) /\ s.ready \in Seq(Sides(g))

(* A side that waits for one less, ...                                      *)
LEMMA ReleaseSides ==
  ASSUME NEW g, NEW s, Scheduling(g, s), NEW w \in Sides(g)
  PROVE  Scheduling(g, Release(s, w))
<1> DEFINE t == Release(s, w)
<1>1. /\ t = [waits |-> t.waits, order |-> t.order, ready |-> t.ready]
      /\ t.order = s.order /\ t.ready = IF s.waits[w] = 1 THEN Append(s.ready, w) ELSE s.ready
  BY DEF Release
<1> HIDE DEF t, Sides
<1>2. t.ready \in Seq(Sides(g))
  BY <1>1 DEF Scheduling
<1> QED
  BY <1>1, <1>2 DEF Scheduling, t

(* What one step of the schedule does: f is what it has released so far of  *)
(* the sides behind the one it puts in order.                               *)
Releases(g, s, f) ==
    LET after == After(g, Last(s.ready))
    IN  /\ f[0] = [waits |-> s.waits, ready |-> Front(s.ready),
                   order |-> Append(s.order, Last(s.ready))]
        /\ \A n \in 1 .. Len(after) : f[n] = Release(f[n - 1], after[n])
        /\ TakeLast(g, s) = f[Len(after)]

LEMMA TakeLastIs ==
  ASSUME NEW g, IsGraph(g), Readable(g), NEW s, Scheduling(g, s), s.ready # <<>>
  PROVE  /\ Last(s.ready) \in Sides(g) /\ Front(s.ready) \in Seq(Sides(g))
         /\ After(g, Last(s.ready)) \in Seq(Sides(g))
         /\ \E f : Releases(g, s, f)
<1> DEFINE after == After(g, Last(s.ready))
           first == [waits |-> s.waits, ready |-> Front(s.ready),
                     order |-> Append(s.order, Last(s.ready))]
           N == Len(after)
           Step(x, n) == IF n = 0 THEN first ELSE Release(x, after[n])
           Eq(f) == f = [n \in 0 .. N |-> Step(f[n - 1], n)]
           From(f, l) == DOMAIN f = 0 .. l /\ \A n \in 0 .. l : f[n] = Step(f[n - 1], n)
           P == {l \in 0 .. N : \E f : From(f, l)}
<1>b. Last(s.ready) \in Sides(g) /\ Front(s.ready) \in Seq(Sides(g))
  <2> HIDE DEF Sides
  <2> QED
    BY DEF Scheduling, Last, Front
<1>d. after \in Seq(Sides(g))
  BY <1>b, AfterSides
<1>u. TakeLast(g, s) = (CHOOSE f : Eq(f))[N]
  BY DEF TakeLast
<1> HIDE DEF after, first, Sides
<1>0. N \in Nat /\ \A n \in 1 .. N : after[n] \in Sides(g)
  BY <1>d
<1>s. \A x : Step(x, 0) = first
  OBVIOUS
<1>t. \A x : \A n \in 1 .. N : Step(x, n) = Release(x, after[n])
  BY <1>0
<1> HIDE DEF N, Step, From, Eq, P
<1>1. 0 \in P
  <2> DEFINE f == [n \in {0} |-> first]
  <2>1. From(f, 0)
    BY <1>s DEF From
  <2> QED
    BY <1>0, <2>1 DEF P
<1>2. ASSUME NEW l \in 1 .. N, l - 1 \in P PROVE l \in P
  <2>1. PICK f : From(f, l - 1)
    BY <1>2 DEF P
  <2> DEFINE h == [n \in 0 .. l |-> IF n = l THEN Step(f[l - 1], l) ELSE f[n]]
  <2>2. From(h, l)
    <3>1. \A n \in 0 .. l - 1 : h[n] = f[n]
      BY <1>0
    <3>2. ASSUME NEW n \in 0 .. l PROVE h[n] = Step(h[n - 1], n)
      <4>1. CASE n = 0
        BY <1>s, <1>0, <2>1, <3>1, <4>1 DEF From
      <4>2. CASE n = l
        BY <1>0, <3>1, <4>2
      <4>3. CASE n # 0 /\ n # l
        <5>1. n - 1 \in 0 .. l - 1 /\ n \in 0 .. l - 1
          BY <1>0, <4>3
        <5> QED
          BY <2>1, <3>1, <5>1 DEF From
      <4> QED
        BY <4>1, <4>2, <4>3
    <3> QED
      BY <3>2 DEF From
  <2> QED
    BY <2>2 DEF P
<1>3. N \in P
  <2>1. \A n \in 0 .. N : n \in P
    BY <1>0, <1>1, <1>2, Upwards
  <2> QED
    BY <1>0, <2>1
<1>4. \E f : Eq(f)
  <2>1. PICK f : From(f, N)
    BY <1>3 DEF P
  <2> DEFINE h == [n \in 0 .. N |-> f[n]]
  <2>2. \A n \in 0 .. N : h[n] = Step(h[n - 1], n)
    <3>1. ASSUME NEW n \in 0 .. N, n # 0 PROVE h[n] = Step(h[n - 1], n)
      <4>1. n - 1 \in 0 .. N
        BY <1>0, <3>1
      <4> QED
        BY <2>1, <4>1 DEF From
    <3> QED
      BY <1>s, <1>0, <2>1, <3>1 DEF From
  <2>3. Eq(h)
    BY <2>2 DEF Eq
  <2> QED
    BY <2>3
<1> DEFINE f == CHOOSE f : Eq(f)
<1>5. Eq(f)
  BY <1>4, Zenon
<1> HIDE DEF f
<1>6. f[0] = first
  BY <1>0, <1>5, <1>s DEF Eq
<1>7. ASSUME NEW n \in 1 .. N PROVE f[n] = Release(f[n - 1], after[n])
  <2>1. n \in 0 .. N
    BY <1>0
  <2> QED
    BY <1>5, <1>t, <2>1 DEF Eq
<1>8. TakeLast(g, s) = f[N]
  BY <1>u DEF f
<1>9. Releases(g, s, f)
  BY <1>6, <1>7, <1>8 DEF Releases, first, after, N
<1> QED
  BY <1>9, <1>b, <1>d DEF after

(* ... all the sides behind the one put in order, ...                       *)
LEMMA TakeLastSides ==
  ASSUME NEW g, IsGraph(g), Readable(g), NEW s, Scheduling(g, s)
  PROVE  Scheduling(g, TakeLast(g, s))
<1> DEFINE after == After(g, Last(s.ready))
           first == [waits |-> s.waits, ready |-> Front(s.ready),
                     order |-> Append(s.order, Last(s.ready))]
           N == Len(after)
<1>a. SUFFICES ASSUME s.ready # <<>> PROVE Scheduling(g, TakeLast(g, s))
  BY DEF TakeLast
<1> HIDE DEF after, first, N, Sides
<1>b. /\ Last(s.ready) \in Sides(g) /\ Front(s.ready) \in Seq(Sides(g))
      /\ after \in Seq(Sides(g))
  BY <1>a, TakeLastIs DEF after
<1>c. Scheduling(g, first)
  <2>1. /\ first = [waits |-> first.waits, order |-> first.order, ready |-> first.ready]
        /\ first.order = Append(s.order, Last(s.ready)) /\ first.ready = Front(s.ready)
    BY DEF first
  <2>2. first.order \in Seq(Sides(g))
    BY <1>b, <2>1 DEF Scheduling
  <2> QED
    BY <1>b, <2>1, <2>2 DEF Scheduling
<1>0. N \in Nat /\ \A n \in 1 .. N : after[n] \in Sides(g)
  BY <1>b DEF N
<1>1. PICK f : Releases(g, s, f)
  BY <1>a, TakeLastIs
<1>2. /\ f[0] = first /\ \A n \in 1 .. N : f[n] = Release(f[n - 1], after[n])
      /\ TakeLast(g, s) = f[N]
  BY <1>1 DEF Releases, first, after, N
<1> DEFINE Q == {n \in 0 .. N : Scheduling(g, f[n])}
<1>3. 0 \in Q
  BY <1>0, <1>2, <1>c
<1>4. ASSUME NEW n \in 1 .. N, n - 1 \in Q PROVE n \in Q
  <2>1. n \in 0 .. N
    BY <1>0
  <2> QED
    BY <1>0, <1>2, <1>4, <2>1, ReleaseSides
<1> HIDE DEF Q
<1>5. \A n \in 0 .. N : n \in Q
  BY <1>0, <1>3, <1>4, Upwards
<1> QED
  BY <1>0, <1>2, <1>5 DEF Q

(* How the schedule starts, and its steps f.                                *)
Beginning(g) ==
    LET waits == [v \in ToSet(Vertices(g)) |-> InDegree(g, v)]
    IN  [waits |-> waits, order |-> <<>>,
         ready |-> AtPlaces(Vertices(g), {n \in DOMAIN Vertices(g) : waits[n + 1] = 0})]

Schedules(g, f) ==
    /\ f[0] = Beginning(g)
    /\ \A n \in 1 .. 2 * Len(g.nodes) : f[n] = TakeLast(g, f[n - 1])
    /\ Schedule(g) = f[2 * Len(g.nodes)].order

LEMMA ScheduleIs ==
  ASSUME NEW g, IsGraph(g)
  PROVE  \E f : Schedules(g, f)
<1> DEFINE start == Beginning(g)
           N == 2 * Len(g.nodes)
           Step(x, n) == IF n = 0 THEN start ELSE TakeLast(g, x)
           Eq(f) == f = [n \in 0 .. N |-> Step(f[n - 1], n)]
           From(f, l) == DOMAIN f = 0 .. l /\ \A n \in 0 .. l : f[n] = Step(f[n - 1], n)
           P == {l \in 0 .. N : \E f : From(f, l)}
<1>0. N \in Nat
  BY SideOfNode
<1>u. Schedule(g) = (CHOOSE f : Eq(f))[N].order
  BY DEF Schedule, Beginning
<1> HIDE DEF start
<1>s. \A x : Step(x, 0) = start
  OBVIOUS
<1>t. \A x : \A n \in 1 .. N : Step(x, n) = TakeLast(g, x)
  BY <1>0
<1> HIDE DEF N, Step, From, Eq, P
<1>1. 0 \in P
  <2> DEFINE f == [n \in {0} |-> start]
  <2>1. From(f, 0)
    BY <1>s DEF From
  <2> QED
    BY <1>0, <2>1 DEF P
<1>2. ASSUME NEW l \in 1 .. N, l - 1 \in P PROVE l \in P
  <2>1. PICK f : From(f, l - 1)
    BY <1>2 DEF P
  <2> DEFINE h == [n \in 0 .. l |-> IF n = l THEN Step(f[l - 1], l) ELSE f[n]]
  <2>2. From(h, l)
    <3>1. \A n \in 0 .. l - 1 : h[n] = f[n]
      BY <1>0
    <3>2. ASSUME NEW n \in 0 .. l PROVE h[n] = Step(h[n - 1], n)
      <4>1. CASE n = 0
        BY <1>s, <1>0, <2>1, <3>1, <4>1 DEF From
      <4>2. CASE n = l
        BY <1>0, <3>1, <4>2
      <4>3. CASE n # 0 /\ n # l
        <5>1. n - 1 \in 0 .. l - 1 /\ n \in 0 .. l - 1
          BY <1>0, <4>3
        <5> QED
          BY <2>1, <3>1, <5>1 DEF From
      <4> QED
        BY <4>1, <4>2, <4>3
    <3> QED
      BY <3>2 DEF From
  <2> QED
    BY <2>2 DEF P
<1>3. N \in P
  <2>1. \A n \in 0 .. N : n \in P
    BY <1>0, <1>1, <1>2, Upwards
  <2> QED
    BY <1>0, <2>1
<1>4. \E f : Eq(f)
  <2>1. PICK f : From(f, N)
    BY <1>3 DEF P
  <2> DEFINE h == [n \in 0 .. N |-> f[n]]
  <2>2. \A n \in 0 .. N : h[n] = Step(h[n - 1], n)
    <3>1. ASSUME NEW n \in 0 .. N, n # 0 PROVE h[n] = Step(h[n - 1], n)
      <4>1. n - 1 \in 0 .. N
        BY <1>0, <3>1
      <4> QED
        BY <2>1, <4>1 DEF From
    <3> QED
      BY <1>s, <1>0, <2>1, <3>1 DEF From
  <2>3. Eq(h)
    BY <2>2 DEF Eq
  <2> QED
    BY <2>3
<1> DEFINE f == CHOOSE f : Eq(f)
<1>5. Eq(f)
  BY <1>4, Zenon
<1> HIDE DEF f
<1>6. f[0] = start
  BY <1>0, <1>5, <1>s DEF Eq
<1>7. ASSUME NEW n \in 1 .. N PROVE f[n] = TakeLast(g, f[n - 1])
  <2>1. n \in 0 .. N
    BY <1>0
  <2> QED
    BY <1>5, <1>t, <2>1 DEF Eq
<1>8. Schedule(g) = f[N].order
  BY <1>u DEF f
<1>9. Schedules(g, f)
  BY <1>6, <1>7, <1>8 DEF Schedules, start, N
<1> QED
  BY <1>9

(* The sides there are.                                                     *)
LEMMA VerticesAre ==
  ASSUME NEW g, IsGraph(g)
  PROVE  /\ Vertices(g) \in Seq(Sides(g)) /\ ToSet(Vertices(g)) = Sides(g)
         /\ DOMAIN Vertices(g) = 1 .. 2 * Len(g.nodes)
         /\ \A n \in DOMAIN Vertices(g) : Vertices(g)[n] = n + 1
         /\ \A v \in Sides(g) : v - 1 \in DOMAIN Vertices(g)
<1> DEFINE N == 2 * Len(g.nodes)
<1>0. N \in Nat
  BY SideOfNode
<1>1. Vertices(g) = [n \in 1 .. N |-> n + 1] /\ Sides(g) = 2 .. N + 1
  BY DEF Vertices, Sides
<1> HIDE DEF N
<1>2. \A n \in 1 .. N : n + 1 \in 2 .. N + 1
  BY <1>0
<1>3. [n \in 1 .. N |-> n + 1] \in [1 .. N -> 2 .. N + 1]
  BY <1>2
<1>4. \A v \in 2 .. N + 1 : v - 1 \in 1 .. N /\ (v - 1) + 1 = v
  BY <1>0
<1>5. ToSet(Vertices(g)) = Sides(g)
  <2>1. \A v : v \in ToSet(Vertices(g)) <=> \E n \in 1 .. N : v = n + 1
    BY <1>1 DEF ToSet
  <2>2. \A v \in ToSet(Vertices(g)) : v \in Sides(g)
    BY <1>1, <1>2, <2>1
  <2>3. \A v \in Sides(g) : v \in ToSet(Vertices(g))
    BY <1>1, <1>4, <2>1
  <2> QED
    BY <2>2, <2>3
<1>6. Vertices(g) \in Seq(Sides(g))
  BY <1>0, <1>1, <1>3
<1> QED
  BY <1>1, <1>4, <1>5, <1>6 DEF N

(* Where it starts are sides, ...                                           *)
LEMMA BeginningSides ==
  ASSUME NEW g, IsGraph(g)
  PROVE  Scheduling(g, Beginning(g))
<1> DEFINE start == Beginning(g)
           waits == [v \in ToSet(Vertices(g)) |-> InDegree(g, v)]
           R == {n \in DOMAIN Vertices(g) : waits[n + 1] = 0}
<1>1. /\ start.order = <<>> /\ start.ready = AtPlaces(Vertices(g), R)
      /\ start = [waits |-> start.waits, order |-> start.order, ready |-> start.ready]
  BY DEF Beginning
<1>2. R \in SUBSET DOMAIN Vertices(g)
  OBVIOUS
<1> HIDE DEF start, R, waits, Sides
<1>3. AtPlaces(Vertices(g), R) \in Seq(Sides(g))
  BY <1>2, VerticesAre, AtPlacesType
<1>4. <<>> \in Seq(Sides(g))
  OBVIOUS
<1>5. Scheduling(g, start)
  BY <1>1, <1>3, <1>4 DEF Scheduling
<1> QED
  BY <1>5 DEF start

(* ... and the whole order are of sides of the graph.                       *)
LEMMA ScheduleSides ==
  ASSUME NEW g, IsGraph(g), Readable(g)
  PROVE  Schedule(g) \in Seq(Sides(g))
<1> DEFINE N == 2 * Len(g.nodes)
<1>0. N \in Nat
  BY SideOfNode
<1>1. PICK f : Schedules(g, f)
  BY ScheduleIs
<1>2. /\ f[0] = Beginning(g) /\ \A n \in 1 .. N : f[n] = TakeLast(g, f[n - 1])
      /\ Schedule(g) = f[N].order
  BY <1>1 DEF Schedules
<1> HIDE DEF N, Sides
<1> DEFINE Q == {n \in 0 .. N : Scheduling(g, f[n])}
<1>3. 0 \in Q
  BY <1>0, <1>2, BeginningSides
<1>4. ASSUME NEW n \in 1 .. N, n - 1 \in Q PROVE n \in Q
  <2>1. n \in 0 .. N
    BY <1>0
  <2> QED
    BY <1>2, <1>4, <2>1, TakeLastSides
<1> HIDE DEF Q
<1>5. \A n \in 0 .. N : n \in Q
  BY <1>0, <1>3, <1>4, Upwards
<1>6. Scheduling(g, f[N])
  BY <1>0, <1>5 DEF Q
<1> QED
  BY <1>2, <1>6 DEF Scheduling

(* The pins of a node, in or out, are a list.                               *)
LEMMA PinsList ==
  ASSUME NEW g, IsGraph(g), NEW i \in Nodes(g), NEW out
  PROVE  IsList(PinsOf(g, i, out))
<1> DEFINE all == [k \in DOMAIN g.nodes[i].pins |-> k]
           P == {k \in DOMAIN all : Pin(g, i, k).out = out}
<1>1. PICK N \in Nat : DOMAIN g.nodes[i].pins = 1 .. N
  BY ListHas DEF IsGraph
<1>2. all \in Seq(1 .. N)
  <2>1. all \in [1 .. N -> 1 .. N]
    BY <1>1
  <2> QED
    BY <2>1
<1>3. P \in SUBSET DOMAIN all
  OBVIOUS
<1> HIDE DEF P
<1>4. AtPlaces(all, P) \in Seq(1 .. N)
  BY <1>2, <1>3, AtPlacesType
<1>5. IsList(AtPlaces(all, P))
  BY <1>4, ListIs
<1> QED
  BY <1>5 DEF PinsOf, P

-----------------------------------------------------------------------------
(* The program lower makes of it.                                           *)

(* An instruction whose operands stand before place v, and a program in     *)
(* which each store has one operand.                                        *)
Placed(ins, v) ==
    IsList(ins.operands) /\ \A k \in DOMAIN ins.operands : ins.operands[k] \in 1 .. v - 1
OneEach(code) == \A v \in DOMAIN code : code[v].op = "store" => Len(code[v].operands) = 1

(* Where lower stands: code whose operands stand before their use, and      *)
(* values it has given, of that code.                                       *)
WellMade(m) ==
    /\ m = [code |-> m.code, of |-> m.of, taken |-> m.taken, ok |-> m.ok]
    /\ IsList(m.code) /\ IsList(m.taken)
    /\ \A k \in DOMAIN m.taken : m.taken[k] \in 1 .. Len(m.code)
    /\ \A o \in DOMAIN m.of : m.of[o] \in 1 .. Len(m.code)
    /\ \A v \in DOMAIN m.code : Placed(m.code[v], v)
    /\ m.ok => OneEach(m.code)

(* lower stands so behind one more instruction, ...                         *)
LEMMA EmitMade ==
  ASSUME NEW m, WellMade(m), NEW ins, Placed(ins, Len(m.code) + 1),
         m.ok /\ ins.op = "store" => Len(ins.operands) = 1
  PROVE  /\ WellMade(Emit(m, ins))
         /\ Emit(m, ins).taken = m.taken /\ Emit(m, ins).ok = m.ok /\ Emit(m, ins).of = m.of
         /\ Len(Emit(m, ins).code) = Len(m.code) + 1
<1> DEFINE n == Emit(m, ins)
<1>1. /\ n.code = Append(m.code, ins) /\ n.of = m.of /\ n.taken = m.taken /\ n.ok = m.ok
      /\ n = [code |-> n.code, of |-> n.of, taken |-> n.taken, ok |-> n.ok]
  BY DEF Emit, WellMade
<1> HIDE DEF n
<1>2. /\ IsList(n.code) /\ Len(n.code) = Len(m.code) + 1
      /\ \A k \in 1 .. Len(m.code) : n.code[k] = m.code[k]
      /\ n.code[Len(m.code) + 1] = ins
  BY <1>1, Appended DEF WellMade
<1>3. PICK N \in Nat : N = Len(m.code) /\ DOMAIN m.code = 1 .. N
  BY ListHas DEF WellMade
<1>4. DOMAIN n.code = 1 .. N + 1
  BY <1>2, <1>3, ListHas
<1>5. \A v \in 1 .. N + 1 : v \in 1 .. N \/ v = N + 1
  BY <1>3
<1>6. \A v \in DOMAIN n.code : Placed(n.code[v], v)
  BY <1>2, <1>3, <1>4, <1>5 DEF WellMade
<1>7. \A x \in 1 .. N : x \in 1 .. N + 1
  BY <1>3
<1>8. m.ok => OneEach(n.code)
  BY <1>2, <1>3, <1>4, <1>5 DEF WellMade, OneEach
<1>9. WellMade(n)
  BY <1>1, <1>2, <1>3, <1>6, <1>7, <1>8 DEF WellMade
<1> QED
  BY <1>1, <1>2, <1>9 DEF n

(* ... an operand taken from its driver or its default, ...                 *)
LEMMA TakeMade ==
  ASSUME NEW g, NEW m, WellMade(m), NEW i, NEW k
  PROVE  /\ WellMade(Take(g, m, i, k))
         /\ Take(g, m, i, k).ok => m.ok /\ Len(Take(g, m, i, k).taken) = Len(m.taken) + 1
<1> DEFINE d == Driver(g, i, k)
           p == Pin(g, i, k)
           t == Take(g, m, i, k)
           ins == Instruction("const", "none", p, <<>>, p.default[1])
           o == <<d[1].from, d[1].fpin>>
<1>0. PICK N \in Nat : N = Len(m.code)
  BY ListHas DEF WellMade
<1>1. CASE d # <<>> /\ o \in DOMAIN m.of
  <2>1. t = [m EXCEPT !.taken = Append(@, m.of[o])]
    BY <1>1 DEF Take
  <2> HIDE DEF t, d, o
  <2>2. /\ t.code = m.code /\ t.of = m.of /\ t.ok = m.ok /\ t.taken = Append(m.taken, m.of[o])
        /\ t = [code |-> t.code, of |-> t.of, taken |-> t.taken, ok |-> t.ok]
    BY <2>1 DEF WellMade
  <2>3. /\ IsList(t.taken) /\ Len(t.taken) = Len(m.taken) + 1
        /\ \A n \in 1 .. Len(m.taken) : t.taken[n] = m.taken[n]
        /\ t.taken[Len(m.taken) + 1] = m.of[o]
    BY <2>2, Appended DEF WellMade
  <2>4. PICK M \in Nat : M = Len(m.taken) /\ DOMAIN m.taken = 1 .. M
    BY ListHas DEF WellMade
  <2>5. DOMAIN t.taken = 1 .. M + 1 /\ \A n \in 1 .. M + 1 : n \in 1 .. M \/ n = M + 1
    BY <2>3, <2>4, ListHas
  <2>6. \A n \in DOMAIN t.taken : t.taken[n] \in 1 .. Len(m.code)
    BY <1>1, <2>3, <2>4, <2>5 DEF WellMade
  <2>7. WellMade(t)
    BY <2>2, <2>3, <2>6 DEF WellMade
  <2> QED
    BY <2>2, <2>3, <2>7 DEF t
<1>2. CASE ~(d # <<>> /\ o \in DOMAIN m.of) /\ d = <<>> /\ p.default # <<>>
  <2>1. t = [Emit(m, ins) EXCEPT !.taken = Append(@, Len(m.code) + 1)]
    BY <1>2 DEF Take
  <2>2. ins.operands = <<>> /\ ins.op = "const"
    BY DEF Instruction
  <2> HIDE DEF t, d, o, ins, p
  <2>3. Placed(ins, Len(m.code) + 1)
    BY <2>2, Short DEF Placed
  <2> DEFINE e == Emit(m, ins)
  <2>4. WellMade(e) /\ e.taken = m.taken /\ e.ok = m.ok /\ Len(e.code) = N + 1
    BY <1>0, <2>2, <2>3, EmitMade
  <2> HIDE DEF e
  <2>5. /\ t.code = e.code /\ t.of = e.of /\ t.ok = e.ok /\ t.taken = Append(m.taken, N + 1)
        /\ t = [code |-> t.code, of |-> t.of, taken |-> t.taken, ok |-> t.ok]
    BY <1>0, <2>1, <2>4 DEF WellMade, e
  <2>6. /\ IsList(t.taken) /\ Len(t.taken) = Len(m.taken) + 1
        /\ \A n \in 1 .. Len(m.taken) : t.taken[n] = m.taken[n]
        /\ t.taken[Len(m.taken) + 1] = N + 1
    BY <2>5, Appended DEF WellMade
  <2>7. PICK M \in Nat : M = Len(m.taken) /\ DOMAIN m.taken = 1 .. M
    BY ListHas DEF WellMade
  <2>8. DOMAIN t.taken = 1 .. M + 1 /\ \A n \in 1 .. M + 1 : n \in 1 .. M \/ n = M + 1
    BY <2>6, <2>7, ListHas
  <2>9. N + 1 \in 1 .. N + 1
    BY <1>0
  <2>10. \A n \in DOMAIN t.taken : t.taken[n] \in 1 .. Len(e.code)
    <3>1. \A n \in 1 .. M : t.taken[n] \in 1 .. N + 1
      <4>1. \A n \in 1 .. M : m.taken[n] = e.taken[n] /\ n \in DOMAIN e.taken
        BY <2>4, <2>7
      <4> QED
        BY <2>4, <2>6, <2>7, <4>1 DEF WellMade
    <3> QED
      BY <2>4, <2>6, <2>7, <2>8, <2>9, <3>1
  <2>11. WellMade(t)
    BY <2>4, <2>5, <2>6, <2>10 DEF WellMade
  <2> QED
    BY <2>4, <2>5, <2>6, <2>11 DEF t
<1>3. CASE ~(d # <<>> /\ o \in DOMAIN m.of) /\ ~(d = <<>> /\ p.default # <<>>)
  <2>1. t = [m EXCEPT !.ok = FALSE]
    BY <1>3 DEF Take
  <2> HIDE DEF t, d, o, ins, p
  <2>2. /\ t.code = m.code /\ t.of = m.of /\ t.taken = m.taken /\ t.ok = FALSE
        /\ t = [code |-> t.code, of |-> t.of, taken |-> t.taken, ok |-> t.ok]
    BY <2>1 DEF WellMade
  <2> QED
    BY <2>2 DEF WellMade, t
<1> QED
  BY <1>1, <1>2, <1>3

(* ... a value given to an output pin, ...                                  *)
LEMMA GiveMade ==
  ASSUME NEW g, NEW m, WellMade(m), NEW i, NEW k
  PROVE  WellMade(Give(g, m, i, k))
<1> DEFINE ins == IF g.nodes[i].hook
                  THEN Instruction("input", g.nodes[i].symbol, Pin(g, i, k), <<>>, 0)
                  ELSE Instruction("call", g.nodes[i].symbol, Pin(g, i, k), m.taken, 0)
           e == Emit(m, ins)
           t == Give(g, m, i, k)
<1>0. PICK N \in Nat : N = Len(m.code)
  BY ListHas DEF WellMade
<1>1. (ins.op = "input" /\ ins.operands = <<>>) \/ (ins.op = "call" /\ ins.operands = m.taken)
  BY DEF Instruction
<1>2. t = [e EXCEPT !.of = [o \in DOMAIN @ \cup {<<i, k>>} |->
                               IF o = <<i, k>> THEN N + 1 ELSE @[o]]]
  BY <1>0 DEF Give
<1> HIDE DEF ins, t
<1>3. Placed(ins, N + 1) /\ ins.op # "store"
  <2>1. CASE ins.op = "input" /\ ins.operands = <<>>
    BY <2>1, Short DEF Placed
  <2>2. CASE ins.op = "call" /\ ins.operands = m.taken
    <3>1. \A n \in DOMAIN m.taken : m.taken[n] \in 1 .. N + 1 - 1
      BY <1>0 DEF WellMade
    <3> QED
      BY <2>2, <3>1 DEF Placed, WellMade
  <2> QED
    BY <1>1, <2>1, <2>2
<1>4. WellMade(e) /\ e.taken = m.taken /\ e.ok = m.ok /\ e.of = m.of /\ Len(e.code) = N + 1
  BY <1>0, <1>3, EmitMade
<1> HIDE DEF e
<1>5. /\ t.code = e.code /\ t.taken = e.taken /\ t.ok = e.ok
      /\ t.of = [o \in DOMAIN e.of \cup {<<i, k>>} |-> IF o = <<i, k>> THEN N + 1 ELSE e.of[o]]
      /\ t = [code |-> t.code, of |-> t.of, taken |-> t.taken, ok |-> t.ok]
  BY <1>2, <1>4 DEF WellMade
<1>6. \A o \in DOMAIN t.of : t.of[o] \in 1 .. N + 1
  <2>1. N + 1 \in 1 .. N + 1
    BY <1>0
  <2> QED
    BY <1>4, <1>5, <2>1 DEF WellMade
<1>7. WellMade(t)
  BY <1>4, <1>5, <1>6 DEF WellMade
<1> QED
  BY <1>7 DEF t

(* ... a store to an input pin of a hook, ...                               *)
LEMMA PutMade ==
  ASSUME NEW g, NEW m, WellMade(m), NEW i, NEW k
  PROVE  WellMade(Put(g, m, i, k))
<1> DEFINE c == [m EXCEPT !.taken = <<>>]
           n == Take(g, c, i, k)
           ins == Instruction("store", g.nodes[i].symbol, Pin(g, i, k), n.taken, 0)
<1>1. Put(g, m, i, k) = Emit(n, ins) /\ ins.operands = n.taken
  BY DEF Put, Instruction
<1>2. WellMade(c) /\ Len(c.taken) = 0
  <2>1. /\ c.code = m.code /\ c.of = m.of /\ c.taken = <<>> /\ c.ok = m.ok
        /\ c = [code |-> c.code, of |-> c.of, taken |-> c.taken, ok |-> c.ok]
    BY DEF WellMade
  <2> HIDE DEF c
  <2>2. IsList(c.taken) /\ DOMAIN c.taken = {} /\ Len(c.taken) = 0
    BY <2>1, Short
  <2> QED
    BY <2>1, <2>2 DEF WellMade
<1>3. WellMade(n) /\ (n.ok => Len(n.taken) = 1)
  <2> HIDE DEF c
  <2>1. WellMade(n) /\ (n.ok => Len(n.taken) = Len(c.taken) + 1)
    BY <1>2, TakeMade
  <2> HIDE DEF n
  <2> QED
    BY <1>2, <2>1
<1> HIDE DEF c, n, ins
<1>4. PICK N \in Nat : N = Len(n.code)
  BY <1>3, ListHas DEF WellMade
<1>5. Placed(ins, N + 1)
  <2>1. \A j \in DOMAIN n.taken : n.taken[j] \in 1 .. N + 1 - 1
    BY <1>3, <1>4 DEF WellMade
  <2> QED
    BY <1>1, <1>3, <2>1 DEF Placed, WellMade
<1> QED
  BY <1>1, <1>3, <1>4, <1>5, EmitMade

(* ... any of them at each pin of a node, one after the other: f is where   *)
(* lower stands behind each.                                                *)
Goes(g, m, i, pins, how, f) ==
    /\ f[0] = m
    /\ \A n \in 1 .. Len(pins) : f[n] = AtPin(g, f[n - 1], i, pins[n], how)
    /\ EachPin(g, m, i, pins, how) = f[Len(pins)]

LEMMA EachPinIs ==
  ASSUME NEW g, NEW m, NEW i, NEW pins, IsList(pins), NEW how
  PROVE  \E f : Goes(g, m, i, pins, how, f)
<1> DEFINE N == Len(pins)
           Step(x, n) == IF n = 0 THEN m ELSE AtPin(g, x, i, pins[n], how)
           Eq(f) == f = [n \in 0 .. N |-> Step(f[n - 1], n)]
           From(f, l) == DOMAIN f = 0 .. l /\ \A n \in 0 .. l : f[n] = Step(f[n - 1], n)
           P == {l \in 0 .. N : \E f : From(f, l)}
<1>0. N \in Nat
  BY ListHas
<1>s. \A x : Step(x, 0) = m
  OBVIOUS
<1>t. \A x : \A n \in 1 .. N : Step(x, n) = AtPin(g, x, i, pins[n], how)
  BY <1>0
<1>u. EachPin(g, m, i, pins, how) = (CHOOSE f : Eq(f))[N]
  BY DEF EachPin
<1> HIDE DEF N, Step, From, Eq, P
<1>1. 0 \in P
  <2> DEFINE f == [n \in {0} |-> m]
  <2>1. From(f, 0)
    BY <1>s DEF From
  <2> QED
    BY <1>0, <2>1 DEF P
<1>2. ASSUME NEW l \in 1 .. N, l - 1 \in P PROVE l \in P
  <2>1. PICK f : From(f, l - 1)
    BY <1>2 DEF P
  <2> DEFINE h == [n \in 0 .. l |-> IF n = l THEN Step(f[l - 1], l) ELSE f[n]]
  <2>2. From(h, l)
    <3>1. \A n \in 0 .. l - 1 : h[n] = f[n]
      BY <1>0
    <3>2. ASSUME NEW n \in 0 .. l PROVE h[n] = Step(h[n - 1], n)
      <4>1. CASE n = 0
        BY <1>s, <1>0, <2>1, <3>1, <4>1 DEF From
      <4>2. CASE n = l
        BY <1>0, <3>1, <4>2
      <4>3. CASE n # 0 /\ n # l
        <5>1. n - 1 \in 0 .. l - 1 /\ n \in 0 .. l - 1
          BY <1>0, <4>3
        <5> QED
          BY <2>1, <3>1, <5>1 DEF From
      <4> QED
        BY <4>1, <4>2, <4>3
    <3> QED
      BY <3>2 DEF From
  <2> QED
    BY <2>2 DEF P
<1>3. N \in P
  <2>1. \A n \in 0 .. N : n \in P
    BY <1>0, <1>1, <1>2, Upwards
  <2> QED
    BY <1>0, <2>1
<1>4. \E f : Eq(f)
  <2>1. PICK f : From(f, N)
    BY <1>3 DEF P
  <2> DEFINE h == [n \in 0 .. N |-> f[n]]
  <2>2. \A n \in 0 .. N : h[n] = Step(h[n - 1], n)
    <3>1. ASSUME NEW n \in 0 .. N, n # 0 PROVE h[n] = Step(h[n - 1], n)
      <4>1. n - 1 \in 0 .. N
        BY <1>0, <3>1
      <4> QED
        BY <2>1, <4>1 DEF From
    <3> QED
      BY <1>s, <1>0, <2>1, <3>1 DEF From
  <2>3. Eq(h)
    BY <2>2 DEF Eq
  <2> QED
    BY <2>3
<1> DEFINE f == CHOOSE f : Eq(f)
<1>5. Eq(f)
  BY <1>4, Zenon
<1> HIDE DEF f
<1>6. f[0] = m
  BY <1>0, <1>5, <1>s DEF Eq
<1>7. ASSUME NEW n \in 1 .. N PROVE f[n] = AtPin(g, f[n - 1], i, pins[n], how)
  <2>1. n \in 0 .. N
    BY <1>0
  <2> QED
    BY <1>5, <1>t, <2>1 DEF Eq
<1>8. EachPin(g, m, i, pins, how) = f[N]
  BY <1>u DEF f
<1>9. Goes(g, m, i, pins, how, f)
  BY <1>6, <1>7, <1>8 DEF Goes, N
<1> QED
  BY <1>9

LEMMA EachPinMade ==
  ASSUME NEW g, NEW m, WellMade(m), NEW i, NEW pins, IsList(pins), NEW how \in {"take", "put", "give"}
  PROVE  WellMade(EachPin(g, m, i, pins, how))
<1> DEFINE N == Len(pins)
<1>0. N \in Nat
  BY ListHas
<1>t. ASSUME NEW x, WellMade(x), NEW k PROVE WellMade(AtPin(g, x, i, k, how))
  <2>1. CASE how = "take"
    BY <1>t, <2>1, TakeMade DEF AtPin
  <2>2. CASE how = "put"
    BY <1>t, <2>2, PutMade DEF AtPin
  <2>3. CASE how = "give"
    BY <1>t, <2>3, GiveMade DEF AtPin
  <2> QED
    BY <2>1, <2>2, <2>3
<1>1. PICK f : Goes(g, m, i, pins, how, f)
  BY EachPinIs
<1>2. /\ f[0] = m /\ \A n \in 1 .. N : f[n] = AtPin(g, f[n - 1], i, pins[n], how)
      /\ EachPin(g, m, i, pins, how) = f[N]
  BY <1>1 DEF Goes
<1> HIDE DEF N
<1> DEFINE Q == {n \in 0 .. N : WellMade(f[n])}
<1>3. 0 \in Q
  BY <1>0, <1>2
<1>4. ASSUME NEW n \in 1 .. N, n - 1 \in Q PROVE n \in Q
  <2>1. n \in 0 .. N
    BY <1>0
  <2> QED
    BY <1>2, <1>4, <1>t, <2>1
<1> HIDE DEF Q
<1>5. \A n \in 0 .. N : n \in Q
  BY <1>0, <1>3, <1>4, Upwards
<1> QED
  BY <1>0, <1>2, <1>5 DEF Q

(* ... a visit of a side of a node, ...                                     *)
LEMMA VisitMade ==
  ASSUME NEW g, IsGraph(g), NEW v \in Sides(g), NEW m, WellMade(m)
  PROVE  WellMade(Visit(g, m, v))
<1> DEFINE i == NodeOf(v)
           ins == PinsOf(g, i, FALSE)
           outs == PinsOf(g, i, TRUE)
           e == [m EXCEPT !.taken = <<>>]
           n == EachPin(g, e, i, ins, "take")
<1>1. i \in Nodes(g) /\ g.nodes[i].hook \in BOOLEAN
  BY SideOfNode DEF IsGraph
<1>2. IsList(ins) /\ IsList(outs)
  BY <1>1, PinsList
<1>3. WellMade(e)
  <2>1. /\ e.code = m.code /\ e.of = m.of /\ e.taken = <<>> /\ e.ok = m.ok
        /\ e = [code |-> e.code, of |-> e.of, taken |-> e.taken, ok |-> e.ok]
    BY DEF WellMade
  <2> HIDE DEF e
  <2>2. IsList(e.taken) /\ DOMAIN e.taken = {}
    BY <2>1, Short
  <2> QED
    BY <2>1, <2>2 DEF WellMade
<1> HIDE DEF i, ins, outs, e
<1>4. WellMade(n)
  BY <1>2, <1>3, EachPinMade
<1> HIDE DEF n
<1>5. WellMade(EachPin(g, m, i, ins, "put")) /\ WellMade(EachPin(g, m, i, outs, "give"))
      /\ WellMade(EachPin(g, n, i, outs, "give"))
  BY <1>2, <1>4, EachPinMade
<1>6. Visit(g, m, v) = CASE ~m.ok -> m
          [] m.ok /\ g.nodes[i].hook /\ IsInSide(v) -> EachPin(g, m, i, ins, "put")
          [] m.ok /\ g.nodes[i].hook /\ ~IsInSide(v) -> EachPin(g, m, i, outs, "give")
          [] m.ok /\ ~g.nodes[i].hook /\ IsInSide(v) -> m
          [] m.ok /\ ~g.nodes[i].hook /\ ~IsInSide(v) -> EachPin(g, n, i, outs, "give")
  BY DEF Visit, i, ins, outs, n, e
<1> QED
  BY <1>5, <1>6

(* ... and the whole program of a graph that can be read: f is where lower  *)
(* stands behind each visit.                                                *)
Visits(g, f) ==
    /\ f[0] = Empty
    /\ \A n \in 1 .. Len(Schedule(g)) : f[n] = Visit(g, f[n - 1], Schedule(g)[n])
    /\ Lowered(g) = f[Len(Schedule(g))]

LEMMA LoweredIs ==
  ASSUME NEW g, IsGraph(g), Readable(g)
  PROVE  /\ Len(Schedule(g)) \in Nat /\ DOMAIN Schedule(g) = 1 .. Len(Schedule(g))
         /\ \A n \in 1 .. Len(Schedule(g)) : Schedule(g)[n] \in Sides(g)
         /\ \E f : Visits(g, f)
<1> DEFINE order_ == Schedule(g)
           N == Len(order_)
           Step(x, n) == IF n = 0 THEN Empty ELSE Visit(g, x, order_[n])
           Eq(f) == f = [n \in 0 .. N |-> Step(f[n - 1], n)]
           From(f, l) == DOMAIN f = 0 .. l /\ \A n \in 0 .. l : f[n] = Step(f[n - 1], n)
           P == {l \in 0 .. N : \E f : From(f, l)}
<1>u. Lowered(g) = (CHOOSE f : Eq(f))[N]
  BY DEF Lowered
<1>0. N \in Nat /\ DOMAIN order_ = 1 .. N /\ \A n \in 1 .. N : order_[n] \in Sides(g)
  <2> HIDE DEF order_, Sides
  <2>1. order_ \in Seq(Sides(g))
    BY ScheduleSides DEF order_
  <2> QED
    BY <2>1
<1> HIDE DEF order_, Sides
<1>s. \A x : Step(x, 0) = Empty
  OBVIOUS
<1>t. \A x : \A n \in 1 .. N : Step(x, n) = Visit(g, x, order_[n])
  BY <1>0
<1> HIDE DEF N, Step, From, Eq, P
<1>1. 0 \in P
  <2> DEFINE f == [n \in {0} |-> Empty]
  <2>1. From(f, 0)
    BY <1>s DEF From
  <2> QED
    BY <1>0, <2>1 DEF P
<1>2. ASSUME NEW l \in 1 .. N, l - 1 \in P PROVE l \in P
  <2>1. PICK f : From(f, l - 1)
    BY <1>2 DEF P
  <2> DEFINE h == [n \in 0 .. l |-> IF n = l THEN Step(f[l - 1], l) ELSE f[n]]
  <2>2. From(h, l)
    <3>1. \A n \in 0 .. l - 1 : h[n] = f[n]
      BY <1>0
    <3>2. ASSUME NEW n \in 0 .. l PROVE h[n] = Step(h[n - 1], n)
      <4>1. CASE n = 0
        BY <1>s, <1>0, <2>1, <3>1, <4>1 DEF From
      <4>2. CASE n = l
        BY <1>0, <3>1, <4>2
      <4>3. CASE n # 0 /\ n # l
        <5>1. n - 1 \in 0 .. l - 1 /\ n \in 0 .. l - 1
          BY <1>0, <4>3
        <5> QED
          BY <2>1, <3>1, <5>1 DEF From
      <4> QED
        BY <4>1, <4>2, <4>3
    <3> QED
      BY <3>2 DEF From
  <2> QED
    BY <2>2 DEF P
<1>3. N \in P
  <2>1. \A n \in 0 .. N : n \in P
    BY <1>0, <1>1, <1>2, Upwards
  <2> QED
    BY <1>0, <2>1
<1>4. \E f : Eq(f)
  <2>1. PICK f : From(f, N)
    BY <1>3 DEF P
  <2> DEFINE h == [n \in 0 .. N |-> f[n]]
  <2>2. \A n \in 0 .. N : h[n] = Step(h[n - 1], n)
    <3>1. ASSUME NEW n \in 0 .. N, n # 0 PROVE h[n] = Step(h[n - 1], n)
      <4>1. n - 1 \in 0 .. N
        BY <1>0, <3>1
      <4> QED
        BY <2>1, <4>1 DEF From
    <3> QED
      BY <1>s, <1>0, <2>1, <3>1 DEF From
  <2>3. Eq(h)
    BY <2>2 DEF Eq
  <2> QED
    BY <2>3
<1> DEFINE f == CHOOSE f : Eq(f)
<1>5. Eq(f)
  BY <1>4, Zenon
<1> HIDE DEF f
<1>6. f[0] = Empty
  BY <1>0, <1>5, <1>s DEF Eq
<1>7. ASSUME NEW n \in 1 .. N PROVE f[n] = Visit(g, f[n - 1], order_[n])
  <2>1. n \in 0 .. N
    BY <1>0
  <2> QED
    BY <1>5, <1>t, <2>1 DEF Eq
<1>8. Lowered(g) = f[N]
  BY <1>u DEF f
<1>9. Visits(g, f)
  BY <1>6, <1>7, <1>8 DEF Visits, N, order_
<1> QED
  BY <1>0, <1>9 DEF N, order_

LEMMA LoweredMade ==
  ASSUME NEW g, IsGraph(g), Readable(g)
  PROVE  WellMade(Lowered(g))
<1> DEFINE N == Len(Schedule(g))
<1>0. N \in Nat /\ \A n \in 1 .. N : Schedule(g)[n] \in Sides(g)
  BY LoweredIs
<1>1. PICK f : Visits(g, f)
  BY LoweredIs
<1>2. /\ f[0] = Empty /\ \A n \in 1 .. N : f[n] = Visit(g, f[n - 1], Schedule(g)[n])
      /\ Lowered(g) = f[N]
  BY <1>1 DEF Visits
<1> HIDE DEF N, Sides
<1> DEFINE Q == {n \in 0 .. N : WellMade(f[n])}
<1>3. 0 \in Q
  <2>1. WellMade(Empty)
    BY Short DEF Empty, WellMade, OneEach
  <2> QED
    BY <1>0, <1>2, <2>1
<1>4. ASSUME NEW n \in 1 .. N, n - 1 \in Q PROVE n \in Q
  <2>1. n \in 0 .. N
    BY <1>0
  <2> QED
    BY <1>0, <1>2, <1>4, <2>1, VisitMade
<1> HIDE DEF Q
<1>5. \A n \in 0 .. N : n \in Q
  BY <1>0, <1>3, <1>4, Upwards
<1> QED
  BY <1>0, <1>2, <1>5 DEF Q

-----------------------------------------------------------------------------
(* The schedule is a topological order of the graph, and the program that   *)
(* lower makes along it is the graph.                                       *)

(* No value twice.                                                          *)
Once(s) == \A m, n \in DOMAIN s : m # n => s[m] # s[n]

(* The elements at some places of a list are those, each once.              *)
EachOnce(s, P, f) ==
    /\ \A n \in 1 .. Cardinality(P) : f[n] \in P /\ AtPlaces(s, P)[n] = s[f[n]]
    /\ \A m, n \in 1 .. Cardinality(P) : f[m] = f[n] => m = n
    /\ \A p \in P : \E n \in 1 .. Cardinality(P) : f[n] = p

LEMMA AtPlacesEach ==
  ASSUME NEW s, IsList(s), NEW P \in SUBSET DOMAIN s
  PROVE  \E f : EachOnce(s, P, f)
<1> DEFINE Upto(p) == {j \in P : j <= p}
           C == Cardinality(P)
           at_(n) == CHOOSE p \in P : Cardinality(Upto(p)) = n
           f == [n \in 1 .. C |-> at_(n)]
<1>1. PICK N \in Nat : DOMAIN s = 1 .. N
  BY ListHas
<1>2. IsFiniteSet(P) /\ C \in Nat /\ \A p \in P : p \in Nat /\ p <= p
  <2>1. IsFiniteSet(1 .. N)
    BY FS_Interval
  <2> QED
    BY <1>1, <2>1, FS_Subset, FS_CardinalityType
<1>3. ASSUME NEW n \in 1 .. C PROVE at_(n) \in P /\ Cardinality(Upto(at_(n))) = n
  <2>1. \E p \in P : Cardinality(Upto(p)) = n
    BY <1>1, PlaceOfRank
  <2> QED
    BY <2>1, Zenon
<1>4. \A n \in 1 .. C : AtPlaces(s, P)[n] = s[at_(n)]
  BY DEF AtPlaces
<1> HIDE DEF at_, C
<1>5. f \in [1 .. C -> P] /\ \A n \in 1 .. C : f[n] = at_(n)
  BY <1>3
<1>6. \A m, n \in 1 .. C : f[m] = f[n] => m = n
  BY <1>3, <1>5
<1>7. ASSUME NEW p \in P PROVE \E n \in 1 .. C : f[n] = p
  <2> DEFINE n == Cardinality(Upto(p))
  <2>1. Upto(p) \in SUBSET P
    OBVIOUS
  <2>2. IsFiniteSet(Upto(p)) /\ n \in Nat /\ n <= C
    BY <1>2, <2>1, FS_Subset, FS_CardinalityType DEF C
  <2>3. n # 0
    <3>1. p \in Upto(p)
      BY <1>2
    <3> QED
      BY <2>2, <3>1, FS_EmptySet
  <2>4. n \in 1 .. C
    BY <1>2, <2>2, <2>3
  <2> DEFINE q == at_(n)
  <2>5. q \in P /\ Cardinality(Upto(q)) = n
    BY <1>3, <2>4
  <2>6. p \in Nat /\ q \in Nat
    BY <1>2, <2>5
  <2>7. Upto(q) \in SUBSET P /\ IsFiniteSet(Upto(q))
    BY <1>2, FS_Subset
  <2>8. Upto(p) = Upto(q)
    <3>1. CASE p <= q
      <4>1. \A j \in P : j <= p => j <= q
        BY <1>2, <2>6, <3>1
      <4>2. Upto(p) \in SUBSET Upto(q)
        BY <4>1
      <4> HIDE DEF Upto, q
      <4>3. Cardinality(Upto(q)) = Cardinality(Upto(p))
        BY <2>5
      <4> QED
        BY <2>7, <4>2, <4>3, FS_Subset
    <3>2. CASE q <= p
      <4>1. \A j \in P : j <= q => j <= p
        BY <1>2, <2>6, <3>2
      <4>2. Upto(q) \in SUBSET Upto(p)
        BY <4>1
      <4> HIDE DEF Upto, q
      <4>3. Cardinality(Upto(q)) = Cardinality(Upto(p))
        BY <2>5
      <4> QED
        BY <2>2, <4>2, <4>3, FS_Subset
    <3> QED
      BY <2>6, <3>1, <3>2
  <2>9. p <= q /\ q <= p
    <3>1. p \in Upto(p) /\ q \in Upto(q)
      BY <1>2, <2>5
    <3> HIDE DEF q
    <3> QED
      BY <2>8, <3>1
  <2>10. p = q
    BY <2>6, <2>9
  <2> QED
    BY <1>5, <2>4, <2>10
<1> HIDE DEF f
<1>8. EachOnce(s, P, f)
  BY <1>4, <1>5, <1>6, <1>7 DEF EachOnce, C
<1> QED
  BY <1>8

(* The pins of a node in one direction, each once.                          *)
LEMMA PinsAre ==
  ASSUME NEW g, IsGraph(g), NEW i \in Nodes(g), NEW out
  PROVE  /\ IsList(PinsOf(g, i, out)) /\ Once(PinsOf(g, i, out))
         /\ ToSet(PinsOf(g, i, out)) = {k \in DOMAIN g.nodes[i].pins : Pin(g, i, k).out = out}
<1> DEFINE all == [k \in DOMAIN g.nodes[i].pins |-> k]
           P == {k \in DOMAIN all : Pin(g, i, k).out = out}
           ps == PinsOf(g, i, out)
<1>1. IsList(ps)
  BY PinsList
<1>2. ps = AtPlaces(all, P)
  BY DEF PinsOf
<1>3. PICK N \in Nat : DOMAIN g.nodes[i].pins = 1 .. N
  BY ListHas DEF IsGraph
<1>4. IsList(all)
  <2>1. all \in [1 .. N -> 1 .. N]
    BY <1>3
  <2>2. all \in Seq(1 .. N)
    BY <2>1
  <2> HIDE DEF all
  <2> QED
    BY <2>2, ListIs
<1>5. P \in SUBSET DOMAIN all /\ \A p \in P : all[p] = p
  OBVIOUS
<1>6. P = {k \in DOMAIN g.nodes[i].pins : Pin(g, i, k).out = out}
  OBVIOUS
<1> HIDE DEF all, P, ps
<1>7. PICK f : EachOnce(all, P, f)
  BY <1>4, <1>5, AtPlacesEach
<1>8. DOMAIN ps = 1 .. Cardinality(P)
  BY <1>1, <1>2, <1>4, <1>5, AtPlacesList, ListHas
<1>9. \A n \in DOMAIN ps : ps[n] = f[n] /\ ps[n] \in P
  BY <1>2, <1>5, <1>7, <1>8 DEF EachOnce
<1>10. Once(ps)
  BY <1>7, <1>8, <1>9 DEF Once, EachOnce
<1>11. ToSet(ps) = P
  BY <1>7, <1>8, <1>9 DEF ToSet, EachOnce
<1> QED
  BY <1>1, <1>6, <1>10, <1>11 DEF ps

(* A side is the inputs or the outputs of its node.                         *)
LEMMA SidesAre ==
  ASSUME NEW g, IsGraph(g)
  PROVE  /\ \A i \in Nodes(g) : /\ NodeOf(InSide(i)) = i /\ NodeOf(OutSide(i)) = i
                                /\ IsInSide(InSide(i)) /\ ~IsInSide(OutSide(i))
         /\ \A v \in Sides(g) : IF IsInSide(v) THEN v = InSide(NodeOf(v))
                                ELSE v = OutSide(NodeOf(v))
<1>1. PICK N \in Nat : N = Len(g.nodes) /\ Nodes(g) = 1 .. N
  BY SideOfNode
<1>2. \A i \in 1 .. N : /\ (2 * i + 1) \div 2 = i /\ (2 * i) \div 2 = i
                        /\ (2 * i + 1) % 2 = 1 /\ (2 * i) % 2 # 1
  BY <1>1
<1>3. \A v \in 2 .. 2 * N + 1 : IF v % 2 = 1 THEN v = 2 * (v \div 2) + 1 ELSE v = 2 * (v \div 2)
  BY <1>1
<1> QED
  BY <1>1, <1>2, <1>3 DEF Sides, NodeOf, InSide, OutSide, IsInSide

(* The arcs into a side are as many as a number can say.                    *)
LEMMA ArcsAre ==
  ASSUME NEW g, IsGraph(g), Readable(g), NEW v
  PROVE  /\ \A a : a \in ArcsInto(g, v) <=>
               \E u \in Sides(g) : \E k \in DOMAIN After(g, u) : a = <<u, k>> /\ After(g, u)[k] = v
         /\ IsFiniteSet(ArcsInto(g, v)) /\ ArcsInto(g, v) \subseteq Sides(g) \X Nat
<1> DEFINE M == Len(g.edges) + 1
           A == ArcsInto(g, v)
<1>1. \A a : a \in A <=>
         \E u \in Sides(g) : \E k \in DOMAIN After(g, u) : a = <<u, k>> /\ After(g, u)[k] = v
  <2>1. A = UNION {{<<u, k>> : k \in {n \in DOMAIN After(g, u) : After(g, u)[n] = v}} :
                     u \in Sides(g)}
    BY VerticesAre DEF ArcsInto
  <2> HIDE DEF A, Sides, After
  <2>2. ASSUME NEW a, a \in A
        PROVE  \E u \in Sides(g) : \E k \in DOMAIN After(g, u) : a = <<u, k>> /\ After(g, u)[k] = v
    BY <2>1, <2>2
  <2>3. ASSUME NEW u \in Sides(g), NEW k \in DOMAIN After(g, u), After(g, u)[k] = v
        PROVE  <<u, k>> \in A
    BY <2>1, <2>3
  <2> QED
    BY <2>2, <2>3
<1>2. Len(g.edges) \in Nat /\ IsList(g.edges) /\ DOMAIN g.edges = 1 .. Len(g.edges)
  BY ListHas DEF IsGraph
<1>3. ASSUME NEW u \in Sides(g) PROVE DOMAIN After(g, u) \subseteq 1 .. M
  <2> DEFINE P == {n \in DOMAIN g.edges : g.edges[n].from = NodeOf(u)}
             from == AtPlaces(g.edges, P)
  <2>1. DOMAIN from \subseteq 1 .. M
    <3>1. P \in SUBSET DOMAIN g.edges
      OBVIOUS
    <3> HIDE DEF P
    <3>2. IsList(from) /\ Len(from) = Cardinality(P) /\ Cardinality(P) \in Nat
      BY <1>2, <3>1, AtPlacesList
    <3>3. Cardinality(P) <= Len(g.edges)
      <4>1. IsFiniteSet(1 .. Len(g.edges)) /\ Cardinality(1 .. Len(g.edges)) = Len(g.edges)
        BY <1>2, FS_Interval
      <4> QED
        BY <1>2, <3>1, <4>1, FS_Subset
    <3> HIDE DEF from
    <3>4. DOMAIN from = 1 .. Cardinality(P)
      BY <3>2, ListHas
    <3> QED
      BY <1>2, <3>2, <3>3, <3>4
  <2>2. \/ After(g, u) = <<>> \/ After(g, u) = <<OutSide(NodeOf(u))>>
        \/ After(g, u) = [n \in DOMAIN from |-> InSide(from[n].to)]
    BY DEF After
  <2> HIDE DEF from
  <2> QED
    BY <1>2, <2>1, <2>2
<1>4. A \subseteq Sides(g) \X (1 .. M)
  BY <1>1, <1>3
<1>5. IsFiniteSet(Sides(g)) /\ IsFiniteSet(1 .. M)
  BY <1>2, SideOfNode, FS_Interval DEF Sides
<1>6. IsFiniteSet(A)
  <2> HIDE DEF A, M, Sides
  <2>1. IsFiniteSet(Sides(g) \X (1 .. M))
    BY <1>5, FS_Product
  <2>2. A \in SUBSET (Sides(g) \X (1 .. M))
    BY <1>4
  <2> QED
    BY <2>1, <2>2, FS_Subset
<1>7. A \subseteq Sides(g) \X Nat
  BY <1>4
<1> QED
  BY <1>1, <1>6, <1>7

(* Where they come from: the outputs of a node that is no hook come after   *)
(* its inputs, and inputs after the outputs that drive them.                *)
LEMMA ArcsIntoOutputs ==
  ASSUME NEW g, IsGraph(g), Readable(g), NEW i \in Nodes(g)
  PROVE  /\ \A a \in ArcsInto(g, OutSide(i)) : ~g.nodes[i].hook /\ a[1] = InSide(i)
         /\ ~g.nodes[i].hook => \E a \in ArcsInto(g, OutSide(i)) : a[1] = InSide(i)
<1>0. g.nodes[i].hook \in BOOLEAN
  BY DEF IsGraph
<1>1. ASSUME NEW a \in ArcsInto(g, OutSide(i)) PROVE ~g.nodes[i].hook /\ a[1] = InSide(i)
  <2>a. PICK u \in Sides(g) :
          \E k \in DOMAIN After(g, u) : a = <<u, k>> /\ After(g, u)[k] = OutSide(i)
    BY ArcsAre
  <2>1. PICK k \in DOMAIN After(g, u) : a = <<u, k>> /\ After(g, u)[k] = OutSide(i)
    BY <2>a
  <2> DEFINE P == {n \in DOMAIN g.edges : g.edges[n].from = NodeOf(u)}
             from == AtPlaces(g.edges, P)
  <2>2. CASE ~IsInSide(u)
    <3>1. After(g, u) = [n \in DOMAIN from |-> InSide(from[n].to)]
      BY <2>2 DEF After
    <3>2. k \in DOMAIN from
      BY <3>1
    <3>3. P \in SUBSET DOMAIN g.edges /\ IsList(g.edges)
      BY DEF IsGraph
    <3> HIDE DEF P
    <3>4. PICK p \in P : from[k] = g.edges[p]
      BY <3>2, <3>3, AtPlacesList
    <3>5. g.edges[p].to \in Nodes(g)
      BY <3>3 DEF Readable, Connects
    <3> HIDE DEF from
    <3>6. OutSide(i) = InSide(g.edges[p].to)
      BY <2>1, <3>1, <3>2, <3>4
    <3> QED
      BY <3>5, <3>6, SidesAre
  <2>3. CASE IsInSide(u)
    <3>1. After(g, u) = IF g.nodes[NodeOf(u)].hook THEN <<>> ELSE <<OutSide(NodeOf(u))>>
      BY <2>3 DEF After
    <3>2. NodeOf(u) \in Nodes(g)
      BY SideOfNode
    <3>3. ~g.nodes[NodeOf(u)].hook /\ OutSide(NodeOf(u)) = OutSide(i)
      BY <2>1, <3>1
    <3>4. NodeOf(u) = i
      BY <3>2, <3>3, SidesAre
    <3>5. u = InSide(i)
      BY <2>3, <3>4, SidesAre
    <3> QED
      BY <2>1, <3>3, <3>4, <3>5
  <2> QED
    BY <2>2, <2>3
<1>2. ASSUME ~g.nodes[i].hook PROVE \E a \in ArcsInto(g, OutSide(i)) : a[1] = InSide(i)
  <2>1. InSide(i) \in Sides(g) /\ NodeOf(InSide(i)) = i /\ IsInSide(InSide(i))
    BY SideOfNode, SidesAre
  <2>2. After(g, InSide(i)) = <<OutSide(i)>>
    BY <1>2, <2>1 DEF After
  <2>3. 1 \in DOMAIN After(g, InSide(i)) /\ After(g, InSide(i))[1] = OutSide(i)
    BY <2>2
  <2>4. <<InSide(i), 1>> \in ArcsInto(g, OutSide(i))
    BY <2>1, <2>3, ArcsAre
  <2> QED
    BY <2>4
<1> QED
  BY <1>1, <1>2

LEMMA ArcsIntoInputs ==
  ASSUME NEW g, IsGraph(g), Readable(g)
  PROVE  /\ \A i \in Nodes(g) : \A a \in ArcsInto(g, InSide(i)) :
               \E n \in DOMAIN g.edges : g.edges[n].to = i /\ a[1] = OutSide(g.edges[n].from)
         /\ \A n \in DOMAIN g.edges :
               \E a \in ArcsInto(g, InSide(g.edges[n].to)) : a[1] = OutSide(g.edges[n].from)
<1>1. ASSUME NEW i \in Nodes(g), NEW a \in ArcsInto(g, InSide(i))
      PROVE  \E n \in DOMAIN g.edges : g.edges[n].to = i /\ a[1] = OutSide(g.edges[n].from)
  <2>a. PICK u \in Sides(g) :
          \E k \in DOMAIN After(g, u) : a = <<u, k>> /\ After(g, u)[k] = InSide(i)
    BY ArcsAre
  <2>1. PICK k \in DOMAIN After(g, u) : a = <<u, k>> /\ After(g, u)[k] = InSide(i)
    BY <2>a
  <2> DEFINE P == {n \in DOMAIN g.edges : g.edges[n].from = NodeOf(u)}
             from == AtPlaces(g.edges, P)
  <2>2. CASE ~IsInSide(u)
    <3>1. After(g, u) = [n \in DOMAIN from |-> InSide(from[n].to)]
      BY <2>2 DEF After
    <3>2. k \in DOMAIN from
      BY <3>1
    <3>3. P \in SUBSET DOMAIN g.edges /\ IsList(g.edges)
      BY DEF IsGraph
    <3>a. \A p \in P : g.edges[p].from = NodeOf(u)
      OBVIOUS
    <3> HIDE DEF P
    <3>4. PICK p \in P : from[k] = g.edges[p]
      BY <3>2, <3>3, AtPlacesList
    <3>5. g.edges[p].to \in Nodes(g)
      BY <3>3 DEF Readable, Connects
    <3> HIDE DEF from
    <3>6. InSide(i) = InSide(g.edges[p].to)
      BY <2>1, <3>1, <3>2, <3>4
    <3>7. g.edges[p].to = i
      BY <3>5, <3>6, SidesAre
    <3>8. u = OutSide(g.edges[p].from)
      BY <2>2, <3>a, SidesAre
    <3> QED
      BY <2>1, <3>3, <3>7, <3>8
  <2>3. CASE IsInSide(u)
    <3>1. After(g, u) = IF g.nodes[NodeOf(u)].hook THEN <<>> ELSE <<OutSide(NodeOf(u))>>
      BY <2>3 DEF After
    <3>2. NodeOf(u) \in Nodes(g)
      BY SideOfNode
    <3>3. OutSide(NodeOf(u)) = InSide(i)
      BY <2>1, <3>1
    <3> QED
      BY <3>2, <3>3, SidesAre
  <2> QED
    BY <2>2, <2>3
<1>2. ASSUME NEW n \in DOMAIN g.edges
      PROVE  \E a \in ArcsInto(g, InSide(g.edges[n].to)) : a[1] = OutSide(g.edges[n].from)
  <2> DEFINE j == g.edges[n].from
             u == OutSide(j)
             P == {m \in DOMAIN g.edges : g.edges[m].from = j}
             from == AtPlaces(g.edges, P)
  <2>1. j \in Nodes(g)
    BY DEF Readable, Connects
  <2>2. u \in Sides(g) /\ NodeOf(u) = j /\ ~IsInSide(u)
    BY <2>1, SideOfNode, SidesAre
  <2>3. P \in SUBSET DOMAIN g.edges /\ IsList(g.edges) /\ n \in P
    BY DEF IsGraph
  <2>4. After(g, u) = [m \in DOMAIN from |-> InSide(from[m].to)]
    BY <2>2 DEF After
  <2> HIDE DEF P, u, j
  <2>5. PICK f : EachOnce(g.edges, P, f)
    BY <2>3, AtPlacesEach
  <2>6. PICK k \in 1 .. Cardinality(P) : f[k] = n
    BY <2>3, <2>5 DEF EachOnce
  <2>7. from[k] = g.edges[n]
    BY <2>5, <2>6 DEF EachOnce
  <2>8. k \in DOMAIN from
    BY <2>3, AtPlacesList, ListHas
  <2> HIDE DEF from
  <2>9. k \in DOMAIN After(g, u) /\ After(g, u)[k] = InSide(g.edges[n].to)
    BY <2>4, <2>7, <2>8
  <2>10. <<u, k>> \in ArcsInto(g, InSide(g.edges[n].to))
    BY <2>2, <2>9, ArcsAre
  <2> QED
    BY <2>10 DEF u, j
<1> QED
  BY <1>1, <1>2

(* A list with one more at its end that it has not, and without its last.   *)
LEMMA OnceMore ==
  ASSUME NEW s, IsList(s), Once(s), NEW x, x \notin ToSet(s)
  PROVE  Once(Append(s, x)) /\ ToSet(Append(s, x)) = ToSet(s) \cup {x}
<1>1. PICK n \in Nat : n = Len(s) /\ DOMAIN s = 1 .. n
  BY ListHas
<1> DEFINE t == Append(s, x)
<1>2. /\ DOMAIN t = 1 .. n + 1 /\ \A k \in 1 .. n : t[k] = s[k]
      /\ t[n + 1] = x
  BY <1>1, Appended, ListHas
<1> HIDE DEF t
<1>3. \A k \in 1 .. n + 1 : k \in 1 .. n \/ k = n + 1
  BY <1>1
<1>4. \A k \in 1 .. n : k \in 1 .. n + 1
  BY <1>1
<1>5. n + 1 \in 1 .. n + 1
  BY <1>1
<1>6. \A k \in 1 .. n : t[k] # x
  BY <1>1, <1>2 DEF ToSet
<1>7. Once(t)
  <2>1. \A j, k \in 1 .. n : j # k => t[j] # t[k]
    BY <1>1, <1>2 DEF Once
  <2> QED
    BY <1>2, <1>3, <1>6, <2>1 DEF Once
<1>8. \A y : y \in ToSet(t) <=> y \in ToSet(s) \cup {x}
  BY <1>1, <1>2, <1>3, <1>4, <1>5 DEF ToSet
<1> QED
  BY <1>7, <1>8 DEF t

LEMMA OnceLess ==
  ASSUME NEW S, NEW s \in Seq(S), Once(s), s # <<>>
  PROVE  /\ Once(Front(s)) /\ Last(s) \notin ToSet(Front(s))
         /\ ToSet(s) = ToSet(Front(s)) \cup {Last(s)}
<1>1. PICK n \in Nat : n = Len(s) /\ DOMAIN s = 1 .. n /\ n # 0
  OBVIOUS
<1> DEFINE t == Front(s)
<1>2. DOMAIN t = 1 .. n - 1 /\ \A k \in 1 .. n - 1 : t[k] = s[k]
  BY <1>1 DEF Front
<1>3. Last(s) = s[n]
  BY <1>1 DEF Last
<1> HIDE DEF t
<1>4. \A k \in 1 .. n : k \in 1 .. n - 1 \/ k = n
  BY <1>1
<1>5. n \in 1 .. n /\ \A k \in 1 .. n - 1 : k \in 1 .. n /\ k # n
  BY <1>1
<1>6. Once(t)
  BY <1>1, <1>2, <1>5 DEF Once
<1>7. Last(s) \notin ToSet(t)
  BY <1>1, <1>2, <1>3, <1>5 DEF ToSet, Once
<1>8. \A y : y \in ToSet(s) <=> y \in ToSet(t) \cup {Last(s)}
  BY <1>1, <1>2, <1>3, <1>4, <1>5 DEF ToSet
<1> QED
  BY <1>6, <1>7, <1>8 DEF t

(* What the schedule keeps: a side waits for the arcs into it that are not  *)
(* past, and one that waits for none is in the order or ready, once.        *)
Waiting(g, s, past) ==
    /\ Scheduling(g, s) /\ DOMAIN s.waits = Sides(g)
    /\ \A v \in Sides(g) : s.waits[v] = Cardinality(ArcsInto(g, v) \ past)
    /\ \A v \in Sides(g) : s.waits[v] = 0 <=> v \in ToSet(s.order) \cup ToSet(s.ready)
    /\ Once(s.order) /\ Once(s.ready) /\ ToSet(s.order) \cap ToSet(s.ready) = {}

LEMMA ReleaseWaiting ==
  ASSUME NEW g, IsGraph(g), Readable(g), NEW s, NEW past, Waiting(g, s, past),
         NEW w \in Sides(g), NEW a, a \in ArcsInto(g, w), a \notin past
  PROVE  Waiting(g, Release(s, w), past \cup {a})
<1> DEFINE t == Release(s, w)
           left(v) == ArcsInto(g, v) \ past
<1>1. /\ t.order = s.order
      /\ t.ready = IF s.waits[w] = 1 THEN Append(s.ready, w) ELSE s.ready
      /\ t.waits = [s.waits EXCEPT ![w] = @ - 1]
  BY DEF Release
<1>2. Scheduling(g, t)
  BY ReleaseSides DEF Waiting
<1>3. /\ DOMAIN t.waits = Sides(g) /\ t.waits[w] = s.waits[w] - 1
      /\ \A v \in Sides(g) : v # w => t.waits[v] = s.waits[v]
  BY <1>1 DEF Waiting
<1> HIDE DEF t, Sides
<1>4. \A v : IsFiniteSet(left(v)) /\ Cardinality(left(v)) \in Nat
  <2> TAKE v
  <2>1. IsFiniteSet(ArcsInto(g, v)) /\ left(v) \in SUBSET ArcsInto(g, v)
    BY ArcsAre
  <2> HIDE DEF left
  <2> QED
    BY <2>1, FS_Subset, FS_CardinalityType
<1>5. \A v \in Sides(g) : v # w => a \notin ArcsInto(g, v)
  <2>1. PICK u \in Sides(g) : \E k \in DOMAIN After(g, u) : a = <<u, k>> /\ After(g, u)[k] = w
    BY ArcsAre
  <2>2. PICK k \in DOMAIN After(g, u) : a = <<u, k>> /\ After(g, u)[k] = w
    BY <2>1
  <2> SUFFICES ASSUME NEW v \in Sides(g), v # w, a \in ArcsInto(g, v) PROVE FALSE
    OBVIOUS
  <2>3. \E x \in Sides(g) : \E j \in DOMAIN After(g, x) : a = <<x, j>> /\ After(g, x)[j] = v
    BY ArcsAre
  <2> HIDE DEF After
  <2> QED
    BY <2>2, <2>3
<1>6. \A v \in Sides(g) : v # w => ArcsInto(g, v) \ (past \cup {a}) = left(v)
  BY <1>5
<1>7. ArcsInto(g, w) \ (past \cup {a}) = left(w) \ {a} /\ a \in left(w)
  OBVIOUS
<1>8. Cardinality(left(w) \ {a}) = Cardinality(left(w)) - 1 /\ Cardinality(left(w)) # 0
  <2> HIDE DEF left
  <2>1. Cardinality(left(w) \ {a}) = Cardinality(left(w)) - 1
    BY <1>4, <1>7, FS_RemoveElement
  <2>2. Cardinality(left(w)) # 0
    BY <1>4, <1>7, FS_EmptySet
  <2> QED
    BY <2>1, <2>2
<1>9. \A v \in Sides(g) : s.waits[v] = Cardinality(left(v))
  BY DEF Waiting
<1> HIDE DEF left
<1>10. \A v \in Sides(g) : t.waits[v] = Cardinality(ArcsInto(g, v) \ (past \cup {a}))
  BY <1>3, <1>6, <1>7, <1>8, <1>9
<1>11. s.waits[w] \in Nat \ {0} /\ w \notin ToSet(s.order) \cup ToSet(s.ready)
  <2>1. s.waits[w] \in Nat \ {0}
    BY <1>4, <1>8, <1>9
  <2> QED
    BY <2>1 DEF Waiting
<1>12. CASE s.waits[w] = 1
  <2>1. Once(t.ready) /\ ToSet(t.ready) = ToSet(s.ready) \cup {w}
    BY <1>1, <1>11, <1>12, OnceMore, ListIs DEF Waiting, Scheduling
  <2>2. t.waits[w] = 0
    BY <1>3, <1>12
  <2>3. \A v \in Sides(g) : t.waits[v] = 0 <=> v \in ToSet(t.order) \cup ToSet(t.ready)
    BY <1>1, <1>3, <2>1, <2>2 DEF Waiting
  <2>4. ToSet(t.order) \cap ToSet(t.ready) = {}
    BY <1>1, <1>11, <2>1 DEF Waiting
  <2> QED
    BY <1>1, <1>2, <1>3, <1>10, <2>1, <2>3, <2>4 DEF Waiting, t
<1>13. CASE s.waits[w] # 1
  <2>1. t.ready = s.ready
    BY <1>1, <1>13
  <2>2. t.waits[w] # 0
    BY <1>3, <1>11, <1>13
  <2>3. \A v \in Sides(g) : t.waits[v] = 0 <=> v \in ToSet(t.order) \cup ToSet(t.ready)
    BY <1>1, <1>3, <1>11, <2>1, <2>2 DEF Waiting
  <2> QED
    BY <1>1, <1>2, <1>3, <1>10, <2>1, <2>3 DEF Waiting, t
<1> QED
  BY <1>12, <1>13

(* An order in which each side stands behind those it comes after.          *)
Topological(g, order_) ==
    \A p \in DOMAIN order_ : \A a \in ArcsInto(g, order_[p]) :
        \E q \in 1 .. p - 1 : order_[q] = a[1]

Sorting(g, s) ==
    /\ Waiting(g, s, ToSet(s.order) \X Nat)
    /\ Topological(g, s.order)

LEMMA TakeLastSorting ==
  ASSUME NEW g, IsGraph(g), Readable(g), NEW s, Sorting(g, s), s.ready # <<>>
  PROVE  /\ Sorting(g, TakeLast(g, s))
         /\ TakeLast(g, s).order = Append(s.order, Last(s.ready))
<1> DEFINE u == Last(s.ready)
           after == After(g, u)
           first == [waits |-> s.waits, ready |-> Front(s.ready), order |-> Append(s.order, u)]
           N == Len(after)
           T == ToSet(s.order)
           past(n) == (T \X Nat) \cup ({u} \X (1 .. n))
           to == Append(s.order, u)
<1>a. Scheduling(g, s) /\ Waiting(g, s, T \X Nat)
  BY DEF Sorting, Waiting
<1>b. /\ u \in Sides(g) /\ Front(s.ready) \in Seq(Sides(g))
      /\ after \in Seq(Sides(g))
  BY <1>a, TakeLastIs
<1>c. /\ IsList(s.order) /\ Once(s.order) /\ Once(s.ready) /\ T \cap ToSet(s.ready) = {}
      /\ s.ready \in Seq(Sides(g)) /\ s.order \in Seq(Sides(g))
  BY <1>a, ListIs DEF Waiting, Scheduling
<1>d. /\ Once(Front(s.ready)) /\ u \notin ToSet(Front(s.ready))
      /\ ToSet(s.ready) = ToSet(Front(s.ready)) \cup {u}
  BY <1>c, OnceLess
<1>e. Once(to) /\ ToSet(to) = T \cup {u} /\ u \notin T
  BY <1>c, <1>d, OnceMore
<1>f. Waiting(g, first, past(0)) /\ first.order = to
  <2>1. /\ first = [waits |-> first.waits, order |-> first.order, ready |-> first.ready]
        /\ first.order = to /\ first.ready = Front(s.ready) /\ first.waits = s.waits
    OBVIOUS
  <2>2. past(0) = T \X Nat
    OBVIOUS
  <2> HIDE DEF first, Sides, u, past, T
  <2>3. to \in Seq(Sides(g))
    BY <1>b, <1>c
  <2> HIDE DEF to
  <2>4. Scheduling(g, first)
    BY <1>b, <2>1, <2>3 DEF Scheduling
  <2>5. \A v : v \in ToSet(first.order) \cup ToSet(first.ready) <=> v \in T \cup ToSet(s.ready)
    BY <1>d, <1>e, <2>1
  <2>6. ToSet(first.order) \cap ToSet(first.ready) = {}
    BY <1>c, <1>d, <1>e, <2>1
  <2>7. \A v \in Sides(g) : first.waits[v] = 0 <=> v \in ToSet(first.order) \cup ToSet(first.ready)
    BY <1>a, <2>1, <2>5 DEF Waiting, T
  <2>8. \A v \in Sides(g) : first.waits[v] = Cardinality(ArcsInto(g, v) \ past(0))
    BY <1>a, <2>1, <2>2 DEF Waiting
  <2> QED
    BY <1>a, <1>d, <1>e, <2>1, <2>4, <2>6, <2>7, <2>8 DEF Waiting
<1>0. N \in Nat /\ DOMAIN after = 1 .. N /\ \A n \in 1 .. N : after[n] \in Sides(g)
  BY <1>b
<1>1. PICK f : Releases(g, s, f)
  BY <1>a, TakeLastIs
<1>2. /\ f[0] = first /\ \A n \in 1 .. N : f[n] = Release(f[n - 1], after[n])
      /\ TakeLast(g, s) = f[N]
  BY <1>1 DEF Releases
<1>g. \A n \in 1 .. N : <<u, n>> \in ArcsInto(g, after[n])
  BY <1>0, <1>b, ArcsAre
<1>h. ASSUME NEW n \in 1 .. N
      PROVE  <<u, n>> \notin past(n - 1) /\ past(n - 1) \cup {<<u, n>>} = past(n)
  <2>1. n \notin 1 .. n - 1 /\ \A k : k \in 1 .. n <=> k \in 1 .. n - 1 \/ k = n
    BY <1>0
  <2> QED
    BY <1>e, <2>1
<1> HIDE DEF N, first, after, u, T, past, to, Sides
<1> DEFINE Q == {n \in 0 .. N : Waiting(g, f[n], past(n)) /\ f[n].order = to}
<1>3. 0 \in Q
  BY <1>0, <1>2, <1>f
<1>4. ASSUME NEW n \in 1 .. N, n - 1 \in Q PROVE n \in Q
  <2>1. n \in 0 .. N
    BY <1>0
  <2>2. Waiting(g, f[n - 1], past(n - 1)) /\ f[n - 1].order = to
    BY <1>4
  <2>3. Waiting(g, Release(f[n - 1], after[n]), past(n - 1) \cup {<<u, n>>})
    BY <1>0, <1>g, <1>h, <2>2, ReleaseWaiting
  <2>4. Release(f[n - 1], after[n]).order = f[n - 1].order
    BY DEF Release
  <2> QED
    BY <1>2, <1>h, <2>1, <2>2, <2>3, <2>4
<1> HIDE DEF Q
<1>5. N \in Q
  <2>1. \A n \in 0 .. N : n \in Q
    BY <1>0, <1>3, <1>4, Upwards
  <2> QED
    BY <1>0, <2>1
<1> DEFINE t == TakeLast(g, s)
<1>6. Waiting(g, t, past(N)) /\ t.order = to
  BY <1>2, <1>5 DEF Q
<1> HIDE DEF t
<1>7. ASSUME NEW v PROVE ArcsInto(g, v) \ past(N) = ArcsInto(g, v) \ ((T \cup {u}) \X Nat)
  <2>1. \A a \in ArcsInto(g, v) : a[1] = u => a \in {u} \X (1 .. N)
    <3> SUFFICES ASSUME NEW a \in ArcsInto(g, v), a[1] = u PROVE a \in {u} \X (1 .. N)
      OBVIOUS
    <3>1. PICK x \in Sides(g) : \E k \in DOMAIN After(g, x) : a = <<x, k>> /\ After(g, x)[k] = v
      BY ArcsAre
    <3>2. PICK k \in DOMAIN After(g, x) : a = <<x, k>>
      BY <3>1
    <3>3. x = u
      BY <3>2
    <3> QED
      BY <1>0, <3>2, <3>3 DEF after
  <2>2. ArcsInto(g, v) \subseteq Sides(g) \X Nat
    BY ArcsAre
  <2>3. 1 .. N \subseteq Nat
    BY <1>0
  <2>4. \A a \in Sides(g) \X Nat : a[2] \in Nat /\ a = <<a[1], a[2]>>
    OBVIOUS
  <2> QED
    BY <2>1, <2>2, <2>3, <2>4 DEF past
<1>8. Waiting(g, t, ToSet(t.order) \X Nat)
  BY <1>6, <1>7, <1>e DEF Waiting
<1>9. Topological(g, t.order)
  <2>1. PICK n \in Nat : n = Len(s.order) /\ DOMAIN s.order = 1 .. n
    BY <1>c, ListHas
  <2>2. DOMAIN to = 1 .. n + 1 /\ (\A k \in 1 .. n : to[k] = s.order[k]) /\ to[n + 1] = u
    BY <1>c, <2>1, Appended, ListHas DEF to
  <2>3. \A k \in 1 .. n + 1 : k \in 1 .. n \/ k = n + 1
    BY <2>1
  <2>4. ASSUME NEW p \in 1 .. n, NEW a \in ArcsInto(g, to[p])
        PROVE  \E q \in 1 .. p - 1 : to[q] = a[1]
    <3>1. PICK q \in 1 .. p - 1 : s.order[q] = a[1]
      BY <2>1, <2>2 DEF Sorting, Topological
    <3>2. q \in 1 .. n
      BY <2>1
    <3> QED
      BY <2>2, <3>1, <3>2
  <2>5. ASSUME NEW a \in ArcsInto(g, u) PROVE \E q \in 1 .. n : to[q] = a[1]
    <3>1. u \in ToSet(s.ready)
      BY <1>d
    <3>2. Cardinality(ArcsInto(g, u) \ (T \X Nat)) = 0
      BY <1>a, <1>b, <3>1 DEF Waiting
    <3>3. IsFiniteSet(ArcsInto(g, u) \ (T \X Nat))
      <4>1. IsFiniteSet(ArcsInto(g, u)) /\ (ArcsInto(g, u) \ (T \X Nat)) \in SUBSET ArcsInto(g, u)
        BY ArcsAre
      <4> QED
        BY <4>1, FS_Subset
    <3>4. a \in T \X Nat
      BY <3>2, <3>3, FS_EmptySet
    <3>5. a[1] \in T
      BY <3>4
    <3> QED
      BY <2>1, <2>2, <3>5 DEF T, ToSet
  <2>6. n + 1 - 1 = n
    BY <2>1
  <2> QED
    BY <1>6, <2>2, <2>3, <2>4, <2>5, <2>6 DEF Topological
<1> QED
  BY <1>6, <1>8, <1>9 DEF Sorting, t, to, u

(* The schedule begins so, ...                                              *)
LEMMA BeginningSorting ==
  ASSUME NEW g, IsGraph(g), Readable(g)
  PROVE  Sorting(g, Beginning(g)) /\ Beginning(g).order = <<>>
<1> DEFINE s == Beginning(g)
           waits == [v \in ToSet(Vertices(g)) |-> InDegree(g, v)]
           V == Vertices(g)
           R == {n \in DOMAIN V : waits[n + 1] = 0}
<1>1. s.order = <<>> /\ s.ready = AtPlaces(V, R) /\ s.waits = waits
  BY DEF Beginning
<1>2. Scheduling(g, s)
  BY BeginningSides
<1>3. /\ V \in Seq(Sides(g)) /\ ToSet(V) = Sides(g)
      /\ \A n \in DOMAIN V : V[n] = n + 1 /\ n \in Nat
      /\ \A v \in Sides(g) : v - 1 \in DOMAIN V /\ v \in Nat /\ (v - 1) + 1 = v
  <2>1. \A v \in Sides(g) : v \in Nat /\ (v - 1) + 1 = v
    BY SideOfNode DEF Sides
  <2>2. \A n \in DOMAIN V : n \in Nat
    <3>1. PICK N \in Nat : N = 2 * Len(g.nodes)
      BY SideOfNode
    <3>2. DOMAIN V = 1 .. N
      BY <3>1, VerticesAre
    <3> HIDE DEF V
    <3> QED
      BY <3>1, <3>2
  <2> QED
    BY <2>1, <2>2, VerticesAre
<1>4. DOMAIN waits = Sides(g) /\ \A v \in Sides(g) : waits[v] = Cardinality(ArcsInto(g, v))
  BY <1>3 DEF InDegree
<1>5. R \in SUBSET DOMAIN V /\ \A n \in R : waits[n + 1] = 0
  OBVIOUS
<1>6. \A v \in Sides(g) : waits[v] = 0 => v - 1 \in R /\ V[v - 1] = v
  BY <1>3
<1> HIDE DEF s, waits, V, R, Sides
<1>7. IsList(V)
  BY <1>3, ListIs
<1>8. PICK f : EachOnce(V, R, f)
  BY <1>5, <1>7, AtPlacesEach
<1>9. DOMAIN s.ready = 1 .. Cardinality(R)
  BY <1>1, <1>5, <1>7, AtPlacesList, ListHas
<1>10. \A n \in DOMAIN s.ready : f[n] \in R /\ s.ready[n] = f[n] + 1 /\ f[n] \in Nat
  BY <1>1, <1>3, <1>5, <1>8, <1>9 DEF EachOnce
<1>11. Once(s.ready)
  <2>1. \A m, n \in DOMAIN s.ready : m # n => f[m] # f[n]
    BY <1>8, <1>9 DEF EachOnce
  <2>2. \A m, n \in DOMAIN s.ready : m # n => s.ready[m] # s.ready[n]
    BY <1>10, <2>1
  <2> QED
    BY <2>2 DEF Once
<1>12. \A v \in Sides(g) : waits[v] = 0 <=> v \in ToSet(s.ready)
  <2>1. ASSUME NEW v \in Sides(g), waits[v] = 0 PROVE v \in ToSet(s.ready)
    <3>1. v - 1 \in R
      BY <1>6, <2>1
    <3>2. PICK n \in DOMAIN s.ready : f[n] = v - 1
      BY <1>8, <1>9, <3>1 DEF EachOnce
    <3>3. s.ready[n] = v
      BY <1>3, <1>10, <3>2
    <3> QED
      BY <3>3 DEF ToSet
  <2>2. ASSUME NEW v \in Sides(g), v \in ToSet(s.ready) PROVE waits[v] = 0
    <3>1. PICK n \in DOMAIN s.ready : v = s.ready[n]
      BY <2>2 DEF ToSet
    <3> QED
      BY <1>5, <1>10, <3>1
  <2> QED
    BY <2>1, <2>2
<1>13. ToSet(s.order) = {} /\ DOMAIN s.order = {}
  BY <1>1 DEF ToSet
<1>14. \A v : ArcsInto(g, v) \ (ToSet(s.order) \X Nat) = ArcsInto(g, v)
  BY <1>13
<1>15. Waiting(g, s, ToSet(s.order) \X Nat)
  BY <1>1, <1>2, <1>4, <1>11, <1>12, <1>13, <1>14 DEF Waiting, Once
<1>16. Topological(g, s.order)
  BY <1>13 DEF Topological
<1> QED
  BY <1>1, <1>15, <1>16 DEF Sorting, s

(* Among nodes each of which comes after another of them there is a cycle.  *)
LEMMA EachAfterOne ==
  ASSUME NEW g, NEW W \in SUBSET {i \in Nodes(g) : ~g.nodes[i].hook}, IsFiniteSet(W), W # {},
         \A i \in W : \E n \in DOMAIN g.edges : g.edges[n].to = i /\ g.edges[n].from \in W
  PROVE  Cyclic(g)
<1> DEFINE Closed(V) == /\ V # {}
                        /\ \A i \in V : \E n \in DOMAIN g.edges :
                              g.edges[n].to = i /\ g.edges[n].from \in V
           Sizes == {Cardinality(V) : V \in {V \in SUBSET W : Closed(V)}}
<1>1. \A V \in SUBSET W : IsFiniteSet(V) /\ Cardinality(V) \in Nat
  BY FS_Subset, FS_CardinalityType
<1>2. Sizes \in SUBSET Nat /\ Sizes # {}
  <2>1. Closed(W) /\ W \in SUBSET W
    OBVIOUS
  <2> HIDE DEF Closed
  <2> QED
    BY <1>1, <2>1
<1>3. PICK z \in Sizes : \A y \in Sizes : z <= y
  <2> HIDE DEF Sizes
  <2> QED
    BY <1>2, Least
<1>4. PICK V \in SUBSET W : Closed(V) /\ z = Cardinality(V)
  OBVIOUS
<1>5. SUFFICES ASSUME NEW x \in V,
                      ~ \E n \in DOMAIN g.edges : g.edges[n].from = x /\ g.edges[n].to \in V
               PROVE  FALSE
  BY <1>4 DEF Cyclic
<1>6. Closed(V \ {x})
  <2>1. PICK n \in DOMAIN g.edges : g.edges[n].to = x /\ g.edges[n].from \in V
    BY <1>4
  <2>2. g.edges[n].from # x
    BY <1>5, <2>1
  <2>3. ASSUME NEW i \in V \ {x}
        PROVE  \E m \in DOMAIN g.edges : g.edges[m].to = i /\ g.edges[m].from \in V \ {x}
    <3>1. PICK m \in DOMAIN g.edges : g.edges[m].to = i /\ g.edges[m].from \in V
      BY <1>4
    <3>2. g.edges[m].from # x
      BY <1>5, <3>1
    <3> QED
      BY <3>1, <3>2
  <2> QED
    BY <2>1, <2>2, <2>3
<1> HIDE DEF Closed
<1>7. Cardinality(V \ {x}) \in Sizes
  BY <1>6
<1>8. Cardinality(V \ {x}) = Cardinality(V) - 1
  BY <1>1, FS_RemoveElement
<1>9. Cardinality(V) \in Nat
  BY <1>1
<1> HIDE DEF Sizes
<1> QED
  BY <1>3, <1>4, <1>7, <1>8, <1>9

(* When nothing is ready any more, nothing waits in a graph without a cycle.*)
LEMMA NothingWaits ==
  ASSUME NEW g, IsGraph(g), Readable(g), ~Cyclic(g), NEW s, Sorting(g, s), s.ready = <<>>
  PROVE  ToSet(s.order) = Sides(g)
<1> DEFINE T == ToSet(s.order)
           W == {i \in Nodes(g) : ~g.nodes[i].hook /\ OutSide(i) \notin T}
<1>1. Waiting(g, s, T \X Nat) /\ ToSet(s.ready) = {}
  BY DEF Sorting, ToSet
<1>2. T \subseteq Sides(g)
  <2> HIDE DEF Sides
  <2>1. s.order \in Seq(Sides(g))
    BY <1>1 DEF Waiting, Scheduling
  <2> QED
    BY <2>1 DEF ToSet
<1>3. SUFFICES ASSUME NEW w \in Sides(g), w \notin T PROVE FALSE
  BY <1>2
<1> HIDE DEF T, Sides
<1>4. ASSUME NEW v \in Sides(g), v \notin T
      PROVE  \E a \in ArcsInto(g, v) : a[1] \in Sides(g) /\ a[1] \notin T
  <2>1. s.waits[v] # 0
    BY <1>1, <1>4 DEF Waiting, T
  <2>2. Cardinality(ArcsInto(g, v) \ (T \X Nat)) # 0
    BY <1>1, <2>1 DEF Waiting
  <2>3. PICK a : a \in ArcsInto(g, v) \ (T \X Nat)
    BY <2>2, FS_EmptySet
  <2>4. a \in Sides(g) \X Nat
    BY <2>3, ArcsAre
  <2> QED
    BY <2>3, <2>4
<1>5. ASSUME NEW i \in Nodes(g), InSide(i) \notin T
      PROVE  \E n \in DOMAIN g.edges : g.edges[n].to = i /\ g.edges[n].from \in W
  <2>1. PICK a \in ArcsInto(g, InSide(i)) : a[1] \in Sides(g) /\ a[1] \notin T
    BY <1>4, <1>5, SideOfNode
  <2>2. PICK n \in DOMAIN g.edges : g.edges[n].to = i /\ a[1] = OutSide(g.edges[n].from)
    BY ArcsIntoInputs
  <2>3. g.edges[n].from \in Nodes(g)
    BY DEF Readable, Connects
  <2>4. PICK b \in ArcsInto(g, OutSide(g.edges[n].from)) : b[1] \notin T
    BY <1>4, <2>1, <2>2
  <2>5. ~g.nodes[g.edges[n].from].hook
    BY <2>3, <2>4, ArcsIntoOutputs
  <2> QED
    BY <2>1, <2>2, <2>3, <2>5
<1>6. ASSUME NEW i \in Nodes(g), OutSide(i) \notin T
      PROVE  InSide(i) \notin T /\ ~g.nodes[i].hook
  <2>1. PICK b \in ArcsInto(g, OutSide(i)) : b[1] \notin T
    BY <1>4, <1>6, SideOfNode
  <2> QED
    BY <2>1, ArcsIntoOutputs
<1>7. \A i \in W : \E n \in DOMAIN g.edges : g.edges[n].to = i /\ g.edges[n].from \in W
  BY <1>5, <1>6
<1>8. W # {}
  <2>1. NodeOf(w) \in Nodes(g)
    BY <1>3, SideOfNode
  <2>2. CASE IsInSide(w)
    <3>1. InSide(NodeOf(w)) \notin T
      BY <1>3, <2>2, SidesAre
    <3> QED
      BY <1>5, <2>1, <3>1
  <2>3. CASE ~IsInSide(w)
    <3>1. OutSide(NodeOf(w)) \notin T
      BY <1>3, <2>3, SidesAre
    <3> QED
      BY <1>6, <2>1, <3>1
  <2> QED
    BY <2>2, <2>3
<1>9. IsFiniteSet(W)
  <2>1. IsFiniteSet(Nodes(g))
    BY SideOfNode, FS_Interval
  <2>2. W \in SUBSET Nodes(g)
    OBVIOUS
  <2> HIDE DEF W
  <2> QED
    BY <2>1, <2>2, FS_Subset
<1>10. W \in SUBSET {i \in Nodes(g) : ~g.nodes[i].hook}
  OBVIOUS
<1> HIDE DEF W
<1> QED
  BY <1>7, <1>8, <1>9, <1>10, EachAfterOne

(* The schedule puts each side behind those it comes after, no side twice,  *)
(* and none away but in a cycle.                                            *)
LEMMA ScheduleSorted ==
  ASSUME NEW g, IsGraph(g), Readable(g)
  PROVE  /\ Topological(g, Schedule(g)) /\ Once(Schedule(g))
         /\ ~Cyclic(g) => ToSet(Schedule(g)) = Sides(g)
<1> DEFINE N == 2 * Len(g.nodes)
<1>0. N \in Nat
  BY SideOfNode
<1>1. PICK f : Schedules(g, f)
  BY ScheduleIs
<1>2. /\ f[0] = Beginning(g) /\ \A n \in 1 .. N : f[n] = TakeLast(g, f[n - 1])
      /\ Schedule(g) = f[N].order
  BY <1>1 DEF Schedules
<1>a. IsFiniteSet(Sides(g)) /\ Cardinality(Sides(g)) = N
  <2>1. Sides(g) = 2 .. N + 1
    BY DEF Sides
  <2> HIDE DEF N
  <2> QED
    BY <1>0, <2>1, FS_Interval
<1> HIDE DEF N, Sides
<1> DEFINE Q == {n \in 0 .. N : /\ Sorting(g, f[n])
                                /\ f[n].ready # <<>> => Len(f[n].order) = n}
<1>3. 0 \in Q
  <2>1. Sorting(g, f[0]) /\ Len(f[0].order) = 0
    BY <1>2, BeginningSorting
  <2> QED
    BY <1>0, <2>1
<1>4. ASSUME NEW n \in 1 .. N, n - 1 \in Q PROVE n \in Q
  <2>1. n \in 0 .. N /\ n - 1 + 1 = n
    BY <1>0
  <2> DEFINE s == f[n - 1]
  <2>2. Sorting(g, s) /\ (s.ready # <<>> => Len(s.order) = n - 1)
    BY <1>4
  <2>3. f[n] = TakeLast(g, s)
    BY <1>2
  <2> HIDE DEF s
  <2>4. CASE s.ready = <<>>
    <3>1. f[n] = s
      BY <2>3, <2>4 DEF TakeLast
    <3> QED
      BY <2>1, <2>2, <2>4, <3>1
  <2>5. CASE s.ready # <<>>
    <3>1. Sorting(g, f[n]) /\ f[n].order = Append(s.order, Last(s.ready))
      BY <2>2, <2>3, <2>5, TakeLastSorting
    <3>2. IsList(s.order)
      BY <2>2, ListIs DEF Sorting, Waiting, Scheduling
    <3>3. Len(f[n].order) = Len(s.order) + 1
      BY <3>1, <3>2, Appended
    <3> QED
      BY <2>1, <2>2, <2>5, <3>1, <3>3
  <2> QED
    BY <2>4, <2>5
<1> HIDE DEF Q
<1>5. N \in Q
  <2>1. \A n \in 0 .. N : n \in Q
    BY <1>0, <1>3, <1>4, Upwards
  <2> QED
    BY <1>0, <2>1
<1> DEFINE s == f[N]
<1>6. Sorting(g, s) /\ (s.ready # <<>> => Len(s.order) = N)
  BY <1>5 DEF Q
<1> HIDE DEF s
<1>7. /\ s.order \in Seq(Sides(g)) /\ s.ready \in Seq(Sides(g)) /\ Once(s.order)
      /\ ToSet(s.order) \cap ToSet(s.ready) = {}
  BY <1>6 DEF Sorting, Waiting, Scheduling
<1>8. s.ready = <<>>
  <2> SUFFICES ASSUME s.ready # <<>> PROVE FALSE
    OBVIOUS
  <2>1. s.order \in [1 .. N -> Sides(g)]
    BY <1>6, <1>7
  <2>2. s.order \in Injection(1 .. N, Sides(g))
    BY <1>7, <2>1 DEF Injection, IsInjective, Once
  <2>3. Cardinality(1 .. N) = N
    BY <1>0, FS_Interval
  <2>4. s.order \in Surjection(1 .. N, Sides(g))
    BY <1>a, <2>2, <2>3, FS_Injection
  <2>5. Last(s.ready) \in Sides(g) /\ Last(s.ready) \in ToSet(s.ready)
    BY <1>7 DEF Last, ToSet
  <2>6. Last(s.ready) \in ToSet(s.order)
    BY <2>1, <2>4, <2>5 DEF Surjection, ToSet
  <2> QED
    BY <1>7, <2>5, <2>6
<1>9. ~Cyclic(g) => ToSet(s.order) = Sides(g)
  BY <1>6, <1>8, NothingWaits
<1> QED
  BY <1>2, <1>6, <1>7, <1>9 DEF Sorting, s

(* Where an input pin has its value from: its driver or its default.        *)
SourceOf(g, m, i, k, u) ==
    LET d == Driver(g, i, k)
        p == Pin(g, i, k)
    IN  IF d # <<>>
        THEN <<d[1].from, d[1].fpin>> \in DOMAIN m.of /\ u = m.of[d[1].from, d[1].fpin]
        ELSE /\ p.default # <<>> /\ u \in DOMAIN m.code
             /\ m.code[u] = Instruction("const", "none", p, <<>>, p.default[1])

(* What gives an output pin its value: of a hook the firmware, of a         *)
(* primitive a call with the sources of its inputs, in their order.         *)
Gets(g, m, i, taken) ==
    LET ins == PinsOf(g, i, FALSE)
    IN  Len(taken) = Len(ins) /\ \A j \in DOMAIN ins : SourceOf(g, m, i, ins[j], taken[j])
GivenBy(g, m, i, k, c) ==
    IF g.nodes[i].hook
    THEN c = Instruction("input", g.nodes[i].symbol, Pin(g, i, k), <<>>, 0)
    ELSE \E taken : /\ c = Instruction("call", g.nodes[i].symbol, Pin(g, i, k), taken, 0)
                    /\ Gets(g, m, i, taken)

(* What stores the source of an input pin of a hook.                        *)
StoreOf(g, m, i, k, c) ==
    \E u : /\ c = Instruction("store", g.nodes[i].symbol, Pin(g, i, k), <<u>>, 0)
           /\ SourceOf(g, m, i, k, u)

(* Each value given is of an output pin, each store of an input pin of a    *)
(* hook, with its sources.                                                  *)
OfPin(g, m, o) ==
    \E i \in Nodes(g) : \E k \in ToSet(PinsOf(g, i, TRUE)) :
        o = <<i, k>> /\ GivenBy(g, m, i, k, m.code[m.of[o]])
OfHook(g, m, c) ==
    \E i \in Nodes(g) : g.nodes[i].hook
        /\ \E k \in ToSet(PinsOf(g, i, FALSE)) : StoreOf(g, m, i, k, c)
Wired(g, m) ==
    /\ \A o \in DOMAIN m.of : OfPin(g, m, o)
    /\ \A v \in DOMAIN m.code : m.code[v].op = "store" => OfHook(g, m, m.code[v])

(* lower goes on to t: what it has made and given stays.                    *)
Grows(m, t) ==
    /\ \A v \in DOMAIN m.code : v \in DOMAIN t.code /\ t.code[v] = m.code[v]
    /\ \A o \in DOMAIN m.of : o \in DOMAIN t.of /\ t.of[o] = m.of[o]

LEMMA GrowsOn ==
  /\ \A m : Grows(m, m)
  /\ \A l, m, n : Grows(l, m) /\ Grows(m, n) => Grows(l, n)
BY DEF Grows

LEMMA SourceStays ==
  ASSUME NEW g, NEW m, NEW t, Grows(m, t)
  PROVE  /\ \A i, k, u : SourceOf(g, m, i, k, u) => SourceOf(g, t, i, k, u)
         /\ \A i, taken : Gets(g, m, i, taken) => Gets(g, t, i, taken)
         /\ \A i, k, c : GivenBy(g, m, i, k, c) => GivenBy(g, t, i, k, c)
         /\ \A i, k, c : StoreOf(g, m, i, k, c) => StoreOf(g, t, i, k, c)
         /\ \A c : OfHook(g, m, c) => OfHook(g, t, c)
<1>1. ASSUME NEW i, NEW k, NEW u, SourceOf(g, m, i, k, u) PROVE SourceOf(g, t, i, k, u)
  BY <1>1, Zenon DEF SourceOf, Grows
<1>2. \A i, taken : Gets(g, m, i, taken) => Gets(g, t, i, taken)
  BY <1>1 DEF Gets
<1>3. ASSUME NEW i, NEW k, NEW c, GivenBy(g, m, i, k, c) PROVE GivenBy(g, t, i, k, c)
  <2>1. CASE g.nodes[i].hook
    BY <1>3, <2>1 DEF GivenBy
  <2>2. CASE ~g.nodes[i].hook
    <3>1. PICK taken : /\ c = Instruction("call", g.nodes[i].symbol, Pin(g, i, k), taken, 0)
                       /\ Gets(g, m, i, taken)
      BY <1>3, <2>2 DEF GivenBy
    <3> QED
      BY <1>2, <2>2, <3>1 DEF GivenBy
  <2> QED
    BY <2>1, <2>2
<1>4. \A i, k, c : StoreOf(g, m, i, k, c) => StoreOf(g, t, i, k, c)
  BY <1>1 DEF StoreOf
<1>5. \A c : OfHook(g, m, c) => OfHook(g, t, c)
  BY <1>4 DEF OfHook
<1> QED
  BY <1>1, <1>2, <1>3, <1>4, <1>5

(* One more instruction, ...                                                *)
LEMMA EmitGrows ==
  ASSUME NEW m, WellMade(m), NEW ins
  PROVE  LET t == Emit(m, ins)
         IN  /\ t.of = m.of /\ t.taken = m.taken /\ t.ok = m.ok
             /\ t = [code |-> t.code, of |-> t.of, taken |-> t.taken, ok |-> t.ok]
             /\ Grows(m, t)
             /\ Len(m.code) + 1 \in DOMAIN t.code /\ t.code[Len(m.code) + 1] = ins
             /\ \A v \in DOMAIN t.code : v \in DOMAIN m.code \/ v = Len(m.code) + 1
<1> DEFINE t == Emit(m, ins)
<1>1. /\ t.code = Append(m.code, ins) /\ t.of = m.of /\ t.taken = m.taken /\ t.ok = m.ok
      /\ t = [code |-> t.code, of |-> t.of, taken |-> t.taken, ok |-> t.ok]
  BY DEF Emit, WellMade
<1> HIDE DEF t
<1>2. PICK N \in Nat : N = Len(m.code) /\ DOMAIN m.code = 1 .. N
  BY ListHas DEF WellMade
<1>3. /\ DOMAIN t.code = 1 .. N + 1 /\ \A k \in 1 .. N : t.code[k] = m.code[k]
      /\ t.code[N + 1] = ins
  BY <1>1, <1>2, Appended, ListHas DEF WellMade
<1>4. N + 1 \in 1 .. N + 1 /\ (\A v \in 1 .. N : v \in 1 .. N + 1)
      /\ \A v \in 1 .. N + 1 : v \in 1 .. N \/ v = N + 1
  BY <1>2
<1>5. Grows(m, t)
  BY <1>1, <1>2, <1>3, <1>4 DEF Grows
<1> QED
  BY <1>1, <1>2, <1>3, <1>4, <1>5 DEF t

(* ... that is no store, or the store of a pin, ...                         *)
LEMMA MoreWired ==
  ASSUME NEW g, NEW m, WellMade(m), Wired(g, m), NEW t, Grows(m, t),
         DOMAIN t.of = DOMAIN m.of,
         \A v \in DOMAIN t.code : v \in DOMAIN m.code
            \/ (t.code[v].op = "store" => OfHook(g, t, t.code[v]))
  PROVE  Wired(g, t)
<1>1. \A o \in DOMAIN t.of : OfPin(g, t, o)
  <2> TAKE o \in DOMAIN t.of
  <2>1. OfPin(g, m, o) /\ t.of[o] = m.of[o]
    BY DEF Wired, Grows
  <2>2. m.of[o] \in DOMAIN m.code
    BY ListHas DEF WellMade
  <2>3. t.code[t.of[o]] = m.code[m.of[o]]
    BY <2>1, <2>2 DEF Grows
  <2> QED
    BY <2>1, <2>3, SourceStays DEF OfPin
<1>2. \A v \in DOMAIN t.code : t.code[v].op = "store" => OfHook(g, t, t.code[v])
  BY SourceStays DEF Wired, Grows
<1> QED
  BY <1>1, <1>2 DEF Wired

(* ... the source of an input pin taken, ...                                *)
LEMMA TakeWired ==
  ASSUME NEW g, NEW m, WellMade(m), Wired(g, m), NEW i, NEW k, Take(g, m, i, k).ok
  PROVE  /\ m.ok /\ Wired(g, Take(g, m, i, k)) /\ Grows(m, Take(g, m, i, k))
         /\ Take(g, m, i, k).of = m.of
         /\ \E u : /\ Take(g, m, i, k).taken = Append(m.taken, u)
                   /\ SourceOf(g, Take(g, m, i, k), i, k, u)
<1> DEFINE d == Driver(g, i, k)
           p == Pin(g, i, k)
           t == Take(g, m, i, k)
           ins == Instruction("const", "none", p, <<>>, p.default[1])
           o == <<d[1].from, d[1].fpin>>
<1>0. m.ok
  BY TakeMade
<1>1. CASE d # <<>> /\ o \in DOMAIN m.of
  <2>1. t = [m EXCEPT !.taken = Append(@, m.of[o])]
    BY <1>1 DEF Take
  <2>2. /\ t.code = m.code /\ t.of = m.of /\ t.taken = Append(m.taken, m.of[o])
    <3> HIDE DEF t, d, o
    <3> QED
      BY <2>1 DEF WellMade
  <2>3. SourceOf(g, t, i, k, m.of[o])
    <3> HIDE DEF t
    <3> QED
      BY <1>1, <2>2 DEF SourceOf
  <2> HIDE DEF t, d, o
  <2>4. Grows(m, t)
    BY <2>2 DEF Grows
  <2>5. Wired(g, t)
    BY <2>2, <2>4, MoreWired
  <2> QED
    BY <1>0, <2>2, <2>3, <2>4, <2>5 DEF t
<1>2. CASE ~(d # <<>> /\ o \in DOMAIN m.of) /\ d = <<>> /\ p.default # <<>>
  <2> DEFINE e == Emit(m, ins)
             u == Len(m.code) + 1
  <2>1. t = [e EXCEPT !.taken = Append(@, u)]
    BY <1>2 DEF Take
  <2>2. /\ e.of = m.of /\ e.taken = m.taken
        /\ e = [code |-> e.code, of |-> e.of, taken |-> e.taken, ok |-> e.ok]
        /\ Grows(m, e) /\ u \in DOMAIN e.code /\ e.code[u] = ins
        /\ \A v \in DOMAIN e.code : v \in DOMAIN m.code \/ v = u
    BY EmitGrows
  <2>3. ins.op = "const"
    BY DEF Instruction
  <2>4. t.code = e.code /\ t.of = m.of /\ t.taken = Append(m.taken, u)
    <3> HIDE DEF t, e, u, ins
    <3> QED
      BY <2>1, <2>2
  <2>5. SourceOf(g, t, i, k, u)
    <3> HIDE DEF t, e, u
    <3> QED
      BY <1>2, <2>2, <2>4 DEF SourceOf
  <2> HIDE DEF t, e, u, ins
  <2>6. Grows(m, t)
    BY <2>2, <2>4 DEF Grows
  <2>7. Wired(g, t)
    BY <2>2, <2>3, <2>4, <2>6, MoreWired
  <2> QED
    BY <1>0, <2>4, <2>5, <2>6, <2>7 DEF t
<1>3. CASE ~(d # <<>> /\ o \in DOMAIN m.of) /\ ~(d = <<>> /\ p.default # <<>>)
  <2>1. t = [m EXCEPT !.ok = FALSE]
    BY <1>3 DEF Take
  <2>2. t.ok = FALSE
    <3> HIDE DEF t
    <3> QED
      BY <2>1 DEF WellMade
  <2> QED
    BY <2>2
<1> QED
  BY <1>1, <1>2, <1>3

(* ... which goes well when the driver has been given a value, or there is  *)
(* a default, ...                                                           *)
Takeable(g, m, i, k) ==
    LET d == Driver(g, i, k)
    IN  IF d # <<>> THEN <<d[1].from, d[1].fpin>> \in DOMAIN m.of ELSE Pin(g, i, k).default # <<>>

LEMMA TakeGoesWell ==
  ASSUME NEW g, NEW m, WellMade(m), m.ok, NEW i, NEW k, Takeable(g, m, i, k)
  PROVE  Take(g, m, i, k).ok
<1> DEFINE d == Driver(g, i, k)
           p == Pin(g, i, k)
           t == Take(g, m, i, k)
           ins == Instruction("const", "none", p, <<>>, p.default[1])
           o == <<d[1].from, d[1].fpin>>
<1>1. CASE d # <<>>
  <2>1. t = [m EXCEPT !.taken = Append(@, m.of[o])]
    BY <1>1 DEF Take, Takeable
  <2> HIDE DEF t, d, o
  <2>2. t.ok = m.ok
    BY <2>1 DEF WellMade
  <2> QED
    BY <2>2 DEF t
<1>2. CASE d = <<>>
  <2> DEFINE e == Emit(m, ins)
  <2>1. t = [e EXCEPT !.taken = Append(@, Len(m.code) + 1)]
    BY <1>2 DEF Take, Takeable
  <2>2. /\ e.ok = m.ok
        /\ e = [code |-> e.code, of |-> e.of, taken |-> e.taken, ok |-> e.ok]
    <3> HIDE DEF ins
    <3> QED
      BY EmitGrows
  <2> HIDE DEF t, e
  <2>3. t.ok = m.ok
    BY <2>1, <2>2
  <2> QED
    BY <2>3 DEF t
<1> QED
  BY <1>1, <1>2

(* ... a value given to an output pin, ...                                  *)
GivesAlso(m, t, o) == DOMAIN t.of = DOMAIN m.of \cup {o}

LEMMA GiveWired ==
  ASSUME NEW g, NEW m, WellMade(m), Wired(g, m), NEW i \in Nodes(g),
         NEW k \in ToSet(PinsOf(g, i, TRUE)), <<i, k>> \notin DOMAIN m.of,
         g.nodes[i].hook \/ Gets(g, m, i, m.taken)
  PROVE  /\ Wired(g, Give(g, m, i, k)) /\ Grows(m, Give(g, m, i, k))
         /\ Give(g, m, i, k).ok = m.ok /\ Give(g, m, i, k).taken = m.taken
         /\ GivesAlso(m, Give(g, m, i, k), <<i, k>>)
<1> DEFINE ins == IF g.nodes[i].hook
                  THEN Instruction("input", g.nodes[i].symbol, Pin(g, i, k), <<>>, 0)
                  ELSE Instruction("call", g.nodes[i].symbol, Pin(g, i, k), m.taken, 0)
           e == Emit(m, ins)
           t == Give(g, m, i, k)
           u == Len(m.code) + 1
           o == <<i, k>>
<1>1. ins.op # "store" /\ GivenBy(g, m, i, k, ins)
  <2>1. ins.op # "store"
    BY DEF Instruction
  <2>2. GivenBy(g, m, i, k, ins)
    BY DEF GivenBy
  <2> QED
    BY <2>1, <2>2
<1>2. t = [e EXCEPT !.of = [q \in DOMAIN @ \cup {o} |-> IF q = o THEN u ELSE @[q]]]
  BY DEF Give
<1>3. /\ e.of = m.of /\ e.taken = m.taken /\ e.ok = m.ok
      /\ e = [code |-> e.code, of |-> e.of, taken |-> e.taken, ok |-> e.ok]
      /\ Grows(m, e) /\ u \in DOMAIN e.code /\ e.code[u] = ins
      /\ \A v \in DOMAIN e.code : v \in DOMAIN m.code \/ v = u
  BY EmitGrows
<1> HIDE DEF t, e, u, ins
<1>4. /\ t.code = e.code /\ t.taken = m.taken /\ t.ok = m.ok
      /\ t.of = [q \in DOMAIN m.of \cup {o} |-> IF q = o THEN u ELSE m.of[q]]
  BY <1>2, <1>3
<1>5. Grows(m, t)
  <2>1. \A q \in DOMAIN m.of : q # o
    OBVIOUS
  <2> HIDE DEF o
  <2> QED
    BY <1>3, <1>4, <2>1 DEF Grows
<1>6. \A q \in DOMAIN t.of : OfPin(g, t, q)
  <2>1. OfPin(g, t, o)
    <3>1. t.code[t.of[o]] = ins
      BY <1>3, <1>4
    <3>2. GivenBy(g, t, i, k, ins)
      BY <1>1, <1>5, SourceStays
    <3> QED
      BY <3>1, <3>2 DEF OfPin
  <2>2. ASSUME NEW q \in DOMAIN m.of PROVE OfPin(g, t, q)
    <3>1. OfPin(g, m, q) /\ t.of[q] = m.of[q]
      BY <1>5 DEF Wired, Grows
    <3>2. m.of[q] \in DOMAIN m.code
      BY ListHas DEF WellMade
    <3>3. t.code[t.of[q]] = m.code[m.of[q]]
      BY <1>5, <3>1, <3>2 DEF Grows
    <3> QED
      BY <1>5, <3>1, <3>3, SourceStays DEF OfPin
  <2> QED
    BY <1>4, <2>1, <2>2
<1>7. \A v \in DOMAIN t.code : t.code[v].op = "store" => OfHook(g, t, t.code[v])
  <2> TAKE v \in DOMAIN t.code
  <2>1. CASE v = u
    BY <1>1, <1>3, <1>4, <2>1
  <2>2. CASE v \in DOMAIN m.code
    BY <1>5, <2>2, SourceStays DEF Wired, Grows
  <2> QED
    BY <1>3, <1>4, <2>1, <2>2
<1>8. Wired(g, t)
  BY <1>6, <1>7 DEF Wired
<1>9. GivesAlso(m, t, o)
  BY <1>4 DEF GivesAlso
<1> QED
  BY <1>4, <1>5, <1>8, <1>9 DEF t

(* ... and a store to an input pin of a hook.                               *)
LEMMA PutWired ==
  ASSUME NEW g, NEW m, WellMade(m), Wired(g, m), NEW i \in Nodes(g), g.nodes[i].hook,
         NEW k \in ToSet(PinsOf(g, i, FALSE))
  PROVE  /\ Put(g, m, i, k).ok =>
              /\ m.ok /\ Wired(g, Put(g, m, i, k)) /\ Grows(m, Put(g, m, i, k))
              /\ Put(g, m, i, k).of = m.of
              /\ \E v \in DOMAIN Put(g, m, i, k).code :
                    StoreOf(g, Put(g, m, i, k), i, k, Put(g, m, i, k).code[v])
         /\ m.ok /\ Takeable(g, m, i, k) => Put(g, m, i, k).ok
<1> DEFINE c == [m EXCEPT !.taken = <<>>]
           n == Take(g, c, i, k)
           ins == Instruction("store", g.nodes[i].symbol, Pin(g, i, k), n.taken, 0)
           t == Put(g, m, i, k)
<1>1. t = Emit(n, ins)
  BY DEF Put
<1>2. /\ WellMade(c) /\ Grows(m, c) /\ c.of = m.of /\ c.code = m.code /\ c.ok = m.ok
      /\ c.taken = <<>>
  <2>1. /\ c.code = m.code /\ c.of = m.of /\ c.taken = <<>> /\ c.ok = m.ok
        /\ c = [code |-> c.code, of |-> c.of, taken |-> c.taken, ok |-> c.ok]
    BY DEF WellMade
  <2> HIDE DEF c
  <2>2. IsList(c.taken) /\ DOMAIN c.taken = {}
    BY <2>1, Short
  <2> QED
    BY <2>1, <2>2 DEF WellMade, Grows
<1>3. Wired(g, c)
  <2> HIDE DEF c
  <2> QED
    BY <1>2, MoreWired
<1> HIDE DEF c
<1>4. WellMade(n)
  BY <1>2, TakeMade
<1> DEFINE u == Len(n.code) + 1
<1>5. /\ t.of = n.of /\ t.ok = n.ok /\ Grows(n, t)
      /\ u \in DOMAIN t.code /\ t.code[u] = ins
      /\ \A v \in DOMAIN t.code : v \in DOMAIN n.code \/ v = u
  <2> HIDE DEF n, ins
  <2> QED
    BY <1>1, <1>4, EmitGrows
<1> HIDE DEF t, u
<1>6. ASSUME t.ok
      PROVE  /\ m.ok /\ Wired(g, t) /\ Grows(m, t) /\ t.of = m.of
             /\ \E v \in DOMAIN t.code : StoreOf(g, t, i, k, t.code[v])
  <2>0. n.ok
    BY <1>5, <1>6
  <2>1. c.ok /\ Wired(g, n) /\ Grows(c, n) /\ n.of = c.of
        /\ \E x : n.taken = Append(c.taken, x) /\ SourceOf(g, n, i, k, x)
    BY <1>2, <1>3, <2>0, TakeWired
  <2>2. PICK x : n.taken = Append(c.taken, x) /\ SourceOf(g, n, i, k, x)
    BY <2>1
  <2>3. n.taken = <<x>>
    <3>1. Append(<<>>, x) = <<x>>
      OBVIOUS
    <3> QED
      BY <1>2, <2>2, <3>1
  <2>4. StoreOf(g, n, i, k, ins)
    BY <2>2, <2>3 DEF StoreOf
  <2> HIDE DEF n, ins
  <2>5. StoreOf(g, t, i, k, ins)
    BY <1>5, <2>4, SourceStays
  <2>6. OfHook(g, t, ins)
    BY <2>5 DEF OfHook
  <2>7. Wired(g, t)
    BY <1>4, <1>5, <2>1, <2>6, MoreWired
  <2>8. Grows(m, t)
    BY <1>2, <1>5, <2>1, GrowsOn
  <2> QED
    BY <1>2, <1>5, <2>1, <2>5, <2>7, <2>8
<1>7. ASSUME m.ok, Takeable(g, m, i, k) PROVE t.ok
  <2>1. Takeable(g, c, i, k)
    BY <1>2, <1>7 DEF Takeable
  <2>2. n.ok
    BY <1>2, <1>7, <2>1, TakeGoesWell
  <2> QED
    BY <1>5, <2>2
<1> QED
  BY <1>6, <1>7 DEF t

(* A store that went well: lower went well before.                          *)
LEMMA PutKeeps ==
  ASSUME NEW g, NEW m, WellMade(m), NEW i, NEW k, Put(g, m, i, k).ok
  PROVE  m.ok
<1> DEFINE c == [m EXCEPT !.taken = <<>>]
           n == Take(g, c, i, k)
           ins == Instruction("store", g.nodes[i].symbol, Pin(g, i, k), n.taken, 0)
<1>1. Put(g, m, i, k) = Emit(n, ins)
  BY DEF Put
<1>2. WellMade(c) /\ c.ok = m.ok
  <2>1. /\ c.code = m.code /\ c.of = m.of /\ c.taken = <<>> /\ c.ok = m.ok
        /\ c = [code |-> c.code, of |-> c.of, taken |-> c.taken, ok |-> c.ok]
    BY DEF WellMade
  <2> HIDE DEF c
  <2>2. IsList(c.taken) /\ DOMAIN c.taken = {}
    BY <2>1, Short
  <2> QED
    BY <2>1, <2>2 DEF WellMade
<1> HIDE DEF c
<1>3. WellMade(n) /\ (n.ok => c.ok)
  BY <1>2, TakeMade
<1> HIDE DEF n, ins
<1>4. Emit(n, ins).ok = n.ok
  BY <1>3, EmitGrows
<1> QED
  BY <1>1, <1>2, <1>3, <1>4

(* The sources of all inputs of a node taken, ...                           *)
LEMMA TakesWired ==
  ASSUME NEW g, IsGraph(g), NEW m, WellMade(m), Wired(g, m), m.taken = <<>>, NEW i \in Nodes(g)
  PROVE  LET ins == PinsOf(g, i, FALSE)
             t == EachPin(g, m, i, ins, "take")
         IN  /\ t.ok => /\ m.ok /\ Wired(g, t) /\ Grows(m, t) /\ t.of = m.of
                        /\ Gets(g, t, i, t.taken)
             /\ m.ok /\ (\A k \in ToSet(ins) : Takeable(g, m, i, k)) => t.ok
<1> DEFINE ins == PinsOf(g, i, FALSE)
           N == Len(ins)
           can == m.ok /\ \A k \in ToSet(ins) : Takeable(g, m, i, k)
           So(t, n) == /\ m.ok /\ Wired(g, t) /\ Grows(m, t) /\ t.of = m.of
                       /\ IsList(t.taken) /\ Len(t.taken) = n
                       /\ \A j \in 1 .. n : SourceOf(g, t, i, ins[j], t.taken[j])
<1>a. IsList(ins) /\ Len(ins) \in Nat /\ DOMAIN ins = 1 .. N
  BY PinsAre, ListHas
<1>0. N \in Nat
  BY <1>a
<1>1. PICK f : Goes(g, m, i, ins, "take", f)
  BY <1>a, EachPinIs
<1>2. /\ f[0] = m /\ \A n \in 1 .. N : f[n] = Take(g, f[n - 1], i, ins[n])
      /\ EachPin(g, m, i, ins, "take") = f[N]
  BY <1>1 DEF Goes, AtPin
<1> HIDE DEF N, ins, can
<1> DEFINE Q == {n \in 0 .. N : /\ WellMade(f[n]) /\ (f[n].ok => So(f[n], n))
                                /\ can => f[n].ok}
<1>3. 0 \in Q
  <2>1. So(m, 0) \/ ~m.ok
    BY GrowsOn, Short
  <2> QED
    BY <1>0, <1>2, <2>1 DEF can
<1>4. ASSUME NEW n \in 1 .. N, n - 1 \in Q PROVE n \in Q
  <2> DEFINE s == f[n - 1]
             t == f[n]
  <2>0. n \in 0 .. N /\ n \in Nat /\ n - 1 \in Nat /\ n - 1 + 1 = n /\ ins[n] \in ToSet(ins)
    BY <1>0, <1>a DEF ToSet, N
  <2>1. WellMade(s) /\ (s.ok => So(s, n - 1)) /\ (can => s.ok)
    BY <1>4
  <2>2. t = Take(g, s, i, ins[n])
    BY <1>2
  <2> HIDE DEF s, t, So
  <2>3. WellMade(t) /\ (t.ok => s.ok)
    BY <2>1, <2>2, TakeMade
  <2>4. ASSUME t.ok PROVE So(t, n)
    <3>1. s.ok /\ So(s, n - 1) /\ Wired(g, s)
      BY <2>1, <2>3, <2>4 DEF So
    <3>2. /\ Wired(g, t) /\ Grows(s, t) /\ t.of = s.of
          /\ \E u : t.taken = Append(s.taken, u) /\ SourceOf(g, t, i, ins[n], u)
      BY <2>1, <2>2, <2>4, <3>1, TakeWired
    <3>3. PICK u : t.taken = Append(s.taken, u) /\ SourceOf(g, t, i, ins[n], u)
      BY <3>2
    <3>4. /\ IsList(t.taken) /\ Len(t.taken) = n
          /\ \A j \in 1 .. n - 1 : t.taken[j] = s.taken[j]
          /\ t.taken[n] = u
      BY <2>0, <3>1, <3>3, Appended DEF So
    <3>5. \A j \in 1 .. n : j \in 1 .. n - 1 \/ j = n
      BY <2>0
    <3>6. \A j \in 1 .. n - 1 : SourceOf(g, t, i, ins[j], s.taken[j])
      BY <3>1, <3>2, SourceStays DEF So
    <3>7. \A j \in 1 .. n : SourceOf(g, t, i, ins[j], t.taken[j])
      BY <3>3, <3>4, <3>5, <3>6
    <3>8. Grows(m, t)
      BY <3>1, <3>2, GrowsOn DEF So
    <3> QED
      BY <3>1, <3>2, <3>4, <3>7, <3>8 DEF So
  <2>5. ASSUME can PROVE t.ok
    <3>1. s.ok /\ s.of = m.of
      BY <2>1, <2>5 DEF So
    <3>2. Takeable(g, s, i, ins[n])
      BY <2>0, <2>5, <3>1 DEF can, Takeable
    <3> QED
      BY <2>1, <2>2, <3>1, <3>2, TakeGoesWell
  <2> QED
    BY <2>0, <2>3, <2>4, <2>5 DEF t
<1> HIDE DEF Q
<1>5. N \in Q
  <2>1. \A n \in 0 .. N : n \in Q
    BY <1>0, <1>3, <1>4, Upwards
  <2> QED
    BY <1>0, <2>1
<1> DEFINE t == EachPin(g, m, i, ins, "take")
<1>6. (t.ok => So(t, N)) /\ (can => t.ok)
  BY <1>2, <1>5 DEF Q
<1> HIDE DEF t
<1>7. So(t, N) => Gets(g, t, i, t.taken)
  BY <1>a DEF Gets, ins, N
<1> QED
  BY <1>6, <1>7 DEF t, ins, can

(* ... all its outputs given their values, ...                              *)
LEMMA GivesWired ==
  ASSUME NEW g, IsGraph(g), NEW m, WellMade(m), Wired(g, m), NEW i \in Nodes(g),
         g.nodes[i].hook \/ Gets(g, m, i, m.taken),
         \A k \in ToSet(PinsOf(g, i, TRUE)) : <<i, k>> \notin DOMAIN m.of
  PROVE  LET outs == PinsOf(g, i, TRUE)
             t == EachPin(g, m, i, outs, "give")
         IN  /\ t.ok = m.ok /\ Wired(g, t) /\ Grows(m, t)
             /\ DOMAIN t.of = DOMAIN m.of \cup {<<i, k>> : k \in ToSet(outs)}
<1> DEFINE outs == PinsOf(g, i, TRUE)
           N == Len(outs)
           pairs(n) == {<<i, outs[j]>> : j \in 1 .. n}
           So(t, n) == /\ WellMade(t) /\ t.ok = m.ok /\ Wired(g, t) /\ Grows(m, t)
                       /\ t.taken = m.taken
                       /\ DOMAIN t.of = DOMAIN m.of \cup pairs(n)
<1>a. IsList(outs) /\ Once(outs) /\ Len(outs) \in Nat /\ DOMAIN outs = 1 .. N
  BY PinsAre, ListHas
<1>0. N \in Nat
  BY <1>a
<1>1. PICK f : Goes(g, m, i, outs, "give", f)
  BY <1>a, EachPinIs
<1>2. /\ f[0] = m /\ \A n \in 1 .. N : f[n] = Give(g, f[n - 1], i, outs[n])
      /\ EachPin(g, m, i, outs, "give") = f[N]
  BY <1>1 DEF Goes, AtPin
<1>b. ToSet(outs) = {outs[j] : j \in 1 .. N}
  BY <1>a DEF ToSet
<1>c. \A k \in ToSet(outs) : <<i, k>> \notin DOMAIN m.of
  OBVIOUS
<1> HIDE DEF N, outs
<1> DEFINE Q == {n \in 0 .. N : So(f[n], n)}
<1>3. 0 \in Q
  <2>1. pairs(0) = {}
    OBVIOUS
  <2>2. So(m, 0)
    BY <2>1, GrowsOn
  <2> QED
    BY <1>0, <1>2, <2>2
<1>4. ASSUME NEW n \in 1 .. N, n - 1 \in Q PROVE n \in Q
  <2> DEFINE s == f[n - 1]
             t == f[n]
  <2>0. n \in 0 .. N /\ n \in Nat /\ n - 1 \in Nat /\ outs[n] \in ToSet(outs)
    BY <1>0, <1>b
  <2>1. So(s, n - 1)
    BY <1>4
  <2>2. t = Give(g, s, i, outs[n])
    BY <1>2
  <2>3. <<i, outs[n]>> \notin pairs(n - 1)
    <3>1. \A j \in 1 .. n - 1 : j \in 1 .. N /\ j # n
      BY <1>0
    <3>2. \A j \in 1 .. n - 1 : outs[j] # outs[n]
      BY <1>a, <3>1 DEF Once
    <3> QED
      BY <3>2
  <2>4. pairs(n) = pairs(n - 1) \cup {<<i, outs[n]>>}
    <3>1. \A j : j \in 1 .. n <=> j \in 1 .. n - 1 \/ j = n
      BY <2>0
    <3> QED
      BY <3>1
  <2> HIDE DEF s, t, pairs
  <2>5. <<i, outs[n]>> \notin DOMAIN s.of
    BY <1>c, <2>0, <2>1, <2>3
  <2>6. g.nodes[i].hook \/ Gets(g, s, i, s.taken)
    BY <2>1, SourceStays
  <2>7. outs[n] \in ToSet(PinsOf(g, i, TRUE))
    BY <2>0 DEF outs
  <2>8. WellMade(s) /\ Wired(g, s)
    BY <2>1
  <2>9. /\ Wired(g, t) /\ Grows(s, t) /\ t.ok = s.ok /\ t.taken = s.taken
        /\ GivesAlso(s, t, <<i, outs[n]>>)
    <3>1. PICK k : k = outs[n]
      OBVIOUS
    <3>2. /\ k \in ToSet(PinsOf(g, i, TRUE)) /\ <<i, k>> \notin DOMAIN s.of
          /\ WellMade(s) /\ Wired(g, s) /\ t = Give(g, s, i, k)
          /\ g.nodes[i].hook \/ Gets(g, s, i, s.taken)
      BY <2>2, <2>5, <2>6, <2>7, <2>8, <3>1
    <3>3. /\ Wired(g, t) /\ Grows(s, t) /\ t.ok = s.ok /\ t.taken = s.taken
          /\ GivesAlso(s, t, <<i, k>>)
      BY ONLY <3>2, i \in Nodes(g), GiveWired
    <3> QED
      BY <3>1, <3>3
  <2>d. DOMAIN t.of = DOMAIN s.of \cup {<<i, outs[n]>>}
    BY <2>9 DEF GivesAlso
  <2>10. WellMade(t)
    BY <2>2, <2>8, GiveMade
  <2>11. Grows(m, t)
    BY <2>1, <2>9, GrowsOn
  <2>12. So(t, n)
    BY <2>1, <2>4, <2>9, <2>d, <2>10, <2>11
  <2> QED
    BY <2>0, <2>12 DEF t
<1> HIDE DEF Q
<1>5. N \in Q
  <2>1. \A n \in 0 .. N : n \in Q
    BY <1>0, <1>3, <1>4, Upwards
  <2> QED
    BY <1>0, <2>1
<1>6. So(f[N], N)
  BY <1>5 DEF Q
<1>7. pairs(N) = {<<i, k>> : k \in ToSet(outs)}
  BY <1>b
<1> QED
  BY <1>2, <1>6, <1>7 DEF outs

(* ... and all inputs of a hook stored.                                     *)
LEMMA PutsWired ==
  ASSUME NEW g, IsGraph(g), NEW m, WellMade(m), m.ok => Wired(g, m), NEW i \in Nodes(g),
         g.nodes[i].hook
  PROVE  LET ins == PinsOf(g, i, FALSE)
             t == EachPin(g, m, i, ins, "put")
         IN  /\ t.ok => /\ m.ok /\ Wired(g, t) /\ Grows(m, t) /\ t.of = m.of
                        /\ \A k \in ToSet(ins) : \E v \in DOMAIN t.code :
                              StoreOf(g, t, i, k, t.code[v])
             /\ m.ok /\ (\A k \in ToSet(ins) : Takeable(g, m, i, k)) => t.ok
<1> DEFINE ins == PinsOf(g, i, FALSE)
           N == Len(ins)
           can == m.ok /\ \A k \in ToSet(ins) : Takeable(g, m, i, k)
           Has(t, k) == \E v \in DOMAIN t.code : StoreOf(g, t, i, k, t.code[v])
           So(t, n) == /\ m.ok /\ Wired(g, t) /\ Grows(m, t) /\ t.of = m.of
                       /\ \A j \in 1 .. n : Has(t, ins[j])
<1>a. IsList(ins) /\ Len(ins) \in Nat /\ DOMAIN ins = 1 .. N
  BY PinsAre, ListHas
<1>0. N \in Nat
  BY <1>a
<1>1. PICK f : Goes(g, m, i, ins, "put", f)
  BY <1>a, EachPinIs
<1>2. /\ f[0] = m /\ \A n \in 1 .. N : f[n] = Put(g, f[n - 1], i, ins[n])
      /\ EachPin(g, m, i, ins, "put") = f[N]
  BY <1>1 DEF Goes, AtPin
<1>b. \A k \in ToSet(ins) : \E j \in 1 .. N : k = ins[j]
  BY <1>a DEF ToSet
<1> HIDE DEF N, ins, can
<1> DEFINE Q == {n \in 0 .. N : /\ WellMade(f[n]) /\ (f[n].ok => So(f[n], n))
                                /\ can => f[n].ok}
<1>3. 0 \in Q
  <2>1. So(m, 0) \/ ~m.ok
    BY GrowsOn
  <2> QED
    BY <1>0, <1>2, <2>1 DEF can
<1>4. ASSUME NEW n \in 1 .. N, n - 1 \in Q PROVE n \in Q
  <2> DEFINE s == f[n - 1]
             t == f[n]
  <2>0. n \in 0 .. N /\ n \in Nat /\ n - 1 \in Nat /\ ins[n] \in ToSet(ins)
    BY <1>0, <1>a DEF ToSet, N
  <2>1. WellMade(s) /\ (s.ok => So(s, n - 1)) /\ (can => s.ok)
    BY <1>4
  <2>2. t = Put(g, s, i, ins[n])
    BY <1>2
  <2> HIDE DEF s, t, So
  <2>3. WellMade(t)
    BY <2>1, <2>2, PutMade
  <2>s. s.ok => Wired(g, s)
    BY <2>1 DEF So
  <2>p. /\ t.ok => s.ok
        /\ s.ok => /\ t.ok => /\ Wired(g, t) /\ Grows(s, t) /\ t.of = s.of
                              /\ \E v \in DOMAIN t.code : StoreOf(g, t, i, ins[n], t.code[v])
                   /\ Takeable(g, s, i, ins[n]) => t.ok
    <3>1. t.ok => s.ok
      BY <2>1, <2>2, PutKeeps
    <3>2. CASE s.ok
      <4>1. ins[n] \in ToSet(PinsOf(g, i, FALSE)) /\ Wired(g, s) /\ WellMade(s)
        BY <2>0, <2>1, <2>s, <3>2 DEF ins
      <4> QED
        BY <2>2, <3>1, <3>2, <4>1, PutWired
    <3> QED
      BY <3>1, <3>2
  <2>4. ASSUME t.ok PROVE So(t, n)
    <3>1. s.ok /\ So(s, n - 1)
      BY <2>1, <2>p, <2>4
    <3>2. /\ Wired(g, t) /\ Grows(s, t) /\ t.of = s.of /\ Has(t, ins[n])
      BY <2>4, <2>p, <3>1
    <3>3. \A k : Has(s, k) => Has(t, k)
      <4> SUFFICES ASSUME NEW k, Has(s, k) PROVE Has(t, k)
        OBVIOUS
      <4>1. PICK v \in DOMAIN s.code : StoreOf(g, s, i, k, s.code[v])
        OBVIOUS
      <4>2. v \in DOMAIN t.code /\ t.code[v] = s.code[v] /\ StoreOf(g, t, i, k, s.code[v])
        BY <3>2, <4>1, SourceStays DEF Grows
      <4> QED
        BY <4>2
    <3> HIDE DEF Has
    <3>4. \A j \in 1 .. n : j \in 1 .. n - 1 \/ j = n
      BY <2>0
    <3>5. \A j \in 1 .. n : Has(t, ins[j])
      BY <3>1, <3>2, <3>3, <3>4 DEF So
    <3>6. Grows(m, t)
      BY <3>1, <3>2, GrowsOn DEF So
    <3> QED
      BY <3>1, <3>2, <3>5, <3>6 DEF So
  <2>5. ASSUME can PROVE t.ok
    <3>1. s.ok /\ s.of = m.of
      BY <2>1, <2>5 DEF So
    <3>2. Takeable(g, s, i, ins[n])
      BY <2>0, <2>5, <3>1 DEF can, Takeable
    <3> QED
      BY <2>p, <3>1, <3>2
  <2> QED
    BY <2>0, <2>3, <2>4, <2>5 DEF t
<1> HIDE DEF Q
<1>5. N \in Q
  <2>1. \A n \in 0 .. N : n \in Q
    BY <1>0, <1>3, <1>4, Upwards
  <2> QED
    BY <1>0, <2>1
<1> DEFINE t == EachPin(g, m, i, ins, "put")
<1>6. (t.ok => So(t, N)) /\ (can => t.ok)
  BY <1>2, <1>5 DEF Q
<1> HIDE DEF t
<1>7. So(t, N) => \A k \in ToSet(ins) : \E v \in DOMAIN t.code : StoreOf(g, t, i, k, t.code[v])
  BY <1>b
<1> QED
  BY <1>6, <1>7 DEF t, ins, can

(* A value given: lower goes as well as before.                             *)
LEMMA GiveKeeps ==
  ASSUME NEW g, NEW m, WellMade(m), NEW i, NEW pins, IsList(pins)
  PROVE  EachPin(g, m, i, pins, "give").ok = m.ok
<1> DEFINE N == Len(pins)
<1>0. N \in Nat
  BY ListHas
<1>1. PICK f : Goes(g, m, i, pins, "give", f)
  BY EachPinIs
<1>2. /\ f[0] = m /\ \A n \in 1 .. N : f[n] = Give(g, f[n - 1], i, pins[n])
      /\ EachPin(g, m, i, pins, "give") = f[N]
  BY <1>1 DEF Goes, AtPin
<1>3. ASSUME NEW x, WellMade(x), NEW k PROVE WellMade(Give(g, x, i, k)) /\ Give(g, x, i, k).ok = x.ok
  <2> DEFINE ins == IF g.nodes[i].hook
                    THEN Instruction("input", g.nodes[i].symbol, Pin(g, i, k), <<>>, 0)
                    ELSE Instruction("call", g.nodes[i].symbol, Pin(g, i, k), x.taken, 0)
             e == Emit(x, ins)
             t == Give(g, x, i, k)
             o == <<i, k>>
             u == Len(x.code) + 1
  <2>1. t = [e EXCEPT !.of = [q \in DOMAIN @ \cup {o} |-> IF q = o THEN u ELSE @[q]]]
    BY DEF Give
  <2>2. /\ e.ok = x.ok
        /\ e = [code |-> e.code, of |-> e.of, taken |-> e.taken, ok |-> e.ok]
    <3> HIDE DEF ins
    <3> QED
      BY <1>3, EmitGrows
  <2> HIDE DEF t, e, u
  <2>3. t.ok = x.ok
    BY <2>1, <2>2
  <2> QED
    BY <1>3, <2>3, GiveMade DEF t
<1> HIDE DEF N
<1> DEFINE Q == {n \in 0 .. N : WellMade(f[n]) /\ f[n].ok = m.ok}
<1>4. 0 \in Q
  BY <1>0, <1>2
<1>5. ASSUME NEW n \in 1 .. N, n - 1 \in Q PROVE n \in Q
  <2>1. n \in 0 .. N
    BY <1>0
  <2>2. WellMade(f[n - 1]) /\ f[n - 1].ok = m.ok /\ f[n] = Give(g, f[n - 1], i, pins[n])
    BY <1>2, <1>5
  <2>3. WellMade(f[n]) /\ f[n].ok = m.ok
    BY <1>3, <2>2
  <2> QED
    BY <2>1, <2>3
<1> HIDE DEF Q
<1>6. \A n \in 0 .. N : n \in Q
  BY <1>0, <1>4, <1>5, Upwards
<1> QED
  BY <1>0, <1>2, <1>6 DEF Q

(* A visit stores the inputs of a hook, or gives a node's outputs their     *)
(* values; it goes well when the sources it takes are there.                *)
Valued(g, m, i) == \A k \in ToSet(PinsOf(g, i, TRUE)) : <<i, k>> \in DOMAIN m.of
Stored(g, m, i) ==
    \A k \in ToSet(PinsOf(g, i, FALSE)) : \E v \in DOMAIN m.code : StoreOf(g, m, i, k, m.code[v])
Sources(g, m, i) == \A k \in ToSet(PinsOf(g, i, FALSE)) : Takeable(g, m, i, k)
Unvalued(g, m, i) == \A k \in ToSet(PinsOf(g, i, TRUE)) : <<i, k>> \notin DOMAIN m.of

LEMMA VisitWired ==
  ASSUME NEW g, IsGraph(g), NEW v \in Sides(g), NEW m, WellMade(m), m.ok => Wired(g, m),
         NEW i, i = NodeOf(v), m.ok /\ ~IsInSide(v) => Unvalued(g, m, i)
  PROVE  LET t == Visit(g, m, v)
         IN  /\ t.ok => /\ m.ok /\ Wired(g, t) /\ Grows(m, t)
                        /\ ~IsInSide(v) => Valued(g, t, i)
                        /\ \A o \in DOMAIN t.of : o \in DOMAIN m.of \/ (~IsInSide(v) /\ o[1] = i)
                        /\ g.nodes[i].hook /\ IsInSide(v) => Stored(g, t, i)
             /\ m.ok /\ ((g.nodes[i].hook <=> IsInSide(v)) => Sources(g, m, i)) => t.ok
<1> DEFINE ins == PinsOf(g, i, FALSE)
           outs == PinsOf(g, i, TRUE)
           e == [m EXCEPT !.taken = <<>>]
           n == EachPin(g, e, i, ins, "take")
           t == Visit(g, m, v)
           So == /\ m.ok /\ Wired(g, t) /\ Grows(m, t)
                 /\ ~IsInSide(v) => Valued(g, t, i)
                 /\ \A o \in DOMAIN t.of : o \in DOMAIN m.of \/ (~IsInSide(v) /\ o[1] = i)
                 /\ g.nodes[i].hook /\ IsInSide(v) => Stored(g, t, i)
           can == m.ok /\ ((g.nodes[i].hook <=> IsInSide(v)) => Sources(g, m, i))
<1>1. i \in Nodes(g) /\ g.nodes[i].hook \in BOOLEAN
  BY SideOfNode DEF IsGraph
<1>2. /\ WellMade(e) /\ Grows(m, e) /\ e.of = m.of /\ e.code = m.code /\ e.ok = m.ok
      /\ e.taken = <<>>
  <2>1. /\ e.code = m.code /\ e.of = m.of /\ e.taken = <<>> /\ e.ok = m.ok
        /\ e = [code |-> e.code, of |-> e.of, taken |-> e.taken, ok |-> e.ok]
    BY DEF WellMade
  <2> HIDE DEF e
  <2>2. IsList(e.taken) /\ DOMAIN e.taken = {}
    BY <2>1, Short
  <2> QED
    BY <2>1, <2>2 DEF WellMade, Grows
<1>3. IsList(ins) /\ IsList(outs)
  BY <1>1, PinsList
<1>4. t = CASE ~m.ok -> m
          [] m.ok /\ g.nodes[i].hook /\ IsInSide(v) -> EachPin(g, m, i, ins, "put")
          [] m.ok /\ g.nodes[i].hook /\ ~IsInSide(v) -> EachPin(g, m, i, outs, "give")
          [] m.ok /\ ~g.nodes[i].hook /\ IsInSide(v) -> m
          [] m.ok /\ ~g.nodes[i].hook /\ ~IsInSide(v) -> EachPin(g, n, i, outs, "give")
  BY DEF Visit
<1> SUFFICES (t.ok => So) /\ (can => t.ok)
  OBVIOUS
<1>g. ASSUME NEW x, NEW y, x.ok, y.ok = x.ok, Wired(g, y), Grows(x, y), Grows(m, x),
             DOMAIN x.of = DOMAIN m.of,
             DOMAIN y.of = DOMAIN x.of \cup {<<i, k>> : k \in ToSet(outs)}
      PROVE  /\ Grows(m, y) /\ Valued(g, y, i)
             /\ \A o \in DOMAIN y.of : o \in DOMAIN m.of \/ o[1] = i
  <2>1. Grows(m, y)
    BY <1>g, GrowsOn
  <2>2. Valued(g, y, i)
    BY <1>g DEF Valued
  <2>3. ASSUME NEW o \in DOMAIN y.of, o \notin DOMAIN m.of PROVE o[1] = i
    <3>1. o \in {<<i, k>> : k \in ToSet(outs)}
      BY <1>g, <2>3
    <3> HIDE DEF outs
    <3>2. PICK k \in ToSet(outs) : o = <<i, k>>
      BY <3>1
    <3> QED
      BY <3>2
  <2> QED
    BY <2>1, <2>2, <2>3
<1> HIDE DEF e, t
<1>5. CASE ~m.ok
  <2>1. t = m
    BY <1>4, <1>5
  <2> QED
    BY <1>5, <2>1
<1>6. CASE m.ok /\ ~g.nodes[i].hook /\ IsInSide(v)
  <2>1. t = m
    BY <1>4, <1>6
  <2>2. So
    BY <1>6, <2>1, GrowsOn
  <2> QED
    BY <1>6, <2>1, <2>2
<1>7. CASE m.ok /\ g.nodes[i].hook /\ IsInSide(v)
  <2>1. t = EachPin(g, m, i, ins, "put")
    BY <1>4, <1>7
  <2>2. /\ t.ok => /\ m.ok /\ Wired(g, t) /\ Grows(m, t) /\ t.of = m.of
                   /\ \A k \in ToSet(ins) : \E x \in DOMAIN t.code :
                         StoreOf(g, t, i, k, t.code[x])
        /\ m.ok /\ (\A k \in ToSet(ins) : Takeable(g, m, i, k)) => t.ok
    BY <1>1, <1>7, <2>1, PutsWired
  <2>3. t.ok => So
    BY <1>7, <2>2 DEF Stored
  <2>4. can => t.ok
    BY <1>7, <2>2 DEF Sources
  <2> QED
    BY <2>3, <2>4
<1>8. CASE m.ok /\ g.nodes[i].hook /\ ~IsInSide(v)
  <2>1. t = EachPin(g, m, i, outs, "give")
    BY <1>4, <1>8
  <2>2. Wired(g, m) /\ \A k \in ToSet(outs) : <<i, k>> \notin DOMAIN m.of
    BY <1>8 DEF Unvalued
  <2>3. /\ t.ok = m.ok /\ Wired(g, t) /\ Grows(m, t)
        /\ DOMAIN t.of = DOMAIN m.of \cup {<<i, k>> : k \in ToSet(outs)}
    BY <1>1, <1>8, <2>1, <2>2, GivesWired
  <2>4. /\ Valued(g, t, i)
        /\ \A o \in DOMAIN t.of : o \in DOMAIN m.of \/ o[1] = i
    BY <1>8, <1>g, <2>3, GrowsOn
  <2>5. So
    BY <1>8, <2>3, <2>4
  <2> QED
    BY <1>8, <2>3, <2>5
<1>9. CASE m.ok /\ ~g.nodes[i].hook /\ ~IsInSide(v)
  <2>1. t = EachPin(g, n, i, outs, "give")
    BY <1>4, <1>9
  <2>2. Wired(g, e)
    BY <1>2, <1>9, MoreWired
  <2>3. /\ n.ok => /\ e.ok /\ Wired(g, n) /\ Grows(e, n) /\ n.of = e.of
                   /\ Gets(g, n, i, n.taken)
        /\ e.ok /\ (\A k \in ToSet(ins) : Takeable(g, e, i, k)) => n.ok
    BY <1>1, <1>2, <2>2, TakesWired
  <2>4. WellMade(n)
    BY <1>2, <1>3, EachPinMade
  <2> HIDE DEF n
  <2>5. t.ok => n.ok
    <3> HIDE DEF outs
    <3>1. EachPin(g, n, i, outs, "give").ok = n.ok
      BY <1>3, <2>4, GiveKeeps
    <3> QED
      BY <2>1, <3>1
  <2>6. n.ok => t.ok /\ So
    <3> SUFFICES ASSUME n.ok PROVE t.ok /\ So
      OBVIOUS
    <3>1. /\ Wired(g, n) /\ Grows(e, n) /\ n.of = m.of /\ Gets(g, n, i, n.taken)
      BY <1>2, <2>3
    <3>2. \A k \in ToSet(outs) : <<i, k>> \notin DOMAIN n.of
      BY <1>9, <3>1 DEF Unvalued
    <3>3. /\ t.ok = n.ok /\ Wired(g, t) /\ Grows(n, t)
          /\ DOMAIN t.of = DOMAIN n.of \cup {<<i, k>> : k \in ToSet(outs)}
      BY <1>1, <2>1, <2>4, <3>1, <3>2, GivesWired
    <3>4. Grows(m, n)
      BY <1>2, <3>1, GrowsOn
    <3>5. /\ Grows(m, t) /\ Valued(g, t, i)
          /\ \A o \in DOMAIN t.of : o \in DOMAIN m.of \/ o[1] = i
      BY <1>g, <3>1, <3>3, <3>4
    <3> QED
      BY <1>9, <3>3, <3>5
  <2>7. can => n.ok
    <3>1. \A k : Takeable(g, m, i, k) => Takeable(g, e, i, k)
      BY <1>2 DEF Takeable
    <3> QED
      BY <1>2, <1>9, <2>3, <3>1 DEF Sources
  <2> QED
    BY <2>5, <2>6, <2>7
<1> QED
  BY <1>1, <1>5, <1>6, <1>7, <1>8, <1>9

LEMMA OutPins ==
  ASSUME NEW g, IsGraph(g), NEW j \in Nodes(g), NEW k \in DOMAIN g.nodes[j].pins, Pin(g, j, k).out
  PROVE  k \in ToSet(PinsOf(g, j, TRUE))
<1>1. Pin(g, j, k).out = TRUE
  BY DEF IsGraph
<1>2. ToSet(PinsOf(g, j, TRUE)) = {n \in DOMAIN g.nodes[j].pins : Pin(g, j, n).out = TRUE}
  BY PinsAre
<1> QED
  BY <1>1, <1>2

(* A driver of what a visit takes stands before it in the schedule.         *)
LEMMA DriversBefore ==
  ASSUME NEW g, IsGraph(g), Readable(g), NEW p \in DOMAIN Schedule(g), NEW v,
         v = Schedule(g)[p], NEW i, i = NodeOf(v), g.nodes[i].hook <=> IsInSide(v),
         NEW k, Driver(g, i, k) # <<>>
  PROVE  LET d == Driver(g, i, k)
         IN  /\ \E q \in 1 .. p - 1 : Schedule(g)[q] = OutSide(d[1].from)
             /\ d[1].from \in Nodes(g) /\ d[1].fpin \in ToSet(PinsOf(g, d[1].from, TRUE))
<1> DEFINE P == {n \in DOMAIN g.edges : g.edges[n].to = i /\ g.edges[n].tpin = k}
           d == Driver(g, i, k)
           s == Schedule(g)
<1>0. PICK N \in Nat : DOMAIN s = 1 .. N
  BY LoweredIs
<1>1. PICK n \in P : d[1] = g.edges[n]
  <2>1. P \in SUBSET DOMAIN g.edges /\ IsList(g.edges)
    BY DEF IsGraph
  <2>2. d = AtPlaces(g.edges, P)
    BY DEF Driver
  <2> HIDE DEF P, d
  <2>3. /\ IsList(d) /\ Len(d) = Cardinality(P) /\ Cardinality(P) \in Nat
        /\ \A x \in DOMAIN d : \E y \in P : d[x] = g.edges[y]
    BY <2>1, <2>2, AtPlacesList
  <2>4. 1 \in DOMAIN d
    <3>1. d # <<>>
      BY DEF d
    <3> QED
      BY <2>3, <3>1 DEF IsList
  <2> QED
    BY <2>3, <2>4
<1>2. n \in DOMAIN g.edges /\ g.edges[n].to = i
  OBVIOUS
<1> DEFINE j == g.edges[n].from
<1>3. j \in Nodes(g) /\ g.edges[n].fpin \in ToSet(PinsOf(g, j, TRUE))
  <2>1. /\ j \in Nodes(g) /\ g.edges[n].fpin \in DOMAIN g.nodes[j].pins
        /\ Pin(g, j, g.edges[n].fpin).out
    BY <1>2 DEF Readable, Connects
  <2> QED
    BY <2>1, OutPins
<1>4. i \in Nodes(g) /\ v \in Sides(g)
  <2>1. v \in Sides(g)
    BY <1>0, LoweredIs
  <2> QED
    BY <2>1, SideOfNode
<1>5. Topological(g, s)
  BY ScheduleSorted
<1>6. PICK a \in ArcsInto(g, InSide(i)) : a[1] = OutSide(j)
  BY <1>2, ArcsIntoInputs
<1>7. PICK q \in 1 .. p : s[q] = InSide(i)
  <2>1. p \in 1 .. p
    BY <1>0
  <2>2. CASE IsInSide(v)
    BY <1>4, <2>1, <2>2, SidesAre
  <2>3. CASE ~IsInSide(v)
    <3>1. v = OutSide(i) /\ ~g.nodes[i].hook
      BY <1>4, <2>3, SidesAre
    <3>2. PICK b \in ArcsInto(g, OutSide(i)) : b[1] = InSide(i)
      BY <1>4, <3>1, ArcsIntoOutputs
    <3>3. PICK q \in 1 .. p - 1 : s[q] = InSide(i)
      BY <1>5, <3>1, <3>2 DEF Topological
    <3>4. q \in 1 .. p
      BY <1>0
    <3> QED
      BY <3>3, <3>4
  <2> QED
    BY <2>2, <2>3
<1>8. q \in DOMAIN s /\ \A x \in 1 .. q - 1 : x \in 1 .. p - 1
  BY <1>0
<1>9. \E x \in 1 .. q - 1 : s[x] = OutSide(j)
  BY <1>5, <1>6, <1>7, <1>8 DEF Topological
<1> QED
  BY <1>1, <1>3, <1>8, <1>9

(* What lower has made of the sides it has visited, the first n.            *)
WiredTo(g, s, n, m) ==
    /\ Wired(g, m)
    /\ \A o \in DOMAIN m.of : \E p \in 1 .. n : s[p] = OutSide(o[1])
    /\ \A p \in 1 .. n : ~IsInSide(s[p]) => Valued(g, m, NodeOf(s[p]))
    /\ \A p \in 1 .. n : IsInSide(s[p]) /\ g.nodes[NodeOf(s[p])].hook
                           => Stored(g, m, NodeOf(s[p]))

(* Every input that lower takes has a driver or a default.                  *)
HasSources(g) ==
    \A i \in Nodes(g) : \A k \in ToSet(PinsOf(g, i, FALSE)) :
        Driver(g, i, k) # <<>> \/ Pin(g, i, k).default # <<>>

(* What has been given and stored stays so.                                 *)
LEMMA ValuedStays ==
  ASSUME NEW g, NEW m, NEW t, Grows(m, t)
  PROVE  /\ \A i : Valued(g, m, i) => Valued(g, t, i)
         /\ \A i : Stored(g, m, i) => Stored(g, t, i)
<1>1. \A i : Valued(g, m, i) => Valued(g, t, i)
  BY DEF Valued, Grows
<1>2. ASSUME NEW i, Stored(g, m, i) PROVE Stored(g, t, i)
  <2>1. ASSUME NEW k \in ToSet(PinsOf(g, i, FALSE))
        PROVE  \E v \in DOMAIN t.code : StoreOf(g, t, i, k, t.code[v])
    <3>1. PICK v \in DOMAIN m.code : StoreOf(g, m, i, k, m.code[v])
      BY <1>2, <2>1 DEF Stored
    <3>2. v \in DOMAIN t.code /\ t.code[v] = m.code[v]
      BY DEF Grows
    <3>3. StoreOf(g, t, i, k, m.code[v])
      BY <3>1, SourceStays
    <3> QED
      BY <3>2, <3>3
  <2> QED
    BY <2>1 DEF Stored
<1> QED
  BY <1>1, <1>2

(* A visit takes what the visits before it have given, ...                  *)
LEMMA SourcesThere ==
  ASSUME NEW g, IsGraph(g), Readable(g), HasSources(g), NEW n \in DOMAIN Schedule(g),
         NEW m, WiredTo(g, Schedule(g), n - 1, m), NEW i, i = NodeOf(Schedule(g)[n]),
         i \in Nodes(g), g.nodes[i].hook <=> IsInSide(Schedule(g)[n])
  PROVE  Sources(g, m, i)
<1> DEFINE s == Schedule(g)
<1>1. ASSUME NEW k \in ToSet(PinsOf(g, i, FALSE)) PROVE Takeable(g, m, i, k)
  <2> DEFINE d == Driver(g, i, k)
  <2>1. CASE d = <<>>
    BY <1>1, <2>1 DEF HasSources, Takeable
  <2>2. CASE d # <<>>
    <3>1. /\ \E q \in 1 .. n - 1 : s[q] = OutSide(d[1].from)
          /\ d[1].from \in Nodes(g) /\ d[1].fpin \in ToSet(PinsOf(g, d[1].from, TRUE))
      <4>1. n \in DOMAIN s /\ i = NodeOf(s[n]) /\ (g.nodes[i].hook <=> IsInSide(s[n]))
        OBVIOUS
      <4> HIDE DEF s
      <4> QED
        BY <2>2, <4>1, DriversBefore DEF s
    <3> HIDE DEF d, s
    <3>2. PICK q \in 1 .. n - 1 : s[q] = OutSide(d[1].from)
      BY <3>1
    <3>3. NodeOf(s[q]) = d[1].from /\ ~IsInSide(s[q])
      BY <3>1, <3>2, SidesAre
    <3>4. Valued(g, m, d[1].from)
      BY <3>2, <3>3 DEF WiredTo, s
    <3>5. <<d[1].from, d[1].fpin>> \in DOMAIN m.of
      BY <3>1, <3>4 DEF Valued
    <3> QED
      BY <2>2, <3>5 DEF Takeable, d
  <2> QED
    BY <2>1, <2>2
<1> QED
  BY <1>1 DEF Sources

(* ... and leaves the graph wired as far as it has gone.                    *)
LEMMA VisitWiresTo ==
  ASSUME NEW g, IsGraph(g), Readable(g), NEW n \in 1 .. Len(Schedule(g)),
         NEW m, WellMade(m), m.ok => WiredTo(g, Schedule(g), n - 1, m)
  PROVE  LET t == Visit(g, m, Schedule(g)[n])
         IN  /\ t.ok => WiredTo(g, Schedule(g), n, t)
             /\ m.ok /\ HasSources(g) => t.ok
<1> DEFINE s == Schedule(g)
           v == s[n]
           i == NodeOf(v)
           t == Visit(g, m, v)
<1>1. n \in DOMAIN s /\ v \in Sides(g)
  BY LoweredIs
<1>2. i \in Nodes(g) /\ (IF IsInSide(v) THEN v = InSide(i) ELSE v = OutSide(i))
  BY <1>1, SideOfNode, SidesAre
<1>3. Len(s) \in Nat /\ Once(s) /\ DOMAIN s = 1 .. Len(s)
  BY LoweredIs, ScheduleSorted
<1> HIDE DEF s
<1>4. /\ n \in 1 .. n /\ n - 1 \in Nat
      /\ (\A p \in 1 .. n - 1 : p \in 1 .. n /\ p \in 1 .. Len(s) /\ p # n)
      /\ \A p \in 1 .. n : p = n \/ p \in 1 .. n - 1
  BY <1>3 DEF s
<1>5. m.ok /\ ~IsInSide(v) => Unvalued(g, m, i)
  <2> SUFFICES ASSUME m.ok, ~IsInSide(v), NEW k, <<i, k>> \in DOMAIN m.of PROVE FALSE
    BY DEF Unvalued
  <2>1. \E p \in 1 .. n - 1 : s[p] = OutSide(<<i, k>>[1])
    BY DEF WiredTo, s
  <2>2. PICK p \in 1 .. n - 1 : s[p] = v
    BY <1>2, <2>1
  <2> QED
    BY <1>1, <1>3, <1>4, <2>2 DEF Once
<1>6. /\ t.ok => /\ m.ok /\ Wired(g, t) /\ Grows(m, t)
                 /\ ~IsInSide(v) => Valued(g, t, i)
                 /\ \A o \in DOMAIN t.of : o \in DOMAIN m.of \/ (~IsInSide(v) /\ o[1] = i)
                 /\ g.nodes[i].hook /\ IsInSide(v) => Stored(g, t, i)
      /\ m.ok /\ ((g.nodes[i].hook <=> IsInSide(v)) => Sources(g, m, i)) => t.ok
  <2>1. m.ok => Wired(g, m)
    BY DEF WiredTo
  <2> HIDE DEF v
  <2> QED
    BY <1>1, <1>5, <2>1, VisitWired
<1>7. ASSUME t.ok PROVE WiredTo(g, s, n, t)
  <2>0. m.ok /\ WiredTo(g, s, n - 1, m) /\ Wired(g, t) /\ Grows(m, t)
    BY <1>6, <1>7 DEF s
  <2>1. ASSUME NEW o \in DOMAIN t.of PROVE \E p \in 1 .. n : s[p] = OutSide(o[1])
    <3>1. CASE o \in DOMAIN m.of
      BY <1>4, <2>0, <3>1 DEF WiredTo
    <3>2. CASE ~IsInSide(v) /\ o[1] = i
      BY <1>2, <1>4, <3>2
    <3> QED
      BY <1>6, <1>7, <2>1, <3>1, <3>2
  <2>2. ASSUME NEW p \in 1 .. n, ~IsInSide(s[p]) PROVE Valued(g, t, NodeOf(s[p]))
    <3>1. CASE p = n
      BY <1>6, <1>7, <2>2, <3>1
    <3>2. CASE p \in 1 .. n - 1
      <4>1. Valued(g, m, NodeOf(s[p]))
        BY <2>0, <2>2, <3>2 DEF WiredTo
      <4> HIDE DEF t
      <4> QED
        BY <2>0, <4>1, ValuedStays
    <3> QED
      BY <1>4, <3>1, <3>2
  <2>3. ASSUME NEW p \in 1 .. n, IsInSide(s[p]), g.nodes[NodeOf(s[p])].hook
        PROVE  Stored(g, t, NodeOf(s[p]))
    <3>1. CASE p = n
      BY <1>6, <1>7, <2>3, <3>1
    <3>2. CASE p \in 1 .. n - 1
      <4>1. Stored(g, m, NodeOf(s[p]))
        BY <2>0, <2>3, <3>2 DEF WiredTo
      <4> HIDE DEF t
      <4> QED
        BY <2>0, <4>1, ValuedStays
    <3> QED
      BY <1>4, <3>1, <3>2
  <2> QED
    BY <2>0, <2>1, <2>2, <2>3 DEF WiredTo
<1>8. ASSUME m.ok, HasSources(g), g.nodes[i].hook <=> IsInSide(v) PROVE Sources(g, m, i)
  BY <1>1, <1>2, <1>8, SourcesThere DEF s
<1> QED
  BY <1>6, <1>7, <1>8 DEF s

(* The program is the graph: each output pin has a value, got from the      *)
(* sources of its node's inputs; each input of a hook is stored, and        *)
(* nothing else is.                                                         *)
IsTheGraph(g, m) ==
    /\ Wired(g, m)
    /\ \A i \in Nodes(g) : Valued(g, m, i) /\ (g.nodes[i].hook => Stored(g, m, i))

LEMMA LoweredWired ==
  ASSUME NEW g, IsGraph(g), Readable(g)
  PROVE  /\ Lowered(g).ok => Wired(g, Lowered(g))
         /\ Lowered(g).ok /\ ~Cyclic(g) => IsTheGraph(g, Lowered(g))
         /\ HasSources(g) => Lowered(g).ok
<1> DEFINE N == Len(Schedule(g))
<1>0. N \in Nat /\ \A n \in 1 .. N : Schedule(g)[n] \in Sides(g)
  BY LoweredIs
<1>1. PICK f : Visits(g, f)
  BY LoweredIs
<1>2. /\ f[0] = Empty /\ \A n \in 1 .. N : f[n] = Visit(g, f[n - 1], Schedule(g)[n])
      /\ Lowered(g) = f[N]
  BY <1>1 DEF Visits
<1> DEFINE Q == {n \in 0 .. N : /\ WellMade(f[n])
                                /\ f[n].ok => WiredTo(g, Schedule(g), n, f[n])
                                /\ HasSources(g) => f[n].ok}
<1>3. 0 \in Q
  <2>1. WellMade(Empty) /\ Empty.ok
    BY Short DEF Empty, WellMade, OneEach
  <2>2. DOMAIN Empty.of = {} /\ DOMAIN Empty.code = {} /\ 1 .. 0 = {}
    BY DEF Empty
  <2>3. WiredTo(g, Schedule(g), 0, Empty)
    BY <2>2 DEF WiredTo, Wired
  <2> QED
    BY <1>0, <1>2, <2>1, <2>3
<1>4. ASSUME NEW n \in 1 .. N, n - 1 \in Q PROVE n \in Q
  <2> DEFINE m == f[n - 1]
  <2>1. /\ WellMade(m) /\ (m.ok => WiredTo(g, Schedule(g), n - 1, m))
        /\ (HasSources(g) => m.ok) /\ f[n] = Visit(g, m, Schedule(g)[n])
    BY <1>2, <1>4
  <2>2. WellMade(f[n])
    BY <1>0, <2>1, VisitMade
  <2> HIDE DEF m
  <2>3. /\ f[n].ok => WiredTo(g, Schedule(g), n, f[n])
        /\ m.ok /\ HasSources(g) => f[n].ok
    BY <2>1, VisitWiresTo
  <2>4. n \in 0 .. N
    BY <1>0
  <2> QED
    BY <2>1, <2>2, <2>3, <2>4
<1> HIDE DEF Q
<1>5. \A n \in 0 .. N : n \in Q
  <2> HIDE DEF N
  <2> QED
    BY <1>0, <1>3, <1>4, Upwards
<1>6. /\ Lowered(g).ok => WiredTo(g, Schedule(g), N, Lowered(g))
      /\ HasSources(g) => Lowered(g).ok
  BY <1>0, <1>2, <1>5 DEF Q
<1>7. ASSUME Lowered(g).ok, ~Cyclic(g), NEW i \in Nodes(g)
      PROVE  Valued(g, Lowered(g), i) /\ (g.nodes[i].hook => Stored(g, Lowered(g), i))
  <2>1. ToSet(Schedule(g)) = Sides(g) /\ DOMAIN Schedule(g) = 1 .. N
    BY <1>7, ScheduleSorted, LoweredIs
  <2>2. InSide(i) \in Sides(g) /\ OutSide(i) \in Sides(g)
    BY <1>7, SideOfNode
  <2>3. PICK a \in 1 .. N : Schedule(g)[a] = OutSide(i)
    BY <2>1, <2>2 DEF ToSet
  <2>4. PICK b \in 1 .. N : Schedule(g)[b] = InSide(i)
    BY <2>1, <2>2 DEF ToSet
  <2>5. /\ NodeOf(InSide(i)) = i /\ NodeOf(OutSide(i)) = i
        /\ IsInSide(InSide(i)) /\ ~IsInSide(OutSide(i))
    BY <1>7, SidesAre
  <2>6. Valued(g, Lowered(g), i)
    BY <1>6, <1>7, <2>3, <2>5 DEF WiredTo
  <2>7. g.nodes[i].hook => Stored(g, Lowered(g), i)
    BY <1>6, <1>7, <2>4, <2>5 DEF WiredTo
  <2> QED
    BY <2>6, <2>7
<1> QED
  BY <1>6, <1>7 DEF WiredTo, IsTheGraph

-----------------------------------------------------------------------------
(* The program of a build: every operand stands before its use, and a       *)
(* store has one.                                                           *)
Program ==
    /\ IsList(program) /\ OneEach(program)
    /\ \A v \in DOMAIN program : Placed(program[v], v)

(* lower makes such a program.                                              *)
LEMMA ProgramMade ==
  ASSUME graph \in Graphs, Program, Lower
  PROVE  Program'
<1>1. CASE /\ Readable(graph) /\ Lowered(graph).ok
           /\ program' = Lowered(graph).code
  <2>1. WellMade(Lowered(graph))
    BY <1>1, GraphAssumption, LoweredMade
  <2> HIDE DEF Lowered
  <2> QED
    BY <1>1, <2>1 DEF WellMade, Program
<1>2. CASE program' = program
  BY <1>2 DEF Program
<1> QED
  BY <1>1, <1>2 DEF Lower

(* Stores are instructions of the program.                                  *)
LEMMA StoresMade ==
  ASSUME Program
  PROVE  /\ Len(Stores) \in Nat
         /\ \A n \in 1 .. Len(Stores) : Stores[n].operands[1] \in DOMAIN program
<1> DEFINE P == {n \in DOMAIN program : IsStore(program[n])}
<1>1. P \in SUBSET DOMAIN program /\ IsList(program)
  BY DEF Program
<1>2. Stores = AtPlaces(program, P)
  BY DEF Stores
<1>3. ASSUME NEW p \in P PROVE program[p].operands[1] \in DOMAIN program
  <2>1. Len(program[p].operands) = 1 /\ Placed(program[p], p) /\ p \in DOMAIN program
    BY DEF Program, OneEach, IsStore
  <2>2. program[p].operands[1] \in 1 .. p - 1
    BY <2>1, ListHas DEF Placed
  <2>3. PICK N \in Nat : DOMAIN program = 1 .. N
    BY <1>1, ListHas
  <2> QED
    BY <2>1, <2>2, <2>3
<1> HIDE DEF P
<1>4. /\ IsList(AtPlaces(program, P)) /\ Len(AtPlaces(program, P)) = Cardinality(P)
      /\ Cardinality(P) \in Nat
      /\ \A k \in DOMAIN AtPlaces(program, P) : \E p \in P : AtPlaces(program, P)[k] = program[p]
  BY <1>1, AtPlacesList
<1>5. DOMAIN Stores = 1 .. Len(Stores)
  BY <1>2, <1>4, ListHas
<1> HIDE DEF Stores
<1> QED
  BY <1>2, <1>3, <1>4, <1>5

-----------------------------------------------------------------------------
(* The walk of a store's calls.                                             *)

(* The row of calls below a value, from the rows f of those before it.      *)
Row(f, v) ==
    Joined([k \in 1 .. Len(program[v].operands) |->
              IF IsCall(program[v].operands[k]) THEN f[program[v].operands[k]] ELSE <<>>])
      \o <<v>>

(* It is made of the rows of earlier values alone.                          *)
LEMMA RowsOfEarlier ==
  ASSUME Program, NEW v \in DOMAIN program, NEW f, NEW h, \A u \in 1 .. v - 1 : f[u] = h[u]
  PROVE  Row(f, v) = Row(h, v)
<1>1. Placed(program[v], v)
  BY DEF Program
<1>2. \A k \in 1 .. Len(program[v].operands) : program[v].operands[k] \in 1 .. v - 1
  BY <1>1, ListHas DEF Placed
<1>3. [k \in 1 .. Len(program[v].operands) |->
              IF IsCall(program[v].operands[k]) THEN f[program[v].operands[k]] ELSE <<>>]
       = [k \in 1 .. Len(program[v].operands) |->
              IF IsCall(program[v].operands[k]) THEN h[program[v].operands[k]] ELSE <<>>]
  BY <1>2
<1> QED
  BY <1>3 DEF Row

(* The walk's recursion is well founded: it gives each value its row.       *)
LEMMA BelowIs ==
  ASSUME Program
  PROVE  /\ DOMAIN Below = DOMAIN program
         /\ \A v \in DOMAIN program : Below[v] = Row(Below, v)
<1> DEFINE N == Len(program)
           Eq(f) == f = [v \in 1 .. N |-> Row(f, v)]
           From(f, l) == DOMAIN f = 1 .. l /\ \A v \in 1 .. l : f[v] = Row(f, v)
           P == {l \in 0 .. N : \E f : From(f, l)}
<1>u. Below = CHOOSE f : Eq(f)
  BY DEF Below, Row
<1>0. N \in Nat /\ DOMAIN program = 1 .. N
  BY ListHas DEF Program
<1> HIDE DEF N, From, Eq, P
<1>1. 0 \in P
  <2> DEFINE f == [v \in {} |-> 0]
  <2>1. From(f, 0)
    BY DEF From
  <2> QED
    BY <1>0, <2>1 DEF P
<1>2. ASSUME NEW l \in 1 .. N, l - 1 \in P PROVE l \in P
  <2>1. PICK f : From(f, l - 1)
    BY <1>2 DEF P
  <2> DEFINE r == Row(f, l)
             h == [v \in 1 .. l |-> IF v = l THEN r ELSE f[v]]
  <2>2. \A v \in 1 .. l - 1 : h[v] = f[v]
    BY <1>0
  <2>3. h[l] = r /\ l \in 1 .. l
    BY <1>0
  <2> HIDE DEF h
  <2>4. ASSUME NEW v \in 1 .. l PROVE Row(h, v) = Row(f, v)
    <3>1. \A u \in 1 .. v - 1 : u \in 1 .. l - 1
      BY <1>0
    <3>2. \A u \in 1 .. v - 1 : h[u] = f[u]
      BY <2>2, <3>1
    <3>3. v \in DOMAIN program
      BY <1>0
    <3> QED
      BY <3>2, <3>3, RowsOfEarlier
  <2>5. ASSUME NEW v \in 1 .. l PROVE h[v] = Row(h, v)
    <3>1. CASE v = l
      BY <2>3, <2>4, <3>1
    <3>2. CASE v # l
      <4>1. v \in 1 .. l - 1
        BY <1>0, <3>2
      <4>2. f[v] = Row(f, v)
        BY <2>1, <4>1 DEF From
      <4> QED
        BY <2>2, <2>4, <4>1, <4>2
    <3> QED
      BY <3>1, <3>2
  <2>6. From(h, l)
    BY <2>5 DEF From, h
  <2> QED
    BY <2>6 DEF P
<1>3. N \in P
  <2>1. \A n \in 0 .. N : n \in P
    BY <1>0, <1>1, <1>2, Upwards
  <2> QED
    BY <1>0, <2>1
<1>4. \E f : Eq(f)
  <2>1. PICK f : From(f, N)
    BY <1>3 DEF P
  <2> DEFINE h == [v \in 1 .. N |-> f[v]]
  <2>2. \A v \in 1 .. N : h[v] = f[v]
    OBVIOUS
  <2>3. DOMAIN h = 1 .. N /\ h = [v \in 1 .. N |-> h[v]]
    OBVIOUS
  <2> HIDE DEF h
  <2>4. ASSUME NEW v \in 1 .. N PROVE h[v] = Row(h, v)
    <3>1. \A u \in 1 .. v - 1 : h[u] = f[u]
      BY <1>0, <2>2
    <3>2. v \in DOMAIN program
      BY <1>0
    <3>3. Row(h, v) = Row(f, v)
      BY <3>1, <3>2, RowsOfEarlier
    <3> QED
      BY <2>1, <2>2, <3>3 DEF From
  <2>5. h = [v \in 1 .. N |-> Row(h, v)]
    BY <2>3, <2>4
  <2> QED
    BY <2>5 DEF Eq
<1>5. Eq(Below)
  BY <1>4, <1>u, Zenon
<1> HIDE DEF Below
<1>6. DOMAIN Below = 1 .. N /\ \A v \in 1 .. N : Below[v] = Row(Below, v)
  BY <1>5 DEF Eq
<1> QED
  BY <1>0, <1>6

(* The calls up to a value.                                                 *)
CallsTo(v) == {u \in 1 .. v : IsCall(u)}

(* A row, when the rows it is made of are of calls.                         *)
LEMMA RowMade ==
  ASSUME Program, NEW v \in DOMAIN program, IsCall(v), NEW f,
         \A u \in 1 .. v - 1 : IsCall(u) => f[u] \in Seq(CallsTo(u))
  PROVE  \E s \in Seq(CallsTo(v - 1)) : Row(f, v) = s \o <<v>>
<1> DEFINE o == program[v].operands
           ss == [k \in 1 .. Len(o) |-> IF IsCall(o[k]) THEN f[o[k]] ELSE <<>>]
<1>1. IsList(o) /\ \A k \in DOMAIN o : o[k] \in 1 .. v - 1
  BY DEF Program, Placed
<1>2. PICK n \in Nat : n = Len(o) /\ DOMAIN o = 1 .. n
  BY <1>1, ListHas
<1>3. v \in Nat
  BY ListHas DEF Program
<1>4. \A u \in 1 .. v - 1 : CallsTo(u) \subseteq CallsTo(v - 1)
  BY <1>3 DEF CallsTo
<1>5. \A u \in 1 .. v - 1 : IsCall(u) => f[u] \in Seq(CallsTo(v - 1))
  <2>1. ASSUME NEW S, NEW T, S \subseteq T, NEW s \in Seq(S) PROVE s \in Seq(T)
    BY <2>1
  <2> QED
    BY <1>4, <2>1
<1>6. ASSUME NEW k \in 1 .. n PROVE ss[k] \in Seq(CallsTo(v - 1))
  <2>1. <<>> \in Seq(CallsTo(v - 1))
    OBVIOUS
  <2> QED
    BY <1>1, <1>2, <1>5, <2>1
<1>7. ss \in Seq(Seq(CallsTo(v - 1))) /\ DOMAIN ss = 1 .. n
  <2>1. ss \in [1 .. n -> Seq(CallsTo(v - 1))]
    BY <1>2, <1>6
  <2> QED
    BY <2>1
<1>8. Row(f, v) = Joined(ss) \o <<v>>
  BY DEF Row
<1> HIDE DEF ss
<1>9. IsList(ss)
  BY <1>7, ListIs
<1>10. Joined(ss) \in Seq(CallsTo(v - 1))
  BY <1>6, <1>7, <1>9, JoinedType
<1> QED
  BY <1>8, <1>10

(* Below a call: calls before it, and then the call itself.                 *)
LEMMA BelowMade ==
  ASSUME Program, NEW v \in DOMAIN program, IsCall(v)
  PROVE  \E s \in Seq(CallsTo(v - 1)) : Below[v] = s \o <<v>>
<1>0. PICK N \in Nat : N = Len(program) /\ DOMAIN program = 1 .. N
  BY ListHas DEF Program
<1> DEFINE P == {l \in 0 .. N : \A u \in 1 .. l : IsCall(u) => Below[u] \in Seq(CallsTo(u))}
<1>1. 0 \in P
  BY <1>0
<1>2. ASSUME NEW l \in 1 .. N, l - 1 \in P PROVE l \in P
  <2>1. \A u \in 1 .. l - 1 : IsCall(u) => Below[u] \in Seq(CallsTo(u))
    BY <1>2
  <2>2. l \in DOMAIN program
    BY <1>0
  <2>3. ASSUME IsCall(l) PROVE Below[l] \in Seq(CallsTo(l))
    <3>1. PICK s \in Seq(CallsTo(l - 1)) : Row(Below, l) = s \o <<l>>
      BY <2>1, <2>2, <2>3, RowMade
    <3>2. CallsTo(l - 1) \subseteq CallsTo(l) /\ l \in CallsTo(l)
      BY <1>0, <2>3 DEF CallsTo
    <3>3. s \o <<l>> \in Seq(CallsTo(l))
      BY <3>2
    <3> QED
      BY <2>2, <3>1, <3>3, BelowIs
  <2>4. \A u \in 1 .. l : u = l \/ u \in 1 .. l - 1
    BY <1>0
  <2> QED
    BY <1>0, <2>1, <2>3, <2>4
<1> HIDE DEF P
<1>3. \A l \in 0 .. N : l \in P
  BY <1>0, <1>1, <1>2, Upwards
<1>4. v - 1 \in 0 .. N
  BY <1>0
<1>5. \A u \in 1 .. v - 1 : IsCall(u) => Below[u] \in Seq(CallsTo(u))
  BY <1>3, <1>4 DEF P
<1>6. Below[v] = Row(Below, v)
  BY BelowIs
<1> QED
  BY <1>5, <1>6, RowMade

(* The walk of a call: calls up to it, itself the last; of another value,   *)
(* that value.                                                              *)
LEMMA WalkMade ==
  ASSUME Program, NEW v \in DOMAIN program
  PROVE  /\ IsList(Walk(v)) /\ Len(Walk(v)) \in Nat \ {0} /\ Walk(v)[Len(Walk(v))] = v
         /\ IsCall(v) => \A k \in DOMAIN Walk(v) : Walk(v)[k] \in CallsTo(v)
         /\ ~IsCall(v) => Walk(v) = <<v>>
<1>1. CASE ~IsCall(v)
  BY <1>1, Short DEF Walk
<1>2. CASE IsCall(v)
  <2> DEFINE b == Below[v]
             P == {k \in DOMAIN b : \A j \in 1 .. k - 1 : b[j] # b[k]}
             w == FirstOfEach(b)
  <2>1. PICK s \in Seq(CallsTo(v - 1)) : b = s \o <<v>>
    BY <1>2, BelowMade
  <2>2. PICK n \in Nat : n = Len(s)
    OBVIOUS
  <2>3. /\ IsList(b) /\ Len(b) = n + 1 /\ b[n + 1] = v
        /\ \A k \in 1 .. n : b[k] = s[k] /\ s[k] \in CallsTo(v - 1)
    <3>1. IsList(s) /\ \A k \in DOMAIN s : s[k] \in CallsTo(v - 1)
      BY ListIs
    <3>2. IsList(<<v>>) /\ Len(<<v>>) = 1 /\ <<v>>[1] = v
      BY Short
    <3>3. /\ IsList(s \o <<v>>) /\ Len(s \o <<v>>) = n + 1
          /\ \A k \in 1 .. n : (s \o <<v>>)[k] = s[k]
          /\ \A k \in 1 .. 1 : (s \o <<v>>)[n + k] = <<v>>[k]
      BY <2>2, <3>1, <3>2, Lists
    <3> QED
      BY <2>1, <2>2, <3>1, <3>2, <3>3
  <2>4. v \in Nat /\ DOMAIN b = 1 .. n + 1
    BY <2>3, ListHas DEF Program
  <2>5. \A k \in 1 .. n : b[k] # v
    <3>1. \A u \in CallsTo(v - 1) : u # v
      BY <2>4 DEF CallsTo
    <3> QED
      BY <2>3, <3>1
  <2>6. \A k \in DOMAIN b : b[k] \in CallsTo(v)
    <3>1. \A k \in 1 .. n + 1 : k = n + 1 \/ k \in 1 .. n
      OBVIOUS
    <3>2. CallsTo(v - 1) \subseteq CallsTo(v) /\ v \in CallsTo(v)
      BY <1>2, <2>4 DEF CallsTo
    <3> QED
      BY <2>3, <2>4, <3>1, <3>2
  <2>7. w = AtPlaces(b, P) /\ Walk(v) = w
    BY <1>2 DEF FirstOfEach, Walk
  <2>8. /\ P \in SUBSET DOMAIN b /\ n + 1 \in P
    BY <2>3, <2>4, <2>5
  <2> HIDE DEF b, w, P
  <2>9. /\ IsList(w) /\ Len(w) = Cardinality(P) /\ Cardinality(P) \in Nat
        /\ \A k \in DOMAIN w : \E p \in P : w[k] = b[p]
    BY <2>3, <2>7, <2>8, AtPlacesList
  <2>10. IsFiniteSet(P) /\ P \in SUBSET (1 .. n + 1)
    <3>1. IsFiniteSet(1 .. n + 1)
      BY FS_Interval
    <3> QED
      BY <2>4, <2>8, <3>1, FS_Subset
  <2>11. Cardinality(P) # 0
    BY <2>8, <2>10, FS_EmptySet
  <2>12. w[Cardinality(P)] = v
    <3> DEFINE m == CHOOSE k \in P : Cardinality({j \in P : j <= k}) = Cardinality(P)
    <3>1. Cardinality(P) \in 1 .. Cardinality(P)
      BY <2>9, <2>11
    <3>2. \E k \in P : Cardinality({j \in P : j <= k}) = Cardinality(P)
      <4>1. PICK N \in Nat : N = n + 1
        OBVIOUS
      <4> QED
        BY <2>10, <3>1, <4>1, PlaceOfRank
    <3>3. m \in P /\ Cardinality({j \in P : j <= m}) = Cardinality(P)
      BY <3>2, Zenon
    <3>4. w[Cardinality(P)] = b[m]
      BY <2>7, <3>1 DEF AtPlaces
    <3> HIDE DEF m
    <3>5. {j \in P : j <= m} = P
      BY <2>10, <3>3, FS_Subset
    <3>6. n + 1 <= m
      BY <2>8, <3>5
    <3>7. m = n + 1
      BY <2>10, <3>3, <3>6
    <3> QED
      BY <2>3, <3>4, <3>7
  <2>13. \A k \in DOMAIN w : w[k] \in CallsTo(v)
    BY <2>6, <2>8, <2>9
  <2> QED
    BY <1>2, <2>7, <2>9, <2>11, <2>12, <2>13
<1> QED
  BY <1>1, <1>2

-----------------------------------------------------------------------------
(* The code of a store on an SH-2A: a store writes where its literal points.*)

(* A store writes where the literal before it points, at one of D.          *)
StoreAt(b, n, p, D) ==
    /\ p - 1 \in 1 .. n /\ Sh!IsLiteral(b[p - 1])
    /\ b[p - 1].n = b[p].n /\ b[p].n \in Sh!Registers /\ b[p - 1].x \in D

(* A branch goes forward to a literal, and passes one literal at most.      *)
BranchAt(b, n, p, x) ==
    /\ x \in Nat /\ p + 2 + x \in 1 .. n /\ Sh!IsLiteral(b[p + 2 + x])
    /\ \A q, r \in p .. p + 1 + x : Sh!IsLiteral(b[q]) /\ Sh!IsLiteral(b[r]) => q = r

(* A literal is one that the backend writes.                                *)
Whole(c) == c.op = "movl_pc" => c = Sh!Literal(c.n, c.x)

(* What an instruction of a store's code is at its place: no jump away and  *)
(* no literal of the pool, and a store or a branch as above.                *)
ShAt(b, n, p, D) ==
    /\ b[p].op \notin {"jmp", "long"} /\ Whole(b[p])
    /\ b[p].op = "store" => StoreAt(b, n, p, D)
    /\ b[p].op \in {"bt", "bra"} => BranchAt(b, n, p, b[p].x)

(* A piece of code of which each instruction is so.                         *)
ShTame(b, D) == IsList(b) /\ \A p \in 1 .. Len(b) : ShAt(b, Len(b), p, D)

(* What is so in a piece of code is so with more behind it ...              *)
LEMMA ShBefore ==
  ASSUME NEW m \in Nat, NEW n \in Nat, NEW D, NEW b, NEW s, \A k \in 1 .. m : b[k] = s[k],
         NEW p \in 1 .. m, ShAt(s, m, p, D)
  PROVE  ShAt(b, m + n, p, D)
<1>1. b[p] = s[p]
  OBVIOUS
<1>2. ASSUME StoreAt(s, m, p, D) PROVE StoreAt(b, m + n, p, D)
  BY <1>2 DEF StoreAt
<1>3. ASSUME NEW x, BranchAt(s, m, p, x) PROVE BranchAt(b, m + n, p, x)
  <2>1. x \in Nat /\ p + 2 + x \in 1 .. m
    BY <1>3 DEF BranchAt
  <2>2. \A q \in p .. p + 1 + x : q \in 1 .. m
    BY <2>1
  <2> QED
    BY <1>3, <2>1, <2>2 DEF BranchAt
<1> QED
  BY <1>1, <1>2, <1>3 DEF ShAt

(* ... and before it.                                                       *)
LEMMA ShBehind ==
  ASSUME NEW m \in Nat, NEW n \in Nat, NEW D, NEW b, NEW t, \A k \in 1 .. n : b[m + k] = t[k],
         NEW p \in 1 .. n, ShAt(t, n, p, D)
  PROVE  ShAt(b, m + n, m + p, D)
<1>1. b[m + p] = t[p]
  OBVIOUS
<1>2. ASSUME StoreAt(t, n, p, D) PROVE StoreAt(b, m + n, m + p, D)
  <2>1. p - 1 \in 1 .. n
    BY <1>2 DEF StoreAt
  <2>2. b[m + p - 1] = t[p - 1] /\ m + p - 1 \in 1 .. m + n
    <3>1. m + p - 1 = m + (p - 1)
      OBVIOUS
    <3> QED
      BY <2>1, <3>1
  <2> QED
    BY <1>1, <1>2, <2>2 DEF StoreAt
<1>3. ASSUME NEW x, BranchAt(t, n, p, x) PROVE BranchAt(b, m + n, m + p, x)
  <2>1. x \in Nat /\ p + 2 + x \in 1 .. n
    BY <1>3 DEF BranchAt
  <2>2. m + p + 2 + x \in 1 .. m + n /\ b[m + p + 2 + x] = t[p + 2 + x]
    <3>1. m + p + 2 + x = m + (p + 2 + x)
      BY <2>1
    <3> QED
      BY <2>1, <3>1
  <2>3. \A q \in m + p .. m + p + 1 + x :
          q - m \in p .. p + 1 + x /\ q - m \in 1 .. n /\ q = m + (q - m)
    BY <2>1
  <2>4. \A q \in m + p .. m + p + 1 + x : b[q] = t[q - m]
    BY <2>3
  <2>5. ASSUME NEW q \in m + p .. m + p + 1 + x, NEW r \in m + p .. m + p + 1 + x,
               Sh!IsLiteral(b[q]), Sh!IsLiteral(b[r])
        PROVE  q = r
    <3>1. q - m = r - m
      BY <1>3, <2>3, <2>4, <2>5 DEF BranchAt
    <3> QED
      BY <3>1
  <2> QED
    BY <1>3, <2>1, <2>2, <2>5 DEF BranchAt
<1> QED
  BY <1>1, <1>2, <1>3 DEF ShAt

(* Two pieces of code, one behind the other.                                *)
LEMMA ShTwo ==
  ASSUME NEW D, NEW s, ShTame(s, D), NEW t, ShTame(t, D)
  PROVE  ShTame(s \o t, D)
<1> DEFINE b == s \o t
<1>1. PICK m \in Nat : m = Len(s)
  BY ListHas DEF ShTame
<1>2. PICK n \in Nat : n = Len(t)
  BY ListHas DEF ShTame
<1>3. /\ IsList(b) /\ Len(b) = m + n
      /\ \A k \in 1 .. m : b[k] = s[k]
      /\ \A k \in 1 .. n : b[m + k] = t[k]
  BY <1>1, <1>2, Lists DEF ShTame
<1> HIDE DEF b
<1>4. \A p \in 1 .. m : ShAt(b, m + n, p, D)
  BY <1>1, <1>3, ShBefore DEF ShTame
<1>5. \A k \in 1 .. n : ShAt(b, m + n, m + k, D)
  BY <1>2, <1>3, ShBehind DEF ShTame
<1>6. \A p \in 1 .. m + n : p \in 1 .. m \/ (p - m \in 1 .. n /\ p = m + (p - m))
  OBVIOUS
<1>7. \A p \in 1 .. m + n : ShAt(b, m + n, p, D)
  BY <1>4, <1>5, <1>6
<1> QED
  BY <1>3, <1>7 DEF ShTame, b

(* A branch with what it passes and what it goes to.                        *)
LEMMA ShBranch ==
  ASSUME NEW D, NEW c, c.op \in {"bt", "bra"}, NEW b, ShTame(b, D),
         c.x \in Nat, c.x + 2 \in 1 .. Len(b), Sh!IsLiteral(b[c.x + 2]),
         \A q, r \in 1 .. c.x + 1 : Sh!IsLiteral(b[q]) /\ Sh!IsLiteral(b[r]) => q = r
  PROVE  ShTame(<<c>> \o b, D)
<1> DEFINE t == <<c>> \o b
<1>1. PICK n \in Nat : n = Len(b)
  BY ListHas DEF ShTame
<1>2. /\ IsList(t) /\ Len(t) = 1 + n /\ t[1] = c
      /\ \A k \in 1 .. n : t[1 + k] = b[k]
  <2>1. IsList(<<c>>) /\ Len(<<c>>) = 1 /\ <<c>>[1] = c
    BY Short
  <2> QED
    BY <1>1, <2>1, Lists DEF ShTame
<1> HIDE DEF t
<1>3. PICK x \in Nat : x = c.x
  OBVIOUS
<1>4. BranchAt(t, 1 + n, 1, x)
  <2>1. x + 2 \in 1 .. n /\ Sh!IsLiteral(b[x + 2])
        /\ \A q, r \in 1 .. x + 1 : Sh!IsLiteral(b[q]) /\ Sh!IsLiteral(b[r]) => q = r
    BY <1>1, <1>3
  <2>2. t[1 + (x + 2)] = b[x + 2] /\ 1 + (x + 2) = 1 + 2 + x /\ 1 + 2 + x \in 1 .. 1 + n
    BY <1>2, <2>1
  <2>3. ~Sh!IsLiteral(c)
    BY DEF Sh!IsLiteral
  <2>4. ASSUME NEW q \in 1 .. 1 + 1 + x, NEW r \in 1 .. 1 + 1 + x,
               Sh!IsLiteral(t[q]), Sh!IsLiteral(t[r])
        PROVE  q = r
    <3>1. q # 1 /\ r # 1
      BY <1>2, <2>3, <2>4
    <3>2. /\ q - 1 \in 1 .. x + 1 /\ q - 1 \in 1 .. n /\ q = 1 + (q - 1)
          /\ r - 1 \in 1 .. x + 1 /\ r - 1 \in 1 .. n /\ r = 1 + (r - 1)
      BY <2>1, <3>1
    <3>3. t[q] = b[q - 1] /\ t[r] = b[r - 1]
      BY <1>2, <3>2
    <3>4. q - 1 = r - 1
      BY <2>1, <2>4, <3>2, <3>3
    <3> QED
      BY <3>2, <3>4
  <2> QED
    BY <2>1, <2>2, <2>4 DEF BranchAt
<1>5. ShAt(t, 1 + n, 1, D)
  BY <1>2, <1>3, <1>4 DEF ShAt, Whole
<1>6. \A k \in 1 .. n : ShAt(t, 1 + n, 1 + k, D)
  BY <1>1, <1>2, ShBehind DEF ShTame
<1>7. \A p \in 1 .. 1 + n : p = 1 \/ (p - 1 \in 1 .. n /\ p = 1 + (p - 1))
  OBVIOUS
<1>8. \A p \in 1 .. 1 + n : ShAt(t, 1 + n, p, D)
  BY <1>5, <1>6, <1>7
<1> QED
  BY <1>2, <1>8 DEF ShTame, t

(* An instruction that neither writes to memory nor branches.               *)
Plain(c) ==
    /\ c.op \notin {"store", "bt", "bra", "jmp", "long"}
    /\ c.op = "movl_pc" => Whole(c)

(* One or two plain instructions.                                           *)
LEMMA ShPlain ==
  ASSUME NEW D
  PROVE  /\ \A c : Plain(c) => ShTame(<<c>>, D)
         /\ \A c, d : Plain(c) /\ Plain(d) => ShTame(<<c, d>>, D)
<1>0. \A b, n, p : Plain(b[p]) => ShAt(b, n, p, D)
  BY DEF ShAt, Plain, Whole
<1>1. ASSUME NEW c, Plain(c) PROVE ShTame(<<c>>, D)
  <2>1. IsList(<<c>>) /\ Len(<<c>>) = 1 /\ \A p \in 1 .. 1 : <<c>>[p] = c
    BY Short
  <2> QED
    BY <1>0, <1>1, <2>1 DEF ShTame
<1>2. ASSUME NEW c, NEW d, Plain(c), Plain(d) PROVE ShTame(<<c, d>>, D)
  <2>1. IsList(<<c, d>>) /\ Len(<<c, d>>) = 2 /\ \A p \in 1 .. 2 : <<c, d>>[p] \in {c, d}
    BY Short
  <2>2. \A p \in 1 .. 2 : Plain(<<c, d>>[p])
    BY <1>2, <2>1
  <2> QED
    BY <1>0, <2>1, <2>2 DEF ShTame
<1> QED
  BY <1>1, <1>2

(* A literal is plain.                                                      *)
LEMMA ShLiteral ==
  ASSUME NEW r, NEW v
  PROVE  /\ Sh!Literal(r, v).op = "movl_pc" /\ Sh!Literal(r, v).n = r /\ Sh!Literal(r, v).x = v
         /\ Sh!IsLiteral(Sh!Literal(r, v)) /\ Plain(Sh!Literal(r, v))
<1> DEFINE l == Sh!Literal(r, v)
<1>1. l.op = "movl_pc" /\ l.n = r /\ l.x = v
  BY DEF Sh!Literal, Sh!Do
<1>2. l = Sh!Literal(l.n, l.x)
  BY <1>1
<1> HIDE DEF l
<1>3. Plain(l) /\ Sh!IsLiteral(l)
  BY <1>1, <1>2 DEF Plain, Whole, Sh!IsLiteral
<1> QED
  BY <1>1, <1>3 DEF l

(* A literal, and a load through it.                                        *)
LEMMA ShLoads ==
  ASSUME NEW D, NEW o, NEW r
  PROVE  /\ ShTame(Sh!Load(o, r), D)
         /\ Len(Sh!Load(o, r)) \in {1, 2} /\ Sh!IsLiteral(Sh!Load(o, r)[1])
         /\ \A k \in 2 .. Len(Sh!Load(o, r)) : ~Sh!IsLiteral(Sh!Load(o, r)[k])
<1> DEFINE l == Sh!Literal(r, o.value)
           d == Sh!Do("load", r, r)
<1>1. Plain(l) /\ Sh!IsLiteral(l)
  BY ShLiteral
<1>2. Plain(d) /\ ~Sh!IsLiteral(d)
  BY DEF Plain, Sh!Do, Sh!IsLiteral
<1> HIDE DEF l, d
<1>3. CASE o.pointer
  <2>1. Sh!Load(o, r) = <<l, d>>
    <3>1. Sh!Load(o, r) = <<l>> \o <<d>>
      BY <1>3 DEF Sh!Load, l, d
    <3> QED
      BY <3>1, PairIs
  <2> QED
    BY <1>1, <1>2, <2>1, ShPlain
<1>4. CASE ~o.pointer
  <2>1. Sh!Load(o, r) = <<l>>
    <3>1. Sh!Load(o, r) = <<l>> \o <<>>
      BY <1>4 DEF Sh!Load, l, d
    <3> QED
      BY <3>1
  <2> QED
    BY <1>1, <2>1, ShPlain
<1> QED
  BY <1>3, <1>4

(* A literal of the place to write to, and the store through it.            *)
LEMMA ShStores ==
  ASSUME NEW D, NEW r, NEW s \in Sh!Registers, NEW v \in D
  PROVE  ShTame(<<Sh!Literal(s, v), Sh!Do("store", r, s)>>, D)
<1> DEFINE l == Sh!Literal(s, v)
           d == Sh!Do("store", r, s)
           t == <<l, d>>
<1>1. l.op = "movl_pc" /\ l.n = s /\ l.x = v /\ Sh!IsLiteral(l) /\ Whole(l)
  BY ShLiteral DEF Plain
<1>2. d.op = "store" /\ d.n = s
  BY DEF Sh!Do
<1> HIDE DEF l, d
<1>3. IsList(t) /\ Len(t) = 2 /\ t[1] = l /\ t[2] = d
  BY Short
<1> HIDE DEF t
<1>4. ShAt(t, 2, 1, D)
  BY <1>1, <1>3 DEF ShAt
<1>5. StoreAt(t, 2, 2, D)
  BY <1>1, <1>2, <1>3 DEF StoreAt
<1>6. ShAt(t, 2, 2, D)
  BY <1>2, <1>3, <1>5 DEF ShAt, Whole
<1>7. \A p \in 1 .. 2 : p = 1 \/ p = 2
  OBVIOUS
<1>8. ShTame(t, D)
  BY <1>3, <1>4, <1>6, <1>7 DEF ShTame
<1> QED
  BY <1>8 DEF t, l, d

(* StoreR1 of the backend.                                                  *)
LEMMA ShStoreR1 ==
  ASSUME NEW D, NEW v \in D
  PROVE  ShTame(Sh!StoreR1(v), D)
<1>1. "r2" \in Sh!Registers
  BY DEF Sh!Registers
<1> QED
  BY <1>1, ShStores DEF Sh!StoreR1

(* Loading a floating point register by way of R0, ...                      *)
LEMMA ShLoadFloat ==
  ASSUME NEW D, NEW o, NEW fr, NEW via, via \in {"fsts", "float"}
  PROVE  ShTame(Sh!LoadFloat(o, fr, via), D)
<1>1. Plain(Sh!Do("lds", "r0", "fpul")) /\ Plain(Sh!Do(via, "fpul", fr))
  BY DEF Plain, Sh!Do
<1> QED
  BY <1>1, ShPlain, ShLoads, ShTwo DEF Sh!LoadFloat

(* ... and storing one by way of R1.                                        *)
LEMMA ShStoreFloat ==
  ASSUME NEW D, NEW fr, NEW via, via \in {"flds", "ftrc"}, NEW v \in D
  PROVE  ShTame(Sh!StoreFloat(fr, via, v), D)
<1>1. Plain(Sh!Do(via, fr, "fpul")) /\ Plain(Sh!Do("sts", "fpul", "r1"))
  BY DEF Plain, Sh!Do
<1> QED
  BY <1>1, ShPlain, ShStoreR1, ShTwo DEF Sh!StoreFloat

(* select: both branches go forward to a literal.                           *)
LEMMA ShSelect ==
  ASSUME NEW D, NEW c, NEW yes, NEW no, NEW v \in D
  PROVE  ShTame(Sh!Select(c, yes, no) \o Sh!StoreR1(v), D)
<1> DEFINE L == Sh!Load(c, "r0")
           Y == Sh!Load(yes, "r1")
           N == Sh!Load(no, "r1")
           S == Sh!StoreR1(v)
           tst == Sh!Do("tst", "r0", "r0")
           bt == Sh!Branch("bt", Len(Y) + 2)
           bra == Sh!Branch("bra", Len(N) + 1)
           nop == Sh!Nop
<1>1. ShTame(L, D) /\ ShTame(Y, D) /\ ShTame(N, D) /\ ShTame(S, D)
  BY ShLoads, ShStoreR1
<1>2. PICK y \in {1, 2} : y = Len(Y)
  BY ShLoads
<1>3. PICK n \in {1, 2} : n = Len(N)
  BY ShLoads
<1>4. /\ Sh!IsLiteral(N[1]) /\ Sh!IsLiteral(Y[1])
      /\ \A k \in 2 .. n : ~Sh!IsLiteral(N[k])
      /\ \A k \in 2 .. y : ~Sh!IsLiteral(Y[k])
  BY <1>2, <1>3, ShLoads
<1>5. Sh!IsLiteral(S[1]) /\ Len(S) = 2
  BY ShLiteral DEF Sh!StoreR1
<1>6. Plain(tst) /\ Plain(nop) /\ ~Sh!IsLiteral(nop)
  BY DEF Plain, Sh!Do, Sh!Nop, Sh!IsLiteral
<1>7. bt.op = "bt" /\ bt.x = y + 1 /\ bra.op = "bra" /\ bra.x = n
  BY <1>2, <1>3 DEF Sh!Branch, Sh!Do
<1>8. Sh!Select(c, yes, no) \o S = ((((L \o <<tst, bt>>) \o Y) \o <<bra, nop>>) \o N) \o S
  BY DEF Sh!Select
<1> HIDE DEF L, Y, N, S, tst, bt, bra, nop
<1> DEFINE A == N \o S
           B == <<nop>> \o A
           C == <<bra>> \o B
           E == Y \o C
           F == <<bt>> \o E
<1>9. IsList(L) /\ IsList(Y) /\ IsList(N) /\ IsList(S)
  BY <1>1 DEF ShTame
<1>10. /\ ShTame(A, D) /\ IsList(A) /\ Len(A) = n + 2
       /\ \A k \in 1 .. n : A[k] = N[k]
       /\ A[n + 1] = S[1]
  <2>1. ShTame(A, D)
    BY <1>1, ShTwo
  <2>2. /\ IsList(A) /\ Len(A) = Len(N) + Len(S)
        /\ \A k \in 1 .. Len(N) : A[k] = N[k]
        /\ \A k \in 1 .. Len(S) : A[Len(N) + k] = S[k]
    BY <1>9, Lists
  <2> HIDE DEF A
  <2> QED
    BY <1>3, <1>5, <2>1, <2>2
<1> HIDE DEF A
<1>11. /\ ShTame(B, D) /\ IsList(B) /\ Len(B) = n + 3 /\ B[1] = nop
       /\ \A k \in 1 .. n + 2 : B[1 + k] = A[k]
  <2>1. ShTame(<<nop>>, D) /\ IsList(<<nop>>) /\ Len(<<nop>>) = 1 /\ <<nop>>[1] = nop
    BY <1>6, ShPlain, Short
  <2>2. ShTame(B, D)
    BY <1>10, <2>1, ShTwo
  <2> QED
    BY <1>3, <1>10, <2>1, <2>2, Lists
<1> HIDE DEF B
<1>12. ShTame(C, D)
  <2>1. B[n + 2] = S[1] /\ n + 2 \in 1 .. Len(B)
    <3>1. n + 2 = 1 + (n + 1) /\ n + 1 \in 1 .. n + 2
      OBVIOUS
    <3> QED
      BY <1>10, <1>11, <3>1
  <2>2. \A q \in 1 .. n + 1 : Sh!IsLiteral(B[q]) => q = 2
    <3>1. \A q \in 1 .. n + 1 : q = 1 \/ q = 2 \/ (q - 1 \in 2 .. n /\ q = 1 + (q - 1))
      OBVIOUS
    <3>2. \A k \in 2 .. n : k \in 1 .. n /\ k \in 1 .. n + 2
      OBVIOUS
    <3>3. \A k \in 2 .. n : ~Sh!IsLiteral(B[1 + k])
      BY <1>4, <1>10, <1>11, <3>2
    <3> QED
      BY <1>6, <1>11, <3>1, <3>3
  <2>3. bra.x + 2 = n + 2 /\ bra.x + 1 = n + 1 /\ bra.x \in Nat
    BY <1>7
  <2> QED
    BY <1>5, <1>7, <1>11, <2>1, <2>2, <2>3, ShBranch
<1>13. /\ IsList(C) /\ Len(C) = n + 4 /\ C[1] = bra /\ C[2] = nop /\ C[3] = N[1]
  <2>1. IsList(<<bra>>) /\ Len(<<bra>>) = 1 /\ <<bra>>[1] = bra
    BY Short
  <2>2. IsList(C) /\ Len(C) = n + 4 /\ C[1] = bra /\ \A k \in 1 .. n + 3 : C[1 + k] = B[k]
    BY <1>11, <2>1, Lists
  <2>3. C[1 + 1] = B[1] /\ C[1 + 2] = B[2] /\ B[1 + 1] = A[1]
    BY <1>11, <2>2
  <2> QED
    BY <1>10, <1>11, <2>2, <2>3
<1> HIDE DEF C
<1>14. /\ ShTame(E, D) /\ IsList(E) /\ Len(E) = y + n + 4
       /\ \A k \in 1 .. y : E[k] = Y[k]
       /\ E[y + 1] = bra /\ E[y + 2] = nop /\ E[y + 3] = N[1]
  <2>1. ShTame(E, D)
    BY <1>1, <1>12, ShTwo
  <2>2. /\ IsList(E) /\ Len(E) = y + (n + 4)
        /\ \A k \in 1 .. y : E[k] = Y[k]
        /\ \A k \in 1 .. n + 4 : E[y + k] = C[k]
    BY <1>2, <1>9, <1>13, Lists
  <2>3. E[y + 1] = C[1] /\ E[y + 2] = C[2] /\ E[y + 3] = C[3]
    BY <2>2
  <2> QED
    BY <1>13, <2>1, <2>2, <2>3
<1> HIDE DEF E
<1>15. ShTame(F, D) /\ IsList(F)
  <2>1. \A q \in 1 .. y + 2 : Sh!IsLiteral(E[q]) => q = 1
    <3>1. \A q \in 1 .. y + 2 : q = 1 \/ q \in 2 .. y \/ q = y + 1 \/ q = y + 2
      OBVIOUS
    <3>2. \A k \in 2 .. y : k \in 1 .. y
      OBVIOUS
    <3>3. \A k \in 2 .. y : ~Sh!IsLiteral(E[k])
      BY <1>4, <1>14, <3>2
    <3>4. ~Sh!IsLiteral(bra)
      BY <1>7 DEF Sh!IsLiteral
    <3> QED
      BY <1>6, <1>14, <3>1, <3>3, <3>4
  <2>2. bt.x + 2 = y + 3 /\ bt.x + 1 = y + 2 /\ bt.x \in Nat
    BY <1>7
  <2>3. y + 3 \in 1 .. Len(E)
    BY <1>14
  <2>4. ShTame(F, D)
    BY <1>4, <1>7, <1>14, <2>1, <2>2, <2>3, ShBranch
  <2> QED
    BY <2>4 DEF ShTame
<1> HIDE DEF F
<1>16. ShTame(L \o (<<tst>> \o F), D)
  BY <1>1, <1>6, <1>15, ShPlain, ShTwo
<1>17. Sh!Select(c, yes, no) \o S = L \o (<<tst>> \o F)
  <2>1. <<tst, bt>> = <<tst>> \o <<bt>> /\ <<bra, nop>> = <<bra>> \o <<nop>>
    BY PairIs
  <2> DEFINE tt == <<tst>>
             bb == <<bt>>
             rr == <<bra>>
             nn == <<nop>>
  <2>2. IsList(tt) /\ IsList(bb) /\ IsList(rr) /\ IsList(nn)
    BY Short
  <2>3. Sh!Select(c, yes, no) \o S = ((((L \o (tt \o bb)) \o Y) \o (rr \o nn)) \o N) \o S
    BY <1>8, <2>1
  <2> DEFINE tb == tt \o bb
             rn == rr \o nn
             p == L \o tb
             q == p \o Y
             w == q \o rn
  <2>4. A = N \o S /\ B = nn \o A /\ C = rr \o B /\ E = Y \o C /\ F = bb \o E
        /\ (((((L \o (tt \o bb)) \o Y) \o (rr \o nn)) \o N) \o S) = (w \o N) \o S
    BY DEF A, B, C, E, F
  <2>5. tb = tt \o bb /\ rn = rr \o nn /\ p = L \o tb /\ q = p \o Y /\ w = q \o rn
    OBVIOUS
  <2>6. IsList(tb) /\ IsList(rn)
    BY <2>2, Lists
  <2> HIDE DEF tt, bb, rr, nn, tb, rn, p, q, w
  <2>7. IsList(p)
    BY ONLY <1>9, <2>5, <2>6, Lists
  <2>8. IsList(q)
    BY ONLY <1>9, <2>5, <2>7, Lists
  <2>9. IsList(w)
    BY ONLY <2>5, <2>6, <2>8, Lists
  <2>10. IsList(N) /\ IsList(S)
    BY <1>9
  <2>11. IsList(L)
    BY <1>9
  <2>12. IsList(Y)
    BY <1>9
  <2>13. (w \o N) \o S = w \o (N \o S)
    BY ONLY <2>9, <2>10, Associates
  <2>14. (q \o rn) \o A = q \o (rn \o A)
    BY ONLY <1>10, <2>6, <2>8, Associates
  <2>15. (rr \o nn) \o A = rr \o (nn \o A)
    BY ONLY <1>10, <2>2, Associates
  <2>16. (p \o Y) \o C = p \o (Y \o C)
    BY ONLY <1>13, <2>7, <2>12, Associates
  <2>e. IsList(E)
    BY <1>14
  <2>t. IsList(tb)
    BY <2>6
  <2>b. IsList(tt) /\ IsList(bb)
    BY <2>2
  <2>17. (L \o tb) \o E = L \o (tb \o E)
    BY ONLY <2>e, <2>t, <2>11, Associates
  <2>18. (tt \o bb) \o E = tt \o (bb \o E)
    BY ONLY <2>e, <2>b, Associates
  <2>19. w \o (N \o S) = q \o (rn \o A)
    BY ONLY <2>4, <2>5, <2>14, Zenon
  <2>20. q \o (rn \o A) = p \o (Y \o C)
    BY ONLY <2>4, <2>5, <2>15, <2>16, Zenon
  <2>21. p \o (Y \o C) = L \o (tt \o F)
    BY ONLY <2>4, <2>5, <2>17, <2>18, Zenon
  <2>22. Sh!Select(c, yes, no) \o S = L \o (tt \o F)
    BY ONLY <2>3, <2>4, <2>13, <2>19, <2>20, <2>21, Zenon
  <2> QED
    BY <2>22 DEF tt
<1> QED
  BY <1>16, <1>17 DEF S

(* The primitives by their kinds of operands.                               *)
Ints == {"add_int", "multiply_int", "and_bool", "or_bool",
         "compare_lt_int", "compare_gt_int", "compare_eq_int"}

(* The operations of two integers.                                          *)
LEMMA ShBinary ==
  ASSUME NEW D
  PROVE  /\ DOMAIN Sh!Binary = Ints
         /\ \A symbol \in Ints : ShTame(Sh!Binary[symbol], D)
<1>1. DOMAIN Sh!Binary = Ints
  BY DEF Sh!Binary, Ints
<1>2. \A op \in {"add", "mul", "sts", "and", "or", "cmp_gt", "cmp_eq", "movt"} :
        \A m, n : Plain(Sh!Do(op, m, n))
  BY DEF Plain, Sh!Do
<1>3. \A op \in {"add", "mul", "sts", "and", "or", "cmp_gt", "cmp_eq", "movt"} :
        \A m, n : ShTame(<<Sh!Do(op, m, n)>>, D)
  BY <1>2, ShPlain
<1>4. \A op, up \in {"add", "mul", "sts", "and", "or", "cmp_gt", "cmp_eq", "movt"} :
        \A m, n, k, l : ShTame(<<Sh!Do(op, m, n), Sh!Do(up, k, l)>>, D)
  BY <1>2, ShPlain
<1>5. ASSUME NEW symbol \in {"add_int", "and_bool", "or_bool"}
      PROVE  ShTame(Sh!Binary[symbol], D)
  BY <1>3 DEF Sh!Binary
<1>6. ASSUME NEW symbol \in {"multiply_int", "compare_lt_int", "compare_gt_int", "compare_eq_int"}
      PROVE  ShTame(Sh!Binary[symbol], D)
  BY <1>4 DEF Sh!Binary
<1> QED
  BY <1>1, <1>5, <1>6 DEF Ints

Floats == {"add_float", "multiply_float"}
Ordered == {"subtract_float", "divide_float"}
Compares == {"compare_lt_float", "compare_gt_float", "compare_eq_float"}

(* The operations of two floating point numbers.                            *)
LEMMA ShFloats ==
  ASSUME NEW D, NEW m, NEW n
  PROVE  /\ DOMAIN Sh!FloatBinary = Floats /\ DOMAIN Sh!FloatOrdered = Ordered
         /\ DOMAIN Sh!FloatCompare = Compares
         /\ \A symbol \in Floats : ShTame(<<Sh!Do(Sh!FloatBinary[symbol], m, n)>>, D)
         /\ \A symbol \in Ordered : ShTame(<<Sh!Do(Sh!FloatOrdered[symbol], m, n)>>, D)
         /\ \A symbol \in Compares : ShTame(<<Sh!FloatCompare[symbol], Sh!Do("movt", m, n)>>, D)
<1>1. /\ DOMAIN Sh!FloatBinary = Floats /\ DOMAIN Sh!FloatOrdered = Ordered
      /\ DOMAIN Sh!FloatCompare = Compares
  BY DEF Sh!FloatBinary, Sh!FloatOrdered, Sh!FloatCompare, Floats, Ordered, Compares
<1>2. ASSUME NEW op \in {"add", "mulf", "sub", "div", "movt", "cmp_gt", "cmp_eq"}, NEW k, NEW l
      PROVE  Plain(Sh!Do(op, k, l))
  BY DEF Plain, Sh!Do
<1>3. ASSUME NEW symbol \in Floats PROVE ShTame(<<Sh!Do(Sh!FloatBinary[symbol], m, n)>>, D)
  <2>1. Sh!FloatBinary[symbol] \in {"add", "mulf"}
    BY DEF Sh!FloatBinary, Floats
  <2> QED
    BY <1>2, <2>1, ShPlain
<1>4. ASSUME NEW symbol \in Ordered PROVE ShTame(<<Sh!Do(Sh!FloatOrdered[symbol], m, n)>>, D)
  <2>1. Sh!FloatOrdered[symbol] \in {"sub", "div"}
    BY DEF Sh!FloatOrdered, Ordered
  <2> QED
    BY <1>2, <2>1, ShPlain
<1>5. ASSUME NEW symbol \in Compares
      PROVE  ShTame(<<Sh!FloatCompare[symbol], Sh!Do("movt", m, n)>>, D)
  <2>1. \E op \in {"cmp_gt", "cmp_eq"} : \E k, l : Sh!FloatCompare[symbol] = Sh!Do(op, k, l)
    BY DEF Sh!FloatCompare, Compares
  <2>2. Plain(Sh!FloatCompare[symbol]) /\ Plain(Sh!Do("movt", m, n))
    BY <1>2, <2>1
  <2> QED
    BY <2>2, ShPlain
<1> QED
  BY <1>1, <1>3, <1>4, <1>5

(* The code of a primitive writes where it was told to.                     *)
LEMMA ShFragment ==
  ASSUME NEW D, NEW symbol \in DOMAIN Shapes, NEW o, NEW v \in D
  PROVE  ShTame(Sh!Fragment(symbol, o, v), D)
<1> DEFINE F == Sh!Fragment(symbol, o, v)
<1>1. DOMAIN Shapes = Ints \cup {"subtract_int", "not_bool", "divide_int"} \cup Selects
                        \cup Floats \cup Ordered \cup Compares
                        \cup {"sqrt_float", "flex_fuel_scale"}
  BY DEF Shapes, Ints, Floats, Ordered, Compares, Selects
<1>2. /\ DOMAIN Sh!Binary = Ints /\ DOMAIN Sh!FloatBinary = Floats
      /\ DOMAIN Sh!FloatOrdered = Ordered /\ DOMAIN Sh!FloatCompare = Compares
      /\ Sh!Selects = Selects
  BY ShBinary, ShFloats DEF Sh!Selects, Selects
<1>3. \A op \in {"tst", "sub", "movt", "div", "sqrt", "mulf", "add"} : \A m, n :
        Plain(Sh!Do(op, m, n))
  BY DEF Plain, Sh!Do
<1>4. \A x, r : ShTame(Sh!Load(x, r), D)
  BY ShLoads
<1> DEFINE E1 == Sh!Load(o[1], "r0") \o Sh!Load(o[2], "r1") \o Sh!Binary[symbol] \o Sh!StoreR1(v)
           E2 == Sh!Subtract(o[1], o[2]) \o Sh!StoreR1(v)
           E3 == Sh!Load(o[1], "r0") \o <<Sh!Do("tst", "r0", "r0"), Sh!Do("movt", "t", "r1")>>
                   \o Sh!StoreR1(v)
           E4 == Sh!Select(o[1], o[2], o[3]) \o Sh!StoreR1(v)
           E5 == Sh!LoadFloat(o[2], "fr0", "float") \o Sh!LoadFloat(o[1], "fr1", "float")
                   \o <<Sh!Do("div", "fr0", "fr1")>> \o Sh!StoreFloat("fr1", "ftrc", v)
           E6 == Sh!LoadFloat(o[1], "fr0", "fsts") \o Sh!LoadFloat(o[2], "fr1", "fsts")
                   \o <<Sh!Do(Sh!FloatBinary[symbol], "fr0", "fr1")>>
                   \o Sh!StoreFloat("fr1", "flds", v)
           E7 == Sh!LoadFloat(o[2], "fr0", "fsts") \o Sh!LoadFloat(o[1], "fr1", "fsts")
                   \o <<Sh!Do(Sh!FloatOrdered[symbol], "fr0", "fr1")>>
                   \o Sh!StoreFloat("fr1", "flds", v)
           E8 == Sh!LoadFloat(o[1], "fr0", "fsts") \o Sh!LoadFloat(o[2], "fr1", "fsts")
                   \o <<Sh!FloatCompare[symbol], Sh!Do("movt", "t", "r1")>> \o Sh!StoreR1(v)
           E9 == Sh!LoadFloat(o[1], "fr0", "fsts") \o <<Sh!Do("sqrt", "fr0", "fr0")>>
                   \o Sh!StoreFloat("fr0", "flds", v)
           E10 == Sh!LoadFloat(o[1], "fr0", "fsts")
                    \o Sh!LoadFloat(Sh!Constant(Sh!Slope), "fr1", "fsts")
                    \o <<Sh!Do("mulf", "fr0", "fr1")>>
                    \o Sh!LoadFloat(Sh!Constant(Sh!Intercept), "fr0", "fsts")
                    \o <<Sh!Do("add", "fr0", "fr1")>> \o Sh!StoreFloat("fr1", "flds", v)
<1>5. F = CASE symbol \in DOMAIN Sh!Binary -> E1
            [] symbol = "subtract_int" -> E2
            [] symbol = "not_bool" -> E3
            [] symbol \in Sh!Selects -> E4
            [] symbol = "divide_int" -> E5
            [] symbol \in DOMAIN Sh!FloatBinary -> E6
            [] symbol \in DOMAIN Sh!FloatOrdered -> E7
            [] symbol \in DOMAIN Sh!FloatCompare -> E8
            [] symbol = "sqrt_float" -> E9
            [] symbol = "flex_fuel_scale" -> E10
  BY DEF Sh!Fragment
<1>6. /\ \A op \in {"tst", "sub", "movt", "div", "sqrt", "mulf", "add"} :
           \A m, n : ShTame(<<Sh!Do(op, m, n)>>, D)
      /\ ShTame(<<Sh!Do("tst", "r0", "r0"), Sh!Do("movt", "t", "r1")>>, D)
  BY <1>3, ShPlain
<1>7. /\ \A x, fr : ShTame(Sh!LoadFloat(x, fr, "fsts"), D)
      /\ \A x, fr : ShTame(Sh!LoadFloat(x, fr, "float"), D)
      /\ \A fr : ShTame(Sh!StoreFloat(fr, "flds", v), D)
      /\ \A fr : ShTame(Sh!StoreFloat(fr, "ftrc", v), D)
  BY ShLoadFloat, ShStoreFloat
<1>8. ShTame(Sh!StoreR1(v), D)
  BY ShStoreR1
<1>9. symbol \in Ints => ShTame(E1, D)
  BY <1>4, <1>8, ShBinary, ShTwo
<1>10. ShTame(E2, D)
  BY <1>4, <1>6, <1>8, ShTwo DEF Sh!Subtract
<1>11. ShTame(E3, D)
  BY <1>4, <1>6, <1>8, ShTwo
<1>12. ShTame(E4, D)
  BY ShSelect
<1>13. ShTame(E5, D)
  BY <1>6, <1>7, ShTwo
<1>14. /\ symbol \in Floats => ShTame(<<Sh!Do(Sh!FloatBinary[symbol], "fr0", "fr1")>>, D)
       /\ symbol \in Ordered => ShTame(<<Sh!Do(Sh!FloatOrdered[symbol], "fr0", "fr1")>>, D)
       /\ symbol \in Compares =>
            ShTame(<<Sh!FloatCompare[symbol], Sh!Do("movt", "t", "r1")>>, D)
  BY ShFloats
<1>15. symbol \in Floats => ShTame(E6, D)
  BY <1>7, <1>14, ShTwo
<1>16. symbol \in Ordered => ShTame(E7, D)
  BY <1>7, <1>14, ShTwo
<1>17. symbol \in Compares => ShTame(E8, D)
  BY <1>7, <1>8, <1>14, ShTwo
<1>18. ShTame(E9, D)
  BY <1>6, <1>7, ShTwo
<1>19. ShTame(E10, D)
  <2> DEFINE a == Sh!LoadFloat(o[1], "fr0", "fsts")
             b == Sh!LoadFloat(Sh!Constant(Sh!Slope), "fr1", "fsts")
             c == <<Sh!Do("mulf", "fr0", "fr1")>>
             d == Sh!LoadFloat(Sh!Constant(Sh!Intercept), "fr0", "fsts")
             e == <<Sh!Do("add", "fr0", "fr1")>>
             f == Sh!StoreFloat("fr1", "flds", v)
  <2>1. E10 = ((((a \o b) \o c) \o d) \o e) \o f
    OBVIOUS
  <2>2. ShTame(c, D) /\ ShTame(e, D)
    BY <1>6
  <2>3. ShTame(a, D) /\ ShTame(b, D) /\ ShTame(d, D) /\ ShTame(f, D)
    BY <1>7
  <2> HIDE DEF a, b, c, d, e, f, E10
  <2>4. ShTame((a \o b) \o c, D)
    BY <2>2, <2>3, ShTwo
  <2>5. ShTame(((a \o b) \o c) \o d, D)
    BY <2>3, <2>4, ShTwo
  <2>6. ShTame((((a \o b) \o c) \o d) \o e, D)
    BY <2>2, <2>5, ShTwo
  <2> QED
    BY <2>1, <2>3, <2>6, ShTwo
<1> HIDE DEF F, E1, E2, E3, E4, E5, E6, E7, E8, E9, E10
<1>20. F = CASE symbol \in Ints -> E1
            [] symbol = "subtract_int" -> E2
            [] symbol = "not_bool" -> E3
            [] symbol \in Selects -> E4
            [] symbol = "divide_int" -> E5
            [] symbol \in Floats -> E6
            [] symbol \in Ordered -> E7
            [] symbol \in Compares -> E8
            [] symbol = "sqrt_float" -> E9
            [] symbol = "flex_fuel_scale" -> E10
  BY <1>2, <1>5
<1>21. ShTame(F, D)
  BY <1>1, <1>9, <1>10, <1>11, <1>12, <1>13, <1>15, <1>16, <1>17, <1>18, <1>19, <1>20
     DEF Ints, Selects, Floats, Ordered, Compares
<1> QED
  BY <1>21 DEF F

(* So does the code of a store without a call.                              *)
LEMMA ShCopy ==
  ASSUME NEW D, NEW o, NEW v \in D
  PROVE  ShTame(Sh!Copy(o, v), D)
<1>1. "r1" \in Sh!Registers
  BY DEF Sh!Registers
<1>2. ShTame(<<Sh!Literal("r1", v), Sh!Do("store", "r0", "r1")>>, D)
  BY <1>1, ShStores
<1> QED
  BY <1>2, ShLoads, ShTwo DEF Sh!Copy

-----------------------------------------------------------------------------
(* The code of a store on an RH850.                                         *)

(* The two halves of an immediate make it up.                               *)
LEMMA Halves ==
  ASSUME NEW v \in Int
  PROVE  /\ Low * Rh!HighPart(v) + Rh!Signed(v % Low) = v
         /\ Rh!HighPart(v) \in Int /\ v % Low \in 0 .. Low - 1
<1> DEFINE q == v \div Low
           m == v % Low
           s == Rh!Signed(m)
<1>0. Low \in Nat \ {0}
  BY CodeAssumption
<1>1. q \in Int /\ m \in 0 .. Low - 1 /\ v = Low * q + m
  BY <1>0
<1> HIDE DEF q, m
<1>2. s = m \/ s = m - Low
  BY DEF Rh!Signed
<1>3. \A k \in Int : (Low * k) \div Low = k
  BY <1>0
<1>4. CASE s = m
  <2>1. v - s = Low * q
    BY <1>0, <1>1, <1>4
  <2>2. Rh!HighPart(v) = q
    BY <1>1, <1>3, <2>1 DEF Rh!HighPart, m
  <2> QED
    BY <1>0, <1>1, <1>4, <2>2 DEF m
<1>5. CASE s = m - Low
  <2>1. v - s = Low * (q + 1) /\ q + 1 \in Int
    BY <1>0, <1>1, <1>5
  <2>2. Rh!HighPart(v) = q + 1
    BY <1>3, <2>1 DEF Rh!HighPart, m
  <2> QED
    BY <1>0, <1>1, <1>5, <2>2 DEF m
<1> QED
  BY <1>2, <1>4, <1>5

(* A store writes where the two immediates before it point, at one of D.    *)
PointedAt(b, n, p, D) ==
    /\ p - 4 \in 1 .. n
    /\ b[p - 4].op = "movhi" /\ b[p - 4].m = "zero" /\ b[p - 4].n = b[p].n
    /\ b[p - 3].op = "low"
    /\ b[p - 2].op = "movea" /\ b[p - 2].m = b[p].n /\ b[p - 2].n = b[p].n
    /\ b[p - 1].op = "low"
    /\ b[p - 4].x \in Int /\ b[p - 2].x \in Int
    /\ b[p].n \in Rh!Registers /\ Low * b[p - 4].x + Rh!Signed(b[p - 2].x) \in D

(* What an instruction of a store's code is at its place, ...               *)
RhAt(b, n, p, D) ==
    /\ b[p].op \notin {"jr", "jmp"} /\ b[p].n # "zero"
    /\ b[p].op = "store" => PointedAt(b, n, p, D)

(* ... and a piece of code of which each instruction is so.                 *)
RhTame(b, D) == IsList(b) /\ \A p \in 1 .. Len(b) : RhAt(b, Len(b), p, D)

(* Two pieces of code, one behind the other.                                *)
LEMMA RhTwo ==
  ASSUME NEW D, NEW s, RhTame(s, D), NEW t, RhTame(t, D)
  PROVE  RhTame(s \o t, D)
<1> DEFINE b == s \o t
<1>1. PICK m \in Nat : m = Len(s)
  BY ListHas DEF RhTame
<1>2. PICK n \in Nat : n = Len(t)
  BY ListHas DEF RhTame
<1>3. /\ IsList(b) /\ Len(b) = m + n
      /\ \A k \in 1 .. m : b[k] = s[k]
      /\ \A k \in 1 .. n : b[m + k] = t[k]
  BY <1>1, <1>2, Lists DEF RhTame
<1> HIDE DEF b
<1>4. ASSUME NEW p \in 1 .. m PROVE RhAt(b, m + n, p, D)
  <2>1. b[p] = s[p] /\ RhAt(s, m, p, D)
    BY <1>1, <1>3 DEF RhTame
  <2>2. ASSUME PointedAt(s, m, p, D) PROVE PointedAt(b, m + n, p, D)
    <3>1. \A k \in {p - 4, p - 3, p - 2, p - 1, p} : k \in 1 .. m
      BY <2>2 DEF PointedAt
    <3>2. /\ b[p - 4] = s[p - 4] /\ b[p - 3] = s[p - 3] /\ b[p - 2] = s[p - 2]
          /\ b[p - 1] = s[p - 1] /\ p - 4 \in 1 .. m + n
      BY <1>3, <3>1
    <3> QED
      BY <2>1, <2>2, <3>2 DEF PointedAt
  <2> QED
    BY <2>1, <2>2 DEF RhAt
<1>5. ASSUME NEW p \in 1 .. n PROVE RhAt(b, m + n, m + p, D)
  <2>1. b[m + p] = t[p] /\ RhAt(t, n, p, D)
    BY <1>2, <1>3 DEF RhTame
  <2>2. ASSUME PointedAt(t, n, p, D) PROVE PointedAt(b, m + n, m + p, D)
    <3>1. \A k \in {p - 4, p - 3, p - 2, p - 1, p} : k \in 1 .. n
      BY <2>2 DEF PointedAt
    <3>2. /\ m + p - 4 = m + (p - 4) /\ m + p - 3 = m + (p - 3) /\ m + p - 2 = m + (p - 2)
          /\ m + p - 1 = m + (p - 1) /\ m + p - 4 \in 1 .. m + n
      BY <3>1
    <3>3. /\ b[m + p - 4] = t[p - 4] /\ b[m + p - 3] = t[p - 3] /\ b[m + p - 2] = t[p - 2]
          /\ b[m + p - 1] = t[p - 1]
      BY <1>3, <3>1, <3>2
    <3> QED
      BY <2>1, <2>2, <3>2, <3>3 DEF PointedAt
  <2> QED
    BY <2>1, <2>2 DEF RhAt
<1>6. \A p \in 1 .. m + n : p \in 1 .. m \/ (p - m \in 1 .. n /\ p = m + (p - m))
  OBVIOUS
<1>7. \A p \in 1 .. m + n : RhAt(b, m + n, p, D)
  BY <1>4, <1>5, <1>6
<1> QED
  BY <1>3, <1>7 DEF RhTame, b

(* An instruction that neither writes to memory nor jumps.                  *)
Quiet(c) == c.op \notin {"store", "jr", "jmp"} /\ c.n # "zero"

(* One or two such instructions, or one of two halfwords.                   *)
LEMMA RhQuiet ==
  ASSUME NEW D
  PROVE  /\ \A c : Quiet(c) => RhTame(<<c>>, D) /\ RhTame(Rh!Wide(c), D)
         /\ \A c, d : Quiet(c) /\ Quiet(d) => RhTame(<<c, d>>, D)
<1>1. ASSUME NEW c, Quiet(c) PROVE RhTame(<<c>>, D)
  <2>1. IsList(<<c>>) /\ Len(<<c>>) = 1 /\ \A p \in 1 .. 1 : <<c>>[p] = c
    BY Short
  <2> QED
    BY <1>1, <2>1 DEF RhTame, RhAt, Quiet
<1>2. ASSUME NEW c, NEW d, Quiet(c), Quiet(d) PROVE RhTame(<<c, d>>, D)
  <2>1. IsList(<<c, d>>) /\ Len(<<c, d>>) = 2 /\ \A p \in 1 .. 2 : <<c, d>>[p] \in {c, d}
    BY Short
  <2>2. \A p \in 1 .. 2 : Quiet(<<c, d>>[p])
    BY <1>2, <2>1
  <2> QED
    BY <2>1, <2>2 DEF RhTame, RhAt, Quiet
<1>3. Quiet(Rh!LowHalf)
  BY DEF Quiet, Rh!LowHalf, Rh!Do
<1> QED
  BY <1>1, <1>2, <1>3 DEF Rh!Wide

(* An immediate value, and a load through one.                              *)
LEMMA RhLoads ==
  ASSUME NEW D, NEW o, NEW r, r # "zero", NEW via, via # "zero"
  PROVE  RhTame(Rh!Immediate(r, o), D) /\ RhTame(Rh!Load(o, r, via), D)
<1>1. ASSUME NEW x, NEW s, s # "zero" PROVE RhTame(Rh!Immediate(s, x), D)
  <2> DEFINE c == [Rh!Do("movhi", "zero", s) EXCEPT !.x = Rh!HighPart(x)]
             d == [Rh!Do("movea", s, s) EXCEPT !.x = x % Low]
  <2>1. Quiet(c) /\ Quiet(d)
    BY <1>1 DEF Rh!Do, Quiet
  <2> HIDE DEF c, d
  <2>2. RhTame(Rh!Wide(c) \o Rh!Wide(d), D)
    BY <2>1, RhQuiet, RhTwo
  <2> QED
    BY <2>2 DEF Rh!Immediate, c, d
<1>2. RhTame(Rh!Wide(Rh!Do("load", via, r)), D)
  <2>1. Quiet(Rh!Do("load", via, r))
    BY DEF Rh!Do, Quiet
  <2> QED
    BY <2>1, RhQuiet
<1> QED
  BY <1>1, <1>2, RhTwo DEF Rh!Load

(* The place to write to in a register, and the store through it.           *)
LEMMA RhStoreTo ==
  ASSUME NEW D \in SUBSET Int, NEW v \in D, NEW r, NEW via \in Rh!Registers \ {"zero"}
  PROVE  RhTame(Rh!StoreTo(v, r, via), D)
<1> DEFINE c == [Rh!Do("movhi", "zero", via) EXCEPT !.x = Rh!HighPart(v)]
           d == [Rh!Do("movea", via, via) EXCEPT !.x = v % Low]
           e == Rh!Do("store", r, via)
           low == Rh!LowHalf
           b == (<<c, low>> \o <<d, low>>) \o <<e, low>>
<1>0. Rh!StoreTo(v, r, via) = b
  BY DEF Rh!StoreTo, Rh!Immediate, Rh!Wide
<1>1. /\ c.op = "movhi" /\ c.m = "zero" /\ c.n = via /\ c.x = Rh!HighPart(v)
      /\ d.op = "movea" /\ d.m = via /\ d.n = via /\ d.x = v % Low
      /\ e.op = "store" /\ e.n = via
      /\ low.op = "low" /\ low.n = "none"
  BY DEF Rh!Do, Rh!LowHalf
<1> HIDE DEF c, d, e, low
<1>2. /\ IsList(b) /\ Len(b) = 6
      /\ b[1] = c /\ b[2] = low /\ b[3] = d /\ b[4] = low /\ b[5] = e /\ b[6] = low
  <2> DEFINE a == <<c, low>> \o <<d, low>>
  <2>1. /\ IsList(<<c, low>>) /\ IsList(<<d, low>>) /\ IsList(<<e, low>>)
        /\ Len(<<c, low>>) = 2 /\ Len(<<d, low>>) = 2 /\ Len(<<e, low>>) = 2
    BY Short
  <2>2. /\ IsList(a) /\ Len(a) = 4
        /\ \A k \in 1 .. 2 : a[k] = <<c, low>>[k]
        /\ \A k \in 1 .. 2 : a[2 + k] = <<d, low>>[k]
    BY <2>1, Lists
  <2>3. a[1] = c /\ a[2] = low /\ a[2 + 1] = d /\ a[2 + 2] = low
    BY <2>2
  <2> DEFINE z == <<e, low>>
  <2>4. IsList(z) /\ Len(z) = 2 /\ z[1] = e /\ z[2] = low
    BY <2>1
  <2> HIDE DEF a, z
  <2>5. /\ IsList(a \o z) /\ Len(a \o z) = Len(a) + Len(z)
        /\ \A k \in 1 .. Len(a) : (a \o z)[k] = a[k]
        /\ \A k \in 1 .. Len(z) : (a \o z)[Len(a) + k] = z[k]
    <3>1. IsList(a) /\ IsList(z)
      BY <2>2, <2>4
    <3> QED
      BY ONLY <3>1, Lists
  <2>6. (a \o z)[4 + 1] = e /\ (a \o z)[4 + 2] = low
    BY <2>2, <2>4, <2>5
  <2> QED
    BY <2>2, <2>3, <2>4, <2>5, <2>6 DEF a, z
<1> HIDE DEF b
<1>3. Low * c.x + Rh!Signed(d.x) = v /\ c.x \in Int /\ d.x \in Int
  <2>1. Low \in Nat /\ \A k \in 0 .. Low - 1 : k \in Int
    BY CodeAssumption
  <2> QED
    BY <1>1, <2>1, Halves
<1>4. via \in Rh!Registers /\ via # "zero" /\ "none" # "zero"
  OBVIOUS
<1>5. PointedAt(b, 6, 5, D)
  <2>1. 5 - 4 = 1 /\ 5 - 3 = 2 /\ 5 - 2 = 3 /\ 5 - 1 = 4 /\ 1 \in 1 .. 6
    OBVIOUS
  <2> QED
    BY <1>1, <1>2, <1>3, <1>4, <2>1 DEF PointedAt
<1>6. \A p \in 1 .. 6 : p = 1 \/ p = 2 \/ p = 3 \/ p = 4 \/ p = 5 \/ p = 6
  OBVIOUS
<1>7. \A p \in 1 .. 6 : RhAt(b, 6, p, D)
  BY <1>1, <1>2, <1>4, <1>5, <1>6 DEF RhAt
<1> QED
  BY <1>0, <1>2, <1>7 DEF RhTame

(* The primitives by their kinds of operands, as this backend has them.     *)
IntOps == {"add_int", "subtract_int", "and_bool", "or_bool", "multiply_int", "divide_int"}
FloatOps == {"add_float", "subtract_float", "multiply_float", "divide_float"}
IntTests == {"compare_lt_int", "compare_gt_int", "compare_eq_int"}
FloatTests == {"compare_lt_float", "compare_gt_float", "compare_eq_float"}

(* The operations of two numbers.                                           *)
LEMMA RhOps ==
  ASSUME NEW D
  PROVE  /\ DOMAIN Rh!IntArith = IntOps /\ DOMAIN Rh!FloatArith = FloatOps
         /\ DOMAIN Rh!IntCompare = IntTests /\ DOMAIN Rh!FloatCompare = FloatTests
         /\ \A op \in {"xor", "mulf", "addf"} : RhTame(Rh!Short(op), D) /\ RhTame(Rh!Long(op), D)
         /\ \A symbol \in IntOps : RhTame(Rh!IntArith[symbol], D)
         /\ \A symbol \in FloatOps : RhTame(Rh!FloatArith[symbol], D)
         /\ \A symbol \in IntTests : RhTame(Rh!Wide(Rh!Do(Rh!IntCompare[symbol], "psw", "r10")), D)
         /\ \A symbol \in FloatTests : RhTame(Rh!Long(Rh!FloatCompare[symbol]), D)
<1> DEFINE Ops == {"add", "sub", "and", "or", "mul", "div", "addf", "subf", "mulf", "divf", "xor",
                   "cmpf_olt", "cmpf_eq"}
<1>1. ASSUME NEW op \in Ops PROVE RhTame(Rh!Short(op), D) /\ RhTame(Rh!Long(op), D)
  <2>1. Quiet(Rh!Do(op, "r11", "r10")) /\ Quiet(Rh!Nop)
    BY DEF Quiet, Rh!Do, Rh!Nop
  <2> QED
    BY <2>1, RhQuiet DEF Rh!Short, Rh!Long
<1>2. ASSUME NEW symbol \in IntOps PROVE RhTame(Rh!IntArith[symbol], D)
  <2>1. \E op \in Ops : Rh!IntArith[symbol] = Rh!Short(op) \/ Rh!IntArith[symbol] = Rh!Long(op)
    BY DEF Rh!IntArith, IntOps
  <2> QED
    BY <1>1, <2>1
<1>3. ASSUME NEW symbol \in FloatOps PROVE RhTame(Rh!FloatArith[symbol], D)
  <2>1. \E op \in Ops : Rh!FloatArith[symbol] = Rh!Long(op)
    BY DEF Rh!FloatArith, FloatOps
  <2> QED
    BY <1>1, <2>1
<1>4. ASSUME NEW symbol \in IntTests
      PROVE  RhTame(Rh!Wide(Rh!Do(Rh!IntCompare[symbol], "psw", "r10")), D)
  <2>1. Rh!IntCompare[symbol] \in {"setf_lt", "setf_gt", "setf_z"}
    BY DEF Rh!IntCompare, IntTests
  <2>2. Quiet(Rh!Do(Rh!IntCompare[symbol], "psw", "r10"))
    BY <2>1 DEF Quiet, Rh!Do
  <2> QED
    BY <2>2, RhQuiet
<1>5. ASSUME NEW symbol \in FloatTests PROVE RhTame(Rh!Long(Rh!FloatCompare[symbol]), D)
  <2>1. Rh!FloatCompare[symbol] \in Ops
    BY DEF Rh!FloatCompare, FloatTests
  <2> QED
    BY <1>1, <2>1
<1>6. /\ DOMAIN Rh!IntArith = IntOps /\ DOMAIN Rh!FloatArith = FloatOps
      /\ DOMAIN Rh!IntCompare = IntTests /\ DOMAIN Rh!FloatCompare = FloatTests
  BY DEF Rh!IntArith, Rh!FloatArith, Rh!IntCompare, Rh!FloatCompare,
         IntOps, FloatOps, IntTests, FloatTests
<1> QED
  BY <1>1, <1>2, <1>3, <1>4, <1>5, <1>6

(* The code of a primitive writes where it was told to.                     *)
LEMMA RhFragment ==
  ASSUME NEW D \in SUBSET Int, NEW symbol \in DOMAIN Shapes, NEW o, NEW v \in D
  PROVE  RhTame(Rh!Fragment(symbol, o, v), D)
<1> DEFINE F == Rh!Fragment(symbol, o, v)
           W(op, m, n) == Rh!Wide(Rh!Do(op, m, n))
           S == Rh!StoreTo(v, "r10", "r12")
           P == Rh!Pair(o, "r10", "r11")
           X == IF Rh!Swapped(symbol) THEN Rh!Pair(o, "r11", "r10") ELSE P
           E1 == P \o Rh!IntArith[symbol] \o S
           E2 == P \o Rh!FloatArith[symbol] \o S
           E3 == P \o <<Rh!Do("cmp", "r11", "r10")>>
                   \o W(Rh!IntCompare[symbol], "psw", "r10") \o <<Rh!Nop>> \o S
           E4 == X \o Rh!Long(Rh!FloatCompare[symbol]) \o W("trfsr", "fcc", "psw")
                   \o W("setf_z", "psw", "r10") \o S
           E5 == Rh!Load(o[1], "r10", "r12") \o W("sqrt", "r10", "r10") \o S
           E6 == Rh!Load(o[1], "r10", "r12") \o Rh!Immediate("r11", Rh!Slope) \o Rh!Long("mulf")
                   \o Rh!Immediate("r11", Rh!Intercept) \o Rh!Long("addf") \o S
           E7 == Rh!Pair(<<o[1], Rh!Constant(1)>>, "r10", "r11") \o Rh!Short("xor") \o S
           E8 == Rh!Select(o, v)
<1>1. F = CASE symbol \in DOMAIN Rh!IntArith -> E1
            [] symbol \in DOMAIN Rh!FloatArith -> E2
            [] symbol \in DOMAIN Rh!IntCompare -> E3
            [] symbol \in DOMAIN Rh!FloatCompare -> E4
            [] symbol = "sqrt_float" -> E5
            [] symbol = "flex_fuel_scale" -> E6
            [] symbol = "not_bool" -> E7
            [] symbol \in Rh!Selects -> E8
  BY DEF Rh!Fragment
<1>2. DOMAIN Shapes = IntOps \cup FloatOps \cup IntTests \cup FloatTests
                        \cup {"sqrt_float", "flex_fuel_scale", "not_bool"} \cup Rh!Selects
  BY DEF Shapes, IntOps, FloatOps, IntTests, FloatTests, Rh!Selects
<1>3. /\ \A x, via : via # "zero" =>
           RhTame(Rh!Load(x, "r10", via), D) /\ RhTame(Rh!Load(x, "r11", via), D)
             /\ RhTame(Rh!Load(x, "r12", via), D) /\ RhTame(Rh!Immediate("r11", x), D)
      /\ "r12" # "zero" /\ "r14" # "zero"
  BY RhLoads
<1>4. \A x : RhTame(Rh!Pair(x, "r10", "r11"), D) /\ RhTame(Rh!Pair(x, "r11", "r10"), D)
  BY <1>3, RhTwo DEF Rh!Pair
<1>5. RhTame(S, D) /\ RhTame(Rh!StoreTo(v, "r11", "r13"), D)
  <2>1. "r12" \in Rh!Registers \ {"zero"} /\ "r13" \in Rh!Registers \ {"zero"}
    BY DEF Rh!Registers
  <2> QED
    BY <2>1, RhStoreTo
<1>6. /\ RhTame(<<Rh!Do("cmp", "r11", "r10")>>, D) /\ RhTame(<<Rh!Nop>>, D)
      /\ RhTame(W("trfsr", "fcc", "psw"), D) /\ RhTame(W("setf_z", "psw", "r10"), D)
      /\ RhTame(W("sqrt", "r10", "r10"), D)
  <2>1. \A op \in {"cmp", "trfsr", "setf_z", "sqrt"} : \A m, n : n # "zero" => Quiet(Rh!Do(op, m, n))
    BY DEF Quiet, Rh!Do
  <2>2. Quiet(Rh!Nop)
    BY DEF Quiet, Rh!Do, Rh!Nop
  <2>3. "r10" # "zero" /\ "psw" # "zero"
    OBVIOUS
  <2> QED
    BY <2>1, <2>2, <2>3, RhQuiet
<1>7. /\ symbol \in IntOps => RhTame(Rh!IntArith[symbol], D)
      /\ symbol \in FloatOps => RhTame(Rh!FloatArith[symbol], D)
      /\ symbol \in IntTests => RhTame(W(Rh!IntCompare[symbol], "psw", "r10"), D)
      /\ symbol \in FloatTests => RhTame(Rh!Long(Rh!FloatCompare[symbol]), D)
      /\ RhTame(Rh!Short("xor"), D) /\ RhTame(Rh!Long("mulf"), D) /\ RhTame(Rh!Long("addf"), D)
  BY RhOps
<1>8. RhTame(P, D) /\ RhTame(X, D)
  BY <1>4
<1>9. RhTame(E8, D)
  <2> DEFINE l == Rh!Load(o[1], "r10", "r14") \o Rh!Load(o[2], "r11", "r14")
                    \o Rh!Load(o[3], "r12", "r14")
             a == Rh!Do("mov", "zero", "r13")
             b == Rh!Do("sub", "r10", "r13")
             c == Rh!Do("and", "r13", "r11")
             d == Rh!Do("not", "r13", "r13")
             e == Rh!Do("and", "r13", "r12")
             f == Rh!Do("or", "r12", "r11")
             m == <<a, b, c, d, e, f>>
  <2>1. RhTame(l, D)
    BY <1>3, RhTwo
  <2>2. \A k \in {a, b, c, d, e, f} : Quiet(k)
    BY DEF Quiet, Rh!Do
  <2>3. E8 = (l \o m) \o Rh!StoreTo(v, "r11", "r13")
    BY DEF Rh!Select
  <2> HIDE DEF l, a, b, c, d, e, f
  <2>4. m \in Seq({a, b, c, d, e, f}) /\ Len(m) = 6
    OBVIOUS
  <2>5. IsList(m) /\ \A k \in 1 .. 6 : Quiet(m[k])
    <3> DEFINE K == {a, b, c, d, e, f}
    <3>1. m \in Seq(K)
      BY <2>4
    <3> HIDE DEF m, K
    <3>2. IsList(m) /\ DOMAIN m = 1 .. 6 /\ \A k \in DOMAIN m : m[k] \in K
      BY <2>4, <3>1, ListIs
    <3> QED
      BY <2>2, <3>2 DEF K
  <2> HIDE DEF m
  <2>6. RhTame(m, D)
    BY <2>4, <2>5 DEF RhTame, RhAt, Quiet
  <2>7. RhTame(l \o m, D)
    BY <2>1, <2>6, RhTwo
  <2> QED
    BY <1>5, <2>3, <2>7, RhTwo
<1> HIDE DEF S, P, X, W
<1>10. symbol \in IntOps => RhTame(E1, D)
  BY <1>5, <1>7, <1>8, RhTwo
<1>11. symbol \in FloatOps => RhTame(E2, D)
  BY <1>5, <1>7, <1>8, RhTwo
<1>12. symbol \in IntTests => RhTame(E3, D)
  BY <1>5, <1>6, <1>7, <1>8, RhTwo
<1>13. symbol \in FloatTests => RhTame(E4, D)
  BY <1>5, <1>6, <1>7, <1>8, RhTwo
<1>14. RhTame(E5, D)
  BY <1>3, <1>5, <1>6, RhTwo
<1>15. RhTame(E6, D)
  <2> DEFINE a == Rh!Load(o[1], "r10", "r12")
             b == Rh!Immediate("r11", Rh!Slope)
             c == Rh!Long("mulf")
             d == Rh!Immediate("r11", Rh!Intercept)
             e == Rh!Long("addf")
  <2>1. E6 = ((((a \o b) \o c) \o d) \o e) \o S
    OBVIOUS
  <2>2. RhTame(a, D) /\ RhTame(b, D) /\ RhTame(c, D) /\ RhTame(d, D) /\ RhTame(e, D)
    BY <1>3, <1>7
  <2> HIDE DEF a, b, c, d, e, E6
  <2>3. RhTame((a \o b) \o c, D)
    BY <2>2, RhTwo
  <2>4. RhTame(((a \o b) \o c) \o d, D)
    BY <2>2, <2>3, RhTwo
  <2>5. RhTame((((a \o b) \o c) \o d) \o e, D)
    BY <2>2, <2>4, RhTwo
  <2> QED
    BY <1>5, <2>1, <2>5, RhTwo
<1>16. RhTame(E7, D)
  BY <1>4, <1>5, <1>7, RhTwo
<1> HIDE DEF F, E1, E2, E3, E4, E5, E6, E7, E8
<1>17. F = CASE symbol \in IntOps -> E1
            [] symbol \in FloatOps -> E2
            [] symbol \in IntTests -> E3
            [] symbol \in FloatTests -> E4
            [] symbol = "sqrt_float" -> E5
            [] symbol = "flex_fuel_scale" -> E6
            [] symbol = "not_bool" -> E7
            [] symbol \in Rh!Selects -> E8
  BY <1>1, RhOps
<1>18. RhTame(F, D)
  BY <1>2, <1>9, <1>10, <1>11, <1>12, <1>13, <1>14, <1>15, <1>16, <1>17
     DEF IntOps, FloatOps, IntTests, FloatTests, Rh!Selects
<1> QED
  BY <1>18 DEF F

(* So does the code of a store without a call.                              *)
LEMMA RhCopy ==
  ASSUME NEW D \in SUBSET Int, NEW o, NEW v \in D
  PROVE  RhTame(Rh!Copy(o, v), D)
<1>1. "r11" \in Rh!Registers \ {"zero"}
  BY DEF Rh!Registers
<1>2. RhTame(Rh!StoreTo(v, "r10", "r11"), D)
  BY <1>1, RhStoreTo
<1>3. "r10" # "zero" /\ "r12" # "zero"
  OBVIOUS
<1> QED
  BY <1>2, <1>3, RhLoads, RhTwo DEF Rh!Copy

-----------------------------------------------------------------------------
(* What compile makes.                                                      *)

(* Code of one store, of the backend of this build, that writes to D only.  *)
Tame(b, D) == IF IsSh2a THEN ShTame(b, D) ELSE RhTame(b, D)

(* The code of one store of a hook, made of the walk's fragments, writes    *)
(* nowhere but at the slots of the walk.                                    *)
LEMMA BodyMade ==
  ASSUME Program, NEW v \in DOMAIN program, Makeable(v), NEW D \in SUBSET Int,
         NEW slot, \A k \in DOMAIN Walk(v) : slot[Walk(v)[k]] \in D
  PROVE  Tame(Body(v, slot), D)
<1>1. PICK n \in Nat \ {0} : n = Len(Walk(v)) /\ DOMAIN Walk(v) = 1 .. n
  BY WalkMade, ListHas
<1>2. CASE ~IsCall(v)
  <2>1. slot[v] \in D
    BY <1>1, WalkMade
  <2> QED
    BY <1>2, <2>1, ShCopy, RhCopy DEF Body, Copy, Tame
<1>3. CASE IsCall(v)
  <2> DEFINE Ops(c) == [j \in 1 .. Len(program[c].operands) |-> Operand(program[c].operands[j], slot)]
             Code(k) == Fragment(program[Walk(v)[k]].symbol, Ops(Walk(v)[k]), slot[Walk(v)[k]])
             ss == [k \in 1 .. n |-> Code(k)]
  <2>1. Body(v, slot) = Joined(ss)
    BY <1>1, <1>3 DEF Body
  <2>2. ASSUME NEW k \in 1 .. n PROVE Tame(Code(k), D)
    <3> DEFINE c == Walk(v)[k]
    <3>1. c \in CallsTo(v) /\ c \in Reads(v)
      BY <1>1, <1>3, WalkMade DEF Reads, ToSet
    <3>2. program[c].symbol \in DOMAIN Shapes
      BY <3>1 DEF Makeable, CallsTo
    <3>3. slot[c] \in D
      BY <1>1
    <3> HIDE DEF c
    <3>4. \A o : Tame(Fragment(program[c].symbol, o, slot[c]), D)
      BY <3>2, <3>3, ShFragment, RhFragment DEF Fragment, Tame
    <3> QED
      BY <3>4 DEF c
  <2> HIDE DEF Code
  <2>3. ss \in Seq({Code(k) : k \in 1 .. n}) /\ DOMAIN ss = 1 .. n
    <3>1. ss \in [1 .. n -> {Code(k) : k \in 1 .. n}]
      OBVIOUS
    <3> QED
      BY <3>1
  <2>4. IsList(ss)
    BY <2>3, ListIs
  <2>5. \A k \in 1 .. n : ss[k] = Code(k)
    OBVIOUS
  <2> HIDE DEF ss
  <2> DEFINE S == UNION {{Code(k)[i] : i \in DOMAIN Code(k)} : k \in 1 .. n}
             T == {b \in Seq(S) : Tame(b, D)}
  <2>6. <<>> \in T
    <3>1. IsList(<<>>) /\ Len(<<>>) = 0
      BY Short
    <3> QED
      BY <3>1 DEF Tame, ShTame, RhTame
  <2>7. \A s, t \in T : s \o t \in T
    <3> HIDE DEF S
    <3>1. \A s, t \in Seq(S) : s \o t \in Seq(S)
      BY TwoLists
    <3>2. \A s, t : Tame(s, D) /\ Tame(t, D) => Tame(s \o t, D)
      BY ShTwo, RhTwo DEF Tame
    <3> QED
      BY <3>1, <3>2
  <2>8. \A k \in DOMAIN ss : ss[k] \in T
    <3> SUFFICES ASSUME NEW k \in 1 .. n PROVE Code(k) \in T
      BY <2>3, <2>5
    <3>1. IsList(Code(k))
      BY <2>2 DEF Tame, ShTame, RhTame
    <3>2. {Code(k)[i] : i \in DOMAIN Code(k)} \subseteq S
      OBVIOUS
    <3> HIDE DEF S
    <3>3. ASSUME NEW A, NEW B, A \subseteq B, NEW s \in Seq(A) PROVE s \in Seq(B)
      BY <3>3
    <3>4. Code(k) \in Seq(S)
      BY <3>1, <3>2, <3>3 DEF IsList
    <3> QED
      BY <2>2, <3>4
  <2> HIDE DEF T
  <2>9. Joined(ss) \in T
    BY <2>4, <2>6, <2>7, <2>8, JoinedIn
  <2> QED
    BY <2>1, <2>9 DEF T
<1> QED
  BY <1>2, <1>3

(* What a store ends with makes its code: more than nothing.                *)
LEMMA FinalizeMade ==
  ASSUME NEW b, NEW D, Tame(b, D)
  PROVE  IsList(Finalize(b)) /\ Len(Finalize(b)) \in Nat \ {0}
<1>0. IsList(b)
  BY DEF Tame, ShTame, RhTame
<1>1. PICK n \in Nat : n = Len(b) /\ DOMAIN b = 1 .. n
  BY <1>0, ListHas
<1>2. \A c, d : IsList(<<c, d>>) /\ Len(<<c, d>>) = 2
  BY Short
<1>3. CASE IsSh2a
  <2> DEFINE placed == [i \in 1 .. Len(b) |->
                          IF Sh!IsLiteral(b[i])
                          THEN [b[i] EXCEPT !.x = Sh!Disp(b, i) % DispLimit] ELSE b[i]]
             values == AtPlaces(b, Sh!LiteralsUpTo(b, Len(b)))
             pool == [k \in 1 .. 2 * Len(values) |->
                        IF k % 2 = 1
                        THEN [Sh!Do("long", "none", "none") EXCEPT !.x = values[(k + 1) \div 2].x]
                        ELSE Sh!Do("low", "none", "none")]
             end == <<Sh!Do("return", "none", "none"), Sh!Nop>>
             pad == Sh!Pad(Len(b))
  <2>1. Finalize(b) = ((placed \o end) \o pad) \o pool
    <3>1. \A s, P : Sh!AtPlaces(s, P) = AtPlaces(s, P)
      BY DEF Sh!AtPlaces, AtPlaces, Sh!Cardinality, Sh!IsFiniteSet, Cardinality, IsFiniteSet
    <3> QED
      BY <1>3, <3>1 DEF Finalize, Sh!Finalize
  <2>2. IsList(end) /\ Len(end) = 2
    BY <1>2
  <2>3. IsList(pad) /\ Len(pad) \in Nat
    BY Short DEF Sh!Pad
  <2>4. IsList(values) /\ Len(values) \in Nat
    <3>1. Sh!LiteralsUpTo(b, Len(b)) \in SUBSET DOMAIN b
      BY <1>1 DEF Sh!LiteralsUpTo
    <3> QED
      BY <1>0, <3>1, AtPlacesList
  <2> HIDE DEF end, pad, values
  <2>5. ASSUME NEW m \in Nat, NEW f, f = [i \in 1 .. m |-> f[i]]
        PROVE  IsList(f) /\ Len(f) = m
    <3>1. f \in Seq({f[i] : i \in DOMAIN f}) /\ Len(f) = m
      BY <2>5
    <3> QED
      BY <3>1 DEF IsList
  <2>6. IsList(placed) /\ Len(placed) = n
    <3>1. placed = [i \in 1 .. n |-> placed[i]]
      BY <1>1
    <3> HIDE DEF placed
    <3> QED
      BY <2>5, <3>1
  <2>7. IsList(pool) /\ Len(pool) \in Nat
    <3>1. pool = [k \in 1 .. 2 * Len(values) |-> pool[k]] /\ 2 * Len(values) \in Nat
      BY <2>4
    <3> HIDE DEF pool
    <3> QED
      BY <2>5, <3>1
  <2> HIDE DEF placed, pool
  <2>8. IsList(placed \o end) /\ Len(placed \o end) = n + 2
    <3>1. IsList(placed \o end) /\ Len(placed \o end) = Len(placed) + Len(end)
      BY ONLY <2>2, <2>6, Lists
    <3> QED
      BY <2>2, <2>6, <3>1
  <2> DEFINE pe == placed \o end
             pp == pe \o pad
  <2> HIDE DEF pe
  <2>9. IsList(pp) /\ Len(pp) = n + 2 + Len(pad)
    <3>1. IsList(pe) /\ Len(pe) = n + 2
      BY <2>8 DEF pe
    <3>2. IsList(pe \o pad) /\ Len(pe \o pad) = Len(pe) + Len(pad)
      BY ONLY <2>3, <3>1, Lists
    <3> QED
      BY <3>1, <3>2
  <2> HIDE DEF pp
  <2>10. IsList(pp \o pool) /\ Len(pp \o pool) = Len(pp) + Len(pool)
    BY <2>7, <2>9, Lists
  <2>11. Len(pp \o pool) \in Nat \ {0}
    BY <2>3, <2>7, <2>9, <2>10
  <2> QED
    BY <2>1, <2>10, <2>11 DEF pp, pe
<1>4. CASE ~IsSh2a
  <2> DEFINE end == <<Rh!Do("return", "none", "none"), Rh!Nop>>
  <2>1. Finalize(b) = b \o end
    BY <1>4 DEF Finalize, Rh!Finalize
  <2>2. IsList(end) /\ Len(end) = 2
    BY <1>2
  <2> HIDE DEF end
  <2>3. IsList(b \o end) /\ Len(b \o end) = Len(b) + Len(end)
    BY ONLY <1>0, <2>2, Lists
  <2> QED
    BY <1>1, <2>1, <2>2, <2>3
<1> QED
  BY <1>3, <1>4

(* Where a longword lies in the free RAM of a hook.                         *)
OwnRam(h) == {d \in Nat : Extent(d, 4) \subseteq FreeRam(h)}

(* The work of a hook: its slots in its free RAM, and its code, of which    *)
(* the first fragment writes to slots.                                      *)
WorkMade(h) ==
    /\ works[h].cursor \in Nat /\ pack.hooks[h].base <= works[h].cursor
    /\ \A p \in DOMAIN works[h].slots : works[h].slots[p] \in OwnRam(h)
    /\ \E b, rest : /\ IsList(rest) /\ Tame(b, OwnRam(h))
                    /\ works[h].code = Finalize(b) \o rest

(* What a build has made so far: a program, and the work of each hook.      *)
Made ==
    /\ graph \in Graphs /\ pack \in Packs /\ Program /\ next \in Nat \ {0}
    /\ \A h \in DOMAIN works : WorkMade(h)

(* Where the slots of a store are: its pin's, and behind it those of the    *)
(* calls before the last of the walk.                                       *)
LEMMA SlotPlaces ==
  ASSUME NEW S \in SUBSET Nat, NEW n \in Nat \ {0}, NEW first \in Nat,
         NEW claimed \in {n - 1, n}, NEW dst \in S,
         \A k \in 0 .. claimed - 1 : first + 4 * k \in S,
         NEW j \in 1 .. n - 1
  PROVE  (IF claimed = n - 1 THEN first ELSE first + 4) + 4 * (j - 1) \in S
<1>1. CASE claimed = n - 1
  <2>1. j - 1 \in 0 .. claimed - 1
    BY <1>1
  <2> QED
    BY <1>1, <2>1
<1>2. CASE claimed = n
  <2>1. first + 4 + 4 * (j - 1) = first + 4 * j /\ j \in 0 .. claimed - 1
    BY <1>2
  <2>2. claimed # n - 1
    BY <1>2
  <2> QED
    BY <2>1, <2>2
<1> QED
  BY <1>1, <1>2

(* A claim of longwords that RamAllocator grants lies in the hook's RAM.    *)
LEMMA ClaimOwn ==
  ASSUME NEW h, pack \in Packs, Declared(h), NEW cursor \in Nat, pack.hooks[h].base <= cursor,
         NEW claimed \in Nat, RamRoom(h, cursor, claimed)
  PROVE  /\ Align4(cursor) \in Nat /\ cursor <= Align4(cursor)
         /\ \A k \in 0 .. claimed - 1 : Align4(cursor) + 4 * k \in OwnRam(h)
<1>1. pack.hooks[h].base \in Nat /\ pack.hooks[h].length \in Nat
  BY PackAssumption DEF Declared
<1>2. Align4(cursor) \in Nat /\ cursor <= Align4(cursor)
  BY DEF Align4
<1>3. ASSUME NEW k \in 0 .. claimed - 1 PROVE Align4(cursor) + 4 * k \in OwnRam(h)
  <2> DEFINE a == Align4(cursor)
             base == pack.hooks[h].base
             length == pack.hooks[h].length
  <2>1. a + 4 * claimed <= base + length
    BY <1>3 DEF RamRoom
  <2>2. a \in Nat /\ base <= a /\ base \in Nat /\ length \in Nat
    BY <1>1, <1>2
  <2> HIDE DEF a, base, length
  <2>3. a + 4 * k \in Nat /\ \A x \in a + 4 * k .. a + 4 * k + 4 - 1 : x \in base .. base + length - 1
    BY <2>1, <2>2
  <2> QED
    BY <2>3 DEF OwnRam, FreeRam, Extent, a, base, length
<1> QED
  BY <1>2, <1>3

(* compile makes such work.                                                 *)
LEMMA CompileMade ==
  ASSUME Made, CompileStore
  PROVE  Made'
<1> DEFINE s == Stores[next]
           h == s.symbol
           v == s.operands[1]
           w == Work(h)
           kept == s.pin \in DOMAIN w.slots
           inner == SubSeq(Walk(v), 1, Len(Walk(v)) - 1)
           first == Align4(w.cursor)
           claimed == Len(inner) + (IF kept THEN 0 ELSE 1)
           base == IF kept THEN first ELSE first + 4
           dst == IF kept THEN w.slots[s.pin] ELSE first
           slot == [u \in ToSet(Walk(v)) |->
                      IF u = v THEN dst
                      ELSE base + 4 * ((CHOOSE k \in 1 .. Len(inner) : inner[k] = u) - 1)]
           new == [code   |-> w.code \o Finalize(Body(v, slot)),
                   slots  |-> [p \in DOMAIN w.slots \cup {s.pin} |->
                                 IF p = s.pin THEN dst ELSE w.slots[p]],
                   claims |-> w.claims \cup {first + 4 * k : k \in 0 .. claimed - 1},
                   whole  |-> w.whole /\ InReach(Body(v, slot)),
                   cursor |-> IF claimed = 0 THEN w.cursor ELSE first + 4 * claimed]
<1>0. /\ UNCHANGED <<graph, pack, program>> /\ phase = "compile" /\ next <= Len(Stores)
      /\ next' \in {next, next + 1}
      /\ \/ works' = works
         \/ /\ Declared(h) /\ RamRoom(h, w.cursor, claimed) /\ Makeable(v)
            /\ works' = [g \in DOMAIN works \cup {h} |-> IF g # h THEN works[g] ELSE new]
  BY DEF CompileStore, compileVars
<1>a. UNCHANGED <<graph, pack, program>> /\ next' \in {next, next + 1} /\ next <= Len(Stores)
  BY <1>0
<1>b. graph \in Graphs /\ pack \in Packs /\ Program /\ next \in Nat \ {0}
  BY DEF Made
<1>1. graph' \in Graphs /\ pack' \in Packs /\ Program' /\ next' \in Nat \ {0}
  <2>1. Program'
    BY <1>a, <1>b DEF Program
  <2>2. next' \in Nat \ {0}
    BY ONLY <1>a, <1>b
  <2> QED
    BY <1>a, <1>b, <2>1, <2>2
<1>2. ASSUME NEW g, WorkMade(g), works'[g] = works[g] PROVE WorkMade(g)'
  BY <1>0, <1>2 DEF WorkMade, OwnRam, FreeRam, Tame, Finalize, IsSh2a
<1>3. CASE works' = works
  BY <1>1, <1>2, <1>3 DEF Made
<1>4. CASE /\ Declared(h) /\ RamRoom(h, w.cursor, claimed) /\ Makeable(v)
           /\ works' = [g \in DOMAIN works \cup {h} |-> IF g # h THEN works[g] ELSE new]
  <2>n. next \in 1 .. Len(Stores)
    <3>1. PICK m \in Nat : m = Len(Stores)
      BY <1>b, StoresMade
    <3>2. next \in Nat \ {0} /\ next <= m
      BY <1>a, <1>b, <3>1
    <3> HIDE DEF s
    <3>3. next \in 1 .. m
      BY ONLY <3>1, <3>2
    <3> QED
      BY ONLY <3>1, <3>3
  <2>1. v \in DOMAIN program /\ pack \in Packs
    BY <2>n, StoresMade DEF Made
  <2>2. PICK n \in Nat \ {0} : n = Len(Walk(v)) /\ DOMAIN Walk(v) = 1 .. n
    BY <2>1, WalkMade, ListHas DEF Made
  <2> DEFINE D == OwnRam(h)
  <2>3. pack.hooks[h].base \in Nat /\ pack.hooks[h].length \in Nat
    BY <1>4, <2>1, PackAssumption DEF Declared
  <2>4. /\ w.cursor \in Nat /\ pack.hooks[h].base <= w.cursor
        /\ \A p \in DOMAIN w.slots : w.slots[p] \in D
        /\ w.code = <<>> \/ \E b, rest : IsList(rest) /\ Tame(b, D) /\ w.code = Finalize(b) \o rest
    <3>1. CASE h \in DOMAIN works
      BY <3>1 DEF Work, Made, WorkMade
    <3>2. CASE h \notin DOMAIN works
      BY <2>3, <3>2 DEF Work, Fresh, Nothing
    <3> QED
      BY <3>1, <3>2
  <2>5. Len(inner) = n - 1 /\ claimed \in {n - 1, n} /\ claimed \in Nat
        /\ (kept <=> claimed = n - 1)
    <3>1. IsList(Walk(v))
      BY <2>1, WalkMade DEF Made
    <3>2. Len(inner) = n - 1
      BY <2>2, <3>1 DEF IsList
    <3> HIDE DEF inner, kept
    <3> QED
      BY <3>2
  <2> HIDE DEF w, s
  <2>6. first \in Nat /\ w.cursor <= first /\ \A k \in 0 .. claimed - 1 : first + 4 * k \in D
    BY <1>4, <2>1, <2>4, <2>5, ClaimOwn
  <2>7. dst \in D
    <3>1. CASE kept
      BY <2>4, <3>1
    <3>2. CASE ~kept
      <4>1. 0 \in 0 .. claimed - 1 /\ first + 4 * 0 = first
        BY <2>5, <2>6, <3>2
      <4> QED
        BY <2>6, <3>2, <4>1
    <3> QED
      BY <3>1, <3>2
  <2>8. \A k \in DOMAIN Walk(v) : slot[Walk(v)[k]] \in D
    <3> SUFFICES ASSUME NEW k \in 1 .. n PROVE slot[Walk(v)[k]] \in D
      BY <2>2
    <3>1. base = IF claimed = n - 1 THEN first ELSE first + 4
      BY <2>5
    <3>2. IsList(Walk(v)) /\ Len(Walk(v)) = n /\ Walk(v)[n] = v
      BY <2>1, <2>2, WalkMade DEF Made
    <3>3. Walk(v)[k] \in ToSet(Walk(v))
      BY <2>2 DEF ToSet
    <3>4. D \in SUBSET Nat
      BY DEF OwnRam
    <3>5. inner = SubSeq(Walk(v), 1, n - 1)
      BY <2>2
    <3> DEFINE x == Walk(v)[k]
    <3>6. slot[x] = IF x = v THEN dst
                    ELSE base + 4 * ((CHOOSE j \in 1 .. Len(inner) : inner[j] = x) - 1)
      BY <3>3
    <3>7. CASE x = v
      <4> HIDE DEF dst, D
      <4> QED
        BY <2>7, <3>6, <3>7
    <3>8. CASE x # v
      <4> DEFINE j == CHOOSE j \in 1 .. Len(inner) : inner[j] = x
      <4>1. \A i \in 1 .. n - 1 : inner[i] = Walk(v)[i]
        <5> DEFINE W == Walk(v)
        <5>1. W \in Seq({W[i] : i \in DOMAIN W}) /\ Len(W) = n
          BY <3>2 DEF IsList
        <5> HIDE DEF W
        <5>2. \A i \in 1 .. n - 1 : SubSeq(W, 1, n - 1)[i] = W[i]
          BY <5>1
        <5> QED
          BY <3>5, <5>2 DEF W
      <4>2. k \in 1 .. n - 1
        BY <3>2, <3>8
      <4>3. \E i \in 1 .. Len(inner) : inner[i] = x
        BY <2>5, <4>1, <4>2
      <4> HIDE DEF inner, x
      <4>4. j \in 1 .. Len(inner)
        BY <4>3, Zenon
      <4>5. slot[x] = base + 4 * (j - 1)
        BY ONLY <3>6, <3>8
      <4> HIDE DEF j, slot, base, dst, first, claimed, D
      <4>6. j \in 1 .. n - 1
        BY <2>5, <4>4
      <4>7. base + 4 * (j - 1) \in D
        BY <2>5, <2>6, <2>7, <3>1, <3>4, <4>6, SlotPlaces
      <4> QED
        BY <4>5, <4>7 DEF x
    <3> QED
      BY <3>7, <3>8 DEF x
  <2> HIDE DEF dst, slot, first, claimed, kept, inner
  <2>9. Tame(Body(v, slot), D)
    <3>1. D \in SUBSET Int
      BY DEF OwnRam
    <3> QED
      BY <1>4, <2>1, <2>8, <3>1, BodyMade DEF Made
  <2> DEFINE f == Finalize(Body(v, slot))
  <2>10. IsList(f) /\ Len(f) \in Nat \ {0}
    BY <2>9, FinalizeMade
  <2>11. \E b, rest : IsList(rest) /\ Tame(b, D) /\ w.code \o f = Finalize(b) \o rest
    <3>1. CASE w.code = <<>>
      <4>1. <<>> \o f = f /\ f \o <<>> = f
        BY <2>10 DEF IsList
      <4>2. IsList(<<>>)
        BY Short
      <4> QED
        BY <2>9, <3>1, <4>1, <4>2
    <3>2. CASE w.code # <<>>
      <4>1. PICK b, rest : IsList(rest) /\ Tame(b, D) /\ w.code = Finalize(b) \o rest
        BY <2>4, <3>2
      <4> DEFINE g == Finalize(b)
      <4>2. IsList(g) /\ w.code = g \o rest
        BY <4>1, FinalizeMade
      <4> HIDE DEF f, g
      <4>3. IsList(f)
        BY <2>10
      <4>4. IsList(rest)
        BY <4>1
      <4>5. IsList(g)
        BY <4>2
      <4>6. (g \o rest) \o f = g \o (rest \o f)
        BY ONLY <4>3, <4>4, <4>5, Associates
      <4>7. IsList(rest \o f)
        BY ONLY <4>3, <4>4, Lists
      <4>8. w.code \o f = Finalize(b) \o (rest \o f)
        BY <4>2, <4>6 DEF g
      <4> QED
        BY <4>1, <4>7, <4>8
    <3> QED
      BY <3>1, <3>2
  <2> HIDE DEF f
  <2>12. ASSUME NEW g \in DOMAIN works' PROVE WorkMade(g)'
    <3>1. CASE g = h
      <4>1. works'[g] = new
        BY <1>4, <3>1
      <4>2. new.cursor \in Nat /\ pack.hooks[h].base <= new.cursor
        BY <2>3, <2>4, <2>5, <2>6
      <4>3. \A p \in DOMAIN new.slots : new.slots[p] \in D
        BY <2>4, <2>7
      <4>4. new.code = w.code \o f
        BY DEF f
      <4>5. pack' = pack /\ IsSh2a' = IsSh2a /\ OwnRam(g)' = D
        BY <1>0, <3>1 DEF OwnRam, FreeRam, IsSh2a
      <4>6. \A b, E : Tame(b, E)' <=> Tame(b, E)
        BY <4>5 DEF Tame
      <4>7. \A b : Finalize(b)' = Finalize(b)
        BY <4>5 DEF Finalize
      <4> HIDE DEF new, D
      <4>8. PICK b, rest : IsList(rest) /\ Tame(b, D) /\ w.code \o f = Finalize(b) \o rest
        BY <2>11
      <4>9. works'[g].code = Finalize(b)' \o rest /\ Tame(b, OwnRam(g))'
        BY <4>1, <4>4, <4>5, <4>6, <4>7, <4>8
      <4>10. works'[g].cursor \in Nat /\ pack'.hooks[g].base <= works'[g].cursor
        BY <3>1, <4>1, <4>2, <4>5
      <4>11. \A p \in DOMAIN works'[g].slots : works'[g].slots[p] \in OwnRam(g)'
        BY <4>1, <4>3, <4>5
      <4> QED
        BY <4>5, <4>8, <4>9, <4>10, <4>11 DEF WorkMade
    <3>2. CASE g # h
      <4>1. g \in DOMAIN works /\ works'[g] = works[g]
        BY <1>4, <3>2
      <4> QED
        BY <1>2, <4>1 DEF Made
    <3> QED
      BY <3>1, <3>2
  <2> QED
    BY <1>1, <2>12 DEF Made
<1> QED
  BY <1>0, <1>3, <1>4

(* Before the first step there is no program and no work.                   *)
LEMMA MadeInitially == Init => Made
<1> SUFFICES ASSUME Init PROVE Made
  OBVIOUS
<1>1. IsList(program) /\ DOMAIN program = {} /\ DOMAIN works = {}
  BY DEF Init, Nothing, IsList
<1> QED
  BY <1>1 DEF Init, Made, Program, OneEach

(* lower makes a program while there is no work; compile makes the work;    *)
(* and no other step looks at either.                                       *)
LEMMA MadeStays ==
  ASSUME Made, [Next]_vars
  PROVE  Made'
<1>1. CASE CompileStore
  BY <1>1, CompileMade
<1>2. ASSUME UNCHANGED <<graph, pack, works>>, next' \in {1, next, next + 1}, Program' PROVE Made'
  <2>1. next' \in Nat \ {0}
    BY <1>2 DEF Made
  <2>2. \A h \in DOMAIN works : WorkMade(h)'
    BY <1>2 DEF Made, WorkMade, OwnRam, FreeRam, Tame, Finalize, IsSh2a
  <2> QED
    BY <1>2, <2>1, <2>2 DEF Made
<1>3. ASSUME UNCHANGED program PROVE Program'
  BY <1>3 DEF Made, Program
<1>4. CASE Lower
  <2>1. Program'
    BY <1>4, ProgramMade DEF Made
  <2> QED
    BY <1>2, <1>4, <2>1 DEF Lower, compileVars
<1>5. CASE Gate \/ ApplyHook
  <2>1. UNCHANGED <<graph, pack, works, program>> /\ next' \in {1, next, next + 1}
    BY <1>5 DEF Gate, ApplyHook
  <2> QED
    BY <1>2, <1>3, <2>1
<1>6. CASE \/ ApplyManifest \/ FlashSectors \/ Boot \/ (\E h \in ToSet(order) : Enter(h))
           \/ Execute \/ UNCHANGED vars
  <2>1. UNCHANGED <<graph, pack, works, program, next>>
    BY <1>6 DEF ApplyManifest, FlashSectors, Boot, Enter, Execute, vars, compileVars
  <2> QED
    BY <1>2, <1>3, <2>1
<1> QED
  BY <1>1, <1>4, <1>5, <1>6 DEF Next

(* So there is such a program and such work at any time, ...                *)
LEMMA AlwaysMade == Spec => []Made
  BY MadeInitially, MadeStays, PTL DEF Spec

(* Such a program is code of some length.                                   *)
LEMMA MadeIsCode == Made => CompilesToCode
<1> SUFFICES ASSUME Made PROVE CompilesToCode
  OBVIOUS
<1>1. ASSUME NEW v \in DOMAIN program
      PROVE  ToSet(program[v].operands) \subseteq 1 .. v - 1
  <2>1. Placed(program[v], v)
    BY DEF Made, Program
  <2> QED
    BY <2>1 DEF Placed, ToSet
<1>2. Len(Stores) \in Nat
  BY StoresMade DEF Made
<1>3. ASSUME NEW h \in DOMAIN works PROVE Len(works[h].code) \in Nat \ {0}
  <2>1. PICK b, rest : /\ IsList(rest) /\ Tame(b, OwnRam(h))
                       /\ works[h].code = Finalize(b) \o rest
    BY DEF Made, WorkMade
  <2> DEFINE f == Finalize(b)
  <2>2. IsList(f) /\ Len(f) \in Nat \ {0}
    BY <2>1, FinalizeMade
  <2> HIDE DEF f
  <2>3. IsList(rest)
    BY <2>1
  <2>4. Len(f \o rest) = Len(f) + Len(rest)
    BY ONLY <2>2, <2>3, Lists
  <2>5. Len(rest) \in Nat
    BY <2>3 DEF IsList
  <2> QED
    BY <2>1, <2>2, <2>4, <2>5 DEF f
<1> QED
  BY <1>1, <1>2, <1>3 DEF CompilesToCode

(* ... and code of some length: what compile makes is finite for every      *)
(* graph and pack, whatever the walk of its calls.                          *)
LEMMA CodeIsMade == Spec => []CompilesToCode
  BY AlwaysMade, MadeIsCode, PTL

-----------------------------------------------------------------------------
(* Claims and what is written into them.                                    *)

(* A claim of code or manifest is where apply writes it, and keeps what the *)
(* allocator keeps.                                                         *)
LEMMA Claimed ==
  ASSUME Alloc!Inv, NEW size \in Nat \ {0}, Rom!Claim(size, 2), UNCHANGED pack
  PROVE  /\ ClaimAt(size) \in Nat /\ ClaimAt(size) % 2 = 0
         /\ claims' = Append(claims, [address |-> ClaimAt(size), length |-> size])
         /\ Alloc!Inv'
<1> DEFINE i == CHOOSE i \in DOMAIN cursors : Rom!Chosen(i, size, 2)
<1>0. 2 \in Nat \ {0} /\ CodeRegions' = CodeRegions /\ Alloc!TypeOK /\ Alloc!Placed
  BY DEF CodeRegions, Alloc!Inv
<1>1. PICK j \in Rom!Roomy(size, 2) :
        /\ Rom!Chosen(j, size, 2)
        /\ claims' = Append(claims, [address |-> Rom!At(j, 2), length |-> size])
  BY DEF Rom!Claim
<1>2. DOMAIN cursors = DOMAIN CodeRegions /\ \A k \in DOMAIN CodeRegions : k \in Nat
  BY <1>0 DEF Alloc!TypeOK
<1>3. \A k \in Rom!Roomy(size, 2) : k \in DOMAIN CodeRegions
  BY DEF Rom!Roomy
<1>4. \E k \in DOMAIN cursors : Rom!Chosen(k, size, 2)
  BY <1>1, <1>2, <1>3
<1>5. i \in DOMAIN cursors /\ Rom!Chosen(i, size, 2)
  BY <1>4, Zenon
<1> HIDE DEF i
<1>6. i = j
  <2>1. i \in Rom!Roomy(size, 2) /\ i <= j /\ j <= i
    BY <1>1, <1>5 DEF Rom!Chosen
  <2> QED
    BY <1>2, <1>3, <2>1
<1>7. ClaimAt(size) = Rom!At(j, 2)
  BY <1>6 DEF ClaimAt, i
<1>8. j \in Alloc!Roomy(size, 2) /\ Rom!At(j, 2) = Alloc!At(j, 2)
  BY <1>1, RomRoomy, RomPlaces
<1>9. Alloc!At(j, 2) \in Nat
  BY <1>0, <1>8, SpaceAssumption, Alloc!ClaimFits
<1>10. Alloc!Inv'
  BY <1>0, RomClaim, SpaceAssumption, Alloc!ClaimKeeps
<1>11. Alloc!At(j, 2) % 2 = 0
  <2>1. cursors[j] \in Nat
    <3>1. j \in DOMAIN CodeRegions /\ cursors \in [DOMAIN CodeRegions -> Alloc!Address]
      BY <1>0, <1>3 DEF Alloc!TypeOK
    <3>2. \A a \in Alloc!Address : a \in Nat
      BY SpaceAssumption DEF Alloc!Address
    <3> QED
      BY <3>1, <3>2
  <2>2. \A c \in Nat : (((c + 2 - 1) \div 2) * 2) % 2 = 0
    OBVIOUS
  <2> QED
    BY <2>1, <2>2 DEF Alloc!At, Alloc!RoundUp
<1> QED
  BY <1>1, <1>7, <1>8, <1>9, <1>10, <1>11

(* Cells of code or manifest stand at an address of an image.               *)
Stands(rom, a, cells) ==
    \A k \in 1 .. Len(cells) : a + k - 1 \in Offsets /\ rom[a + k - 1] = cells[k]

(* What is written stands where it was written.                             *)
LEMMA WrittenThere ==
  ASSUME NEW rom, NEW a \in Nat, NEW cells, Len(cells) \in Nat, InImage(a, cells)
  PROVE  Stands(Written(rom, a, cells), a, cells)
<1> DEFINE n == Len(cells)
<1>1. n \in Nat /\ a + n <= RomSize /\ RomSize \in Nat
  BY CodeAssumption DEF InImage
<1>2. Written(rom, a, cells)
        = [b \in Offsets |-> IF b \in Extent(a, n) THEN cells[b - a + 1] ELSE rom[b]]
  BY DEF Written
<1> SUFFICES \A k \in 1 .. n : a + k - 1 \in Offsets
                               /\ Written(rom, a, cells)[a + k - 1] = cells[k]
  BY DEF Stands
<1> HIDE DEF n
<1> TAKE k \in 1 .. n
<1>3. a + k - 1 \in Offsets /\ a + k - 1 \in Extent(a, n) /\ (a + k - 1) - a + 1 = k
  BY <1>1 DEF Offsets, Extent
<1> QED
  BY <1>2, <1>3

(* ... and leaves alone what stands elsewhere.                              *)
LEMMA WrittenElsewhere ==
  ASSUME NEW rom, NEW a, NEW cells, NEW b \in Nat, NEW old, Len(old) \in Nat,
         Stands(rom, b, old), Extent(b, Len(old)) \cap Extent(a, Len(cells)) = {}
  PROVE  Stands(Written(rom, a, cells), b, old)
<1> DEFINE n == Len(old)
<1>1. n \in Nat /\ \A k \in 1 .. n : b + k - 1 \in Offsets /\ rom[b + k - 1] = old[k]
  BY DEF Stands
<1> SUFFICES \A k \in 1 .. n : b + k - 1 \in Offsets
                               /\ Written(rom, a, cells)[b + k - 1] = old[k]
  BY DEF Stands
<1>2. Extent(b, n) \cap Extent(a, Len(cells)) = {}
  OBVIOUS
<1> HIDE DEF n
<1> TAKE k \in 1 .. n
<1>3. b + k - 1 \in Extent(b, n)
  BY <1>1 DEF Extent
<1>4. b + k - 1 \notin Extent(a, Len(cells))
  BY <1>2, <1>3
<1> QED
  BY <1>1, <1>4 DEF Written

(* A jump to the code of a hook takes no more than a long one.              *)
LEMMA SpliceCells ==
  ASSUME NEW site, NEW target
  PROVE  /\ Len(Splice(site, target)) \in Nat
         /\ Len(Splice(site, target))
              <= Len(IF IsSh2a THEN Sh!LongSplice(0) ELSE Rh!LongSplice(0))
<1>1. \A t : Len(Sh!LongSplice(t)) = 6
  BY DEF Sh!LongSplice
<1>2. Len(Sh!ShortSplice(site, target)) = 2
  BY DEF Sh!ShortSplice
<1>3. ASSUME NEW c, NEW d, NEW e, NEW f, NEW g
      PROVE  Len((<<c, d>> \o <<e, f>>) \o <<g>>) = 5
  OBVIOUS
<1>4. \A t : Len(Rh!LongSplice(t)) = 5
  BY <1>3 DEF Rh!LongSplice, Rh!Immediate, Rh!Wide
<1>5. \A c : Len(Rh!Wide(c)) = 2
  BY DEF Rh!Wide
<1>6. CASE IsSh2a
  <2>1. Len(Splice(site, target)) \in {2, 6}
    BY <1>1, <1>2, <1>6 DEF Splice, Sh!Splice
  <2>2. (IF IsSh2a THEN Sh!LongSplice(0) ELSE Rh!LongSplice(0)) = Sh!LongSplice(0)
    BY <1>6
  <2>3. Len(IF IsSh2a THEN Sh!LongSplice(0) ELSE Rh!LongSplice(0)) = 6
    BY <1>1, <2>2
  <2>4. \A k \in {2, 6} : k \in Nat /\ k <= 6
    OBVIOUS
  <2>5. Len(Splice(site, target)) \in Nat /\ Len(Splice(site, target)) <= 6
    BY <2>1, <2>4, Zenon
  <2> QED
    BY <2>3, <2>5, Zenon
<1>7. CASE ~IsSh2a
  <2>1. Len(Splice(site, target)) \in {2, 5}
    BY <1>4, <1>5, <1>7 DEF Splice, Rh!Splice
  <2>2. (IF IsSh2a THEN Sh!LongSplice(0) ELSE Rh!LongSplice(0)) = Rh!LongSplice(0)
    BY <1>7
  <2>3. Len(IF IsSh2a THEN Sh!LongSplice(0) ELSE Rh!LongSplice(0)) = 5
    BY <1>4, <2>2
  <2>4. \A k \in {2, 5} : k \in Nat /\ k <= 5
    OBVIOUS
  <2>5. Len(Splice(site, target)) \in Nat /\ Len(Splice(site, target)) <= 5
    BY <2>1, <2>4, Zenon
  <2> QED
    BY <2>3, <2>5, Zenon
<1> QED
  BY <1>6, <1>7

-----------------------------------------------------------------------------
(* The invariant.                                                           *)

Patching == {"apply", "patched", "flashed", "car", "lost"}
InTheEcu == {"flashed", "car", "lost"}

Kinds ==
    /\ graph \in Graphs /\ pack \in Packs /\ phase \in Phases
    /\ image = [a \in Offsets |-> image[a]] /\ DOMAIN image = Offsets /\ DOMAIN car = Offsets
    /\ DOMAIN mem = Ram /\ DOMAIN regs = Sh!Registers \cup Rh!Registers
    /\ hook \in DOMAIN works \cup {NoHook} /\ DOMAIN ran \subseteq DOMAIN works

(* Each hook with work is in the order once, and one of the pack.           *)
Hooks ==
    /\ order \in Seq(DOMAIN pack.hooks)
    /\ Once(order) /\ ToSet(order) = DOMAIN works
    /\ \A h \in DOMAIN works : Declared(h)

(* A store adds a hook at most. *)
Steps ==
    /\ next \in Nat \ {0} /\ Len(order) <= Len(Stores) /\ next <= Len(Stores) + 1
    /\ phase = "lower" => next = 1 /\ order = <<>>
    /\ phase \in {"lower", "compile"} => Len(order) < next
    /\ phase = "apply" => next <= Len(order) + 1

(* Nothing is patched before gate_patch. *)
Untouched ==
    phase \in {"lower", "compile"} =>
        cursors = <<>> /\ records = <<>> /\ image = Source

(* What was given away keeps the invariant of the allocator. *)
Given ==
    /\ Alloc!Inv \/ (cursors = <<>> /\ claims = <<>>)
    /\ phase \in Patching => Alloc!Inv

(* Each hook applied has a claim and two records, the manifest a claim.     *)
Counted ==
    /\ records \in Seq([address : Nat, length : Nat])
    /\ Len(records) <= 2 * Len(order) /\ Len(claims) <= Len(order) + 1
    /\ manifestAt \in Nat \cup {NoAddress}
    /\ phase \in {"lower", "compile", "apply"} => manifestAt = NoAddress
    /\ phase \in {"lower", "compile"} => claims = <<>>
    /\ phase = "apply" => Len(records) = 2 * (next - 1) /\ Len(claims) = next - 1

(* The ECU has the image that was patched, or its own. *)
Kept == car = IF phase \in InTheEcu THEN image ELSE Source

BuildInv ==
    /\ Kinds /\ Hooks /\ Steps /\ Untouched /\ Given /\ Counted /\ Kept /\ PatchAccounted

(* The invariant holds at first.                                           *)
LEMMA Initially == Init /\ CompilesToCode => BuildInv
<1> SUFFICES ASSUME Init, CompilesToCode PROVE BuildInv
  OBVIOUS
<1>1. Len(Stores) \in Nat
  BY DEF CompilesToCode
<1> HIDE DEF Stores
<1>2. Kinds
  BY DEF Init, Kinds, Phases, Source, Nothing
<1>3. DOMAIN works = {} /\ order = <<>>
  BY DEF Init, Nothing
<1>4. Hooks
  BY <1>3 DEF Hooks, Once, ToSet
<1>5. Steps
  BY <1>1 DEF Init, Steps
<1>6. Untouched /\ Given /\ Kept
  BY DEF Init, Untouched, Given, Kept, Patching, InTheEcu
<1>7. Counted
  BY DEF Init, Counted
<1>8. PatchAccounted
  BY DEF Init, PatchAccounted
<1> QED
  BY <1>2, <1>4, <1>5, <1>6, <1>7, <1>8 DEF BuildInv

(* What keeps when its variables do.                                        *)
LEMMA HooksStay ==
  ASSUME Hooks, UNCHANGED <<pack, order, works>>
  PROVE  Hooks'
BY DEF Hooks, Declared

(* The allocator stays as it is while its cursors and claims do.            *)
LEMMA GivenStays ==
  ASSUME Alloc!Inv, UNCHANGED <<pack, cursors, claims>>
  PROVE  Alloc!Inv'
<1>1. CodeRegions' = CodeRegions
  BY DEF CodeRegions
<1> QED
  BY <1>1, SpaceAssumption, Alloc!Stays

(* The records still account for an image that stays as it is.              *)
LEMMA AccountedStays ==
  ASSUME PatchAccounted, UNCHANGED <<image, records, manifestAt, claims>>
  PROVE  PatchAccounted'
<1>1. Encoded' = Encoded
  BY DEF Encoded
<1> QED
  BY <1>1 DEF PatchAccounted, Rom!Taken

(* The patch stands before gate_patch and after apply: then no step         *)
(* disturbs what is said of it.                                             *)
LEMMA PatchStays ==
  ASSUME BuildInv, phase' \in Phases,
         phase' \in Patching => phase \in Patching,
         phase' \in {"lower", "compile"} => phase \in {"lower", "compile"},
         phase' = "apply" => phase = "apply",
         UNCHANGED <<pack, order, works, next, patchVars>>
  PROVE  Given' /\ Counted' /\ Untouched' /\ PatchAccounted' /\ Hooks'
<1>1. Given'
  <2>1. cursors' = cursors /\ claims' = claims /\ pack' = pack
    BY DEF patchVars
  <2>2. Alloc!Inv => Alloc!Inv'
    BY <2>1, GivenStays
  <2> QED
    BY <2>1, <2>2 DEF BuildInv, Given
<1>2. Counted' /\ Untouched'
  BY DEF BuildInv, Counted, Untouched, patchVars, Patching
<1>3. PatchAccounted'
  BY AccountedStays DEF BuildInv, patchVars
<1>4. Hooks'
  BY HooksStay DEF BuildInv
<1> QED
  BY <1>1, <1>2, <1>3, <1>4

-----------------------------------------------------------------------------
(* Each action keeps the invariant.                                         *)

(* lower makes a program and touches nothing else.                          *)
LEMMA LowerKeeps ==
  ASSUME BuildInv, CompilesToCode', Lower
  PROVE  BuildInv'
<1> USE DEF BuildInv
<1>1. /\ phase = "lower" /\ phase' \in {"compile", "refused"}
      /\ UNCHANGED <<graph, pack, next, order, works, patchVars, car, ecuVars>>
  BY DEF Lower, compileVars
<1>2. Given' /\ Counted' /\ Untouched' /\ PatchAccounted' /\ Hooks'
  BY <1>1, PatchStays DEF Phases, Patching
<1>3. Kinds'
  BY <1>1 DEF Kinds, Phases, patchVars, ecuVars
<1>4. Steps'
  <2>1. next' = 1 /\ order' = <<>> /\ phase' # "apply"
    BY <1>1 DEF Steps
  <2>2. Len(Stores)' \in Nat
    BY DEF CompilesToCode
  <2> HIDE DEF Stores
  <2> QED
    BY <2>1, <2>2 DEF Steps
<1>5. Kept'
  BY <1>1 DEF Kept, InTheEcu, patchVars
<1> QED
  BY <1>2, <1>3, <1>4, <1>5

(* A store leaves the order as it is or puts its hook behind it.            *)
PutInOrder(s, h) == IF h \in ToSet(s) THEN s ELSE Append(s, h)

LEMMA HookPutInOrder ==
  ASSUME NEW S, NEW s \in Seq(S), NEW h \in S, Once(s)
  PROVE  /\ PutInOrder(s, h) \in Seq(S)
         /\ Len(PutInOrder(s, h)) <= Len(s) + 1 /\ Len(s) <= Len(PutInOrder(s, h))
         /\ Once(PutInOrder(s, h))
         /\ ToSet(PutInOrder(s, h)) = ToSet(s) \cup {h}
<1> DEFINE t == PutInOrder(s, h)
<1> USE DEF Once, PutInOrder
<1>1. PICK n \in Nat : n = Len(s) /\ DOMAIN s = 1 .. n
  OBVIOUS
<1>2. CASE h \in ToSet(s)
  BY <1>1, <1>2
<1>3. CASE h \notin ToSet(s)
  <2>1. /\ t \in Seq(S) /\ Len(t) = n + 1 /\ DOMAIN t = 1 .. n + 1
        /\ t[n + 1] = h /\ \A m \in 1 .. n : t[m] = s[m]
    BY <1>1, <1>3
  <2>2. 1 .. n + 1 = DOMAIN s \cup {n + 1}
    BY <1>1
  <2>3. \A m \in DOMAIN s : s[m] # h
    BY <1>3 DEF ToSet
  <2>4. \A l, m \in DOMAIN t : l # m => t[l] # t[m]
    BY <1>1, <2>1, <2>2, <2>3
  <2>5. ToSet(t) = ToSet(s) \cup {h}
    BY <1>1, <2>1, <2>2 DEF ToSet
  <2>6. Len(t) <= Len(s) + 1 /\ Len(s) <= Len(t)
    BY <1>1, <2>1
  <2> QED
    BY <2>1, <2>4, <2>5, <2>6
<1> QED
  BY <1>2, <1>3

(* compile adds the code of one store to the work of its hook.              *)
LEMMA CompileKeeps ==
  ASSUME BuildInv, CompilesToCode, CompileStore
  PROVE  BuildInv'
<1> USE DEF BuildInv
<1>1. /\ phase = "compile" /\ next <= Len(Stores)
      /\ UNCHANGED <<graph, pack, program, patchVars, car, ecuVars>>
  BY DEF CompileStore
<1>2. Len(Stores) \in Nat /\ Len(Stores)' = Len(Stores)
  BY <1>1 DEF CompilesToCode, Stores
<1>3. CASE phase' = "refused" /\ UNCHANGED compileVars
  <2>1. Given' /\ Counted' /\ Untouched' /\ PatchAccounted' /\ Hooks'
    BY <1>1, <1>3, PatchStays DEF Phases, Patching, compileVars
  <2>2. Kinds'
    BY <1>1, <1>3 DEF Kinds, Phases, patchVars, ecuVars, compileVars
  <2>3. Steps'
    BY <1>2, <1>3 DEF Steps, compileVars
  <2>4. Kept'
    BY <1>1, <1>3 DEF Kept, InTheEcu, patchVars
  <2> QED
    BY <2>1, <2>2, <2>3, <2>4
<1>4. ASSUME NEW h, Declared(h),
             DOMAIN works' = DOMAIN works \cup {h},
             order' = IF h \in DOMAIN works THEN order ELSE Append(order, h),
             next' = next + 1, phase' = phase
      PROVE  BuildInv'
  <2>1. h \in DOMAIN pack.hooks /\ order \in Seq(DOMAIN pack.hooks)
        /\ ToSet(order) = DOMAIN works /\ Once(order)
    BY <1>4 DEF Declared, Hooks, Once
  <2>2. /\ order' \in Seq(DOMAIN pack.hooks)
        /\ Len(order') <= Len(order) + 1 /\ Len(order) <= Len(order')
        /\ Once(order')
        /\ ToSet(order') = ToSet(order) \cup {h}
    <3>1. order' = PutInOrder(order, h)
      BY <1>4, <2>1 DEF PutInOrder
    <3> QED
      BY <2>1, <3>1, HookPutInOrder
  <2>3. Hooks'
    BY <1>1, <1>4, <2>1, <2>2 DEF Hooks, Declared, ToSet, Once
  <2>4. PICK n \in Nat : n = Len(order)
    BY <2>1
  <2>5. PICK m \in Nat : m = Len(order')
    BY <2>2
  <2>6. m <= n + 1 /\ n <= m
    BY <2>2, <2>4, <2>5
  <2>7. Steps'
    BY <1>1, <1>2, <1>4, <2>4, <2>5, <2>6 DEF Steps
  <2>8. Kinds'
    BY <1>1, <1>4 DEF Kinds, Phases, patchVars, ecuVars
  <2>9. cursors = <<>> /\ claims = <<>> /\ records = <<>> /\ image = Source
        /\ manifestAt = NoAddress
    BY <1>1 DEF Untouched, Counted
  <2>10. Given' /\ Untouched'
    BY <1>1, <1>4, <2>9 DEF Given, Untouched, Patching, patchVars
  <2>11. Counted'
    <3>1. Len(records') = 0 /\ Len(claims') = 0
      BY <1>1, <2>9 DEF patchVars
    <3> QED
      BY <1>1, <1>4, <2>5, <2>9, <3>1 DEF Counted, patchVars
  <2>12. Kept' /\ PatchAccounted'
    BY <1>1, <1>4, AccountedStays DEF Kept, InTheEcu, patchVars
  <2> QED
    BY <2>3, <2>7, <2>8, <2>10, <2>11, <2>12
<1>5. CASE ~(phase' = "refused" /\ UNCHANGED compileVars)
  <2> DEFINE h == Stores[next].symbol
  <2>1. Declared(h) /\ DOMAIN works' = DOMAIN works \cup {h}
        /\ order' = (IF h \in DOMAIN works THEN order ELSE Append(order, h))
        /\ next' = next + 1 /\ phase' = phase
    BY <1>5 DEF CompileStore
  <2> QED
    BY <1>4, <2>1
<1> QED
  BY <1>3, <1>5

(* gate_patch gives the allocator its regions.                              *)
LEMMA GateGives ==
  ASSUME pack \in Packs, claims = <<>>, cursors' = Rom!Bases, UNCHANGED <<pack, claims>>
  PROVE  Alloc!Inv'
<1>1. CodeRegions' = CodeRegions /\ CodeRegions \in Seq(Alloc!RegionType)
  BY CodeRegionsType DEF CodeRegions
<1>2. \A i \in DOMAIN CodeRegions : CodeRegions[i] \in Alloc!RegionType
  BY <1>1
<1>3. \A i \in DOMAIN CodeRegions :
        CodeRegions[i].base \in Alloc!Address /\ CodeRegions[i].length \in Nat
  BY <1>2, SpaceAssumption DEF Alloc!RegionType, Alloc!Address
<1>4. cursors' = [i \in DOMAIN CodeRegions |-> CodeRegions[i].base] /\ claims' = <<>>
  BY DEF Rom!Bases
<1> HIDE DEF CodeRegions
<1>5. Alloc!TypeOK'
  BY <1>1, <1>3, <1>4 DEF Alloc!TypeOK
<1>6. Alloc!Placed'
  <2>1. \A i \in DOMAIN CodeRegions :
          CodeRegions[i].base <= CodeRegions[i].base + CodeRegions[i].length
    BY <1>3, SpaceAssumption DEF Alloc!Address
  <2>2. \A i \in DOMAIN CodeRegions : cursors'[i] = CodeRegions[i].base
    BY <1>4
  <2>3. \A i \in DOMAIN CodeRegions : Alloc!CursorInRegion(i)'
    BY <1>1, <1>3, <2>1, <2>2, SpaceAssumption DEF Alloc!CursorInRegion, Alloc!Address
  <2>4. DOMAIN claims' = {}
    BY <1>4
  <2> QED
    BY <1>1, <2>3, <2>4 DEF Alloc!Placed
<1>7. Alloc!ClaimsDisjoint'
  BY <1>4 DEF Alloc!ClaimsDisjoint
<1> QED
  BY <1>5, <1>6, <1>7 DEF Alloc!Inv

(* gate_patch lets the patch be written or refuses it.                      *)
LEMMA GateKeeps ==
  ASSUME BuildInv, CompilesToCode, Gate
  PROVE  BuildInv'
<1> USE DEF BuildInv
<1>1. /\ phase = "compile"
      /\ UNCHANGED <<graph, pack, program, order, works, image, claims, records,
                     manifestAt, car, ecuVars>>
  BY DEF Gate
<1>2. Len(Stores) \in Nat /\ Len(Stores)' = Len(Stores)
  BY <1>1 DEF CompilesToCode, Stores
<1>3. cursors = <<>> /\ claims = <<>> /\ records = <<>> /\ image = Source
      /\ manifestAt = NoAddress /\ order \in Seq(DOMAIN pack.hooks)
  BY <1>1 DEF Untouched, Counted, Hooks
<1>4. Hooks' /\ PatchAccounted'
  BY <1>1, HooksStay, AccountedStays
<1>5. PICK n \in Nat : n = Len(order)
  BY <1>3
<1>6. Len(records) = 0 /\ Len(claims) = 0
  BY <1>3
<1>7. CASE phase' = "apply" /\ next' = 1 /\ cursors' = Rom!Bases
  <2>1. Given'
    BY <1>1, <1>3, <1>7, GateGives DEF Given, Kinds
  <2>2. Counted'
    BY <1>1, <1>3, <1>5, <1>6, <1>7 DEF Counted
  <2>3. Steps'
    BY <1>1, <1>2, <1>5, <1>7 DEF Steps
  <2>4. Kinds' /\ Untouched' /\ Kept'
    BY <1>1, <1>7 DEF Kinds, Phases, Untouched, Kept, InTheEcu, ecuVars
  <2> QED
    BY <1>4, <2>1, <2>2, <2>3, <2>4
<1>8. CASE phase' = "refused" /\ UNCHANGED <<next, cursors>>
  <2>1. Given'
    BY <1>1, <1>3, <1>8 DEF Given, Patching
  <2>2. Counted'
    BY <1>1, <1>3, <1>5, <1>6, <1>8 DEF Counted
  <2>3. Steps'
    BY <1>1, <1>2, <1>5, <1>8 DEF Steps
  <2>4. Kinds' /\ Untouched' /\ Kept'
    BY <1>1, <1>8 DEF Kinds, Phases, Untouched, Kept, InTheEcu, ecuVars
  <2> QED
    BY <1>4, <2>1, <2>2, <2>3, <2>4
<1> QED
  BY <1>7, <1>8 DEF Gate

(* The hook that apply looks at, its code and where both go. *)
HookHere   == order[next]
CodeHere   == works[HookHere].code
SiteHere   == pack.hooks[HookHere].splice
ClaimHere  == ClaimAt(Len(CodeHere))
SpliceHere == Splice(SiteHere, ClaimHere)

(* A claim of cells, whose length is the whole of theirs.                   *)
Place(a, cells) == [address |-> a, length |-> Len(cells)]

(* A length below the limit is not cut, and a cut one is a number.          *)
LEMMA CutLength ==
  ASSUME NEW n \in Nat
  PROVE  n % LengthLimit \in Nat /\ (n < LengthLimit => n % LengthLimit = n)
BY CodeAssumption, SMT

LEMMA SpliceIsShort ==
  ASSUME NEW site, NEW target
  PROVE  Len(Splice(site, target)) % LengthLimit = Len(Splice(site, target))
<1>1. PICK n \in Nat : n = Len(Splice(site, target))
  BY SpliceCells
<1>2. Len(Sh!LongSplice(0)) = 6
  BY DEF Sh!LongSplice
<1>3. Len(Rh!LongSplice(0)) = 5
  <2>1. ASSUME NEW c, NEW d, NEW e, NEW f, NEW g
        PROVE  Len((<<c, d>> \o <<e, f>>) \o <<g>>) = 5
    OBVIOUS
  <2> QED
    BY <2>1 DEF Rh!LongSplice, Rh!Immediate, Rh!Wide
<1>4. n <= 6
  <2> DEFINE long == IF IsSh2a THEN Sh!LongSplice(0) ELSE Rh!LongSplice(0)
  <2>1. PICK k \in {5, 6} : k = Len(long)
    BY <1>2, <1>3, Zenon
  <2>2. n <= k
    BY <1>1, <2>1, SpliceCells
  <2>3. k \in Nat /\ k <= 6 /\ n \in Nat
    OBVIOUS
  <2> QED
    BY ONLY <2>2, <2>3
<1>5. n < LengthLimit
  BY <1>4, CodeAssumption
<1> QED
  BY <1>1, <1>5, CutLength

(* What applying a hook does. *)
LEMMA HookApplied ==
  ASSUME BuildInv, CompilesToCode, ApplyHook, phase' = "apply"
  PROVE  /\ phase = "apply" /\ next \in DOMAIN order /\ HookHere \in DOMAIN works
         /\ Len(CodeHere) \in Nat \ {0} /\ SiteHere \in Nat /\ ClaimHere \in Nat
         /\ ClaimHere % 2 = 0 /\ Spliceable(SiteHere, ClaimHere)
         /\ InImage(ClaimHere, CodeHere) /\ InImage(SiteHere, SpliceHere)
         /\ image' = Written(Written(image, ClaimHere, CodeHere), SiteHere, SpliceHere)
         /\ records' = records \o <<Record(ClaimHere, CodeHere), Record(SiteHere, SpliceHere)>>
         /\ claims' = Append(claims, Place(ClaimHere, CodeHere))
         /\ Alloc!Inv' /\ next' = next + 1
         /\ UNCHANGED <<graph, pack, program, order, works, manifestAt, car, ecuVars>>
<1>1. /\ phase = "apply" /\ next <= Len(order)
      /\ UNCHANGED <<graph, pack, program, order, works, manifestAt, car, ecuVars>>
  BY DEF ApplyHook
<1>2. /\ Spliceable(SiteHere, ClaimHere)
      /\ InImage(ClaimHere, CodeHere) /\ InImage(SiteHere, SpliceHere)
      /\ image' = Written(Written(image, ClaimHere, CodeHere), SiteHere, SpliceHere)
      /\ records' = records \o <<Record(ClaimHere, CodeHere), Record(SiteHere, SpliceHere)>>
      /\ Rom!Claim(Len(CodeHere), 2) /\ next' = next + 1
  BY DEF ApplyHook, ClaimHere, CodeHere, SiteHere, SpliceHere, HookHere, Recorded
<1>3. PICK n \in Nat : n = Len(order) /\ DOMAIN order = 1 .. n
  BY DEF BuildInv, Hooks
<1>4. next \in DOMAIN order
  BY <1>1, <1>3 DEF BuildInv, Steps
<1>5. HookHere \in DOMAIN works
  BY <1>4 DEF BuildInv, Hooks, ToSet, HookHere
<1>6. Len(CodeHere) \in Nat \ {0}
  BY <1>5 DEF CompilesToCode, CodeHere
<1>7. SiteHere \in Nat
  <2>1. Declared(HookHere) /\ pack \in Packs
    BY <1>5 DEF BuildInv, Hooks, Kinds
  <2> QED
    BY <2>1, PackAssumption DEF Declared, SiteHere
<1>8. Alloc!Inv
  BY <1>1 DEF BuildInv, Given, Patching
<1>9. /\ ClaimHere \in Nat /\ ClaimHere % 2 = 0
      /\ claims' = Append(claims, Place(ClaimHere, CodeHere))
      /\ Alloc!Inv'
  BY <1>1, <1>2, <1>6, <1>8, Claimed DEF ClaimHere, Place
<1> QED
  BY <1>1, <1>2, <1>4, <1>5, <1>6, <1>7, <1>9

(* What is written is in an extent, or was there before. *)
LEMMA WrittenOnlyThere ==
  ASSUME NEW rom, NEW a, NEW cells, NEW b \in Offsets, b \notin Extent(a, Len(cells))
  PROVE  Written(rom, a, cells)[b] = rom[b]
BY DEF Written

(* A hook applied adds a claim and the two records of what it wrote.        *)
LEMMA ApplyHookKeeps ==
  ASSUME BuildInv, CompilesToCode, ApplyHook
  PROVE  BuildInv'
<1>0. /\ phase = "apply" /\ phase' \in {"apply", "refused"}
      /\ UNCHANGED <<graph, pack, program, order, works, manifestAt, car, ecuVars>>
  BY DEF ApplyHook, BuildInv, Kinds
<1>1. Hooks'
  BY <1>0, HooksStay DEF BuildInv
<1>2. Len(Stores) \in Nat /\ Len(Stores)' = Len(Stores)
  BY <1>0 DEF CompilesToCode, Stores
<1>3. PICK n \in Nat : n = Len(order) /\ DOMAIN order = 1 .. n
  BY DEF BuildInv, Hooks
<1>4. CASE phase' = "apply"
  <2>1. /\ next \in DOMAIN order
        /\ Len(CodeHere) \in Nat \ {0} /\ SiteHere \in Nat /\ ClaimHere \in Nat
        /\ image' = Written(Written(image, ClaimHere, CodeHere), SiteHere, SpliceHere)
        /\ records' = records
             \o <<Record(ClaimHere, CodeHere), Record(SiteHere, SpliceHere)>>
        /\ claims' = Append(claims, Place(ClaimHere, CodeHere))
        /\ Alloc!Inv' /\ next' = next + 1
    BY <1>4, HookApplied
  <2> DEFINE code == Record(ClaimHere, CodeHere)
             splice == Record(SiteHere, SpliceHere)
  <2>2. Given'
    <3>1. Alloc!Inv'
      BY <2>1
    <3> QED
      BY <3>1 DEF Given
  <2>3. code \in [address : Nat, length : Nat] /\ splice \in [address : Nat, length : Nat]
    <3>1. Len(SpliceHere) \in Nat /\ Len(CodeHere) \in Nat
      BY <2>1, SpliceCells DEF SpliceHere
    <3>2. Len(SpliceHere) % LengthLimit \in Nat /\ Len(CodeHere) % LengthLimit \in Nat
      BY <3>1, CutLength
    <3> QED
      BY <2>1, <3>2 DEF Record
  <2>4. PICK r \in Nat : r = Len(records) /\ DOMAIN records = 1 .. r
    BY DEF BuildInv, Counted
  <2>5. records \in Seq([address : Nat, length : Nat])
    BY DEF BuildInv, Counted
  <2> HIDE DEF code, splice
  <2>6. /\ records' \in Seq([address : Nat, length : Nat]) /\ Len(records') = r + 2
        /\ DOMAIN records' = 1 .. r + 2
        /\ \A i \in 1 .. r : records'[i] = records[i]
        /\ records'[r + 1] = code /\ records'[r + 2] = splice
    BY <2>1, <2>3, <2>4, <2>5 DEF code, splice
  <2>7. PICK c \in Nat : c = Len(claims)
    BY <1>0 DEF BuildInv, Given, Patching, Alloc!Inv, Alloc!TypeOK
  <2>8. Len(claims') = c + 1
    <3>1. claims \in Seq(Alloc!ClaimType)
      BY <1>0 DEF BuildInv, Given, Patching, Alloc!Inv, Alloc!TypeOK
    <3>2. claims' \in Seq(Alloc!ClaimType)
      BY <2>1 DEF Alloc!Inv, Alloc!TypeOK
    <3> QED
      BY <2>1, <2>7, <3>1, <3>2
  <2>9. Counted'
    <3>1. r = 2 * (next - 1) /\ c = next - 1 /\ next \in 1 .. n
      BY <1>0, <1>3, <2>1, <2>4, <2>7 DEF BuildInv, Counted
    <3>2. /\ r + 2 <= 2 * n /\ c + 1 <= n + 1
          /\ r + 2 = 2 * (next' - 1) /\ c + 1 = next' - 1
      <4>1. next' = next + 1 /\ r \in Nat /\ c \in Nat /\ n \in Nat
        BY <1>3, <2>1, <2>4, <2>7
      <4> QED
        BY ONLY <3>1, <4>1
    <3>3. Len(order') = n /\ manifestAt' = NoAddress
      BY <1>0, <1>3 DEF BuildInv, Counted
    <3>4. Len(records') <= 2 * Len(order') /\ Len(claims') <= Len(order') + 1
      BY <2>6, <2>8, <3>2, <3>3
    <3>5. Len(records') = 2 * (next' - 1) /\ Len(claims') = next' - 1
      BY <2>6, <2>8, <3>2
    <3> QED
      BY <1>4, <2>6, <3>3, <3>4, <3>5 DEF Counted
  <2>10. Steps'
    BY <1>0, <1>2, <1>3, <1>4, <2>1 DEF BuildInv, Steps
  <2>11. DOMAIN image' = Offsets /\ image' = [b \in Offsets |-> image'[b]]
    BY <2>1 DEF Written
  <2>12. Kinds' /\ Untouched' /\ Kept'
    BY <1>0, <1>4, <2>11 DEF BuildInv, Kinds, Phases, Untouched, Kept, InTheEcu, ecuVars
  <2>13. ASSUME NEW a \in Offsets, image'[a] # Source[a]
         PROVE  \/ \E i \in DOMAIN records' :
                       a \in Extent(records'[i].address, records'[i].length)
                \/ \E k \in DOMAIN claims' :
                       claims'[k].length >= LengthLimit /\ a \in Rom!Taken(k)'
    <3>1. r + 1 \in DOMAIN records' /\ r + 2 \in DOMAIN records'
          /\ \A i \in 1 .. r : i \in DOMAIN records'
      BY <2>4, <2>6
    <3>2. CASE a \in Extent(SiteHere, Len(SpliceHere))
      <4>1. Len(SpliceHere) % LengthLimit = Len(SpliceHere)
        BY SpliceIsShort DEF SpliceHere
      <4> QED
        BY <2>6, <3>1, <3>2, <4>1 DEF splice, Record
    <3>3. CASE a \in Extent(ClaimHere, Len(CodeHere))
      <4>1. PICK m \in Nat : m = Len(CodeHere)
        BY <2>1
      <4>2. CASE m < LengthLimit
        <5>1. Len(CodeHere) % LengthLimit = Len(CodeHere)
          BY <4>1, <4>2, CutLength
        <5>2. code.address = ClaimHere /\ code.length = Len(CodeHere)
          BY <5>1 DEF code, Record
        <5>3. a \in Extent(code.address, code.length)
          BY <3>3, <5>2
        <5> QED
          BY <2>6, <3>1, <5>3
      <4>3. CASE ~(m < LengthLimit)
        <5>1. m >= LengthLimit
          BY <4>1, <4>3, CodeAssumption
        <5>2. claims'[c + 1] = Place(ClaimHere, CodeHere) /\ c + 1 \in DOMAIN claims'
          <6>1. claims \in Seq(Alloc!ClaimType)
            BY <1>0 DEF BuildInv, Given, Patching, Alloc!Inv, Alloc!TypeOK
          <6> QED
            BY <2>1, <2>7, <6>1
        <5>3. claims'[c + 1].address = ClaimHere /\ claims'[c + 1].length = Len(CodeHere)
          BY <5>2 DEF Place
        <5>4. a \in Rom!Taken(c + 1)'
          BY <3>3, <5>3 DEF Rom!Taken, Rom!Extent, Extent
        <5> QED
          BY <4>1, <5>1, <5>2, <5>3, <5>4
      <4> QED
        BY <4>2, <4>3
    <3>4. CASE /\ a \notin Extent(SiteHere, Len(SpliceHere))
               /\ a \notin Extent(ClaimHere, Len(CodeHere))
      <4>1. image'[a] = image[a]
        BY <2>1, <2>13, <3>4, WrittenOnlyThere
      <4>2. \/ \E i \in DOMAIN records : a \in Extent(records[i].address, records[i].length)
            \/ \E k \in DOMAIN claims : claims[k].length >= LengthLimit /\ a \in Rom!Taken(k)
        BY <1>0, <2>13, <4>1 DEF BuildInv, PatchAccounted, Counted
      <4>3. \A k \in DOMAIN claims : k \in DOMAIN claims' /\ claims'[k] = claims[k]
        <5>1. claims \in Seq(Alloc!ClaimType)
          BY <1>0 DEF BuildInv, Given, Patching, Alloc!Inv, Alloc!TypeOK
        <5> QED
          BY <2>1, <5>1
      <4> QED
        BY <2>4, <2>6, <3>1, <4>2, <4>3 DEF Rom!Taken
    <3> QED
      BY <3>2, <3>3, <3>4
  <2>14. PatchAccounted'
    BY <2>13 DEF PatchAccounted, Offsets, Source
  <2> QED
    BY <1>1, <2>2, <2>9, <2>10, <2>12, <2>14 DEF BuildInv
<1>5. CASE phase' = "refused"
  <2>1. UNCHANGED <<next, image, cursors, claims, records>>
    BY <1>0, <1>5 DEF ApplyHook
  <2>2. Given' /\ Counted' /\ Untouched' /\ PatchAccounted'
    BY <1>0, <1>5, <2>1, PatchStays DEF Phases, Patching, patchVars
  <2>3. Kinds' /\ Kept'
    BY <1>0, <1>5, <2>1 DEF BuildInv, Kinds, Phases, Kept, InTheEcu, ecuVars
  <2>4. Steps'
    BY <1>0, <1>2, <1>5, <2>1 DEF BuildInv, Steps
  <2> QED
    BY <1>1, <2>2, <2>3, <2>4 DEF BuildInv
<1> QED
  BY <1>0, <1>4, <1>5

ManifestHere == ClaimAt(Len(Encoded))

(* What writing the manifest does. *)
LEMMA ManifestApplied ==
  ASSUME BuildInv, ApplyManifest, phase' = "patched"
  PROVE  /\ phase = "apply" /\ next = Len(order) + 1
         /\ Len(Encoded) \in Nat \ {0} /\ ManifestHere \in Nat
         /\ InImage(ManifestHere, Encoded)
         /\ image' = Written(image, ManifestHere, Encoded)
         /\ claims' = Append(claims, Place(ManifestHere, Encoded))
         /\ Alloc!Inv' /\ manifestAt' = ManifestHere
         /\ UNCHANGED <<graph, pack, program, next, order, works, records, car, ecuVars>>
<1>1. /\ phase = "apply" /\ next > Len(order)
      /\ UNCHANGED <<graph, pack, program, next, order, works, records, car, ecuVars>>
  BY DEF ApplyManifest, compileVars
<1>2. /\ InImage(ManifestHere, Encoded)
      /\ image' = Written(image, ManifestHere, Encoded)
      /\ Rom!Claim(Len(Encoded), 2) /\ manifestAt' = ManifestHere
  BY DEF ApplyManifest, ManifestHere
<1>3. Len(Encoded) \in Nat \ {0}
  <2>1. PICK r \in Nat : r = Len(records)
    BY DEF BuildInv, Counted
  <2>2. Encoded = [k \in 1 .. 4 * (r + 1) |-> Encoded[k]]
    BY <2>1 DEF Encoded
  <2> HIDE DEF Encoded
  <2>3. 4 * (r + 1) \in Nat \ {0}
    BY <2>1
  <2>4. Len(Encoded) = 4 * (r + 1)
    BY <2>2, <2>3
  <2> QED
    BY <2>3, <2>4
<1>4. next = Len(order) + 1
  <2>1. PICK n \in Nat : n = Len(order)
    BY DEF BuildInv, Hooks
  <2> QED
    BY <1>1, <2>1 DEF BuildInv, Steps
<1>5. Alloc!Inv
  BY <1>1 DEF BuildInv, Given, Patching
<1>6. /\ ManifestHere \in Nat /\ claims' = Append(claims, Place(ManifestHere, Encoded))
      /\ Alloc!Inv'
  BY <1>1, <1>2, <1>3, <1>5, Claimed DEF ManifestHere, Place
<1> QED
  BY <1>1, <1>2, <1>3, <1>4, <1>6

(* The manifest adds a claim and accounts for itself.                       *)
LEMMA ManifestKeeps ==
  ASSUME BuildInv, CompilesToCode, ApplyManifest
  PROVE  BuildInv'
<1>0. /\ phase = "apply" /\ phase' \in {"patched", "refused"}
      /\ UNCHANGED <<graph, pack, program, next, order, works, records, car, ecuVars>>
  BY DEF ApplyManifest, compileVars
<1>1. Hooks'
  BY <1>0, HooksStay DEF BuildInv
<1>2. Steps'
  <2>1. Len(Stores)' = Len(Stores)
    BY <1>0 DEF Stores
  <2> QED
    BY <1>0, <2>1 DEF BuildInv, Steps
<1>3. CASE phase' = "patched"
  <2>1. /\ next = Len(order) + 1 /\ ManifestHere \in Nat
        /\ image' = Written(image, ManifestHere, Encoded)
        /\ claims' = Append(claims, Place(ManifestHere, Encoded))
        /\ Alloc!Inv' /\ manifestAt' = ManifestHere
    BY <1>3, ManifestApplied
  <2>2. Given'
    <3>1. Alloc!Inv'
      BY <2>1
    <3> QED
      BY ONLY <3>1 DEF Given
  <2>3. Len(claims') = Len(claims) + 1
    <3>1. claims \in Seq(Alloc!ClaimType) /\ claims' \in Seq(Alloc!ClaimType)
      BY <1>0, <2>1 DEF BuildInv, Given, Patching, Alloc!Inv, Alloc!TypeOK
    <3> QED
      BY <2>1, <3>1
  <2>4. Counted'
    <3>1. Len(claims) = Len(order)
      <4>1. PICK n \in Nat : n = Len(order)
        BY DEF BuildInv, Hooks
      <4> QED
        BY <1>0, <2>1, <4>1 DEF BuildInv, Counted
    <3>2. Len(claims') <= Len(order') + 1
      <4>1. PICK n \in Nat : n = Len(order)
        BY DEF BuildInv, Hooks
      <4> QED
        BY <1>0, <2>3, <3>1, <4>1
    <3> QED
      BY <1>0, <1>3, <2>1, <3>2 DEF BuildInv, Counted
  <2>5. Kinds' /\ Untouched' /\ Kept'
    <3>1. DOMAIN image' = Offsets /\ image' = [b \in Offsets |-> image'[b]]
      BY <2>1 DEF Written
    <3> QED
      BY <1>0, <1>3, <3>1 DEF BuildInv, Kinds, Phases, Untouched, Kept, InTheEcu, ecuVars
  <2>6. PatchAccounted'
    <3>1. Encoded' = Encoded
      BY <1>0 DEF Encoded
    <3>2. manifestAt' # NoAddress
      BY <2>1 DEF NoAddress
    <3>3. ASSUME NEW a \in Offsets, image'[a] # Source[a],
                 a \notin Extent(ManifestHere, Len(Encoded))
          PROVE  \/ \E i \in DOMAIN records :
                        a \in Extent(records[i].address, records[i].length)
                 \/ \E k \in DOMAIN claims' :
                        claims'[k].length >= LengthLimit /\ a \in Rom!Taken(k)'
      <4>1. image'[a] = image[a]
        BY <2>1, <3>3, WrittenOnlyThere
      <4>2. \/ \E i \in DOMAIN records : a \in Extent(records[i].address, records[i].length)
            \/ \E k \in DOMAIN claims : claims[k].length >= LengthLimit /\ a \in Rom!Taken(k)
        BY <1>0, <3>3, <4>1 DEF BuildInv, PatchAccounted, Counted
      <4>3. \A k \in DOMAIN claims : k \in DOMAIN claims' /\ claims'[k] = claims[k]
        <5>1. claims \in Seq(Alloc!ClaimType)
          BY <1>0 DEF BuildInv, Given, Patching, Alloc!Inv, Alloc!TypeOK
        <5> QED
          BY <2>1, <5>1
      <4> QED
        BY <4>2, <4>3 DEF Rom!Taken
    <3> QED
      BY <1>0, <2>1, <3>1, <3>2, <3>3 DEF PatchAccounted, Offsets, Source
  <2> QED
    BY <1>1, <1>2, <2>2, <2>4, <2>5, <2>6 DEF BuildInv
<1>4. CASE phase' = "refused"
  <2>1. UNCHANGED <<image, cursors, claims, manifestAt>>
    BY <1>0, <1>4 DEF ApplyManifest
  <2>2. Given' /\ Counted' /\ Untouched' /\ PatchAccounted'
    BY <1>0, <1>4, <2>1, PatchStays DEF Phases, Patching, patchVars
  <2>3. Kinds' /\ Kept'
    BY <1>0, <1>4, <2>1 DEF BuildInv, Kinds, Phases, Kept, InTheEcu, ecuVars
  <2> QED
    BY <1>1, <1>2, <2>2, <2>3 DEF BuildInv
<1> QED
  BY <1>0, <1>3, <1>4

(* The sectors that changed make the image of the ECU the patched one.      *)
LEMMA SectorsCarryThePatch ==
  ASSUME BuildInv, FlashSectors
  PROVE  car' = image
<1>1. car = Source /\ image = [a \in Offsets |-> image[a]]
  BY DEF BuildInv, Kinds, Kept, FlashSectors, InTheEcu
<1>2. car' = [a \in Offsets |-> IF SectorOf(a) \in Planned THEN image[a] ELSE car[a]]
  BY DEF FlashSectors
<1>3. \A a \in Offsets : SectorOf(a) \notin Planned => image[a] = Source[a]
  BY DEF Planned
<1>4. \A a \in Offsets : (IF SectorOf(a) \in Planned THEN image[a] ELSE car[a]) = image[a]
  BY <1>1, <1>3
<1> HIDE DEF Planned, SectorOf, Source, Offsets
<1> QED
  BY <1>1, <1>2, <1>4

(* Flashing gives the ECU the image.                                        *)
LEMMA FlashKeeps ==
  ASSUME BuildInv, FlashSectors
  PROVE  BuildInv'
<1>1. /\ phase = "patched" /\ phase' = "flashed"
      /\ UNCHANGED <<graph, pack, program, next, order, works, patchVars, ecuVars>>
  BY DEF FlashSectors, compileVars
<1>2. Given' /\ Counted' /\ Untouched' /\ PatchAccounted' /\ Hooks'
  BY <1>1, PatchStays DEF Phases, Patching
<1>3. car' = image /\ image' = image /\ DOMAIN image = Offsets
  BY <1>1, SectorsCarryThePatch DEF BuildInv, Kinds, patchVars
<1>4. Kinds' /\ Kept'
  BY <1>1, <1>3 DEF BuildInv, Kinds, Phases, Kept, InTheEcu, ecuVars
<1>5. Steps'
  BY <1>1 DEF BuildInv, Steps, Stores
<1> QED
  BY <1>2, <1>4, <1>5 DEF BuildInv

(* What the ECU does, from its start on. *)
InEcu ==
    /\ phase \in InTheEcu /\ phase' \in InTheEcu
    /\ DOMAIN mem' = DOMAIN mem /\ DOMAIN regs' = DOMAIN regs
    /\ hook' \in DOMAIN works \cup {NoHook} /\ DOMAIN ran' \subseteq DOMAIN works
    /\ UNCHANGED <<graph, pack, program, next, order, works, patchVars, car>>

(* What the ECU does leaves its flash and the patch alone.                  *)
LEMMA EcuKeeps ==
  ASSUME BuildInv, InEcu
  PROVE  BuildInv'
<1>1. /\ phase \in InTheEcu /\ phase' \in InTheEcu
      /\ UNCHANGED <<graph, pack, program, next, order, works, patchVars, car>>
  BY DEF InEcu
<1>2. Given' /\ Counted' /\ Untouched' /\ PatchAccounted' /\ Hooks'
  BY <1>1, PatchStays DEF Phases, Patching, InTheEcu
<1>3. Kinds' /\ Kept'
  BY <1>1 DEF InEcu, BuildInv, Kinds, Phases, Kept, InTheEcu, patchVars
<1>4. Steps'
  BY <1>1 DEF BuildInv, Steps, Stores, InTheEcu
<1> QED
  BY <1>2, <1>3, <1>4 DEF BuildInv

(* It starts, ...                                                           *)
LEMMA BootIsInEcu == ASSUME BuildInv, Boot PROVE InEcu
<1>1. DOMAIN mem' = Ram
  BY DEF Boot
<1> QED
  BY <1>1 DEF Boot, InEcu, InTheEcu, BuildInv, Kinds, compileVars

(* ... comes to a hook of the patch, ...                                    *)
LEMMA EnterIsInEcu ==
  ASSUME BuildInv, NEW h \in ToSet(order), Enter(h)
  PROVE  InEcu
<1>1. h \in DOMAIN works
  BY DEF BuildInv, Hooks
<1>2. DOMAIN ran' = DOMAIN ran \cup {h}
  BY DEF Enter
<1> QED
  BY <1>1, <1>2 DEF Enter, InEcu, InTheEcu, BuildInv, Kinds, compileVars

(* ... and runs what is there.                                              *)
LEMMA ExecuteIsInEcu == ASSUME BuildInv, Execute PROVE InEcu
<1>0. /\ phase = "car" /\ phase' \in {"car", "lost"} /\ hook' \in {hook, NoHook}
      /\ DOMAIN mem' = DOMAIN mem /\ DOMAIN regs' = DOMAIN regs
  <2>1. CASE Compute
    BY <2>1 DEF Compute, Running
  <2>2. CASE Store
    BY <2>2 DEF Store, Running
  <2>3. CASE Jump
    BY <2>3 DEF Jump, Running
  <2>4. CASE Return
    BY <2>4 DEF Return, Running
  <2>5. CASE Stray
    BY <2>5 DEF Stray, Running
  <2> QED
    BY <2>1, <2>2, <2>3, <2>4, <2>5 DEF Execute
<1>1. UNCHANGED <<graph, pack, program, next, order, works, patchVars, car, ran>>
  BY DEF Execute, compileVars
<1> QED
  BY <1>0, <1>1 DEF InEcu, InTheEcu, BuildInv, Kinds

(* So does a step that changes nothing.                                     *)
LEMMA StutterKeeps ==
  ASSUME BuildInv, UNCHANGED vars
  PROVE  BuildInv'
<1>1. UNCHANGED <<graph, pack, program, phase, next, order, works, patchVars, car, ecuVars>>
  BY DEF vars, compileVars
<1>2. Given' /\ Counted' /\ Untouched' /\ PatchAccounted' /\ Hooks'
  BY <1>1, PatchStays DEF BuildInv, Kinds
<1>3. Kinds' /\ Kept'
  BY <1>1 DEF BuildInv, Kinds, Kept, patchVars, ecuVars
<1>4. Steps'
  BY <1>1 DEF BuildInv, Steps, Stores
<1> QED
  BY <1>2, <1>3, <1>4 DEF BuildInv

(* Every step keeps the invariant, ...                                      *)
LEMMA StepKeeps ==
  ASSUME BuildInv, CompilesToCode, CompilesToCode', [Next]_vars
  PROVE  BuildInv'
<1>1. CASE Lower \/ CompileStore \/ Gate
  BY <1>1, LowerKeeps, CompileKeeps, GateKeeps
<1>2. CASE ApplyHook \/ ApplyManifest \/ FlashSectors
  BY <1>2, ApplyHookKeeps, ManifestKeeps, FlashKeeps
<1>3. CASE Boot \/ (\E h \in ToSet(order) : Enter(h)) \/ Execute
  BY <1>3, BootIsInEcu, EnterIsInEcu, ExecuteIsInEcu, EcuKeeps
<1>4. CASE UNCHANGED vars
  BY <1>4, StutterKeeps
<1> QED
  BY <1>1, <1>2, <1>3, <1>4 DEF Next

(* ... which holds always.                                                  *)
LEMMA AlwaysBuilt == Spec => []BuildInv
<1>1. BuildInv /\ CompilesToCode /\ CompilesToCode' /\ [Next]_vars => BuildInv'
  BY StepKeeps
<1> QED
  BY <1>1, Initially, CodeIsMade, PTL DEF Spec

-----------------------------------------------------------------------------
(* What is always so.                                                       *)

(* The variables of a build have their types, for every graph and pack.     *)
THEOREM BuildTypeCorrect == Spec => []TypeOK
<1>1. ASSUME BuildInv, CompilesToCode PROVE TypeOK
  <2>1. Len(Stores) \in Nat
    BY <1>1 DEF CompilesToCode
  <2> HIDE DEF Stores
  <2>2. next \in 1 .. Len(Stores) + 1
    BY <1>1, <2>1 DEF BuildInv, Steps
  <2>3. ToSet(order) = DOMAIN works /\ DOMAIN works \subseteq DOMAIN pack.hooks
    BY <1>1 DEF BuildInv, Hooks, Declared
  <2>4. \A i \in DOMAIN cursors : cursors[i] \in Nat
    <3>1. CASE Alloc!Inv
      BY <3>1, SpaceAssumption DEF Alloc!Inv, Alloc!TypeOK, Alloc!Address
    <3>2. CASE cursors = <<>>
      BY <3>2
    <3> QED
      BY <1>1, <3>1, <3>2 DEF BuildInv, Given
  <2> QED
    BY <1>1, <2>2, <2>3, <2>4 DEF BuildInv, Kinds, Counted, TypeOK
<1> QED
  BY <1>1, AlwaysBuilt, CodeIsMade, PTL

(* lower fails for a missing source only: whatever the order in which the   *)
(* nodes and edges of a graph are given, the schedule has the driver of an  *)
(* input before the node that takes it.  A part of PinsHoldTheGraph.        *)
THEOREM LowerFindsTheSources == Spec => []SourcesAreFound
<1>1. ASSUME BuildInv PROVE SourcesAreFound
  <2>1. IsGraph(graph)
    BY <1>1, GraphAssumption DEF BuildInv, Kinds
  <2>2. Sourced => HasSources(graph)
    BY DEF Sourced, HasSources
  <2> QED
    BY <2>1, <2>2, LoweredWired DEF SourcesAreFound
<1> QED
  BY <1>1, AlwaysBuilt, PTL

(* What is compiled is the graph, node by node and pin by pin: the program  *)
(* gives each output pin a value, of a hook what the firmware has there, of *)
(* a primitive a call with the sources of its inputs in their order; it     *)
(* stores the source of each input of a hook; and it stores nothing else.   *)
(* The order is one in which each node comes after those it takes from.     *)
CompilesTheGraph ==
    phase \notin {"lower", "refused"} =>
        /\ program = Lowered(graph).code /\ IsTheGraph(graph, Lowered(graph))
        /\ Topological(graph, Schedule(graph))
        /\ ToSet(Schedule(graph)) = Sides(graph) /\ Once(Schedule(graph))

THEOREM TheProgramIsTheGraph == Spec => []CompilesTheGraph
<1>1. Init => CompilesTheGraph
  BY DEF Init, CompilesTheGraph
<1>2. ASSUME BuildInv, CompilesTheGraph, [Next]_vars PROVE CompilesTheGraph'
  <2>1. CASE Lower
    <3>1. SUFFICES ASSUME phase' \notin {"lower", "refused"} PROVE CompilesTheGraph'
      BY DEF CompilesTheGraph
    <3>2. /\ Readable(graph) /\ ~Cyclic(graph) /\ Lowered(graph).ok
          /\ program' = Lowered(graph).code /\ graph' = graph
      BY <2>1, <3>1 DEF Lower
    <3>3. IsGraph(graph)
      BY <1>2, GraphAssumption DEF BuildInv, Kinds
    <3>4. /\ IsTheGraph(graph, Lowered(graph)) /\ Topological(graph, Schedule(graph))
          /\ ToSet(Schedule(graph)) = Sides(graph) /\ Once(Schedule(graph))
      BY <3>2, <3>3, LoweredWired, ScheduleSorted
    <3> QED
      BY <3>2, <3>4 DEF CompilesTheGraph
  <2>2. CASE /\ graph' = graph /\ program' = program
             /\ phase' \notin {"lower", "refused"} => phase \notin {"lower", "refused"}
    BY <1>2, <2>2 DEF CompilesTheGraph
  <2>3. CASE CompileStore
    BY <2>2, <2>3 DEF CompileStore
  <2>4. CASE Gate
    BY <2>2, <2>4 DEF Gate
  <2>5. CASE ApplyHook
    BY <2>2, <2>5 DEF ApplyHook
  <2>6. CASE ApplyManifest
    BY <2>2, <2>6 DEF ApplyManifest
  <2>7. CASE FlashSectors
    BY <2>2, <2>7 DEF FlashSectors
  <2>8. CASE Boot
    BY <2>2, <2>8 DEF Boot
  <2>9. CASE \E h \in ToSet(order) : Enter(h)
    BY <2>2, <2>9 DEF Enter
  <2>10. CASE Execute
    <3>1. phase = "car"
      BY <2>10 DEF Execute, Compute, Store, Jump, Return, Stray, Running
    <3>2. graph' = graph /\ program' = program
      BY <2>10 DEF Execute
    <3> QED
      BY <2>2, <3>1, <3>2
  <2>11. CASE UNCHANGED vars
    BY <2>2, <2>11 DEF vars
  <2> QED
    BY <1>2, <2>1, <2>3, <2>4, <2>5, <2>6, <2>7, <2>8, <2>9, <2>10, <2>11 DEF Next
<1> QED
  BY <1>1, <1>2, AlwaysBuilt, PTL DEF Spec

(* Each halfword of the image that is not the old one is in a record or in  *)
(* the manifest, however many hooks were applied and where apply gave up,   *)
(* but for the end of a code longer than the length of a record can say.    *)
THEOREM RecordsAccountForThePatch == Spec => []PatchAccounted
<1>1. BuildInv => PatchAccounted
  BY DEF BuildInv
<1> QED
  BY <1>1, AlwaysBuilt, PTL

(* What the allocator keeps makes its claims apart, now ...                 *)
LEMMA AllocatorKeepsApart == Alloc!Inv => Rom!ClaimsApart
  BY SpaceAssumption, Alloc!PlacedApart, RomApart

(* ... and in the next state.                                               *)
LEMMA AllocatorKeepsApartNext == (Alloc!Inv => Rom!ClaimsApart)'
  BY AllocatorKeepsApart, PTL

(* No two claims of code or manifest overlap, and each lies in one code     *)
(* region of the pack: the allocator's promise, kept by the build.          *)
THEOREM BuildClaimsApart == Spec => []ClaimsApart
<1>1. ASSUME BuildInv PROVE ClaimsApart
  <2>1. CASE Alloc!Inv
    BY <2>1, AllocatorKeepsApart DEF ClaimsApart
  <2>2. CASE claims = <<>>
    <3>1. DOMAIN claims = {}
      BY <2>2
    <3> QED
      BY <3>1 DEF ClaimsApart, Rom!ClaimsApart, Rom!Disjoint
  <2> QED
    BY <1>1, <2>1, <2>2 DEF BuildInv, Given
<1> QED
  BY <1>1, AlwaysBuilt, PTL

(* The ECU that was flashed with the sectors build_flash_plan found holds   *)
(* the patched image in every halfword, those it did not flash included.    *)
CarIsTheImage == phase \in InTheEcu => car = image

THEOREM PlanIsEnough == Spec => []CarIsTheImage
<1>1. BuildInv => CarIsTheImage
  BY DEF BuildInv, Kept, CarIsTheImage
<1> QED
  BY <1>1, AlwaysBuilt, PTL

-----------------------------------------------------------------------------
(* What apply wrote stands.                                                 *)

(* What a pack promises of its sites and nothing checks; PackApart says it  *)
(* of the free RAM as well.                                                 *)
SitesApart ==
    /\ Rom!RegionsApart
    /\ Disjoint([h \in DOMAIN works |-> Site(h)])
    /\ \A h \in DOMAIN works : \A i \in DOMAIN CodeRegions : Site(h) \cap Rom!Region(i) = {}

HookStands(rom, n) ==
    LET h == order[n]
        a == claims[n].address
    IN  /\ Stands(rom, a, works[h].code)
        /\ Stands(rom, pack.hooks[h].splice, Splice(pack.hooks[h].splice, a))

ManifestStands(rom) == Stands(rom, manifestAt, Encoded)

Finished == IF phase = "apply" THEN next - 1 ELSE Len(order)

(* The code of each hook applied is whole where it was put, its jump at its *)
(* site leads there, and so is the manifest.                                *)
Standing ==
    phase \in Patching /\ SitesApart =>
        /\ \A n \in 1 .. Finished : HookStands(image, n)
        /\ phase # "apply" => ManifestStands(image)

(* The code of a hook has its claim to itself, on a longword, and the site  *)
(* takes a jump to it.                                                      *)
Fitted(n) ==
    /\ claims[n].length = Len(works[order[n]].code)
    /\ claims[n].address \in Nat /\ claims[n].address % 2 = 0
    /\ Spliceable(pack.hooks[order[n]].splice, claims[n].address)

Sized == phase \in Patching => \A n \in 1 .. Finished : Fitted(n)

(* After a claim the places given away are apart, each in a code region.    *)
LEMMA GivenApart ==
  ASSUME Alloc!Inv', UNCHANGED pack, Rom!RegionsApart
  PROVE  /\ \A k, l \in DOMAIN claims' : k # l =>
              Extent(claims'[k].address, claims'[k].length)
                \cap Extent(claims'[l].address, claims'[l].length) = {}
         /\ \A k \in DOMAIN claims' : \E i \in DOMAIN CodeRegions :
              Extent(claims'[k].address, claims'[k].length) \subseteq Rom!Region(i)
<1>1. (Alloc!Inv => Rom!ClaimsApart)'
  BY AllocatorKeepsApartNext
<1>2. CodeRegions' = CodeRegions
  BY DEF CodeRegions
<1>3. Rom!RegionsApart' /\ \A i \in DOMAIN CodeRegions : Rom!Region(i)' = Rom!Region(i)
  BY <1>2 DEF Rom!RegionsApart, Rom!Disjoint, Rom!Region, Rom!Extent
<1> QED
  BY <1>1, <1>2, <1>3 DEF Rom!ClaimsApart, Rom!Disjoint, Rom!Taken, Rom!Extent, Extent

(* A splice lies in its site. *)
LEMMA SpliceInSite ==
  ASSUME NEW h, pack.hooks[h].splice \in Nat, NEW target
  PROVE  Extent(pack.hooks[h].splice, Len(Splice(pack.hooks[h].splice, target))) \subseteq Site(h)
<1> DEFINE site == pack.hooks[h].splice
           m == Len(Splice(site, target))
           n == Len(IF IsSh2a THEN Sh!LongSplice(0) ELSE Rh!LongSplice(0))
<1>1. m \in Nat /\ n \in Nat /\ m <= n
  BY SpliceCells DEF Sh!LongSplice, Rh!LongSplice
<1> QED
  BY <1>1 DEF Site, Extent

(* The promise on the sites is about the pack and the hooks with work.      *)
LEMMA SitesStay ==
  ASSUME UNCHANGED <<pack, works>>
  PROVE  SitesApart' <=> SitesApart
<1>1. CodeRegions' = CodeRegions
  BY DEF CodeRegions
<1>2. /\ \A i \in DOMAIN CodeRegions : Rom!Region(i)' = Rom!Region(i)
      /\ \A h \in DOMAIN works : Site(h)' = Site(h)
  BY <1>1 DEF Rom!Region, Site, IsSh2a
<1>3. Rom!RegionsApart' <=> Rom!RegionsApart
  BY <1>1, <1>2 DEF Rom!RegionsApart, Rom!Disjoint
<1> QED
  BY <1>1, <1>2, <1>3 DEF SitesApart, Disjoint

(* What stands still stands when the image does. *)
LEMMA StandingStays ==
  ASSUME Sized, Standing, phase \in Patching, phase = "apply" <=> phase' = "apply",
         UNCHANGED <<pack, order, works, next, patchVars>>
  PROVE  Sized' /\ Standing'
<1>1. Finished' = Finished /\ Encoded' = Encoded
  BY DEF Finished, patchVars, Encoded
<1>2. \A n : HookStands(image, n)' <=> HookStands(image, n)
  BY DEF HookStands, patchVars, Splice, IsSh2a
<1>3. ManifestStands(image)' <=> ManifestStands(image)
  BY <1>1 DEF ManifestStands, patchVars
<1>4. SitesApart' <=> SitesApart
  BY SitesStay
<1>5. Sized'
  <2>1. \A n : Fitted(n)' <=> Fitted(n)
    BY DEF Fitted, patchVars, Spliceable, IsSh2a
  <2> QED
    BY <1>1, <2>1 DEF Sized
<1>6. Standing'
  BY <1>1, <1>2, <1>3, <1>4 DEF Standing
<1> QED
  BY <1>5, <1>6

(* The next hook is written where nothing stands yet.                       *)
LEMMA ApplyHookStands ==
  ASSUME BuildInv, CompilesToCode, Sized, Standing, ApplyHook
  PROVE  Sized' /\ Standing'
<1>0. phase = "apply" /\ phase' \in {"apply", "refused"}
  BY DEF ApplyHook, BuildInv, Kinds
<1>1. CASE phase' = "refused"
  BY <1>1 DEF Sized, Standing, Patching
<1>2. CASE phase' = "apply"
  <2>1. /\ next \in DOMAIN order /\ HookHere \in DOMAIN works
        /\ Len(CodeHere) \in Nat \ {0} /\ SiteHere \in Nat /\ ClaimHere \in Nat
        /\ ClaimHere % 2 = 0 /\ Spliceable(SiteHere, ClaimHere)
        /\ InImage(ClaimHere, CodeHere) /\ InImage(SiteHere, SpliceHere)
        /\ image' = Written(Written(image, ClaimHere, CodeHere), SiteHere, SpliceHere)
        /\ claims' = Append(claims, Place(ClaimHere, CodeHere))
        /\ Alloc!Inv' /\ next' = next + 1
        /\ UNCHANGED <<pack, order, works>>
    BY <1>2, HookApplied
  <2>2. PICK c \in Nat : c = Len(claims) /\ DOMAIN claims = 1 .. c
    BY <1>0 DEF BuildInv, Given, Patching, Alloc!Inv, Alloc!TypeOK
  <2>3. c = next - 1 /\ next \in Nat /\ next = c + 1
    BY <1>0, <2>1, <2>2 DEF BuildInv, Counted, Steps
  <2>4. /\ DOMAIN claims' = 1 .. next /\ claims'[next] = Place(ClaimHere, CodeHere)
        /\ \A n \in 1 .. c : claims'[n] = claims[n]
    <3>1. claims \in Seq(Alloc!ClaimType) /\ claims' \in Seq(Alloc!ClaimType)
      BY <1>0, <2>1 DEF BuildInv, Given, Patching, Alloc!Inv, Alloc!TypeOK
    <3> QED
      BY <2>1, <2>2, <2>3, <3>1
  <2>5. Finished = c /\ Finished' = next /\ 1 .. next = (1 .. c) \cup {next}
        /\ \A n \in 1 .. c : n # next
    BY <1>0, <1>2, <2>1, <2>3 DEF Finished
  <2>6. \A n \in 1 .. c : n \in DOMAIN order
    <3>1. PICK m \in Nat : DOMAIN order = 1 .. m
      BY DEF BuildInv, Hooks
    <3> QED
      BY <2>1, <2>3, <3>1
  <2>7. Sized'
    <3>1. \A n \in 1 .. c : Fitted(n)'
      <4>1. \A n \in 1 .. c : Fitted(n)
        BY <1>0, <2>5 DEF Sized, Patching
      <4> QED
        BY <2>1, <2>4, <4>1 DEF Fitted, Spliceable, IsSh2a
    <3>2. \A n : n = next => Fitted(n)'
      <4>1. claims'[next].address = ClaimHere /\ claims'[next].length = Len(CodeHere)
        BY <2>4 DEF Place
      <4>2. \A n : Fitted(n)' <=>
              /\ claims'[n].length = Len(works[order[n]].code)
              /\ claims'[n].address \in Nat /\ claims'[n].address % 2 = 0
              /\ Spliceable(pack.hooks[order[n]].splice, claims'[n].address)
        BY <2>1 DEF Fitted, Spliceable, IsSh2a
      <4> QED
        BY <2>1, <4>1, <4>2 DEF CodeHere, HookHere, SiteHere
    <3>3. \A n \in 1 .. next : Fitted(n)'
      BY <2>5, <3>1, <3>2
    <3> QED
      BY <2>5, <3>3 DEF Sized
  <2>8. ASSUME SitesApart PROVE \A n \in 1 .. next : HookStands(image, n)'
    <3>1. /\ \A k, l \in DOMAIN claims' : k # l =>
              Extent(claims'[k].address, claims'[k].length)
                \cap Extent(claims'[l].address, claims'[l].length) = {}
          /\ \A k \in DOMAIN claims' : \E i \in DOMAIN CodeRegions :
              Extent(claims'[k].address, claims'[k].length) \subseteq Rom!Region(i)
      BY <2>1, <2>8, GivenApart DEF SitesApart
    <3> DEFINE Splices(n) == Splice(pack.hooks[order[n]].splice, claims'[n].address)
               SiteOf(n)  == pack.hooks[order[n]].splice
               CodeOf(n)  == works[order[n]].code
               At(n)      == claims'[n].address
    <3>2. \A n \in 1 .. next : claims'[n].length = Len(CodeOf(n)) /\ n \in DOMAIN claims'
      BY <1>2, <2>1, <2>4, <2>5, <2>7 DEF Sized, Fitted, Patching
    <3>3. \A n \in 1 .. next : order[n] \in DOMAIN works /\ n \in DOMAIN order
      BY <2>1, <2>5, <2>6 DEF BuildInv, Hooks, ToSet
    <3>4. \A n \in 1 .. next : SiteOf(n) \in Nat /\ Len(CodeOf(n)) \in Nat /\ At(n) \in Nat
      <4>1. \A h \in DOMAIN works : Declared(h) /\ pack \in Packs
        BY DEF BuildInv, Hooks, Kinds
      <4>2. claims' \in Seq(Alloc!ClaimType)
        BY <2>1 DEF Alloc!Inv, Alloc!TypeOK
      <4>3. \A n \in 1 .. next : claims'[n] \in Alloc!ClaimType
        <5>1. ASSUME NEW T, NEW t \in Seq(T) PROVE \A k \in DOMAIN t : t[k] \in T
          OBVIOUS
        <5> QED
          BY <2>4, <4>2, <5>1
      <4> QED
        BY <3>3, <4>1, <4>3, PackAssumption DEF Declared, CompilesToCode, Alloc!ClaimType
    <3>5. \A n \in 1 .. next : Extent(SiteOf(n), Len(Splices(n))) \subseteq Site(order[n])
      BY <3>4, SpliceInSite
    <3>6. \A m, n \in 1 .. next :
            Extent(SiteOf(m), Len(Splices(m))) \cap Extent(At(n), Len(CodeOf(n))) = {}
      BY <2>8, <3>1, <3>2, <3>3, <3>5 DEF SitesApart
    <3>7. \A m, n \in 1 .. next : m # n =>
            /\ Extent(SiteOf(m), Len(Splices(m))) \cap Extent(SiteOf(n), Len(Splices(n))) = {}
            /\ Extent(At(m), Len(CodeOf(m))) \cap Extent(At(n), Len(CodeOf(n))) = {}
      <4>1. \A m, n \in 1 .. next : m # n => order[m] # order[n]
        BY <3>3 DEF BuildInv, Hooks, Once
      <4>2. \A m, n \in 1 .. next : m # n => Site(order[m]) \cap Site(order[n]) = {}
        BY <2>8, <3>3, <4>1 DEF SitesApart, Disjoint
      <4>3. \A m, n \in 1 .. next : m # n =>
              Extent(SiteOf(m), Len(Splices(m))) \cap Extent(SiteOf(n), Len(Splices(n))) = {}
        BY <3>5, <4>2
      <4>4. \A m, n \in 1 .. next : m # n =>
              Extent(At(m), Len(CodeOf(m))) \cap Extent(At(n), Len(CodeOf(n))) = {}
        BY <3>1, <3>2
      <4> QED
        BY <4>3, <4>4
    <3>8. /\ CodeOf(next) = CodeHere /\ SiteOf(next) = SiteHere /\ At(next) = ClaimHere
          /\ Splices(next) = SpliceHere
      BY <2>4 DEF CodeHere, HookHere, SiteHere, SpliceHere, Place
    <3>9. \A n \in 1 .. next : Len(Splices(n)) \in Nat
      BY SpliceCells
    <3>10. \A n \in 1 .. next : HookStands(image, n)'
             <=> Stands(image', At(n), CodeOf(n)) /\ Stands(image', SiteOf(n), Splices(n))
      BY <2>1 DEF HookStands, Splice, IsSh2a
    <3>11. \A n \in 1 .. c :
             Stands(image, At(n), CodeOf(n)) /\ Stands(image, SiteOf(n), Splices(n))
      BY <1>0, <2>4, <2>5, <2>8 DEF Standing, Patching, HookStands
    <3> DEFINE middle == Written(image, ClaimHere, CodeHere)
    <3>12. next \in 1 .. next
      BY <2>3
    <3> HIDE DEF Splices, SiteOf, CodeOf, At
    <3>13. Stands(image', ClaimHere, CodeHere) /\ Stands(image', SiteHere, SpliceHere)
      <4>1. Stands(middle, ClaimHere, CodeHere)
        BY <2>1, WrittenThere
      <4>2. Extent(ClaimHere, Len(CodeHere)) \cap Extent(SiteHere, Len(SpliceHere)) = {}
        BY <3>6, <3>8, <3>12
      <4>3. Stands(image', ClaimHere, CodeHere)
        BY <2>1, <4>1, <4>2, WrittenElsewhere
      <4>4. Len(SpliceHere) \in Nat
        BY <3>8, <3>9, <3>12
      <4>5. Stands(image', SiteHere, SpliceHere)
        BY <2>1, <4>4, WrittenThere
      <4> QED
        BY <4>3, <4>5
    <3>14. ASSUME NEW n \in 1 .. c
           PROVE  Stands(image', At(n), CodeOf(n)) /\ Stands(image', SiteOf(n), Splices(n))
      <4>1. n \in 1 .. next /\ n # next
        BY <2>5
      <4>2. /\ Extent(At(n), Len(CodeOf(n))) \cap Extent(ClaimHere, Len(CodeHere)) = {}
            /\ Extent(At(n), Len(CodeOf(n))) \cap Extent(SiteHere, Len(SpliceHere)) = {}
            /\ Extent(SiteOf(n), Len(Splices(n))) \cap Extent(ClaimHere, Len(CodeHere)) = {}
            /\ Extent(SiteOf(n), Len(Splices(n))) \cap Extent(SiteHere, Len(SpliceHere)) = {}
        BY <3>6, <3>7, <3>8, <3>12, <4>1
      <4>3. /\ Stands(middle, At(n), CodeOf(n))
            /\ Stands(middle, SiteOf(n), Splices(n))
        BY <3>4, <3>9, <3>11, <4>1, <4>2, WrittenElsewhere
      <4> QED
        BY <2>1, <3>4, <3>9, <4>1, <4>2, <4>3, WrittenElsewhere
    <3> QED
      BY <2>5, <3>8, <3>10, <3>13, <3>14
  <2>9. Standing'
    BY <1>2, <2>1, <2>5, <2>8, SitesStay DEF Standing
  <2> QED
    BY <2>7, <2>9
<1> QED
  BY <1>0, <1>1, <1>2

(* So is the manifest.                                                      *)
LEMMA ManifestIsWritten ==
  ASSUME BuildInv, CompilesToCode, Sized, Standing, ApplyManifest
  PROVE  Sized' /\ Standing'
<1>0. phase = "apply" /\ phase' \in {"patched", "refused"}
  BY DEF ApplyManifest
<1>1. CASE phase' = "refused"
  BY <1>1 DEF Sized, Standing, Patching
<1>2. CASE phase' = "patched"
  <2>1. /\ next = Len(order) + 1
        /\ Len(Encoded) \in Nat \ {0} /\ ManifestHere \in Nat
        /\ InImage(ManifestHere, Encoded)
        /\ image' = Written(image, ManifestHere, Encoded)
        /\ claims' = Append(claims, Place(ManifestHere, Encoded))
        /\ Alloc!Inv' /\ manifestAt' = ManifestHere
        /\ UNCHANGED <<pack, order, works, records>>
    BY <1>2, ManifestApplied
  <2>2. PICK c \in Nat : c = Len(order) /\ DOMAIN order = 1 .. c
    BY DEF BuildInv, Hooks
  <2>3. claims \in Seq(Alloc!ClaimType) /\ claims' \in Seq(Alloc!ClaimType)
    BY <1>0, <2>1 DEF BuildInv, Given, Patching, Alloc!Inv, Alloc!TypeOK
  <2>4. Len(claims) = c
    BY <1>0, <2>1, <2>2 DEF BuildInv, Counted
  <2>5. /\ DOMAIN claims' = 1 .. c + 1 /\ claims'[c + 1] = Place(ManifestHere, Encoded)
        /\ \A n \in 1 .. c : claims'[n] = claims[n]
    BY <2>1, <2>2, <2>3, <2>4
  <2>6. Finished = c /\ Finished' = c
        /\ \A n \in 1 .. c : n \in DOMAIN claims' /\ c + 1 \in DOMAIN claims' /\ n # c + 1
    BY <1>0, <1>2, <2>1, <2>2, <2>5 DEF Finished
  <2>7. \A n \in 1 .. c : Fitted(n) /\ claims[n].length = Len(works[order[n]].code)
    BY <1>0, <2>6 DEF Sized, Fitted, Patching
  <2>8. Sized'
    <3>1. \A n \in 1 .. c : Fitted(n)'
      BY <2>1, <2>5, <2>7 DEF Fitted, Spliceable, IsSh2a
    <3> QED
      BY <2>6, <3>1 DEF Sized
  <2>9. ManifestStands(image)'
    <3>1. Encoded' = Encoded
      BY <2>1 DEF Encoded
    <3> QED
      BY <2>1, <3>1, WrittenThere DEF ManifestStands
  <2>10. ASSUME SitesApart, NEW n \in 1 .. c
         PROVE  HookStands(image, n)'
    <3>1. /\ \A k, l \in DOMAIN claims' : k # l =>
              Extent(claims'[k].address, claims'[k].length)
                \cap Extent(claims'[l].address, claims'[l].length) = {}
          /\ \A k \in DOMAIN claims' : \E i \in DOMAIN CodeRegions :
              Extent(claims'[k].address, claims'[k].length) \subseteq Rom!Region(i)
      BY <2>1, <2>10, GivenApart DEF SitesApart
    <3> DEFINE h == order[n]
               a == claims[n].address
               site == pack.hooks[h].splice
               splice == Splice(site, a)
               code == works[h].code
    <3>2. h \in DOMAIN works
      BY <2>2 DEF BuildInv, Hooks, ToSet
    <3>3. site \in Nat /\ Len(code) \in Nat /\ a \in Nat /\ Len(splice) \in Nat
      <4>1. Declared(h) /\ pack \in Packs
        BY <3>2 DEF BuildInv, Hooks, Kinds
      <4>2. claims[n] \in Alloc!ClaimType
        <5>1. n \in DOMAIN claims
          BY <2>3, <2>4
        <5> QED
          BY <2>3, <5>1
      <4>3. site \in Nat
        BY <4>1, PackAssumption DEF Declared
      <4>4. Len(code) \in Nat
        BY <3>2 DEF CompilesToCode
      <4> QED
        BY <4>2, <4>3, <4>4, SpliceCells DEF Alloc!ClaimType
    <3>4. Extent(a, Len(code)) \cap Extent(ManifestHere, Len(Encoded)) = {}
      <4>1. claims'[n].address = a /\ claims'[n].length = Len(code)
        BY <2>5, <2>7
      <4>2. claims'[c + 1].address = ManifestHere /\ claims'[c + 1].length = Len(Encoded)
        BY <2>5 DEF Place
      <4> HIDE DEF a, code
      <4> QED
        BY <2>6, <3>1, <4>1, <4>2
    <3>5. Extent(site, Len(splice)) \cap Extent(ManifestHere, Len(Encoded)) = {}
      <4>1. claims'[c + 1].address = ManifestHere /\ claims'[c + 1].length = Len(Encoded)
        BY <2>5 DEF Place
      <4>2. PICK i \in DOMAIN CodeRegions :
              Extent(ManifestHere, Len(Encoded)) \subseteq Rom!Region(i)
        BY <2>6, <3>1, <4>1
      <4>3. Extent(site, Len(splice)) \subseteq Site(h)
        BY <3>3, SpliceInSite
      <4>4. Site(h) \cap Rom!Region(i) = {}
        BY <2>10, <3>2 DEF SitesApart
      <4> HIDE DEF site, splice, h
      <4> QED
        BY <4>2, <4>3, <4>4
    <3>6. Stands(image, a, code) /\ Stands(image, site, splice)
      BY <1>0, <2>6, <2>10 DEF Standing, Patching, HookStands
    <3>7. HookStands(image, n)' <=> Stands(image', a, code) /\ Stands(image', site, splice)
      BY <2>1, <2>5 DEF HookStands, Splice, IsSh2a
    <3> HIDE DEF a, code, site, splice, h
    <3>8. Stands(image', a, code)
      BY <2>1, <3>3, <3>4, <3>6, WrittenElsewhere
    <3>9. Stands(image', site, splice)
      BY <2>1, <3>3, <3>5, <3>6, WrittenElsewhere
    <3> QED
      BY <3>7, <3>8, <3>9
  <2>11. Standing'
    BY <2>1, <2>6, <2>9, <2>10, SitesStay DEF Standing
  <2> QED
    BY <2>8, <2>11
<1> QED
  BY <1>0, <1>1, <1>2

(* No step disturbs what stands.                                            *)
LEMMA PatchKeepsStanding ==
  ASSUME BuildInv, CompilesToCode, Sized, Standing, [Next]_vars
  PROVE  Sized' /\ Standing'
<1>1. ASSUME phase' \notin Patching PROVE Sized' /\ Standing'
  BY <1>1 DEF Sized, Standing
<1>2. CASE Lower \/ CompileStore
  <2>1. phase' \notin Patching
    BY <1>2 DEF Lower, CompileStore, Patching
  <2> QED
    BY <1>1, <2>1
<1>3. CASE Gate
  <2>1. CASE phase' = "apply"
    <3>1. next' = 1
      BY <1>3, <2>1 DEF Gate
    <3>2. Finished' = 0
      BY <2>1, <3>1 DEF Finished
    <3> QED
      BY <2>1, <3>2 DEF Sized, Standing
  <2>2. CASE phase' # "apply"
    BY <1>1, <1>3, <2>2 DEF Gate, Patching
  <2> QED
    BY <2>1, <2>2
<1>4. CASE ApplyHook \/ ApplyManifest
  BY <1>4, ApplyHookStands, ManifestIsWritten
<1>5. CASE FlashSectors
  <2>1. phase = "patched" /\ phase' = "flashed" /\ UNCHANGED <<pack, order, works, next, patchVars>>
    BY <1>5 DEF FlashSectors, compileVars
  <2> QED
    BY <2>1, StandingStays DEF Patching
<1>6. CASE Boot \/ (\E h \in ToSet(order) : Enter(h)) \/ Execute
  <2>1. InEcu
    BY <1>6, BootIsInEcu, EnterIsInEcu, ExecuteIsInEcu
  <2> QED
    BY <2>1, StandingStays DEF InEcu, InTheEcu, Patching
<1>7. CASE UNCHANGED vars
  <2>1. UNCHANGED <<phase, pack, order, works, next, patchVars>>
    BY <1>7 DEF vars, compileVars
  <2>2. phase \in Patching \/ phase' \notin Patching
    BY <2>1
  <2> QED
    BY <1>1, <2>1, <2>2, StandingStays
<1> QED
  BY <1>2, <1>3, <1>4, <1>5, <1>6, <1>7 DEF Next

(* The hooks applied stand, and have fitting places, always.                *)
LEMMA AlwaysStands == Spec => [](Sized /\ Standing)
<1>1. Init => Sized /\ Standing
  BY DEF Init, Sized, Standing, Patching
<1>2. BuildInv /\ CompilesToCode /\ Sized /\ Standing /\ [Next]_vars => (Sized /\ Standing)'
  BY PatchKeepsStanding
<1> QED
  BY <1>1, <1>2, AlwaysBuilt, CodeIsMade, PTL DEF Spec

(* In the ECU that was flashed, when the sites of the pack are apart from   *)
(* one another and from its code regions: the code of each hook is whole in *)
(* its claim, the jump at its site is whole and made for that claim, and    *)
(* the manifest is whole where the tools look for it.  No hook, and not the *)
(* manifest, was written over what was written before.                      *)
PatchIsInTheCar ==
    phase \in InTheEcu /\ SitesApart =>
        (\A n \in DOMAIN order : HookStands(car, n)) /\ ManifestStands(car)

THEOREM PatchReachesTheCar == Spec => []PatchIsInTheCar
<1>1. ASSUME BuildInv, Standing PROVE PatchIsInTheCar
  <2> SUFFICES ASSUME phase \in InTheEcu, SitesApart
               PROVE  (\A n \in DOMAIN order : HookStands(car, n)) /\ ManifestStands(car)
    BY DEF PatchIsInTheCar
  <2>1. car = image
    BY <1>1 DEF BuildInv, Kept
  <2>2. DOMAIN order = 1 .. Finished
    BY <1>1 DEF BuildInv, Hooks, Finished, InTheEcu
  <2> QED
    BY <1>1, <2>1, <2>2 DEF Standing, Patching, InTheEcu
<1> QED
  BY <1>1, AlwaysBuilt, AlwaysStands, PTL

-----------------------------------------------------------------------------
(* How the code of a store is laid out on an SH-2A: its literals, counted,  *)
(* and their places in the pool.                                            *)

(* The literals of a piece of code up to a place: one place further there   *)
(* is one more or there is not.                                             *)
LEMMA LiteralsNext ==
  ASSUME NEW b, NEW i \in Nat
  PROVE  /\ Sh!LiteralsTo(b, i) \in Nat
         /\ Sh!LiteralsTo(b, i + 1) =
              Sh!LiteralsTo(b, i) + (IF Sh!IsLiteral(b[i + 1]) THEN 1 ELSE 0)
<1> DEFINE S == Sh!LiteralsUpTo(b, i)
           T == Sh!LiteralsUpTo(b, i + 1)
<1>1. \A k \in 1 .. i + 1 : k \in 1 .. i \/ k = i + 1
  OBVIOUS
<1>2. \A k \in 1 .. i : k \in 1 .. i + 1 /\ k # i + 1
  OBVIOUS
<1>3. T = IF Sh!IsLiteral(b[i + 1]) THEN S \cup {i + 1} ELSE S
  BY <1>1, <1>2 DEF Sh!LiteralsUpTo
<1>4. IsFiniteSet(1 .. i)
  BY FS_Interval
<1>5. IsFiniteSet(S)
  <2>1. S \subseteq 1 .. i
    BY DEF Sh!LiteralsUpTo
  <2> QED
    BY <1>4, <2>1, FS_Subset
<1>6. Cardinality(S) \in Nat
  BY <1>5, FS_CardinalityType
<1>7. i + 1 \notin S
  BY <1>2 DEF Sh!LiteralsUpTo
<1>8. Cardinality(S \cup {i + 1}) = Cardinality(S) + 1
  BY <1>5, <1>7, FS_AddElement
<1>9. Sh!LiteralsTo(b, i) = Cardinality(S) /\ Sh!LiteralsTo(b, i + 1) = Cardinality(T)
  BY DEF Sh!LiteralsTo, Sh!Cardinality, Cardinality, Sh!IsFiniteSet, IsFiniteSet
<1> HIDE DEF S, T
<1> QED
  BY <1>3, <1>6, <1>8, <1>9

(* None up to nothing.                                                      *)
LEMMA LiteralsNone == \A b : Sh!LiteralsTo(b, 0) = 0
<1> TAKE b
<1>1. Sh!LiteralsUpTo(b, 0) = {}
  BY DEF Sh!LiteralsUpTo
<1>2. Sh!LiteralsTo(b, 0) = Cardinality({})
  BY <1>1 DEF Sh!LiteralsTo, Sh!Cardinality, Cardinality, Sh!IsFiniteSet, IsFiniteSet
<1> QED
  BY <1>2, FS_EmptySet

(* From one place to a later one there are as many more as lie between.     *)
LEMMA LiteralsBetween ==
  ASSUME NEW b, NEW i \in Nat, NEW d \in Nat
  PROVE  /\ Sh!LiteralsTo(b, i) <= Sh!LiteralsTo(b, i + d)
         /\ Sh!LiteralsTo(b, i + d) <= Sh!LiteralsTo(b, i) + d
<1> DEFINE f(k) == Sh!LiteralsTo(b, k)
           P == {e \in 0 .. d : f(i) <= f(i + e) /\ f(i + e) <= f(i) + e}
<1>1. \A k \in Nat : f(k) \in Nat /\ (f(k + 1) = f(k) \/ f(k + 1) = f(k) + 1)
  BY LiteralsNext
<1> HIDE DEF f
<1>2. 0 \in P
  BY <1>1
<1>3. ASSUME NEW e \in 1 .. d, e - 1 \in P PROVE e \in P
  <2>1. i + (e - 1) \in Nat /\ (i + (e - 1)) + 1 = i + e /\ i + e \in Nat
    OBVIOUS
  <2>2. /\ f(i) \in Nat /\ f(i + (e - 1)) \in Nat /\ f(i + e) \in Nat
        /\ f(i + e) = f(i + (e - 1)) \/ f(i + e) = f(i + (e - 1)) + 1
    <3>1. f((i + (e - 1)) + 1) = f(i + (e - 1)) \/ f((i + (e - 1)) + 1) = f(i + (e - 1)) + 1
      BY <1>1, <2>1
    <3> QED
      BY <1>1, <2>1, <3>1
  <2>3. f(i) <= f(i + (e - 1)) /\ f(i + (e - 1)) <= f(i) + (e - 1)
    BY <1>3
  <2> QED
    BY <2>2, <2>3
<1> HIDE DEF P
<1>4. d \in P
  BY <1>2, <1>3, Upwards
<1> QED
  BY <1>4 DEF P, f

(* When no two lie between, there is one more at most.                      *)
LEMMA LiteralsPassed ==
  ASSUME NEW b, NEW i \in Nat, NEW d \in Nat,
         \A q, r \in i + 1 .. i + d : Sh!IsLiteral(b[q]) /\ Sh!IsLiteral(b[r]) => q = r
  PROVE  Sh!LiteralsTo(b, i + d) <= Sh!LiteralsTo(b, i) + 1
<1> DEFINE f(k) == Sh!LiteralsTo(b, k)
           L(k) == Sh!IsLiteral(b[k])
           P == {e \in 0 .. d : \/ f(i + e) = f(i)
                                \/ f(i + e) = f(i) + 1 /\ \E q \in i + 1 .. i + e : L(q)}
<1>1. \A k \in Nat : f(k) \in Nat /\ f(k + 1) = f(k) + (IF L(k + 1) THEN 1 ELSE 0)
  BY LiteralsNext
<1>0. \A q, r \in i + 1 .. i + d : L(q) /\ L(r) => q = r
  OBVIOUS
<1> HIDE DEF f, L
<1>2. 0 \in P
  BY <1>1
<1>3. ASSUME NEW e \in 1 .. d, e - 1 \in P PROVE e \in P
  <2>1. i + (e - 1) \in Nat /\ (i + (e - 1)) + 1 = i + e /\ i + e \in i + 1 .. i + d
        /\ i + e \in i + 1 .. i + e
    OBVIOUS
  <2>2. /\ f(i) \in Nat /\ f(i + (e - 1)) \in Nat
        /\ f(i + e) = f(i + (e - 1)) + (IF L(i + e) THEN 1 ELSE 0)
    BY <1>1, <2>1
  <2>3. CASE f(i + (e - 1)) = f(i)
    <3>1. CASE L(i + e)
      <4>1. f(i + e) = f(i) + 1 /\ \E q \in i + 1 .. i + e : L(q)
        BY <2>1, <2>2, <2>3, <3>1
      <4> QED
        BY <4>1
    <3>2. CASE ~L(i + e)
      BY <2>2, <2>3, <3>2
    <3> QED
      BY <3>1, <3>2
  <2>4. CASE f(i + (e - 1)) = f(i) + 1 /\ \E q \in i + 1 .. i + (e - 1) : L(q)
    <3>1. PICK q \in i + 1 .. i + (e - 1) : L(q)
      BY <2>4
    <3>2. q \in i + 1 .. i + d /\ q # i + e /\ q \in i + 1 .. i + e
      OBVIOUS
    <3>3. ~L(i + e)
      BY <1>0, <2>1, <3>1, <3>2
    <3>4. f(i + e) = f(i) + 1
      BY <2>2, <2>4, <3>3
    <3> QED
      BY <3>1, <3>2, <3>4
  <2> QED
    BY <1>3, <2>3, <2>4
<1> HIDE DEF P
<1>4. d \in P
  BY <1>2, <1>3, Upwards
<1>5. f(i) \in Nat
  BY <1>1
<1>6. f(i + d) <= f(i) + 1
  BY <1>4, <1>5 DEF P
<1> QED
  BY <1>6 DEF f

(* How many of some places there are up to one of them.                     *)
RankOf(p, P) == Cardinality({j \in P : j <= p})

(* The element at a place, among those at some places.                      *)
LEMMA AtPlacesRank ==
  ASSUME NEW s, NEW N \in Nat, NEW P \in SUBSET (1 .. N), NEW p \in P
  PROVE  RankOf(p, P) \in 1 .. Cardinality(P) /\ AtPlaces(s, P)[RankOf(p, P)] = s[p]
<1> DEFINE r == RankOf(p, P)
<1>r. r = Cardinality({j \in P : j <= p})
  BY DEF RankOf
<1> HIDE DEF r
<1> SUFFICES r \in 1 .. Cardinality(P) /\ AtPlaces(s, P)[r] = s[p]
  BY DEF r
<1> DEFINE Upto(m) == {j \in P : j <= m}
           k == CHOOSE k \in P : Cardinality({j \in P : j <= k}) = r
<1>1. \A j \in P : j \in Nat /\ 1 <= j /\ j <= N
  OBVIOUS
<1>2. IsFiniteSet(1 .. N)
  BY FS_Interval
<1>3. IsFiniteSet(P) /\ Cardinality(P) \in Nat
  BY <1>2, FS_Subset, FS_CardinalityType
<1>4. \A m : IsFiniteSet(Upto(m)) /\ Cardinality(Upto(m)) \in Nat
             /\ Cardinality(Upto(m)) <= Cardinality(P)
  <2> TAKE m
  <2>1. Upto(m) \in SUBSET P
    OBVIOUS
  <2> HIDE DEF Upto
  <2> QED
    BY <1>3, <2>1, FS_Subset, FS_CardinalityType
<1>5. r \in 1 .. Cardinality(P)
  <2>1. Upto(p) # {}
    BY <1>1
  <2>2. r = Cardinality(Upto(p)) /\ IsFiniteSet(Upto(p))
    BY <1>4, <1>r
  <2> HIDE DEF Upto
  <2>3. Cardinality(Upto(p)) # 0
    BY <2>1, <2>2, FS_EmptySet
  <2> QED
    BY <1>3, <1>4, <2>2, <2>3
<1>6. k \in P /\ Cardinality({j \in P : j <= k}) = r
  <2>1. \E q \in P : Cardinality({j \in P : j <= q}) = r
    BY <1>r
  <2> QED
    BY <2>1, Zenon
<1>7. AtPlaces(s, P)[r] = s[k]
  BY <1>5 DEF AtPlaces
<1> HIDE DEF k
<1>8. ASSUME NEW q \in P, NEW t \in P, q <= t, Cardinality(Upto(q)) = Cardinality(Upto(t))
      PROVE  q = t
  <2>1. Upto(q) \in SUBSET Upto(t)
    <3>1. \A j \in P : j <= q => j <= t
      BY <1>1, <1>8
    <3> QED
      BY <3>1
  <2>2. t \in Upto(t)
    BY <1>1
  <2>3. Upto(t) = Upto(q)
    <3> HIDE DEF Upto
    <3> QED
      BY <1>4, <1>8, <2>1, FS_Subset
  <2>4. t <= q
    BY <2>2, <2>3
  <2> QED
    BY <1>1, <1>8, <2>4
<1>9. k = p
  <2>1. Cardinality(Upto(k)) = Cardinality(Upto(p))
    BY <1>6, <1>r
  <2>2. k <= p \/ p <= k
    BY <1>1, <1>6
  <2> HIDE DEF Upto
  <2> QED
    BY <1>6, <1>8, <2>1, <2>2
<1> QED
  BY <1>5, <1>7, <1>9

(* A literal that gets another number.                                      *)
LEMMA LiteralSet ==
  ASSUME NEW r, NEW v, NEW w
  PROVE  /\ [Sh!Literal(r, v) EXCEPT !.x = w].op = "movl_pc"
         /\ [Sh!Literal(r, v) EXCEPT !.x = w].n = r
         /\ [Sh!Literal(r, v) EXCEPT !.x = w].x = w
<1> DEFINE c == Sh!Do("movl_pc", "none", r)
           l == [c EXCEPT !.x = v]
<1>1. c = [op |-> "movl_pc", m |-> "none", n |-> r, x |-> 0]
  BY DEF Sh!Do
<1>2. l = [op |-> "movl_pc", m |-> "none", n |-> r, x |-> v]
  BY <1>1
<1>3. Sh!Literal(r, v) = l
  BY DEF Sh!Literal
<1> HIDE DEF c, l
<1> QED
  BY <1>2, <1>3

(* A function on the first numbers is a list.                               *)
LEMMA FunctionList ==
  ASSUME NEW m \in Nat, NEW f, f = [i \in 1 .. m |-> f[i]]
  PROVE  IsList(f) /\ Len(f) = m
<1>1. f \in Seq({f[i] : i \in DOMAIN f}) /\ Len(f) = m
  OBVIOUS
<1> QED
  BY <1>1 DEF IsList

(* Where the pool of a piece of code begins: on a longword.                 *)
LEMMA PoolIsAt ==
  ASSUME NEW b, NEW n \in Nat, n = Len(b)
  PROVE  /\ Sh!PoolStart(b) = n + 2 + (n % 2)
         /\ Sh!PoolStart(b) \in Nat /\ Sh!PoolStart(b) % 2 = 0
         /\ IsList(Sh!Pad(n)) /\ Len(Sh!Pad(n)) = n % 2
         /\ \A k \in 1 .. n % 2 : Sh!Pad(n)[k].op = "nop"
<1>1. n % 2 \in {0, 1} /\ (n + 2 + (n % 2)) % 2 = 0
  OBVIOUS
<1>2. IsList(Sh!Pad(n)) /\ Len(Sh!Pad(n)) = n % 2
  BY <1>1, Short DEF Sh!Pad
<1>3. \A k \in 1 .. n % 2 : Sh!Pad(n)[k].op = "nop"
  <2>1. ASSUME n % 2 = 1 PROVE Sh!Pad(n)[1].op = "nop"
    BY <2>1 DEF Sh!Pad, Sh!Nop, Sh!Do
  <2> QED
    BY <1>1, <2>1
<1>4. Sh!PoolStart(b) = n + 2 + (n % 2)
  BY <1>2 DEF Sh!PoolStart
<1> QED
  BY <1>1, <1>2, <1>3, <1>4

(* How finalize lays the code of a store out: each literal's place in the   *)
(* pool has its value.                                                      *)
LaidOut(b, n, code) ==
    /\ Len(code) \in Nat /\ Sh!PoolStart(b) + 2 * Sh!LiteralsTo(b, n) <= Len(code)
    /\ \A p \in 1 .. n :
         /\ code[p].op = b[p].op /\ code[p].n = b[p].n
         /\ ~Sh!IsLiteral(b[p]) => code[p] = b[p]
         /\ Sh!IsLiteral(b[p]) => code[p].x = Sh!Disp(b, p) % DispLimit
    /\ code[n + 1].op = "return"
    /\ \A k \in n + 2 .. Sh!PoolStart(b) : code[k].op = "nop"
    /\ \A p \in 1 .. n : Sh!IsLiteral(b[p]) =>
         code[Sh!PoolStart(b) + 2 * Sh!LiteralsTo(b, p) - 1].x = b[p].x

(* The code of a store is laid out so, with more behind it.                 *)
LEMMA ShLayout ==
  ASSUME NEW b, NEW D, ShTame(b, D), NEW n \in Nat, n = Len(b), NEW rest, IsList(rest)
  PROVE  LaidOut(b, n, Sh!Finalize(b) \o rest)
<1> DEFINE code == Sh!Finalize(b) \o rest
<1> SUFFICES LaidOut(b, n, code)
  OBVIOUS
<1>0. code = Sh!Finalize(b) \o rest
  OBVIOUS
<1> HIDE DEF code
<1> DEFINE lits == Sh!LiteralsUpTo(b, n)
           placed == [i \in 1 .. n |->
                        IF Sh!IsLiteral(b[i])
                        THEN [b[i] EXCEPT !.x = Sh!Disp(b, i) % DispLimit] ELSE b[i]]
           values == AtPlaces(b, lits)
           pool == [k \in 1 .. 2 * Len(values) |->
                      IF k % 2 = 1
                      THEN [Sh!Do("long", "none", "none") EXCEPT !.x = values[(k + 1) \div 2].x]
                      ELSE Sh!Do("low", "none", "none")]
           end == <<Sh!Do("return", "none", "none"), Sh!Nop>>
           pad == Sh!Pad(n)
           K == Sh!LiteralsTo(b, n)
           e == n % 2
           f == ((placed \o end) \o pad) \o pool
<1>1. IsList(b) /\ DOMAIN b = 1 .. n
  BY ListHas DEF ShTame
<1>2. Sh!Finalize(b) = f
  <2>1. \A s, P : Sh!AtPlaces(s, P) = AtPlaces(s, P)
    BY DEF Sh!AtPlaces, AtPlaces, Sh!Cardinality, Sh!IsFiniteSet, Cardinality, IsFiniteSet
  <2> QED
    BY <2>1 DEF Sh!Finalize
<1>3. lits \in SUBSET (1 .. n)
  BY DEF Sh!LiteralsUpTo
<1>4. \A i : Sh!LiteralsTo(b, i) = Cardinality(Sh!LiteralsUpTo(b, i))
  BY DEF Sh!LiteralsTo, Sh!Cardinality, Cardinality, Sh!IsFiniteSet, IsFiniteSet
<1>5. K = Cardinality(lits) /\ K \in Nat
  BY <1>4, LiteralsNext
<1>6. IsList(values) /\ Len(values) = K
  BY <1>1, <1>3, <1>5, AtPlacesList
<1>7. IsList(end) /\ Len(end) = 2 /\ end[1].op = "return" /\ end[2].op = "nop"
  BY Short DEF Sh!Do, Sh!Nop
<1>8. /\ e \in {0, 1} /\ Sh!PoolStart(b) = n + 2 + e
      /\ IsList(pad) /\ Len(pad) = e /\ \A k \in 1 .. e : pad[k].op = "nop"
  <2>1. e \in {0, 1}
    OBVIOUS
  <2> QED
    BY <2>1, PoolIsAt
<1>9. IsList(placed) /\ Len(placed) = n
  <2>1. placed = [i \in 1 .. n |-> placed[i]]
    OBVIOUS
  <2> HIDE DEF placed
  <2> QED
    BY <2>1, FunctionList
<1>10. /\ IsList(pool) /\ Len(pool) = 2 * K
       /\ \A L \in 1 .. K : pool[2 * L - 1].x = values[L].x
  <2> HIDE DEF values
  <2>1. pool = [k \in 1 .. 2 * K |-> pool[k]] /\ 2 * K \in Nat
    BY <1>5, <1>6
  <2>2. ASSUME NEW L \in 1 .. K PROVE pool[2 * L - 1].x = values[L].x
    <3>0. L \in Nat /\ 1 <= L /\ L <= K /\ K \in Nat
      BY <1>5
    <3> DEFINE j == 2 * L - 1
    <3>1. j \in 1 .. 2 * K /\ j % 2 = 1 /\ (j + 1) \div 2 = L
      BY <3>0
    <3> HIDE DEF j
    <3>2. \A v : [Sh!Do("long", "none", "none") EXCEPT !.x = v].x = v
      BY DEF Sh!Do
    <3>3. pool[j] = [Sh!Do("long", "none", "none") EXCEPT !.x = values[(j + 1) \div 2].x]
      BY <1>6, <3>1
    <3>4. pool[j].x = values[L].x
      BY <3>1, <3>2, <3>3
    <3> QED
      BY <3>4 DEF j
  <2> HIDE DEF pool
  <2> QED
    BY <2>1, <2>2, FunctionList
<1>11. \A p \in 1 .. n :
         /\ placed[p].op = b[p].op /\ placed[p].n = b[p].n
         /\ ~Sh!IsLiteral(b[p]) => placed[p] = b[p]
         /\ Sh!IsLiteral(b[p]) => placed[p].x = Sh!Disp(b, p) % DispLimit
  <2> TAKE p \in 1 .. n
  <2>1. CASE Sh!IsLiteral(b[p])
    <3> DEFINE r == b[p].n
               v == b[p].x
               w == Sh!Disp(b, p) % DispLimit
    <3>1. b[p] = Sh!Literal(r, v) /\ b[p].op = "movl_pc"
      BY <2>1 DEF ShTame, ShAt, Whole, Sh!IsLiteral
    <3>2. placed[p] = [b[p] EXCEPT !.x = w]
      BY <2>1
    <3> HIDE DEF r, v, w, placed
    <3>3. placed[p].op = "movl_pc" /\ placed[p].n = r /\ placed[p].x = w
      BY <3>1, <3>2, LiteralSet
    <3> QED
      BY <2>1, <3>1, <3>3 DEF r, w
  <2>2. CASE ~Sh!IsLiteral(b[p])
    <3>1. placed[p] = b[p]
      BY <2>2
    <3> QED
      BY <2>2, <3>1
  <2> QED
    BY <2>1, <2>2
<1>12. ASSUME NEW p \in 1 .. n, Sh!IsLiteral(b[p])
       PROVE  Sh!LiteralsTo(b, p) \in 1 .. K /\ values[Sh!LiteralsTo(b, p)] = b[p]
  <2>1. p \in lits
    BY <1>12 DEF Sh!LiteralsUpTo
  <2>2. Sh!LiteralsUpTo(b, p) = {j \in lits : j <= p}
    BY DEF Sh!LiteralsUpTo
  <2>3. Sh!LiteralsTo(b, p) = RankOf(p, lits)
    BY <1>4, <2>2 DEF RankOf
  <2> HIDE DEF lits
  <2>4. RankOf(p, lits) \in 1 .. Cardinality(lits) /\ AtPlaces(b, lits)[RankOf(p, lits)] = b[p]
    BY <1>3, <2>1, AtPlacesRank
  <2> QED
    BY <1>5, <2>3, <2>4
<1> HIDE DEF lits, values, placed, pool, end, pad, K, e
<1>13. /\ IsList(f) /\ Len(f) = n + 2 + e + 2 * K
       /\ \A i \in 1 .. n : f[i] = placed[i]
       /\ \A i \in 1 .. 2 : f[n + i] = end[i]
       /\ \A i \in 1 .. e : f[n + 2 + i] = pad[i]
       /\ \A i \in 1 .. 2 * K : f[n + 2 + e + i] = pool[i]
  <2>1. 2 \in Nat /\ e \in Nat /\ 2 * K \in Nat
    BY <1>5, <1>8
  <2> DEFINE pe == placed \o end
             pp == pe \o pad
  <2>2. f = pp \o pool
    OBVIOUS
  <2>3. IsList(placed) /\ IsList(end) /\ IsList(pad) /\ IsList(pool)
    BY <1>7, <1>8, <1>9, <1>10
  <2>4. /\ IsList(placed \o end) /\ Len(placed \o end) = Len(placed) + Len(end)
        /\ \A i \in 1 .. Len(placed) : (placed \o end)[i] = placed[i]
        /\ \A i \in 1 .. Len(end) : (placed \o end)[Len(placed) + i] = end[i]
    BY ONLY <2>3, Lists
  <2> HIDE DEF pe, pp, f
  <2>5. IsList(pe)
    BY <2>4 DEF pe
  <2>6. /\ IsList(pe \o pad) /\ Len(pe \o pad) = Len(pe) + Len(pad)
        /\ \A i \in 1 .. Len(pe) : (pe \o pad)[i] = pe[i]
        /\ \A i \in 1 .. Len(pad) : (pe \o pad)[Len(pe) + i] = pad[i]
    BY ONLY <2>3, <2>5, Lists
  <2>7. IsList(pp)
    BY <2>6 DEF pp
  <2>8. /\ IsList(pp \o pool) /\ Len(pp \o pool) = Len(pp) + Len(pool)
        /\ \A i \in 1 .. Len(pp) : (pp \o pool)[i] = pp[i]
        /\ \A i \in 1 .. Len(pool) : (pp \o pool)[Len(pp) + i] = pool[i]
    BY ONLY <2>3, <2>7, Lists
  <2>9. /\ Len(pe) = n + 2
        /\ \A i \in 1 .. n : pe[i] = placed[i]
        /\ \A i \in 1 .. 2 : pe[n + i] = end[i]
    BY <1>7, <1>9, <2>4 DEF pe
  <2>10. /\ Len(pp) = n + 2 + e
         /\ \A i \in 1 .. n + 2 : pp[i] = pe[i]
         /\ \A i \in 1 .. e : pp[n + 2 + i] = pad[i]
    BY <1>8, <2>6, <2>9 DEF pp
  <2>11. /\ IsList(f) /\ Len(f) = n + 2 + e + 2 * K
         /\ \A i \in 1 .. n + 2 + e : f[i] = pp[i]
         /\ \A i \in 1 .. 2 * K : f[n + 2 + e + i] = pool[i]
    BY <1>10, <2>2, <2>8, <2>10
  <2>12. \A i \in 1 .. n : i \in 1 .. n + 2 /\ i \in 1 .. n + 2 + e
    BY <2>1
  <2>13. \A i \in 1 .. 2 : n + i \in 1 .. n + 2 /\ n + i \in 1 .. n + 2 + e
    BY <2>1
  <2>14. \A i \in 1 .. e : n + 2 + i \in 1 .. n + 2 + e
    BY <2>1
  <2> QED
    BY <2>9, <2>10, <2>11, <2>12, <2>13, <2>14
<1> HIDE DEF f
<1>14. PICK z \in Nat : z = Len(f) /\ z = n + 2 + e + 2 * K
  BY <1>5, <1>8, <1>13
<1>15. PICK y \in Nat : y = Len(rest)
  BY ListHas
<1>16. Len(code) = z + y /\ \A i \in 1 .. z : code[i] = f[i]
  <2>1. IsList(f) /\ IsList(rest)
    BY <1>13
  <2>2. /\ Len(f \o rest) = Len(f) + Len(rest)
        /\ \A i \in 1 .. Len(f) : (f \o rest)[i] = f[i]
    BY ONLY <2>1, Lists
  <2>3. code = f \o rest
    BY <1>0, <1>2
  <2> QED
    BY <1>14, <1>15, <2>2, <2>3
<1>17. PICK P \in Nat : P = Sh!PoolStart(b) /\ P = n + 2 + e
  BY <1>8
<1>18. Len(code) \in Nat /\ P + 2 * K <= Len(code)
  <2>1. z + y \in Nat /\ P + 2 * K <= z + y
    BY <1>5, <1>14, <1>17
  <2>2. Len(code) = z + y
    BY <1>16
  <2> HIDE DEF K
  <2> QED
    BY <2>1, <2>2
<1>19. \A p \in 1 .. n : code[p] = placed[p]
  <2>1. \A p \in 1 .. n : p \in 1 .. z
    BY <1>5, <1>8, <1>14
  <2> QED
    BY <1>13, <1>16, <2>1
<1>20. code[n + 1].op = "return"
  <2>1. n + 1 \in 1 .. z /\ 1 \in 1 .. 2
    BY <1>5, <1>8, <1>14
  <2> QED
    BY <1>7, <1>13, <1>16, <2>1
<1>21. \A k \in n + 2 .. P : code[k].op = "nop"
  <2> TAKE k \in n + 2 .. P
  <2>1. k \in 1 .. z
    BY <1>5, <1>8, <1>14, <1>17
  <2>2. CASE k = n + 2
    BY <1>7, <1>13, <1>16, <2>1, <2>2
  <2>3. CASE k # n + 2
    <3>1. k = n + 2 + 1 /\ 1 \in 1 .. e
      BY <1>8, <1>17, <2>3
    <3> QED
      BY <1>8, <1>13, <1>16, <2>1, <3>1
  <2> QED
    BY <2>2, <2>3
<1>22. ASSUME NEW p \in 1 .. n, Sh!IsLiteral(b[p])
       PROVE  code[P + 2 * Sh!LiteralsTo(b, p) - 1].x = b[p].x
  <2>1. PICK L \in 1 .. K : L = Sh!LiteralsTo(b, p) /\ values[L] = b[p]
    BY <1>12, <1>22
  <2>2. /\ 2 * L - 1 \in 1 .. 2 * K /\ P + 2 * L - 1 = n + 2 + e + (2 * L - 1)
        /\ P + 2 * L - 1 \in 1 .. z
    BY <1>5, <1>8, <1>14, <1>17
  <2>3. code[P + 2 * L - 1] = pool[2 * L - 1]
    BY <1>13, <1>16, <2>2
  <2> QED
    BY <1>10, <2>1, <2>3
<1>23. \A p \in 1 .. n :
         /\ code[p].op = b[p].op /\ code[p].n = b[p].n
         /\ ~Sh!IsLiteral(b[p]) => code[p] = b[p]
         /\ Sh!IsLiteral(b[p]) => code[p].x = Sh!Disp(b, p) % DispLimit
  BY <1>11, <1>19
<1>24. Len(code) \in Nat /\ Sh!PoolStart(b) + 2 * Sh!LiteralsTo(b, n) <= Len(code)
  BY <1>17, <1>18 DEF K
<1>25. \A k \in n + 2 .. Sh!PoolStart(b) : code[k].op = "nop"
  BY <1>17, <1>21
<1>26. \A p \in 1 .. n : Sh!IsLiteral(b[p]) =>
         code[Sh!PoolStart(b) + 2 * Sh!LiteralsTo(b, p) - 1].x = b[p].x
  BY <1>17, <1>22
<1> QED
  BY <1>20, <1>23, <1>24, <1>25, <1>26 DEF LaidOut

(* What is cut off a displacement is the limit, or more.                    *)
LEMMA CutOff ==
  ASSUME NEW d \in Nat
  PROVE  /\ d % DispLimit \in Nat
         /\ d < DispLimit => d % DispLimit = d
         /\ d >= DispLimit => d % DispLimit <= d - DispLimit
<1>0. DispLimit \in Nat \ {0, 1}
  BY CodeAssumption
<1> DEFINE q == d \div DispLimit
           x == d % DispLimit
<1>1. q \in Nat /\ x \in 0 .. DispLimit - 1 /\ d = DispLimit * q + x
  BY <1>0
<1>2. d < DispLimit => x = d
  BY <1>0
<1> HIDE DEF q, x
<1>3. ASSUME d >= DispLimit PROVE x <= d - DispLimit
  <2>1. q # 0
    BY <1>0, <1>1, <1>3
  <2>2. q - 1 \in Nat /\ DispLimit * q = DispLimit * (q - 1) + DispLimit
    BY <1>0, <1>1, <2>1
  <2>3. DispLimit * (q - 1) \in Nat
    BY <1>0, <2>2
  <2> QED
    BY <1>0, <1>1, <2>2, <2>3
<1> QED
  BY <1>1, <1>2, <1>3 DEF x

(* The displacement of a literal leads from its longword to its place in    *)
(* the pool.                                                                *)
LEMMA DispLeads ==
  ASSUME NEW b, NEW n \in Nat, n = Len(b), NEW p \in 1 .. n, Sh!IsLiteral(b[p])
  PROVE  /\ Sh!LiteralsTo(b, p) \in 1 .. Sh!LiteralsTo(b, n) /\ Sh!LiteralsTo(b, n) \in Nat
         /\ Sh!Longword(p + 1) \in {p, p + 1} /\ Sh!Disp(b, p) \in Nat
         /\ Sh!Longword(p + 1) + 2 * Sh!Disp(b, p)
              = Sh!PoolStart(b) + 2 * (Sh!LiteralsTo(b, p) - 1)
         /\ \A a \in Nat : a % 2 = 0 => Sh!Longword(a + p - 1 + 2) = a + Sh!Longword(p + 1)
<1> DEFINE L == Sh!LiteralsTo(b, p)
           K == Sh!LiteralsTo(b, n)
           g == Sh!Longword(p + 1)
           P == Sh!PoolStart(b)
           d == Sh!Disp(b, p)
<1>1. L \in Nat /\ K \in Nat /\ L >= 1
  <2>1. p - 1 \in Nat /\ (p - 1) + 1 = p
    OBVIOUS
  <2>2. Sh!LiteralsTo(b, p - 1) \in Nat /\ Sh!LiteralsTo(b, (p - 1) + 1) = Sh!LiteralsTo(b, p - 1) + 1
    BY <2>1, LiteralsNext
  <2>3. L = Sh!LiteralsTo(b, p - 1) + 1
    BY <2>1, <2>2
  <2>4. K \in Nat
    BY LiteralsNext
  <2> HIDE DEF L, K
  <2> QED
    BY <2>2, <2>3, <2>4
<1>2. L <= K
  <2>1. n - p \in Nat /\ p + (n - p) = n /\ p \in Nat
    OBVIOUS
  <2> QED
    BY <2>1, LiteralsBetween
<1>3. P \in Nat /\ P >= n + 2 /\ P % 2 = 0
  BY PoolIsAt
<1>4. g \in {p, p + 1} /\ g % 2 = 0
  BY DEF Sh!Longword
<1>5. \A a \in Nat : a % 2 = 0 => Sh!Longword(a + p - 1 + 2) = a + g
  BY DEF Sh!Longword
<1>6. d = (P + 2 * (L - 1) - g) \div 2
  BY DEF Sh!Disp
<1> HIDE DEF L, K, g, P, d
<1>7. d \in Nat /\ g + 2 * d = P + 2 * (L - 1)
  <2> DEFINE y == P + 2 * (L - 1) - g
  <2>1. y \in Nat /\ y % 2 = 0
    BY <1>1, <1>3, <1>4
  <2>2. y \div 2 \in Nat /\ 2 * (y \div 2) = y
    <3> HIDE DEF y
    <3> QED
      BY <2>1
  <2> QED
    BY <1>1, <1>3, <1>4, <1>6, <2>2
<1>8. L \in 1 .. K
  BY <1>1, <1>2
<1> QED
  BY <1>1, <1>4, <1>5, <1>7, <1>8 DEF L, K, g, P, d

(* The code of a store, laid out at an address of an image.                 *)
ShIn(rom, a, b, n, D, code) ==
    /\ n = Len(b) /\ ShTame(b, D) /\ LaidOut(b, n, code)
    /\ a \in Nat /\ a % 2 = 0 /\ \A k \in 1 .. Len(code) : rom[a + k - 1] = code[k]

(* Where its instruction at a place finds its literal.                      *)
LiteralOf(a, p, code) == Sh!Longword(a + p - 1 + 2) + 2 * code[p].x

(* A literal of the code that is read as one is its own; a displacement     *)
(* that was cut off leads to no literal.                                    *)
LEMMA ShRead ==
  ASSUME NEW b, NEW n \in Nat, NEW D, NEW code, NEW a, NEW rom, ShIn(rom, a, b, n, D, code),
         NEW p \in 1 .. n, Sh!IsLiteral(b[p]), Sh!LiteralsTo(b, p) <= DispLimit,
         rom[LiteralOf(a, p, code)].op = "long"
  PROVE  Sh!Disp(b, p) < DispLimit /\ rom[LiteralOf(a, p, code)].x = b[p].x
<1> DEFINE t == LiteralOf(a, p, code)
<1>a. /\ n = Len(b) /\ ShTame(b, D) /\ LaidOut(b, n, code)
      /\ a \in Nat /\ a % 2 = 0 /\ \A k \in 1 .. Len(code) : rom[a + k - 1] = code[k]
      /\ t = Sh!Longword(a + p - 1 + 2) + 2 * code[p].x /\ rom[t].op = "long"
  BY DEF ShIn, LiteralOf
<1> HIDE DEF t
<1> USE <1>a
<1>0. DispLimit \in Nat \ {0, 1}
  BY CodeAssumption
<1>1. PICK P \in Nat : P = Sh!PoolStart(b) /\ P >= n + 2
  <2>1. n % 2 \in {0, 1}
    OBVIOUS
  <2> QED
    BY <2>1, PoolIsAt
<1>2. PICK K \in Nat : K = Sh!LiteralsTo(b, n)
  BY DispLeads
<1>3. PICK L \in 1 .. K : L = Sh!LiteralsTo(b, p)
  BY <1>2, DispLeads
<1>4. PICK g \in {p, p + 1} : g = Sh!Longword(p + 1)
  BY DispLeads
<1>5. PICK d \in Nat : d = Sh!Disp(b, p)
  BY DispLeads
<1>6. g + 2 * d = P + 2 * (L - 1) /\ Sh!Longword(a + p - 1 + 2) = a + g
  BY <1>1, <1>3, <1>4, <1>5, DispLeads
<1>7. PICK m \in Nat : m = Len(code) /\ P + 2 * K <= m
  BY <1>1, <1>2 DEF LaidOut
<1>8. code[p].x = d % DispLimit
  BY <1>5 DEF LaidOut
<1>9. code[n + 1].op = "return"
  BY DEF LaidOut
<1>10. \A k \in n + 2 .. P : code[k].op = "nop"
  BY <1>1 DEF LaidOut
<1>11. \A k \in 1 .. n : code[k].op # "long"
  <2>1. \A k \in 1 .. n : b[k].op # "long"
    BY DEF ShTame, ShAt
  <2>2. \A k \in 1 .. n : code[k].op = b[k].op
    BY DEF LaidOut
  <2> QED
    BY <2>1, <2>2
<1>12. code[P + 2 * L - 1].x = b[p].x
  BY <1>1, <1>3 DEF LaidOut
<1>13. PICK x \in Nat : /\ x = d % DispLimit
                        /\ d < DispLimit => x = d
                        /\ d >= DispLimit => x <= d - DispLimit
  BY CutOff
<1>14. t = a + (g + 2 * x + 1) - 1
  <2>1. t = (a + g) + 2 * x
    BY <1>6, <1>8, <1>13
  <2> QED
    BY <1>4, <2>1
<1>n. /\ L \in Nat /\ 1 <= L /\ L <= K /\ g \in Nat /\ p <= g /\ g <= p + 1 /\ 1 <= p /\ p <= n
      /\ g + 2 * d = P + 2 * (L - 1) /\ P >= n + 2 /\ P + 2 * K <= m /\ L <= DispLimit
  <2>1. L \in Nat /\ 1 <= L /\ L <= K
    BY K \in Nat
  <2>2. g \in Nat /\ p <= g /\ g <= p + 1 /\ 1 <= p /\ p <= n
    OBVIOUS
  <2>3. L <= DispLimit
    BY <1>3
  <2>4. g + 2 * d = P + 2 * (L - 1) /\ P >= n + 2 /\ P + 2 * K <= m
    BY <1>1, <1>6, <1>7
  <2> QED
    BY <2>1, <2>2, <2>3, <2>4
<1>15. CASE d < DispLimit
  <2>1. g + 2 * x + 1 = P + 2 * L - 1 /\ P + 2 * L - 1 \in 1 .. m
    <3>1. x = d
      BY <1>13, <1>15
    <3> QED
      BY <1>n, <3>1
  <2>2. rom[t] = code[P + 2 * L - 1]
    BY <1>7, <1>14, <2>1
  <2> QED
    BY <1>5, <1>12, <1>15, <2>2 DEF t
<1>16. CASE d >= DispLimit
  <2> DEFINE i == g + 2 * x + 1
  <2>1. i \in 1 .. P /\ i \in 1 .. m
    <3>1. x <= d - DispLimit
      BY <1>13, <1>16
    <3>2. i \in Nat /\ 1 <= i /\ i <= P /\ i <= m
      BY <1>0, <1>n, <3>1
    <3> HIDE DEF i
    <3> QED
      BY <3>2
  <2>2. rom[t] = code[i]
    BY <1>7, <1>14, <2>1
  <2> HIDE DEF i
  <2>3. i \in 1 .. n \/ i = n + 1 \/ i \in n + 2 .. P
    BY ONLY n \in Nat, P \in Nat, <2>1
  <2>4. code[i].op # "long"
    BY <1>9, <1>10, <1>11, <2>3
  <2> QED
    BY <2>2, <2>4
<1> QED
  BY <1>0, <1>5, <1>15, <1>16 DEF t

(* With more literals than the limit, the last two within it are cut off.   *)
LEMMA TooFar ==
  ASSUME NEW b, NEW n \in Nat, n = Len(b), NEW p \in 1 .. n, Sh!IsLiteral(b[p]),
         Sh!LiteralsTo(b, n) > DispLimit, Sh!LiteralsTo(b, p) \in {DispLimit - 1, DispLimit}
  PROVE  Sh!Disp(b, p) >= DispLimit
<1>0. DispLimit \in Nat \ {0, 1}
  BY CodeAssumption
<1>1. PICK P \in Nat : P = Sh!PoolStart(b) /\ P >= n + 2 /\ P % 2 = 0
  BY PoolIsAt
<1>2. PICK K \in Nat : K = Sh!LiteralsTo(b, n)
  BY DispLeads
<1>3. PICK L \in 1 .. K : L = Sh!LiteralsTo(b, p)
  BY <1>2, DispLeads
<1>4. PICK g \in {p, p + 1} : g = Sh!Longword(p + 1)
  BY DispLeads
<1>5. PICK d \in Nat : d = Sh!Disp(b, p)
  BY DispLeads
<1>6. g + 2 * d = P + 2 * (L - 1)
  BY <1>1, <1>3, <1>4, <1>5, DispLeads
<1>7. K <= L + (n - p)
  <2>1. n - p \in Nat /\ p + (n - p) = n /\ p \in Nat
    OBVIOUS
  <2> QED
    BY <1>2, <1>3, <2>1, LiteralsBetween
<1>8. /\ K > DispLimit /\ DispLimit - 1 <= L /\ L <= DispLimit
      /\ g \in Nat /\ p <= g /\ g <= p + 1 /\ L \in Nat
      /\ g + 2 * d = P + 2 * (L - 1) /\ P >= n + 2 /\ P % 2 = 0
  <2>1. L \in Nat /\ K > DispLimit
    BY K \in Nat, <1>2
  <2>2. L \in {DispLimit - 1, DispLimit}
    BY <1>3
  <2>3. DispLimit - 1 <= L /\ L <= DispLimit
    BY <1>0, <2>2
  <2>4. g \in Nat /\ p <= g /\ g <= p + 1
    OBVIOUS
  <2>5. g + 2 * d = P + 2 * (L - 1) /\ P >= n + 2 /\ P % 2 = 0
    BY <1>1, <1>6
  <2> QED
    BY <2>1, <2>3, <2>4, <2>5
<1>9. d >= DispLimit
  BY <1>0, <1>7, <1>8
<1> QED
  BY <1>5, <1>9

-----------------------------------------------------------------------------
(* The way of an SH-2A through a hook.                                      *)

(* The ECU may go on at a place in the code of a store: the register of a   *)
(* store points at one of D; and when not all literals are in reach, the    *)
(* last two within the limit have not been passed.                          *)
ShReady(r, b, n, p, D) ==
    /\ p <= n /\ b[p].op = "store" => r[b[p].n] \in D
    /\ Sh!LiteralsTo(b, n) > DispLimit =>
          \/ Sh!LiteralsTo(b, p - 1) <= DispLimit - 2
          \/ /\ Sh!LiteralsTo(b, p - 1) = DispLimit - 1
             /\ p <= n /\ Sh!IsLiteral(b[p])

(* It may begin at the first instruction, ...                               *)
LEMMA ShStarts ==
  ASSUME NEW b, NEW D, ShTame(b, D), NEW n \in Nat, n = Len(b), NEW r
  PROVE  ShReady(r, b, n, 1, D)
<1>0. DispLimit \in Nat \ {0, 1}
  BY CodeAssumption
<1>1. Sh!LiteralsTo(b, 1 - 1) <= DispLimit - 2
  <2>1. Sh!LiteralsTo(b, 0) = 0 /\ 1 - 1 = 0
    BY LiteralsNone
  <2> QED
    BY <1>0, <2>1
<1>2. ASSUME 1 <= n, b[1].op = "store" PROVE FALSE
  <2>1. 1 \in 1 .. n
    BY <1>2
  <2>2. StoreAt(b, n, 1, D)
    BY <1>2, <2>1 DEF ShTame, ShAt
  <2>3. 1 - 1 \in 1 .. n
    BY <2>2 DEF StoreAt
  <2> QED
    BY <2>3
<1> QED
  BY <1>1, <1>2 DEF ShReady

(* ... and go on behind an instruction that is no literal.                  *)
LEMMA ShGoesOn ==
  ASSUME NEW b, NEW D, ShTame(b, D), NEW n \in Nat, n = Len(b), NEW p \in 1 .. n,
         ~Sh!IsLiteral(b[p]), NEW r, ShReady(r, b, n, p, D), NEW s
  PROVE  ShReady(s, b, n, p + 1, D)
<1>1. ASSUME p + 1 <= n, b[p + 1].op = "store" PROVE FALSE
  <2>1. p + 1 \in 1 .. n
    BY <1>1
  <2>2. StoreAt(b, n, p + 1, D)
    BY <1>1, <2>1 DEF ShTame, ShAt
  <2>3. Sh!IsLiteral(b[(p + 1) - 1]) /\ (p + 1) - 1 = p
    BY <2>2 DEF StoreAt
  <2> QED
    BY <2>3
<1>2. Sh!LiteralsTo(b, (p + 1) - 1) = Sh!LiteralsTo(b, p - 1)
  <2>1. p - 1 \in Nat /\ (p - 1) + 1 = p /\ (p + 1) - 1 = p
    OBVIOUS
  <2>2. /\ Sh!LiteralsTo(b, p - 1) \in Nat
        /\ Sh!LiteralsTo(b, (p - 1) + 1) = Sh!LiteralsTo(b, p - 1) + 0
    BY <2>1, LiteralsNext
  <2> QED
    BY <2>1, <2>2
<1>3. Sh!LiteralsTo(b, n) > DispLimit => Sh!LiteralsTo(b, p - 1) <= DispLimit - 2
  BY DEF ShReady
<1> QED
  BY <1>1, <1>2, <1>3 DEF ShReady

(* A branch goes where it may go on.                                        *)
LEMMA ShGoesFurther ==
  ASSUME NEW b, NEW D, NEW n \in Nat, NEW p \in 1 .. n,
         NEW x \in Nat, BranchAt(b, n, p, x), ~Sh!IsLiteral(b[p]),
         NEW r, ShReady(r, b, n, p, D), NEW s
  PROVE  p + 2 + x \in 1 .. n /\ ShReady(s, b, n, p + 2 + x, D)
<1>0. DispLimit \in Nat \ {0, 1}
  BY CodeAssumption
<1> DEFINE q == p + 2 + x
<1>1. q \in 1 .. n /\ Sh!IsLiteral(b[q])
  BY DEF BranchAt
<1>2. b[q].op # "store"
  BY <1>1 DEF Sh!IsLiteral
<1>3. /\ p - 1 \in Nat /\ x + 2 \in Nat /\ (p - 1) + (x + 2) = q - 1
      /\ (p - 1) + 1 = p /\ (p - 1) + (x + 2) = p + 1 + x
  OBVIOUS
<1>4. Sh!LiteralsTo(b, q - 1) <= Sh!LiteralsTo(b, p - 1) + 1
  <2>1. \A i, j \in (p - 1) + 1 .. (p - 1) + (x + 2) :
          Sh!IsLiteral(b[i]) /\ Sh!IsLiteral(b[j]) => i = j
    BY <1>3 DEF BranchAt
  <2> HIDE DEF q
  <2>2. Sh!LiteralsTo(b, (p - 1) + (x + 2)) <= Sh!LiteralsTo(b, p - 1) + 1
    BY <1>3, <2>1, LiteralsPassed
  <2> QED
    BY <1>3, <2>2
<1>5. Sh!LiteralsTo(b, q - 1) \in Nat /\ Sh!LiteralsTo(b, p - 1) \in Nat
  <2>1. q - 1 \in Nat
    OBVIOUS
  <2> QED
    BY <1>3, <2>1, LiteralsNext
<1>6. Sh!LiteralsTo(b, n) > DispLimit => Sh!LiteralsTo(b, p - 1) <= DispLimit - 2
  BY DEF ShReady
<1>7. q <= n
  BY <1>1
<1> HIDE DEF q
<1>8. Sh!LiteralsTo(b, n) > DispLimit =>
        \/ Sh!LiteralsTo(b, q - 1) <= DispLimit - 2
        \/ Sh!LiteralsTo(b, q - 1) = DispLimit - 1
  BY <1>0, <1>4, <1>5, <1>6
<1>9. ShReady(s, b, n, q, D)
  BY <1>1, <1>2, <1>7, <1>8 DEF ShReady
<1> QED
  BY <1>1, <1>9 DEF q

(* ... and behind a literal that was read: the register has its value.      *)
LEMMA ShGoesOnLiteral ==
  ASSUME NEW b, NEW n \in Nat, NEW D, NEW code, NEW a, NEW rom, ShIn(rom, a, b, n, D, code),
         NEW p \in 1 .. n, Sh!IsLiteral(b[p]), NEW r, ShReady(r, b, n, p, D),
         rom[LiteralOf(a, p, code)].op = "long", Sh!Registers \subseteq DOMAIN r
  PROVE  ShReady([r EXCEPT ![b[p].n] = rom[LiteralOf(a, p, code)].x], b, n, p + 1, D)
<1> DEFINE t == LiteralOf(a, p, code)
           s == [r EXCEPT ![b[p].n] = rom[t].x]
<1>a. n = Len(b) /\ ShTame(b, D)
  BY DEF ShIn
<1> USE <1>a
<1> HIDE DEF t
<1>0. DispLimit \in Nat \ {0, 1}
  BY CodeAssumption
<1>1. PICK L \in Nat : L = Sh!LiteralsTo(b, p) /\ Sh!LiteralsTo(b, p - 1) = L - 1
  <2>1. p - 1 \in Nat /\ (p - 1) + 1 = p
    OBVIOUS
  <2>2. /\ Sh!LiteralsTo(b, p - 1) \in Nat
        /\ Sh!LiteralsTo(b, (p - 1) + 1) = Sh!LiteralsTo(b, p - 1) + 1
    BY <2>1, LiteralsNext
  <2>3. PICK J \in Nat : J = Sh!LiteralsTo(b, p - 1)
    BY <2>2
  <2>4. J + 1 \in Nat /\ J = (J + 1) - 1
    OBVIOUS
  <2> QED
    BY <2>1, <2>2, <2>3, <2>4
<1>2. PICK K \in Nat : K = Sh!LiteralsTo(b, n) /\ L <= K
  <2>1. PICK K \in Nat : K = Sh!LiteralsTo(b, n) /\ L \in 1 .. K
    BY <1>1, DispLeads
  <2> QED
    BY <2>1
<1>3. L <= DispLimit
  <2>1. CASE K <= DispLimit
    BY <1>0, <1>2, <2>1
  <2>2. CASE K > DispLimit
    <3>1. Sh!LiteralsTo(b, p - 1) <= DispLimit - 2 \/ Sh!LiteralsTo(b, p - 1) = DispLimit - 1
      BY <1>2, <2>2 DEF ShReady
    <3> QED
      BY <1>0, <1>1, <3>1
  <2> QED
    BY <1>0, <2>1, <2>2
<1>4. Sh!Disp(b, p) < DispLimit /\ rom[t].x = b[p].x
  <2>1. Sh!LiteralsTo(b, p) <= DispLimit
    BY <1>1, <1>3
  <2> QED
    BY <2>1, ShRead DEF t
<1>5. K > DispLimit => L <= DispLimit - 2
  <2>1. ASSUME K > DispLimit, L \in {DispLimit - 1, DispLimit} PROVE FALSE
    <3>1. Sh!LiteralsTo(b, n) > DispLimit /\ Sh!LiteralsTo(b, p) \in {DispLimit - 1, DispLimit}
      BY <1>1, <1>2, <2>1
    <3>2. Sh!Disp(b, p) >= DispLimit
      BY <3>1, TooFar
    <3>3. PICK d \in Nat : d = Sh!Disp(b, p)
      BY DispLeads
    <3> QED
      BY <1>0, <1>4, <3>2, <3>3
  <2> QED
    BY <1>0, <1>3, <2>1
<1>6. ASSUME p + 1 <= n, b[p + 1].op = "store" PROVE s[b[p + 1].n] \in D
  <2>1. p + 1 \in 1 .. n /\ (p + 1) - 1 = p
    BY <1>6
  <2>2. StoreAt(b, n, p + 1, D)
    BY <1>6, <2>1 DEF ShTame, ShAt
  <2>3. b[p].n = b[p + 1].n /\ b[p + 1].n \in Sh!Registers /\ b[p].x \in D
    BY <2>1, <2>2 DEF StoreAt
  <2> QED
    BY <1>4, <2>3
<1>7. (p + 1) - 1 = p
  OBVIOUS
<1> QED
  BY <1>1, <1>2, <1>5, <1>6, <1>7 DEF ShReady, t

(* A step of the ECU that leaves it in a hook: neither lost nor returned.   *)
Within == Running /\ Sane /\ (Compute \/ Store \/ Jump)

LEMMA StaysWithin ==
  ASSUME Execute, phase' # "lost", hook' # NoHook
  PROVE  Within
BY DEF Execute, Compute, Store, Jump, Return, Stray, Within

(* In the code of a store the ECU goes on in it, and writes to D only.      *)
LEMMA ShBodyGoesOn ==
  ASSUME NEW b, NEW n \in Nat, NEW D, NEW code, NEW a, ShIn(car, a, b, n, D, code),
         NEW p \in 1 .. n + 1, at = a + p - 1, ShReady(regs, b, n, p, D),
         IsSh2a, Within, Sh!Registers \subseteq DOMAIN regs
  PROVE  /\ \E q \in 1 .. n + 1 : at' = a + q - 1 /\ ShReady(regs', b, n, q, D)
         /\ \A x \in DOMAIN mem : mem'[x] # mem[x] => x \in D
<1>1. /\ n = Len(b) /\ ShTame(b, D) /\ LaidOut(b, n, code) /\ a \in Nat
      /\ \A k \in 1 .. Len(code) : car[a + k - 1] = code[k]
  BY DEF ShIn
<1>2. p \in 1 .. Len(code)
  <2>1. PICK m, P, L \in Nat : m = Len(code) /\ P >= n + 2 /\ P + 2 * L <= m
    <3>1. n % 2 \in {0, 1}
      OBVIOUS
    <3>2. PICK m, P, L \in Nat : /\ m = Len(code) /\ P = Sh!PoolStart(b) /\ L = Sh!LiteralsTo(b, n)
                                 /\ P = n + 2 + (n % 2)
      BY <1>1, PoolIsAt, LiteralsNext DEF LaidOut
    <3>3. P + 2 * L <= m
      BY <1>1, <3>2 DEF LaidOut
    <3>4. P >= n + 2
      BY <3>1, <3>2
    <3> QED
      BY ONLY m \in Nat, P \in Nat, L \in Nat, <3>2, <3>3, <3>4
  <2>2. p <= m
    BY ONLY <2>1, n \in Nat, p \in 1 .. n + 1
  <2> QED
    BY <2>1, <2>2
<1>3. Here = code[p]
  BY <1>1, <1>2 DEF Here
<1>4. p \in 1 .. n
  <2>1. ASSUME p = n + 1 PROVE FALSE
    <3>1. Here.op = "return"
      BY <1>1, <1>3, <2>1 DEF LaidOut
    <3> QED
      BY <3>1 DEF Within, Compute, Store, Jump, Computes, Jumps, Sh!Computes, Sh!Jumps
  <2> QED
    BY <2>1
<1>5. /\ Here.op = b[p].op /\ Here.n = b[p].n /\ ShAt(b, n, p, D)
      /\ ~Sh!IsLiteral(b[p]) => Here = b[p]
  BY <1>1, <1>3, <1>4 DEF LaidOut, ShTame
<1>6. Behind = a + (p + 1) - 1 /\ p + 1 \in 1 .. n + 1
  BY <1>1, <1>4 DEF Behind, Sh!Size
<1>7. CASE Compute /\ Sh!IsLiteral(b[p])
  <2>1. Here.op = "movl_pc" /\ Here.x = code[p].x
    BY <1>3, <1>5, <1>7 DEF Sh!IsLiteral
  <2>2. Sh!Longword(at + 2) + 2 * Here.x = LiteralOf(a, p, code)
    BY <1>3 DEF LiteralOf
  <2>3. car[LiteralOf(a, p, code)].op = "long"
    BY <2>1, <2>2 DEF Within, Sane, Sound, Sh!Sound
  <2>4. Sh!Target(Here) = b[p].n
    BY <1>5, <2>1 DEF Sh!Target
  <2>5. Sh!Result(Here, regs, mem, car, at) = car[LiteralOf(a, p, code)].x
    BY <2>1, <2>2 DEF Sh!Result
  <2>6. regs' = [regs EXCEPT ![b[p].n] = car[LiteralOf(a, p, code)].x]
    BY <1>7, <2>4, <2>5 DEF Compute
  <2>7. ShReady(regs', b, n, p + 1, D)
    BY <1>4, <1>7, <2>3, <2>6, ShGoesOnLiteral
  <2>8. at' = a + (p + 1) - 1 /\ mem' = mem
    BY <1>6, <1>7 DEF Compute
  <2> QED
    BY <1>6, <2>7, <2>8
<1>8. CASE Compute /\ ~Sh!IsLiteral(b[p])
  <2>1. ShReady(regs', b, n, p + 1, D)
    BY <1>1, <1>4, <1>8, ShGoesOn
  <2>2. at' = a + (p + 1) - 1 /\ mem' = mem
    BY <1>6, <1>8 DEF Compute
  <2> QED
    BY <1>6, <2>1, <2>2
<1>9. CASE Store
  <2>1. b[p].op = "store" /\ Here = b[p] /\ ~Sh!IsLiteral(b[p])
    BY <1>5, <1>9 DEF Store, Sh!IsLiteral
  <2>2. regs[Here.n] \in D
    BY <1>4, <2>1 DEF ShReady
  <2>3. ShReady(regs', b, n, p + 1, D)
    BY <1>1, <1>4, <2>1, ShGoesOn
  <2>4. at' = a + (p + 1) - 1 /\ mem' = [mem EXCEPT ![regs[Here.n]] = regs[Here.m]]
    BY <1>6, <1>9 DEF Store
  <2>5. \A x \in DOMAIN mem : mem'[x] # mem[x] => x = regs[Here.n]
    BY <2>4
  <2> QED
    BY <1>6, <2>2, <2>3, <2>4, <2>5
<1>10. CASE Jump
  <2>1. Here.op \in {"bt", "bra"} /\ Here = b[p] /\ ~Sh!IsLiteral(b[p])
    BY <1>5, <1>10 DEF Jump, Jumps, Sh!Jumps, ShAt, Sh!IsLiteral
  <2>2. PICK x \in Nat : x = b[p].x /\ BranchAt(b, n, p, x)
    BY <1>5, <2>1 DEF ShAt, BranchAt
  <2>3. at' \in {at + 2 + x, at + 1} /\ mem' = mem
    BY <1>10, <2>1, <2>2 DEF Jump, Sh!Destination
  <2>4. CASE at' = at + 1
    <3>1. ShReady(regs', b, n, p + 1, D)
      BY <1>1, <1>4, <2>1, ShGoesOn
    <3>2. at' = a + (p + 1) - 1
      BY <1>1, <2>4
    <3> QED
      BY <1>6, <2>3, <3>1, <3>2
  <2>5. CASE at' = at + 2 + x
    <3>1. p + 2 + x \in 1 .. n /\ ShReady(regs', b, n, p + 2 + x, D)
      BY <1>4, <2>1, <2>2, ShGoesFurther
    <3>2. at' = a + (p + 2 + x) - 1 /\ p + 2 + x \in 1 .. n + 1
      BY <1>1, <2>5, <3>1
    <3> QED
      BY <2>3, <3>1, <3>2
  <2> QED
    BY <2>3, <2>4, <2>5
<1> QED
  BY <1>7, <1>8, <1>9, <1>10 DEF Within

(* The jump to the code of a store, and that code, in the flash of the ECU. *)
ShInCar(s, a, b, D) ==
    /\ s \in Nat /\ Sh!Spliceable(s, a)
    /\ Stands(car, s, Sh!Splice(s, a))
    /\ Len(b) \in Nat /\ \E code : ShIn(car, a, b, Len(b), D, code)

(* Where the ECU, at q with registers r, may be on its way through both.    *)
ShWhere(q, r, s, a, b, D) ==
    \/ q = s
    \/ q = s + 1 /\ r["r0"] = a /\ ~Sh!Near(s, a)
    \/ \E p \in 1 .. Len(b) + 1 : q = a + p - 1 /\ ShReady(r, b, Len(b), p, D)

(* The ECU goes on on its way, and writes to D only.                        *)
LEMMA ShGoesItsWay ==
  ASSUME NEW s, NEW a, NEW b, NEW D, ShInCar(s, a, b, D), ShWhere(at, regs, s, a, b, D),
         IsSh2a, Within, Sh!Registers \subseteq DOMAIN regs
  PROVE  /\ ShWhere(at', regs', s, a, b, D)
         /\ \A x \in DOMAIN mem : mem'[x] # mem[x] => x \in D
<1>1. PICK n \in Nat : n = Len(b)
  BY DEF ShInCar
<1>2. PICK code : ShIn(car, a, b, n, D, code)
  BY <1>1 DEF ShInCar
<1>3. a \in Nat /\ ShTame(b, D) /\ s \in Nat
  BY <1>2 DEF ShIn, ShInCar
<1>4. ASSUME at' = a, mem' = mem
      PROVE  /\ ShWhere(at', regs', s, a, b, D)
             /\ \A x \in DOMAIN mem : mem'[x] # mem[x] => x \in D
  <2>1. 1 \in 1 .. n + 1 /\ at' = a + 1 - 1
    BY <1>3, <1>4
  <2>2. ShReady(regs', b, n, 1, D)
    BY <1>1, <1>3, ShStarts
  <2> QED
    BY <1>1, <1>4, <2>1, <2>2 DEF ShWhere
<1>5. CASE at = s /\ Sh!Near(s, a)
  <2> DEFINE cells == Sh!ShortSplice(s, a)
  <2>1. Sh!Splice(s, a) = cells /\ Len(cells) = 2
    BY <1>5 DEF Sh!Splice, Sh!ShortSplice
  <2>2. Here = cells[1]
    <3>1. 1 \in 1 .. Len(cells) /\ s + 1 - 1 = s
      BY <1>3, <2>1
    <3> HIDE DEF cells
    <3> QED
      BY <1>5, <2>1, <3>1 DEF ShInCar, Stands, Here
  <2>3. Here.op = "bra" /\ Here.x = a - s - 2
    BY <2>2 DEF Sh!ShortSplice, Sh!Do, Sh!Distance
  <2>4. Jump
    BY <2>3 DEF Within, Compute, Store, Computes, Sh!Computes
  <2>5. at' = at + 2 + Here.x /\ mem' = mem
    BY <2>3, <2>4 DEF Jump, Sh!Destination
  <2>6. at' = a
    BY <1>3, <1>5, <2>3, <2>5
  <2> QED
    BY <1>4, <2>5, <2>6
<1>6. CASE ~Sh!Near(s, a) /\ (at = s \/ (at = s + 1 /\ regs["r0"] = a))
  <2> DEFINE cells == Sh!LongSplice(a)
  <2>1. Sh!Splice(s, a) = cells /\ Len(cells) = 6
    BY <1>6 DEF Sh!Splice, Sh!LongSplice
  <2>2. car[s] = cells[1] /\ car[s + 1] = cells[2] /\ car[s + 4] = cells[5]
    <3>1. /\ 1 \in 1 .. Len(cells) /\ s + 1 - 1 = s
          /\ 2 \in 1 .. Len(cells) /\ s + 2 - 1 = s + 1
          /\ 5 \in 1 .. Len(cells) /\ s + 5 - 1 = s + 4
      BY <1>3, <2>1
    <3>2. \A k \in 1 .. Len(cells) : car[s + k - 1] = cells[k]
      BY <2>1 DEF ShInCar, Stands
    <3> HIDE DEF cells
    <3> QED
      BY <3>1, <3>2
  <2>3. /\ car[s].op = "movl_pc" /\ car[s].n = "r0" /\ car[s].x = 1
        /\ car[s + 1].op = "jmp" /\ car[s + 1].n = "r0" /\ car[s + 4].x = a
    BY <2>2 DEF Sh!LongSplice, Sh!Literal, Sh!Do
  <2>4. CASE at = s
    <3>1. Here.op = "movl_pc" /\ Here.n = "r0" /\ Here.x = 1
      BY <2>3, <2>4 DEF Here
    <3>2. Compute
      BY <3>1 DEF Within, Store, Jump, Jumps, Sh!Jumps
    <3>3. Sh!Longword(at + 2) + 2 * Here.x = s + 4
      <4>1. s % 2 = 0
        BY <1>6 DEF ShInCar, Sh!Spliceable
      <4> QED
        BY <1>3, <2>4, <3>1, <4>1 DEF Sh!Longword
    <3>4. Sh!Target(Here) = "r0" /\ Sh!Result(Here, regs, mem, car, at) = a
      BY <2>3, <3>1, <3>3 DEF Sh!Target, Sh!Result
    <3>5. regs' = [regs EXCEPT !["r0"] = a] /\ at' = s + 1 /\ mem' = mem
      BY <2>4, <3>2, <3>4 DEF Compute, Behind, Sh!Size
    <3>6. regs'["r0"] = a
      BY <3>5 DEF Sh!Registers
    <3> QED
      BY <1>6, <3>5, <3>6 DEF ShWhere
  <2>5. CASE at = s + 1 /\ regs["r0"] = a
    <3>1. Here.op = "jmp" /\ Here.n = "r0"
      BY <2>3, <2>5 DEF Here
    <3>2. Jump
      BY <3>1 DEF Within, Compute, Store, Computes, Sh!Computes
    <3>3. at' = regs["r0"] /\ mem' = mem
      BY <3>1, <3>2 DEF Jump, Sh!Destination
    <3> QED
      BY <1>4, <2>5, <3>3
  <2> QED
    BY <1>6, <2>4, <2>5
<1>7. CASE \E p \in 1 .. n + 1 : at = a + p - 1 /\ ShReady(regs, b, n, p, D)
  <2>1. PICK p \in 1 .. n + 1 : at = a + p - 1 /\ ShReady(regs, b, n, p, D)
    BY <1>7
  <2>2. /\ \E q \in 1 .. n + 1 : at' = a + q - 1 /\ ShReady(regs', b, n, q, D)
        /\ \A x \in DOMAIN mem : mem'[x] # mem[x] => x \in D
    BY <1>2, <2>1, ShBodyGoesOn
  <2> QED
    BY <1>1, <2>2 DEF ShWhere
<1> QED
  BY <1>1, <1>5, <1>6, <1>7 DEF ShWhere

-----------------------------------------------------------------------------
(* The way of an RH850 through a hook.                                      *)

(* The ECU may go on at a place in the code of a store on an RH850: the     *)
(* register of a store points at one of D, that of the immediate before a   *)
(* store will.                                                              *)
RhReady(r, b, n, p, D) ==
    /\ p <= n /\ b[p].op = "store" => r[b[p].n] \in D
    /\ p + 2 <= n /\ b[p].op = "movea" /\ b[p + 2].op = "store"
         => r[b[p + 2].n] + Rh!Signed(b[p].x) \in D

(* The jump to the code of a store, and that code, in the flash of the ECU. *)
RhInCar(s, a, b, D) ==
    /\ s \in Nat /\ a \in Nat /\ Stands(car, s, Rh!Splice(s, a))
    /\ Len(b) \in Nat /\ RhTame(b, D)
    /\ \A p \in 1 .. Len(b) : car[a + p - 1] = b[p]
    /\ car[a + Len(b)].op = "return"

(* Where the ECU, at q with registers r, may be on its way through both.    *)
RhWhere(q, r, s, a, b, D) ==
    \/ q = s
    \/ q = s + 2 /\ r["r1"] = Low * Rh!HighPart(a) /\ ~Rh!Near(s, a)
    \/ q = s + 4 /\ r["r1"] = a /\ ~Rh!Near(s, a)
    \/ \E p \in 1 .. Len(b) + 1 : q = a + p - 1 /\ RhReady(r, b, Len(b), p, D)

(* It may begin at the first instruction, ...                               *)
LEMMA RhStarts ==
  ASSUME NEW b, NEW D, RhTame(b, D), NEW n \in Nat, n = Len(b), NEW r
  PROVE  RhReady(r, b, n, 1, D)
<1>1. ASSUME NEW p \in 1 .. n, p < 5, b[p].op = "store" PROVE FALSE
  <2>1. PointedAt(b, n, p, D)
    BY <1>1 DEF RhTame, RhAt
  <2>2. p - 4 \in 1 .. n
    BY <2>1 DEF PointedAt
  <2> QED
    BY ONLY n \in Nat, p \in 1 .. n, <1>1, <2>2
<1>2. ASSUME 1 <= n, b[1].op = "store" PROVE FALSE
  <2>1. 1 \in 1 .. n /\ 1 < 5
    BY <1>2
  <2> QED
    BY <1>1, <1>2, <2>1
<1>3. ASSUME 1 + 2 <= n, b[1 + 2].op = "store" PROVE FALSE
  <2>1. 1 + 2 \in 1 .. n /\ 1 + 2 < 5
    BY <1>3
  <2> QED
    BY <1>1, <1>3, <2>1
<1> QED
  BY <1>2, <1>3 DEF RhReady

(* ... go on behind an instruction of one halfword, ...                     *)
LEMMA RhGoesOn ==
  ASSUME NEW b, NEW D, RhTame(b, D), NEW n \in Nat, n = Len(b), NEW p \in 1 .. n,
         b[p].op \notin {"low", "movea"}, NEW s
  PROVE  RhReady(s, b, n, p + 1, D)
<1>1. ASSUME p + 1 <= n, b[p + 1].op = "store" PROVE FALSE
  <2>1. p + 1 \in 1 .. n /\ (p + 1) - 1 = p
    BY <1>1
  <2>2. PointedAt(b, n, p + 1, D)
    BY <1>1, <2>1 DEF RhTame, RhAt
  <2>3. b[(p + 1) - 1].op = "low"
    BY <2>2 DEF PointedAt
  <2> QED
    BY <2>1, <2>3
<1>2. ASSUME (p + 1) + 2 <= n, b[(p + 1) + 2].op = "store" PROVE FALSE
  <2>1. (p + 1) + 2 \in 1 .. n /\ ((p + 1) + 2) - 3 = p
    BY <1>2
  <2>2. PointedAt(b, n, (p + 1) + 2, D)
    BY <1>2, <2>1 DEF RhTame, RhAt
  <2>3. b[((p + 1) + 2) - 3].op = "low"
    BY <2>2 DEF PointedAt
  <2> QED
    BY <2>1, <2>3
<1> QED
  BY <1>1, <1>2 DEF RhReady

(* ... and behind one of two: an immediate has got into its register.       *)
LEMMA RhGoesOnWide ==
  ASSUME NEW b, NEW D, RhTame(b, D), NEW n \in Nat, n = Len(b), NEW p \in 1 .. n,
         NEW r, RhReady(r, b, n, p, D), r["zero"] = 0, NEW s,
         b[p].op = "movea" /\ b[p].n \in Rh!Registers => s[b[p].n] = r[b[p].m] + Rh!Signed(b[p].x),
         b[p].op = "movhi" /\ b[p].n \in Rh!Registers => s[b[p].n] = r[b[p].m] + Low * b[p].x
  PROVE  RhReady(s, b, n, p + 2, D)
<1>1. ASSUME p + 2 <= n, b[p + 2].op = "store" PROVE s[b[p + 2].n] \in D
  <2>1. p + 2 \in 1 .. n /\ (p + 2) - 2 = p
    BY <1>1
  <2>2. PointedAt(b, n, p + 2, D)
    BY <1>1, <2>1 DEF RhTame, RhAt
  <2>3. /\ b[p].op = "movea" /\ b[p].m = b[p + 2].n /\ b[p].n = b[p + 2].n
        /\ b[p].n \in Rh!Registers
    BY <2>1, <2>2 DEF PointedAt
  <2>4. r[b[p + 2].n] + Rh!Signed(b[p].x) \in D
    BY <1>1, <2>3 DEF RhReady
  <2> QED
    BY <2>3, <2>4
<1>2. ASSUME (p + 2) + 2 <= n, b[p + 2].op = "movea", b[(p + 2) + 2].op = "store"
      PROVE  s[b[(p + 2) + 2].n] + Rh!Signed(b[p + 2].x) \in D
  <2> DEFINE q == (p + 2) + 2
  <2>1. q \in 1 .. n /\ q - 4 = p /\ q - 2 = p + 2
    BY <1>2
  <2>2. PointedAt(b, n, q, D)
    BY <1>2, <2>1 DEF RhTame, RhAt
  <2>3. /\ b[p].op = "movhi" /\ b[p].m = "zero" /\ b[p].n = b[q].n /\ b[p].x \in Int
        /\ b[q].n \in Rh!Registers /\ Low * b[p].x + Rh!Signed(b[p + 2].x) \in D
    BY <2>1, <2>2 DEF PointedAt
  <2>4. s[b[q].n] = 0 + Low * b[p].x
    BY <2>3
  <2>5. 0 + Low * b[p].x = Low * b[p].x
    BY <2>3, CodeAssumption
  <2> QED
    BY <2>3, <2>4, <2>5
<1> QED
  BY <1>1, <1>2 DEF RhReady

(* In the code of a store the ECU goes on in it, and writes to D only.      *)
LEMMA RhBodyGoesOn ==
  ASSUME NEW s, NEW a, NEW b, NEW D, RhInCar(s, a, b, D), NEW n \in Nat, n = Len(b),
         NEW p \in 1 .. n + 1, at = a + p - 1, RhReady(regs, b, n, p, D),
         ~IsSh2a, Within, Rh!Registers \subseteq DOMAIN regs, regs["zero"] = 0
  PROVE  /\ regs'["zero"] = 0
         /\ \E q \in 1 .. n + 1 : at' = a + q - 1 /\ RhReady(regs', b, n, q, D)
         /\ \A x \in DOMAIN mem : mem'[x] # mem[x] => x \in D
<1>1. /\ a \in Nat /\ RhTame(b, D) /\ \A k \in 1 .. n : car[a + k - 1] = b[k]
      /\ car[a + n].op = "return"
  BY DEF RhInCar
<1>2. p \in 1 .. n
  <2>1. ASSUME p = n + 1 PROVE FALSE
    <3>1. at = a + n
      BY <1>1, <2>1
    <3>2. Here.op = "return"
      BY <1>1, <3>1 DEF Here
    <3> QED
      BY <3>2 DEF Within, Compute, Store, Jump, Computes, Jumps, Rh!Computes, Rh!Jumps
  <2> QED
    BY <2>1
<1>3. Here = b[p] /\ RhAt(b, n, p, D)
  BY <1>1, <1>2 DEF Here, RhTame
<1>4. CASE Jump
  <2>1. Here.op = "nop"
    BY <1>3, <1>4 DEF Jump, Jumps, Rh!Jumps, RhAt
  <2>2. at' = at + 1 /\ mem' = mem /\ regs' = regs
    BY <1>4, <2>1 DEF Jump, Rh!Destination
  <2>3. RhReady(regs', b, n, p + 1, D)
    BY <1>1, <1>2, <1>3, <2>1, RhGoesOn
  <2>4. p + 1 \in 1 .. n + 1 /\ at' = a + (p + 1) - 1
    BY <1>1, <1>2, <2>2
  <2> QED
    BY <2>2, <2>3, <2>4
<1>5. CASE Compute \/ Store
  <2>1. Here.op \in Rh!Computes \cup {"store"}
    BY <1>5 DEF Compute, Store, Computes
  <2>2. regs'["zero"] = 0
    <3>1. CASE Compute
      <4>1. Rh!Target(Here) # "zero"
        BY <1>3 DEF Rh!Target, RhAt
      <4>2. regs' = [regs EXCEPT ![Rh!Target(Here)] = Rh!Result(Here, regs, mem, car, at)]
        BY <3>1 DEF Compute
      <4>3. "zero" \in DOMAIN regs
        BY DEF Rh!Registers
      <4> QED
        BY <4>1, <4>2, <4>3
    <3>2. CASE Store
      BY <3>2 DEF Store
    <3> QED
      BY <1>5, <3>1, <3>2
  <2>3. \A x \in DOMAIN mem : mem'[x] # mem[x] => x \in D
    <3>1. CASE Compute
      BY <3>1 DEF Compute
    <3>2. CASE Store
      <4>1. regs[Here.n] \in D
        BY <1>2, <1>3, <3>2 DEF Store, RhReady
      <4>2. mem' = [mem EXCEPT ![regs[Here.n]] = regs[Here.m]]
        BY <3>2 DEF Store
      <4> QED
        BY <4>1, <4>2
    <3> QED
      BY <1>5, <3>1, <3>2
  <2>4. at' = at + Rh!Size(Here)
    BY <1>5 DEF Compute, Store, Behind
  <2>5. CASE Rh!Size(Here) # 2
    <3>1. Rh!Size(Here) = 1 /\ Here.op \notin {"low", "movea"}
      BY <2>5 DEF Rh!Size
    <3>2. RhReady(regs', b, n, p + 1, D)
      BY <1>1, <1>2, <1>3, <3>1, RhGoesOn
    <3>3. p + 1 \in 1 .. n + 1 /\ at' = a + (p + 1) - 1
      BY <1>1, <1>2, <2>4, <3>1
    <3> QED
      BY <2>2, <2>3, <3>2, <3>3
  <2>6. CASE Rh!Size(Here) = 2
    <3>1. car[at + 1] = Rh!LowHalf
      BY <2>1, <2>6 DEF Within, Sane, Sound, Rh!Sound
    <3>2. car[at + 1].op = "low"
      BY <3>1 DEF Rh!LowHalf, Rh!Do
    <3>3. p # n
      <4>1. ASSUME p = n PROVE FALSE
        <5>1. at + 1 = a + n
          BY <1>1, <4>1
        <5> QED
          BY <1>1, <3>2, <5>1
      <4> QED
        BY <4>1
    <3>4. p + 2 \in 1 .. n + 1 /\ at' = a + (p + 2) - 1
      BY <1>1, <1>2, <2>4, <2>6, <3>3
    <3>5. ASSUME b[p].op \in {"movea", "movhi"}, b[p].n \in Rh!Registers
          PROVE  regs'[b[p].n] = regs[b[p].m] + (IF b[p].op = "movea" THEN Rh!Signed(b[p].x)
                                                 ELSE Low * b[p].x)
      <4>1. Compute
        BY <1>3, <1>5, <3>5 DEF Store
      <4>2. Rh!Target(Here) = b[p].n
        BY <1>3, <3>5 DEF Rh!Target
      <4>3. Rh!Result(Here, regs, mem, car, at)
              = regs[b[p].m] + (IF b[p].op = "movea" THEN Rh!Signed(b[p].x) ELSE Low * b[p].x)
        BY <1>3, <3>5 DEF Rh!Result
      <4>4. regs' = [regs EXCEPT ![Rh!Target(Here)] = Rh!Result(Here, regs, mem, car, at)]
        BY <4>1 DEF Compute
      <4>5. b[p].n \in DOMAIN regs
        BY <3>5
      <4> QED
        BY <4>2, <4>3, <4>4, <4>5
    <3>6. b[p].op = "movea" /\ b[p].n \in Rh!Registers
            => regs'[b[p].n] = regs[b[p].m] + Rh!Signed(b[p].x)
      BY <3>5
    <3>7. b[p].op = "movhi" /\ b[p].n \in Rh!Registers
            => regs'[b[p].n] = regs[b[p].m] + Low * b[p].x
      BY <3>5
    <3>8. RhReady(regs', b, n, p + 2, D)
      BY <1>1, <1>2, <3>6, <3>7, RhGoesOnWide
    <3> QED
      BY <2>2, <2>3, <3>4, <3>8
  <2> QED
    BY <2>5, <2>6
<1> QED
  BY <1>4, <1>5 DEF Within

(* The cells of a jump to an address that is not near.                      *)
LEMMA RhLongSplice ==
  ASSUME NEW a
  PROVE  /\ Len(Rh!LongSplice(a)) = 5
         /\ Rh!LongSplice(a)[1] = [op |-> "movhi", m |-> "zero", n |-> "r1", x |-> Rh!HighPart(a)]
         /\ Rh!LongSplice(a)[3] = [op |-> "movea", m |-> "r1", n |-> "r1", x |-> a % Low]
         /\ Rh!LongSplice(a)[5] = [op |-> "jmp", m |-> "none", n |-> "r1", x |-> 0]
<1>1. ASSUME NEW c, NEW d, NEW e, NEW f, NEW g
      PROVE  LET s == (<<c, d>> \o <<e, f>>) \o <<g>>
             IN  Len(s) = 5 /\ s[1] = c /\ s[3] = e /\ s[5] = g
  OBVIOUS
<1>2. /\ [Rh!Do("movhi", "zero", "r1") EXCEPT !.x = Rh!HighPart(a)]
           = [op |-> "movhi", m |-> "zero", n |-> "r1", x |-> Rh!HighPart(a)]
      /\ [Rh!Do("movea", "r1", "r1") EXCEPT !.x = a % Low]
           = [op |-> "movea", m |-> "r1", n |-> "r1", x |-> a % Low]
      /\ Rh!Do("jmp", "none", "r1") = [op |-> "jmp", m |-> "none", n |-> "r1", x |-> 0]
  BY DEF Rh!Do
<1> QED
  BY <1>1, <1>2 DEF Rh!LongSplice, Rh!Immediate, Rh!Wide

(* The ECU goes on on its way, and writes to D only.                        *)
LEMMA RhGoesItsWay ==
  ASSUME NEW s, NEW a, NEW b, NEW D, RhInCar(s, a, b, D), RhWhere(at, regs, s, a, b, D),
         ~IsSh2a, Within, Rh!Registers \subseteq DOMAIN regs, regs["zero"] = 0
  PROVE  /\ regs'["zero"] = 0
         /\ RhWhere(at', regs', s, a, b, D)
         /\ \A x \in DOMAIN mem : mem'[x] # mem[x] => x \in D
<1>1. PICK n \in Nat : n = Len(b)
  BY DEF RhInCar
<1>2. a \in Nat /\ RhTame(b, D) /\ s \in Nat /\ Low \in Nat
  BY CodeAssumption DEF RhInCar
<1>3. "zero" \in DOMAIN regs /\ "r1" \in DOMAIN regs
  BY DEF Rh!Registers
<1>4. ASSUME at' = a, UNCHANGED <<mem, regs>>
      PROVE  /\ regs'["zero"] = 0
             /\ RhWhere(at', regs', s, a, b, D)
             /\ \A x \in DOMAIN mem : mem'[x] # mem[x] => x \in D
  <2>1. 1 \in 1 .. n + 1 /\ at' = a + 1 - 1
    BY <1>2, <1>4
  <2>2. RhReady(regs', b, n, 1, D)
    BY <1>1, <1>2, RhStarts
  <2> QED
    BY <1>1, <1>4, <2>1, <2>2 DEF RhWhere
<1>5. CASE at = s /\ Rh!Near(s, a)
  <2> DEFINE c == [Rh!Do("jr", "none", "none") EXCEPT !.x = Rh!Distance(s, a)]
             cells == Rh!Wide(c)
  <2>1. Rh!Splice(s, a) = cells /\ Len(cells) = 2 /\ cells[1] = c
    BY <1>5 DEF Rh!Splice, Rh!Wide
  <2>2. Here = c
    <3>1. 1 \in 1 .. Len(cells) /\ s + 1 - 1 = s
      BY <1>2, <2>1
    <3> HIDE DEF cells
    <3> QED
      BY <1>5, <2>1, <3>1 DEF RhInCar, Stands, Here
  <2>3. Here.op = "jr" /\ Here.x = a - s
    BY <2>2 DEF Rh!Do, Rh!Distance
  <2>4. Jump
    BY <2>3 DEF Within, Compute, Store, Computes, Rh!Computes
  <2>5. at' = at + Here.x /\ mem' = mem /\ regs' = regs
    BY <2>3, <2>4 DEF Jump, Rh!Destination
  <2>6. at' = a
    BY <1>2, <1>5, <2>3, <2>5
  <2> QED
    BY <1>4, <2>5, <2>6
<1>6. CASE /\ ~Rh!Near(s, a)
           /\ \/ at = s
              \/ at = s + 2 /\ regs["r1"] = Low * Rh!HighPart(a)
              \/ at = s + 4 /\ regs["r1"] = a
  <2> DEFINE cells == Rh!LongSplice(a)
  <2>1. Rh!Splice(s, a) = cells /\ Len(cells) = 5
    BY <1>6, RhLongSplice DEF Rh!Splice
  <2>2. car[s] = cells[1] /\ car[s + 2] = cells[3] /\ car[s + 4] = cells[5]
    <3>1. /\ 1 \in 1 .. Len(cells) /\ s + 1 - 1 = s
          /\ 3 \in 1 .. Len(cells) /\ s + 3 - 1 = s + 2
          /\ 5 \in 1 .. Len(cells) /\ s + 5 - 1 = s + 4
      BY <1>2, <2>1
    <3>2. \A k \in 1 .. Len(cells) : car[s + k - 1] = cells[k]
      BY <2>1 DEF RhInCar, Stands
    <3> HIDE DEF cells
    <3> QED
      BY <3>1, <3>2
  <2>a. /\ car[s] = [op |-> "movhi", m |-> "zero", n |-> "r1", x |-> Rh!HighPart(a)]
        /\ car[s + 2] = [op |-> "movea", m |-> "r1", n |-> "r1", x |-> a % Low]
        /\ car[s + 4] = [op |-> "jmp", m |-> "none", n |-> "r1", x |-> 0]
    BY <2>2, RhLongSplice, Zenon
  <2> HIDE DEF cells
  <2>3. CASE at = s
    <3>1. Here.op = "movhi" /\ Here.m = "zero" /\ Here.n = "r1" /\ Here.x = Rh!HighPart(a)
      BY <2>a, <2>3 DEF Here
    <3>2. Compute /\ Rh!Size(Here) = 2
      BY <3>1 DEF Within, Store, Jump, Jumps, Rh!Jumps, Rh!Size
    <3>3. Rh!Target(Here) = "r1" /\ Rh!Result(Here, regs, mem, car, at) = 0 + Low * Rh!HighPart(a)
      BY <3>1 DEF Rh!Target, Rh!Result
    <3>4. 0 + Low * Rh!HighPart(a) = Low * Rh!HighPart(a)
      <4>1. Rh!HighPart(a) \in Int
        BY <1>2, Halves
      <4> QED
        BY <1>2, <4>1
    <3>5. regs' = [regs EXCEPT !["r1"] = Low * Rh!HighPart(a)] /\ at' = s + 2 /\ mem' = mem
      BY <2>3, <3>2, <3>3, <3>4 DEF Compute, Behind
    <3>6. regs'["r1"] = Low * Rh!HighPart(a) /\ regs'["zero"] = 0
      BY <1>3, <3>5
    <3> QED
      BY <1>6, <3>5, <3>6 DEF RhWhere
  <2>4. CASE at = s + 2 /\ regs["r1"] = Low * Rh!HighPart(a)
    <3>1. Here.op = "movea" /\ Here.m = "r1" /\ Here.n = "r1" /\ Here.x = a % Low
      BY <2>a, <2>4 DEF Here
    <3>2. Compute /\ Rh!Size(Here) = 2
      BY <3>1 DEF Within, Store, Jump, Jumps, Rh!Jumps, Rh!Size
    <3>3. Rh!Target(Here) = "r1"
          /\ Rh!Result(Here, regs, mem, car, at) = Low * Rh!HighPart(a) + Rh!Signed(a % Low)
      BY <2>4, <3>1 DEF Rh!Target, Rh!Result
    <3>4. Low * Rh!HighPart(a) + Rh!Signed(a % Low) = a
      BY <1>2, Halves
    <3>5. regs' = [regs EXCEPT !["r1"] = a] /\ at' = s + 4 /\ mem' = mem
      <4>1. at' = (s + 2) + 2 /\ (s + 2) + 2 = s + 4
        BY <1>2, <2>4, <3>2 DEF Compute, Behind
      <4> QED
        BY <3>2, <3>3, <3>4, <4>1 DEF Compute
    <3>6. regs'["r1"] = a /\ regs'["zero"] = 0
      BY <1>3, <3>5
    <3> QED
      BY <1>6, <3>5, <3>6 DEF RhWhere
  <2>5. CASE at = s + 4 /\ regs["r1"] = a
    <3>1. Here.op = "jmp" /\ Here.n = "r1"
      BY <2>a, <2>5 DEF Here
    <3>2. Jump
      BY <3>1 DEF Within, Compute, Store, Computes, Rh!Computes
    <3>3. at' = regs["r1"] /\ mem' = mem /\ regs' = regs
      BY <3>1, <3>2 DEF Jump, Rh!Destination
    <3> QED
      BY <1>4, <2>5, <3>3
  <2> QED
    BY <1>6, <2>3, <2>4, <2>5
<1>7. CASE \E p \in 1 .. n + 1 : at = a + p - 1 /\ RhReady(regs, b, n, p, D)
  <2>1. PICK p \in 1 .. n + 1 : at = a + p - 1 /\ RhReady(regs, b, n, p, D)
    BY <1>7
  <2>2. /\ regs'["zero"] = 0
        /\ \E q \in 1 .. n + 1 : at' = a + q - 1 /\ RhReady(regs', b, n, q, D)
        /\ \A x \in DOMAIN mem : mem'[x] # mem[x] => x \in D
    BY <1>1, <2>1, RhBodyGoesOn
  <2> QED
    BY <1>1, <2>2 DEF RhWhere
<1> QED
  BY <1>1, <1>5, <1>6, <1>7 DEF RhWhere

-----------------------------------------------------------------------------
(* What the ECU does in a hook.                                             *)

(* The jump at a site and the code it leads to, and a way through both, on  *)
(* the processor of this build.                                             *)
InCar(s, a, b, D) == IF IsSh2a THEN ShInCar(s, a, b, D) ELSE RhInCar(s, a, b, D)
Where(q, r, s, a, b, D) ==
    IF IsSh2a THEN ShWhere(q, r, s, a, b, D) ELSE RhWhere(q, r, s, a, b, D)

(* The code of a hook and the jump to it are in the ECU: code that writes   *)
(* to the hook's own RAM, however much the code of its later stores is.     *)
LEMMA HookInCar ==
  ASSUME BuildInv, Made, Sized, PatchIsInTheCar, phase \in InTheEcu, SitesApart,
         NEW n \in DOMAIN order, NEW h, h = order[n]
  PROVE  \E b : InCar(pack.hooks[h].splice, claims[n].address, b, OwnRam(h))
<1> DEFINE s == pack.hooks[h].splice
           a == claims[n].address
           D == OwnRam(h)
           code == works[h].code
<1>1. h \in DOMAIN works
  BY DEF BuildInv, Hooks, ToSet
<1>2. s \in Nat
  BY <1>1, PackAssumption DEF Made, BuildInv, Hooks, Declared
<1>3. a \in Nat /\ a % 2 = 0 /\ Spliceable(s, a)
  <2>1. n \in 1 .. Finished
    BY DEF BuildInv, Hooks, Finished, InTheEcu
  <2> QED
    BY <2>1 DEF Sized, Fitted, Patching, InTheEcu
<1>4. Stands(car, a, code) /\ Stands(car, s, Splice(s, a))
  BY DEF PatchIsInTheCar, HookStands
<1>5. PICK b, rest : IsList(rest) /\ Tame(b, D) /\ code = Finalize(b) \o rest
  BY <1>1 DEF Made, WorkMade
<1> HIDE DEF s, a, D, code
<1>6. IsList(b)
  BY <1>5 DEF Tame, ShTame, RhTame
<1>7. PICK m \in Nat : m = Len(b)
  BY <1>6, ListHas
<1>8. \A k \in 1 .. Len(code) : car[a + k - 1] = code[k]
  BY <1>4 DEF Stands
<1>9. CASE IsSh2a
  <2>1. ShTame(b, D) /\ code = Sh!Finalize(b) \o rest
    BY <1>5, <1>9 DEF Tame, Finalize
  <2>2. LaidOut(b, m, code)
    BY <1>5, <1>7, <2>1, ShLayout
  <2>3. ShIn(car, a, b, m, D, code)
    BY <1>3, <1>7, <1>8, <2>1, <2>2 DEF ShIn
  <2>4. ShInCar(s, a, b, D)
    BY <1>2, <1>3, <1>4, <1>7, <1>9, <2>3 DEF ShInCar, Spliceable, Splice
  <2> QED
    BY <1>9, <2>4 DEF InCar, s, a, D
<1>10. CASE ~IsSh2a
  <2> DEFINE end == <<Rh!Do("return", "none", "none"), Rh!Nop>>
  <2>1. RhTame(b, D) /\ code = (b \o end) \o rest
    BY <1>5, <1>10 DEF Tame, Finalize, Rh!Finalize
  <2>2. IsList(end) /\ Len(end) = 2 /\ end[1].op = "return"
    BY Short DEF Rh!Do
  <2> HIDE DEF end
  <2> DEFINE f == b \o end
  <2>a. IsList(b) /\ IsList(end)
    BY <1>6, <2>2
  <2>3. /\ IsList(f) /\ Len(f) = Len(b) + Len(end)
        /\ \A k \in 1 .. Len(b) : f[k] = b[k]
        /\ \A k \in 1 .. Len(end) : f[Len(b) + k] = end[k]
    BY ONLY <2>a, Lists DEF f
  <2>4. Len(f) = m + 2 /\ f[m + 1] = end[1] /\ \A k \in 1 .. m : f[k] = b[k]
    BY <1>7, <2>2, <2>3
  <2>5. IsList(f) /\ IsList(rest)
    BY <1>5, <2>3
  <2> HIDE DEF f
  <2>6. /\ Len(f \o rest) = Len(f) + Len(rest)
        /\ \A k \in 1 .. Len(f) : (f \o rest)[k] = f[k]
    BY ONLY <2>5, Lists
  <2>7. code = f \o rest
    BY <2>1 DEF f
  <2>8. PICK r \in Nat : r = Len(rest)
    BY <2>5, ListHas
  <2>9. Len(code) = m + 2 + r /\ \A k \in 1 .. m + 2 : code[k] = f[k]
    BY <2>4, <2>6, <2>7, <2>8
  <2>10. \A k \in 1 .. m + 1 : car[a + k - 1] = f[k]
    <3>1. \A k \in 1 .. m + 1 : k \in 1 .. m + 2 + r /\ k \in 1 .. m + 2
      OBVIOUS
    <3> QED
      BY <1>8, <2>9, <3>1
  <2>11. /\ \A k \in 1 .. m : car[a + k - 1] = b[k]
         /\ car[a + m].op = "return"
    <3>1. m + 1 \in 1 .. m + 1 /\ a + (m + 1) - 1 = a + m /\ \A k \in 1 .. m : k \in 1 .. m + 1
      BY <1>3
    <3> QED
      BY <2>2, <2>4, <2>10, <3>1
  <2>12. RhInCar(s, a, b, D)
    BY <1>2, <1>3, <1>4, <1>7, <1>10, <2>1, <2>11 DEF RhInCar, Splice
  <2> QED
    BY <1>10, <2>12 DEF InCar, s, a, D
<1> QED
  BY <1>9, <1>10

(* What the ECU does next on its way, on either processor.                  *)
LEMMA GoesItsWay ==
  ASSUME BuildInv, NEW s, NEW a, NEW b, NEW D, InCar(s, a, b, D), Where(at, regs, s, a, b, D),
         ~IsSh2a => regs["zero"] = 0, Within
  PROVE  /\ ~IsSh2a => regs'["zero"] = 0
         /\ Where(at', regs', s, a, b, D)
         /\ \A x \in DOMAIN mem : mem'[x] # mem[x] => x \in D
<1>1. Sh!Registers \subseteq DOMAIN regs /\ Rh!Registers \subseteq DOMAIN regs
  BY DEF BuildInv, Kinds
<1>2. CASE IsSh2a
  <2>1. ShInCar(s, a, b, D) /\ ShWhere(at, regs, s, a, b, D)
    BY <1>2 DEF InCar, Where
  <2>2. /\ ShWhere(at', regs', s, a, b, D)
        /\ \A x \in DOMAIN mem : mem'[x] # mem[x] => x \in D
    BY <1>1, <1>2, <2>1, ShGoesItsWay
  <2> QED
    BY <1>2, <2>2 DEF Where
<1>3. CASE ~IsSh2a
  <2>1. RhInCar(s, a, b, D) /\ RhWhere(at, regs, s, a, b, D)
    BY <1>3 DEF InCar, Where
  <2>2. /\ regs'["zero"] = 0 /\ RhWhere(at', regs', s, a, b, D)
        /\ \A x \in DOMAIN mem : mem'[x] # mem[x] => x \in D
    BY <1>1, <1>3, <2>1, RhGoesItsWay
  <2> QED
    BY <1>3, <2>2 DEF Where
<1> QED
  BY <1>2, <1>3

(* The ECU comes to a hook from the firmware, its zero register as it was,  *)
(* and until it is back it is on its way through the jump and the code of   *)
(* that hook.                                                               *)
OnTheWay ==
    /\ phase \notin {"car", "lost"} => regs["zero"] = 0 /\ hook = NoHook
    /\ phase = "car" /\ SitesApart =>
        /\ ~IsSh2a => regs["zero"] = 0
        /\ hook # NoHook =>
              \E n \in DOMAIN order : \E b :
                 LET s == pack.hooks[hook].splice
                     a == claims[n].address
                 IN  /\ order[n] = hook
                     /\ InCar(s, a, b, OwnRam(hook)) /\ Where(at, regs, s, a, b, OwnRam(hook))

(* What is in the flash of the ECU is there while the flash stays.          *)
LEMMA InCarStays ==
  ASSUME UNCHANGED <<pack, car>>, NEW s, NEW a, NEW b, NEW D
  PROVE  InCar(s, a, b, D)' <=> InCar(s, a, b, D)
<1>1. IsSh2a' <=> IsSh2a
  BY DEF IsSh2a
<1>2. ShInCar(s, a, b, D)' <=> ShInCar(s, a, b, D)
  BY DEF ShInCar, Stands, ShIn
<1>3. RhInCar(s, a, b, D)' <=> RhInCar(s, a, b, D)
  BY DEF RhInCar, Stands
<1> QED
  BY <1>1, <1>2, <1>3 DEF InCar

(* Nothing changes as long as the build goes on, nor while the ECU waits.   *)
LEMMA WayStays ==
  ASSUME OnTheWay, UNCHANGED <<regs, hook>>,
         phase' \notin {"car", "lost"} => phase \notin {"car", "lost"},
         phase' = "car" => phase \notin {"car", "lost"}
  PROVE  OnTheWay'
BY DEF OnTheWay

(* Every step of the ECU goes its way and writes to the hook's own RAM.     *)
LEMMA EcuGoesItsWay ==
  ASSUME BuildInv, OnTheWay, Execute, SitesApart
  PROVE  /\ OnTheWay'
         /\ \A x \in DOMAIN mem : mem'[x] # mem[x] => x \in OwnRam(hook)
<1>1. /\ phase = "car" /\ hook # NoHook /\ phase' \in {"car", "lost"}
      /\ UNCHANGED <<pack, works, order, claims, car>>
  <2>1. phase = "car" /\ hook # NoHook /\ phase' \in {"car", "lost"}
    BY DEF Execute, Compute, Store, Jump, Return, Stray, Running
  <2> QED
    BY <2>1 DEF Execute, compileVars, patchVars
<1>2. ~IsSh2a => regs["zero"] = 0
  BY <1>1 DEF OnTheWay
<1>3. SitesApart' /\ (IsSh2a' <=> IsSh2a)
  BY <1>1, SitesStay DEF IsSh2a
<1>4. CASE phase' = "lost"
  <2>1. mem' = mem
    BY <1>1, <1>4 DEF Execute, Compute, Store, Jump, Return, Stray
  <2> QED
    BY <1>4, <2>1 DEF OnTheWay
<1>5. CASE phase' # "lost" /\ hook' = NoHook
  <2>1. Return
    BY <1>1, <1>5 DEF Execute, Compute, Store, Jump, Stray
  <2>2. mem' = mem /\ regs' = regs
    BY <2>1 DEF Return
  <2> QED
    BY <1>1, <1>2, <1>3, <1>5, <2>2 DEF OnTheWay
<1>6. CASE phase' # "lost" /\ hook' # NoHook
  <2>1. Within
    BY <1>6, StaysWithin
  <2>a. PICK n \in DOMAIN order : \E b :
           /\ order[n] = hook
           /\ InCar(pack.hooks[hook].splice, claims[n].address, b, OwnRam(hook))
           /\ Where(at, regs, pack.hooks[hook].splice, claims[n].address, b, OwnRam(hook))
    BY <1>1 DEF OnTheWay
  <2>2. PICK b :
           /\ order[n] = hook
           /\ InCar(pack.hooks[hook].splice, claims[n].address, b, OwnRam(hook))
           /\ Where(at, regs, pack.hooks[hook].splice, claims[n].address, b, OwnRam(hook))
    BY <2>a
  <2>3. PICK s, a, D : s = pack.hooks[hook].splice /\ a = claims[n].address /\ D = OwnRam(hook)
    OBVIOUS
  <2>4. InCar(s, a, b, D) /\ Where(at, regs, s, a, b, D)
    BY <2>2, <2>3
  <2>5. /\ ~IsSh2a => regs'["zero"] = 0
        /\ Where(at', regs', s, a, b, D)
        /\ \A x \in DOMAIN mem : mem'[x] # mem[x] => x \in D
    BY <1>2, <2>1, <2>4, GoesItsWay
  <2>6. hook' = hook
    BY <2>1 DEF Within, Compute, Store, Jump
  <2>7. InCar(s, a, b, D)'
    BY <1>1, <2>4, InCarStays
  <2>8. Where(at, regs, s, a, b, D)'
    BY <1>3, <2>5 DEF Where
  <2>9. OwnRam(hook)' = OwnRam(hook)
    BY <1>1, <2>6 DEF OwnRam, FreeRam
  <2>10. /\ s = (pack.hooks[hook].splice)' /\ a = (claims[n].address)' /\ D = OwnRam(hook)'
         /\ n \in DOMAIN order' /\ order'[n] = hook'
    BY <1>1, <2>2, <2>3, <2>6, <2>9
  <2>11. OnTheWay'
    BY <1>1, <1>3, <1>6, <2>5, <2>7, <2>8, <2>10 DEF OnTheWay
  <2> QED
    BY <2>3, <2>5, <2>11
<1> QED
  BY <1>4, <1>5, <1>6

(* It begins its way at the site of a hook.                                 *)
LEMMA EcuSetsOut ==
  ASSUME BuildInv, Made, Sized, PatchIsInTheCar, OnTheWay, NEW h \in ToSet(order), Enter(h)
  PROVE  OnTheWay'
<1>1. /\ phase = "car" /\ phase' = "car" /\ hook' = h /\ at' = pack.hooks[h].splice
      /\ UNCHANGED <<pack, order, works, claims, car, mem, regs>>
  BY DEF Enter, compileVars, patchVars
<1>2. (SitesApart' <=> SitesApart) /\ (IsSh2a' <=> IsSh2a)
  BY <1>1, SitesStay DEF IsSh2a
<1>3. CASE ~SitesApart
  BY <1>1, <1>2, <1>3 DEF OnTheWay
<1>4. CASE SitesApart
  <2>1. PICK n \in DOMAIN order : h = order[n]
    BY DEF ToSet
  <2>2. PICK b : InCar(pack.hooks[h].splice, claims[n].address, b, OwnRam(h))
    BY <1>1, <1>4, <2>1, HookInCar DEF InTheEcu
  <2>3. PICK s, a, D : s = pack.hooks[h].splice /\ a = claims[n].address /\ D = OwnRam(h)
    OBVIOUS
  <2>4. InCar(s, a, b, D)'
    BY <1>1, <2>2, <2>3, InCarStays
  <2>5. Where(at, regs, s, a, b, D)'
    BY <1>1, <2>3 DEF Where, ShWhere, RhWhere
  <2>6. OwnRam(h)' = OwnRam(h)
    BY <1>1 DEF OwnRam, FreeRam
  <2>7. /\ s = (pack.hooks[hook].splice)' /\ a = (claims[n].address)' /\ D = OwnRam(hook)'
        /\ n \in DOMAIN order' /\ order'[n] = hook'
    BY <1>1, <2>1, <2>3, <2>6 DEF OwnRam, FreeRam
  <2>8. ~IsSh2a' => regs'["zero"] = 0
    BY <1>1, <1>2, <1>4 DEF OnTheWay
  <2> QED
    BY <1>1, <2>4, <2>5, <2>7, <2>8 DEF OnTheWay
<1> QED
  BY <1>3, <1>4

(* So every step keeps it on its way.                                       *)
LEMMA StepKeepsTheWay ==
  ASSUME BuildInv, Made, Sized, PatchIsInTheCar, OnTheWay, [Next]_vars
  PROVE  OnTheWay'
<1>1. CASE Lower \/ CompileStore \/ Gate
  BY <1>1, WayStays DEF Lower, CompileStore, Gate, ecuVars
<1>2. CASE ApplyHook \/ ApplyManifest \/ FlashSectors
  BY <1>2, WayStays DEF ApplyHook, ApplyManifest, FlashSectors, ecuVars
<1>3. CASE Boot
  BY <1>3, WayStays DEF Boot
<1>4. CASE \E h \in ToSet(order) : Enter(h)
  BY <1>4, EcuSetsOut
<1>5. CASE Execute
  <2>1. CASE SitesApart
    BY <1>5, <2>1, EcuGoesItsWay
  <2>2. CASE ~SitesApart
    <3>1. phase' \in {"car", "lost"} /\ UNCHANGED <<pack, works>>
      <4>1. phase' \in {"car", "lost"}
        BY <1>5 DEF Execute, Compute, Store, Jump, Return, Stray, Running
      <4> QED
        BY <1>5, <4>1 DEF Execute, compileVars
    <3>2. ~SitesApart'
      BY <2>2, <3>1, SitesStay
    <3> QED
      BY <3>1, <3>2 DEF OnTheWay
  <2> QED
    BY <2>1, <2>2
<1>6. CASE UNCHANGED vars
  <2>1. UNCHANGED <<pack, order, works, claims, car, phase, at, regs, hook>>
    BY <1>6 DEF vars, compileVars, patchVars, ecuVars
  <2>2. (SitesApart' <=> SitesApart) /\ (IsSh2a' <=> IsSh2a)
    BY <2>1, SitesStay DEF IsSh2a
  <2>3. CASE phase = "car" /\ SitesApart /\ hook # NoHook
    <3>a. PICK n \in DOMAIN order : \E b :
             /\ order[n] = hook
             /\ InCar(pack.hooks[hook].splice, claims[n].address, b, OwnRam(hook))
             /\ Where(at, regs, pack.hooks[hook].splice, claims[n].address, b, OwnRam(hook))
      BY <2>3 DEF OnTheWay
    <3>1. PICK b :
             /\ order[n] = hook
             /\ InCar(pack.hooks[hook].splice, claims[n].address, b, OwnRam(hook))
             /\ Where(at, regs, pack.hooks[hook].splice, claims[n].address, b, OwnRam(hook))
      BY <3>a
    <3>2. PICK s, a, D : s = pack.hooks[hook].splice /\ a = claims[n].address /\ D = OwnRam(hook)
      OBVIOUS
    <3>3. InCar(s, a, b, D)' /\ Where(at, regs, s, a, b, D)'
      BY <2>1, <2>2, <3>1, <3>2, InCarStays DEF Where
    <3>4. OwnRam(hook)' = OwnRam(hook)
      BY <2>1 DEF OwnRam, FreeRam
    <3>5. /\ s = (pack.hooks[hook].splice)' /\ a = (claims[n].address)' /\ D = OwnRam(hook)'
          /\ n \in DOMAIN order' /\ order'[n] = hook'
      BY <2>1, <3>1, <3>2, <3>4
    <3> QED
      BY <2>1, <2>2, <3>3, <3>5 DEF OnTheWay
  <2>4. CASE ~(phase = "car" /\ SitesApart /\ hook # NoHook)
    BY <2>1, <2>2, <2>4 DEF OnTheWay
  <2> QED
    BY <2>3, <2>4
<1> QED
  BY <1>1, <1>2, <1>3, <1>4, <1>5, <1>6 DEF Next

(* When the sites, the code regions and the free RAM of the pack are apart, *)
(* the code of a hook writes into the free RAM the pack gives that hook and *)
(* nowhere else.                                                            *)
THEOREM OnlyOwnRamHolds == Spec => OnlyOwnRam
<1> DEFINE Step == phase = "car" /\ PackApart =>
                     \A a \in Ram : mem'[a] # mem[a] =>
                        hook # NoHook /\ Extent(a, 4) \subseteq FreeRam(hook)
<1>1. Init => OnTheWay
  BY DEF Init, Sh!Registers, Rh!Registers, OnTheWay
<1>2. BuildInv /\ Made /\ Sized /\ PatchIsInTheCar /\ OnTheWay /\ [Next]_vars => OnTheWay'
  BY StepKeepsTheWay
<1>3. ASSUME BuildInv, OnTheWay, [Next]_vars PROVE Step
  <2> SUFFICES ASSUME phase = "car", PackApart, NEW x \in Ram, mem'[x] # mem[x]
               PROVE  hook # NoHook /\ Extent(x, 4) \subseteq FreeRam(hook)
    OBVIOUS
  <2>1. SitesApart
    BY DEF PackApart, SitesApart
  <2>2. Execute
    BY <1>3 DEF Next, Lower, CompileStore, Gate, ApplyHook, ApplyManifest, FlashSectors,
                Boot, Enter, vars, ecuVars
  <2>3. x \in DOMAIN mem
    BY <1>3 DEF BuildInv, Kinds
  <2>4. x \in OwnRam(hook)
    BY <1>3, <2>1, <2>2, <2>3, EcuGoesItsWay
  <2>5. hook # NoHook
    BY <2>2 DEF Execute, Compute, Store, Jump, Return, Stray, Running
  <2> QED
    BY <2>4, <2>5 DEF OwnRam
<1>4. Spec => [][Step]_vars
  BY <1>1, <1>2, <1>3, AlwaysBuilt, AlwaysMade, AlwaysStands, PatchReachesTheCar, PTL DEF Spec
<1> QED
  BY <1>4 DEF OnlyOwnRam
=============================================================================
