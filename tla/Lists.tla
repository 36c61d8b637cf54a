-------------------------------- MODULE Lists ---------------------------------
(***************************************************************************)
(* What SelectSeq and FlattenSeq do with sequences, in a form that can be   *)
(* reasoned about: without an operator as a parameter.                      *)
(***************************************************************************)
EXTENDS Integers, Sequences, FiniteSets

(* A sequence, of whatever it holds.                                        *)
IsList(s) == s \in Seq({s[i] : i \in DOMAIN s})

(* The elements of a sequence at some of its places, in their order.        *)
AtPlaces(s, places) ==
    [n \in 1 .. Cardinality(places) |->
       s[CHOOSE k \in places : Cardinality({j \in places : j <= k}) = n]]

(* The sequences of a sequence, one behind the other.                       *)
Joined(ss) ==
    LET upto[n \in 0 .. Len(ss)] == IF n = 0 THEN <<>> ELSE upto[n - 1] \o ss[n]
    IN  upto[Len(ss)]
=============================================================================
