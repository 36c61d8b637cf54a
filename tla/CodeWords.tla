------------------------------- MODULE CodeWords ------------------------------
(***************************************************************************)
(* What the backends of the feature compiler share: the primitives and      *)
(* their types, operands, and instructions.                                 *)
(*                                                                         *)
(* Code is a sequence of halfwords, the unit of its addresses.  A word of   *)
(* memory is Half wide on each side of zero.  Float operations do what the  *)
(* integer ones do: which operand goes where is modelled, rounding is not.  *)
(***************************************************************************)
EXTENDS Integers, Lists

CONSTANT Half        \* words are -Half .. Half - 1, Half a power of two

Word    == -Half .. Half - 1
Wrap(n) == ((n + Half) % (2 * Half)) - Half
Truth(b) == IF b THEN 1 ELSE 0

(* The bits of a word, and what two words have in common, either, or        *)
(* exactly one of them.                                                     *)
Bits(n) == n % (2 * Half)

Common[a, b \in Nat] ==
    IF a = 0 THEN 0 ELSE 2 * Common[a \div 2, b \div 2] + (a % 2) * (b % 2)

BitAnd(a, b) == Wrap(Common[Bits(a), Bits(b)])
BitOr(a, b)  == Wrap(Bits(a) + Bits(b) - Common[Bits(a), Bits(b)])
BitXor(a, b) == Wrap(Bits(a) + Bits(b) - 2 * Common[Bits(a), Bits(b)])

(* Truncated towards zero; of a divisor of zero nothing is said.            *)
Truncated(a, b) ==
    LET abs(n) == IF n < 0 THEN -n ELSE n
        q == abs(a) \div abs(b)
    IN  IF b = 0 THEN 0 ELSE IF (a < 0) # (b < 0) THEN -q ELSE q

(* What leaves the words is their limit.                                    *)
Quotient(a, b) == IF Truncated(a, b) >= Half THEN Half - 1 ELSE Truncated(a, b)
-----------------------------------------------------------------------------
(* primitive_shape: the types a primitive takes and gives.                  *)

Shape(takes, gives) == [takes |-> takes, gives |-> gives]

Shapes ==
    LET ints   == Shape(<<"int", "int">>, "int")
        floats == Shape(<<"float", "float">>, "float")
        bools  == Shape(<<"bool", "bool">>, "bool")
        ofInts   == Shape(<<"int", "int">>, "bool")
        ofFloats == Shape(<<"float", "float">>, "bool")
        curve  == Shape(<<"float">>, "float")
    IN  [ add_int |-> ints, subtract_int |-> ints, multiply_int |-> ints, divide_int |-> ints,
          compare_lt_int |-> ofInts, compare_gt_int |-> ofInts, compare_eq_int |-> ofInts,
          and_bool |-> bools, or_bool |-> bools, not_bool |-> Shape(<<"bool">>, "bool"),
          select_int   |-> Shape(<<"bool", "int", "int">>, "int"),
          select_bool  |-> Shape(<<"bool", "bool", "bool">>, "bool"),
          select_float |-> Shape(<<"bool", "float", "float">>, "float"),
          add_float |-> floats, subtract_float |-> floats,
          multiply_float |-> floats, divide_float |-> floats,
          sqrt_float |-> curve, flex_fuel_scale |-> curve,
          compare_lt_float |-> ofFloats, compare_gt_float |-> ofFloats,
          compare_eq_float |-> ofFloats ]

Selects == {"select_int", "select_bool", "select_float"}

(* Slope and intercept of flex_fuel_scale's line.                           *)
Slope == 2
Intercept == 1

Root(n) == Wrap(n * n + 1)      \* stands for the square root

(* What a primitive means: docs of the primitives, and the names.           *)
Meaning(symbol, v) ==
    CASE symbol \in {"add_int", "add_float"} -> Wrap(v[1] + v[2])
      [] symbol \in {"subtract_int", "subtract_float"} -> Wrap(v[1] - v[2])
      [] symbol \in {"multiply_int", "multiply_float"} -> Wrap(v[1] * v[2])
      [] symbol \in {"divide_int", "divide_float"} -> Quotient(v[1], v[2])
      [] symbol \in {"compare_lt_int", "compare_lt_float"} -> Truth(v[1] < v[2])
      [] symbol \in {"compare_gt_int", "compare_gt_float"} -> Truth(v[1] > v[2])
      [] symbol \in {"compare_eq_int", "compare_eq_float"} -> Truth(v[1] = v[2])
      [] symbol = "and_bool" -> Truth(v[1] = 1 /\ v[2] = 1)
      [] symbol = "or_bool"  -> Truth(v[1] = 1 \/ v[2] = 1)
      [] symbol = "not_bool" -> 1 - v[1]
      [] symbol \in Selects  -> IF v[1] = 1 THEN v[2] ELSE v[3]
      [] symbol = "sqrt_float" -> Root(v[1])
      [] symbol = "flex_fuel_scale" -> Wrap(Intercept + Wrap(Slope * v[1]))
-----------------------------------------------------------------------------
(* Instructions: operation, source m, destination n, and a number x: an     *)
(* immediate value or the displacement of a branch.                         *)

Do(op, m, n) == [op |-> op, m |-> m, n |-> n, x |-> 0]
Nop          == Do("nop", "none", "none")

(* An operand is a constant or the address of a firmware variable or slot.  *)
Constant(v) == [pointer |-> FALSE, value |-> v]
Pointer(a)  == [pointer |-> TRUE,  value |-> a]
=============================================================================
