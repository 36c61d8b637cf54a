------------------------------ MODULE Rh850Code -------------------------------
(***************************************************************************)
(* The code the RH850 backend emits for one store of a feature, the jump    *)
(* put at a hook to reach it, and what an RH850 does with both.             *)
(*                                                                         *)
(* There is no pool of literals and no delay slot: a 32-bit value is put    *)
(* together from two immediates, and most instructions are two halfwords,   *)
(* of which the second is a low one here.                                   *)
(***************************************************************************)
EXTENDS CodeWords

CONSTANTS Low,         \* values of the low half of an immediate: 65536
          ShortReach   \* a JR reaches -ShortReach .. ShortReach - 1 halfwords

LowHalf == Do("low", "none", "none")
Wide(c) == <<c, LowHalf>>

(* split_imm32: MOVEA adds the low half as a signed number, so the high     *)
(* half is one more when that is negative.                                  *)
Signed(low) == IF 2 * low >= Low THEN low - Low ELSE low
HighPart(v) == (v - Signed(v % Low)) \div Low

Immediate(r, v) ==
    Wide([Do("movhi", "zero", r) EXCEPT !.x = HighPart(v)])
      \o Wide([Do("movea", r, r) EXCEPT !.x = v % Low])

Load(o, r, via) ==
    IF o.pointer THEN Immediate(via, o.value) \o Wide(Do("load", via, r))
    ELSE Immediate(r, o.value)

StoreTo(dst, r, via) == Immediate(via, dst) \o Wide(Do("store", r, via))

(* Operations on R10, the first operand, and R11; a short one is followed   *)
(* by a NOP.                                                                *)
Short(op) == <<Do(op, "r11", "r10"), Nop>>
Long(op)  == Wide(Do(op, "r11", "r10"))

IntArith == [ add_int  |-> Short("add"), subtract_int |-> Short("sub"),
              and_bool |-> Short("and"), or_bool |-> Short("or"),
              multiply_int |-> Long("mul"), divide_int |-> Long("div") ]

FloatArith == [ add_float |-> Long("addf"), subtract_float |-> Long("subf"),
                multiply_float |-> Long("mulf"), divide_float |-> Long("divf") ]

IntCompare == [ compare_lt_int |-> "setf_lt", compare_gt_int |-> "setf_gt",
                compare_eq_int |-> "setf_z" ]

(* CMPF sets its flag when R10 is less than R11, or equal to it: for a      *)
(* greater-than the operands change places.  TRFSR copies the flag to Z.    *)
FloatCompare == [ compare_lt_float |-> "cmpf_olt", compare_gt_float |-> "cmpf_olt",
                  compare_eq_float |-> "cmpf_eq" ]
Swapped(symbol) == symbol = "compare_gt_float"

Pair(o, first, second) == Load(o[1], first, "r12") \o Load(o[2], second, "r12")

(* The condition is turned into a mask of ones, and its complement.         *)
Select(o, dst) ==
    Load(o[1], "r10", "r14") \o Load(o[2], "r11", "r14") \o Load(o[3], "r12", "r14")
      \o <<Do("mov", "zero", "r13"), Do("sub", "r10", "r13"), Do("and", "r13", "r11"),
           Do("not", "r13", "r13"), Do("and", "r13", "r12"), Do("or", "r12", "r11")>>
      \o StoreTo(dst, "r11", "r13")

Fragment(symbol, o, dst) ==
    CASE symbol \in DOMAIN IntArith ->
           Pair(o, "r10", "r11") \o IntArith[symbol] \o StoreTo(dst, "r10", "r12")
      [] symbol \in DOMAIN FloatArith ->
           Pair(o, "r10", "r11") \o FloatArith[symbol] \o StoreTo(dst, "r10", "r12")
      [] symbol \in DOMAIN IntCompare ->
           Pair(o, "r10", "r11") \o <<Do("cmp", "r11", "r10")>>
             \o Wide(Do(IntCompare[symbol], "psw", "r10")) \o <<Nop>>
             \o StoreTo(dst, "r10", "r12")
      [] symbol \in DOMAIN FloatCompare ->
           (IF Swapped(symbol) THEN Pair(o, "r11", "r10") ELSE Pair(o, "r10", "r11"))
             \o Long(FloatCompare[symbol]) \o Wide(Do("trfsr", "fcc", "psw"))
             \o Wide(Do("setf_z", "psw", "r10")) \o StoreTo(dst, "r10", "r12")
      [] symbol = "sqrt_float" ->
           Load(o[1], "r10", "r12") \o Wide(Do("sqrt", "r10", "r10"))
             \o StoreTo(dst, "r10", "r12")
      [] symbol = "flex_fuel_scale" ->
           Load(o[1], "r10", "r12") \o Immediate("r11", Slope) \o Long("mulf")
             \o Immediate("r11", Intercept) \o Long("addf") \o StoreTo(dst, "r10", "r12")
      [] symbol = "not_bool" ->
           Pair(<<o[1], Constant(1)>>, "r10", "r11") \o Short("xor")
             \o StoreTo(dst, "r10", "r12")
      [] symbol \in Selects -> Select(o, dst)

(* A store of a constant or of a hook's input as it is.                     *)
Copy(o, dst) == Load(o, "r10", "r12") \o StoreTo(dst, "r10", "r11")

Finalize(body) == body \o <<Do("return", "none", "none"), Nop>>
-----------------------------------------------------------------------------
(* emit_rh850_splice: a JR when the code is near, else ten bytes that load  *)
(* its address.                                                             *)

Distance(site, target) == target - site
Near(site, target) == Distance(site, target) \in -ShortReach .. ShortReach - 1

LongSplice(target) == Immediate("r1", target) \o <<Do("jmp", "none", "r1")>>

Splice(site, target) ==
    IF Near(site, target)
    THEN Wide([Do("jr", "none", "none") EXCEPT !.x = Distance(site, target)])
    ELSE LongSplice(target)
-----------------------------------------------------------------------------
(* The processor, with registers r, at address at of an image.              *)

Registers == {"zero", "r1", "r10", "r11", "r12", "r13", "r14", "psw", "fcc"}

Computes == {"movhi", "movea", "load", "mov", "add", "sub", "mul", "div", "addf", "subf",
             "mulf", "divf", "and", "or", "xor", "not", "sqrt", "cmp", "cmpf_olt", "cmpf_eq",
             "trfsr", "setf_lt", "setf_gt", "setf_z"}

(* What an instruction computes; the flags of an integer comparison are     *)
(* the sign of the difference; TRFSR copies the flag to Z, as the backend   *)
(* takes it to.  The high half of a product and the remainder of a division *)
(* go to R13, where nothing reads them.                                     *)
Result(c, r, mem, image, at) ==
    CASE c.op = "movhi" -> r[c.m] + Low * c.x
      [] c.op = "movea" -> r[c.m] + Signed(c.x)
      [] c.op = "load"  -> mem[r[c.m]]
      [] c.op = "mov"   -> r[c.m]
      [] c.op \in {"add", "addf"} -> Wrap(r[c.n] + r[c.m])
      [] c.op \in {"sub", "subf"} -> Wrap(r[c.n] - r[c.m])
      [] c.op \in {"mul", "mulf"} -> Wrap(r[c.n] * r[c.m])
      [] c.op = "div"   -> Wrap(Truncated(r[c.n], r[c.m]))
      [] c.op = "divf"  -> Quotient(r[c.n], r[c.m])
      [] c.op = "and"   -> BitAnd(r[c.n], r[c.m])
      [] c.op = "or"    -> BitOr(r[c.n], r[c.m])
      [] c.op = "xor"   -> BitXor(r[c.n], r[c.m])
      [] c.op = "not"   -> -1 - r[c.m]
      [] c.op = "sqrt"  -> Root(r[c.m])
      [] c.op = "cmp"   -> Truth(r[c.n] > r[c.m]) - Truth(r[c.n] < r[c.m])
      [] c.op = "cmpf_olt" -> Truth(r[c.n] < r[c.m])
      [] c.op = "cmpf_eq"  -> Truth(r[c.n] = r[c.m])
      [] c.op = "trfsr"   -> 1 - r[c.m]
      [] c.op = "setf_lt" -> Truth(r[c.m] < 0)
      [] c.op = "setf_gt" -> Truth(r[c.m] > 0)
      [] c.op = "setf_z"  -> Truth(r[c.m] = 0)

Target(c) ==
    CASE c.op = "cmp" -> "psw"
      [] c.op \in {"cmpf_olt", "cmpf_eq"} -> "fcc"
      [] OTHER -> c.n

Size(c) ==
    IF c.op \in {"mov", "add", "sub", "and", "or", "xor", "not", "cmp", "nop"} THEN 1 ELSE 2

(* An instruction of two halfwords has its second.                          *)
Sound(c, image, at) ==
    c.op \in Computes \cup {"jr", "store"} /\ Size(c) = 2 =>
        at + 1 \in DOMAIN image /\ image[at + 1] = LowHalf

Jumps == {"jr", "jmp", "nop"}

Destination(c, r, at) ==
    CASE c.op = "jr"  -> at + c.x
      [] c.op = "jmp" -> r[c.n]
      [] c.op = "nop" -> at + 1
=============================================================================
