------------------------------- MODULE Sh2aCode -------------------------------
(***************************************************************************)
(* The code the SH-2A backend emits for one store of a feature, the jump    *)
(* put at a hook to reach it, and what an SH-2A does with both.             *)
(*                                                                         *)
(* An instruction is one halfword, a literal of the pool is two.            *)
(***************************************************************************)
EXTENDS CodeWords

CONSTANTS DispLimit,   \* the literal displacement of MOV.L has 8 bits: 256
          ShortReach   \* a BRA reaches -ShortReach .. ShortReach - 1 halfwords

Literal(r, v)    == [Do("movl_pc", "none", r) EXCEPT !.x = v]
Branch(op, skip) == [Do(op, "none", "none") EXCEPT !.x = skip - 1]

Load(o, r) ==
    <<Literal(r, o.value)>> \o (IF o.pointer THEN <<Do("load", r, r)>> ELSE <<>>)

StoreR1(dst) == <<Literal("r2", dst), Do("store", "r1", "r2")>>

(* How an operand gets into an FPU register, as it is (fsts) or converted   *)
(* (float), and how the result gets out (flds, ftrc).                       *)
LoadFloat(o, fr, via)    == Load(o, "r0") \o <<Do("lds", "r0", "fpul"), Do(via, "fpul", fr)>>
StoreFloat(fr, via, dst) == <<Do(via, fr, "fpul"), Do("sts", "fpul", "r1")>> \o StoreR1(dst)

(* subtract_int wants its first operand in R1: SUB Rm, Rn is Rn - Rm.  The  *)
(* mutant loads them like the commutative operations.                       *)
SubtractSwapped(a, b) == Load(a, "r0") \o Load(b, "r1") \o <<Do("sub", "r0", "r1")>>
Subtract(a, b)        == Load(b, "r0") \o Load(a, "r1") \o <<Do("sub", "r0", "r1")>>

Binary == [ add_int  |-> <<Do("add", "r0", "r1")>>,
            multiply_int |-> <<Do("mul", "r0", "r1"), Do("sts", "macl", "r1")>>,
            and_bool |-> <<Do("and", "r0", "r1")>>,
            or_bool  |-> <<Do("or", "r0", "r1")>>,
            compare_lt_int |-> <<Do("cmp_gt", "r0", "r1"), Do("movt", "t", "r1")>>,
            compare_gt_int |-> <<Do("cmp_gt", "r1", "r0"), Do("movt", "t", "r1")>>,
            compare_eq_int |-> <<Do("cmp_eq", "r0", "r1"), Do("movt", "t", "r1")>> ]

(* Of the float operations the first operand goes to FR0 in these ...       *)
FloatBinary == [ add_float |-> "add", multiply_float |-> "mulf" ]
FloatCompare == [ compare_lt_float |-> Do("cmp_gt", "fr0", "fr1"),
                  compare_gt_float |-> Do("cmp_gt", "fr1", "fr0"),
                  compare_eq_float |-> Do("cmp_eq", "fr0", "fr1") ]
(* ... and to FR1 in those.                                                 *)
FloatOrdered == [ subtract_float |-> "sub", divide_float |-> "div" ]

(* The condition in R0 is tested for zero; each way loads R1.               *)
Select(cond, yes, no) ==
    Load(cond, "r0") \o <<Do("tst", "r0", "r0"), Branch("bt", Len(Load(yes, "r1")) + 2)>>
      \o Load(yes, "r1") \o <<Branch("bra", Len(Load(no, "r1")) + 1), Nop>>
      \o Load(no, "r1")

Fragment(symbol, o, dst) ==
    CASE symbol \in DOMAIN Binary ->
           Load(o[1], "r0") \o Load(o[2], "r1") \o Binary[symbol] \o StoreR1(dst)
      [] symbol = "subtract_int" -> Subtract(o[1], o[2]) \o StoreR1(dst)
      [] symbol = "not_bool" ->
           Load(o[1], "r0") \o <<Do("tst", "r0", "r0"), Do("movt", "t", "r1")>> \o StoreR1(dst)
      [] symbol \in Selects -> Select(o[1], o[2], o[3]) \o StoreR1(dst)
      [] symbol = "divide_int" ->
           LoadFloat(o[2], "fr0", "float") \o LoadFloat(o[1], "fr1", "float")
             \o <<Do("div", "fr0", "fr1")>> \o StoreFloat("fr1", "ftrc", dst)
      [] symbol \in DOMAIN FloatBinary ->
           LoadFloat(o[1], "fr0", "fsts") \o LoadFloat(o[2], "fr1", "fsts")
             \o <<Do(FloatBinary[symbol], "fr0", "fr1")>> \o StoreFloat("fr1", "flds", dst)
      [] symbol \in DOMAIN FloatOrdered ->
           LoadFloat(o[2], "fr0", "fsts") \o LoadFloat(o[1], "fr1", "fsts")
             \o <<Do(FloatOrdered[symbol], "fr0", "fr1")>> \o StoreFloat("fr1", "flds", dst)
      [] symbol \in DOMAIN FloatCompare ->
           LoadFloat(o[1], "fr0", "fsts") \o LoadFloat(o[2], "fr1", "fsts")
             \o <<FloatCompare[symbol], Do("movt", "t", "r1")>> \o StoreR1(dst)
      [] symbol = "sqrt_float" ->
           LoadFloat(o[1], "fr0", "fsts") \o <<Do("sqrt", "fr0", "fr0")>>
             \o StoreFloat("fr0", "flds", dst)
      [] symbol = "flex_fuel_scale" ->
           LoadFloat(o[1], "fr0", "fsts") \o LoadFloat(Constant(Slope), "fr1", "fsts")
             \o <<Do("mulf", "fr0", "fr1")>> \o LoadFloat(Constant(Intercept), "fr0", "fsts")
             \o <<Do("add", "fr0", "fr1")>> \o StoreFloat("fr1", "flds", dst)

(* A store of a constant or of a hook's input as it is.                     *)
Copy(o, dst) == Load(o, "r0") \o <<Literal("r1", dst), Do("store", "r0", "r1")>>
-----------------------------------------------------------------------------
(* FragmentEmitter::finalize: return, delay slot, a pad when the pool would *)
(* not begin on a longword, the pool.  The k-th MOV.L of the body gets the  *)
(* k-th literal; its displacement, in longwords from the longword after it, *)
(* has eight bits and the rest is cut off.                                  *)

NoPad(n)  == <<>>
Pad(n) == IF n % 2 = 1 THEN <<Nop>> ELSE <<>>

Longword(n) == (n \div 2) * 2

IsLiteral(c) == c.op = "movl_pc"
LiteralsUpTo(body, i) == {k \in 1 .. i : IsLiteral(body[k])}
LiteralsTo(body, i) == Cardinality(LiteralsUpTo(body, i))

PoolStart(body) == Len(body) + 2 + Len(Pad(Len(body)))

Disp(body, i) ==
    (PoolStart(body) + 2 * (LiteralsTo(body, i) - 1) - Longword(i + 1)) \div 2

Finalize(body) ==
    LET placed == [i \in 1 .. Len(body) |->
                     IF IsLiteral(body[i]) THEN [body[i] EXCEPT !.x = Disp(body, i) % DispLimit]
                     ELSE body[i]]
        values == AtPlaces(body, LiteralsUpTo(body, Len(body)))
        pool == [k \in 1 .. 2 * Len(values) |->
                   IF k % 2 = 1
                   THEN [Do("long", "none", "none") EXCEPT !.x = values[(k + 1) \div 2].x]
                   ELSE Do("low", "none", "none")]
    IN  placed \o <<Do("return", "none", "none"), Nop>> \o Pad(Len(body)) \o pool

(* No displacement of the body is cut off.                                  *)
InReach(body) == \A i \in 1 .. Len(body) : IsLiteral(body[i]) => Disp(body, i) < DispLimit
-----------------------------------------------------------------------------
(* emit_sh2a_splice: a BRA when the code is near, else twelve bytes that    *)
(* load its address, for which the place must be on a longword.             *)

Distance(site, target) == target - site - 2
Near(site, target) == Distance(site, target) \in -ShortReach .. ShortReach - 1

ShortSplice(site, target) ==
    <<[Do("bra", "none", "none") EXCEPT !.x = Distance(site, target)], Nop>>
LongSplice(target) ==
    <<Literal("r0", 1), Do("jmp", "none", "r0"), Nop, Nop,
      [Do("long", "none", "none") EXCEPT !.x = target], Do("low", "none", "none")>>

Splice(site, target) ==
    IF Near(site, target) THEN ShortSplice(site, target) ELSE LongSplice(target)
Spliceable(site, target) == Near(site, target) \/ site % 2 = 0
-----------------------------------------------------------------------------
(* The processor, with registers r, at address at of an image.              *)

Registers == {"r0", "r1", "r2", "fr0", "fr1", "fpul", "macl", "t"}

Computes == {"movl_pc", "load", "add", "sub", "mul", "mulf", "div", "sqrt", "and", "or",
             "cmp_gt", "cmp_eq", "tst", "sts", "lds", "flds", "fsts", "float", "ftrc", "movt"}

(* What an instruction computes ...                                         *)
Result(c, r, mem, image, at) ==
    CASE c.op = "movl_pc" -> image[Longword(at + 2) + 2 * c.x].x
      [] c.op = "load"  -> mem[r[c.m]]
      [] c.op = "add"   -> Wrap(r[c.n] + r[c.m])
      [] c.op = "sub"   -> Wrap(r[c.n] - r[c.m])
      [] c.op \in {"mul", "mulf"} -> Wrap(r[c.n] * r[c.m])
      [] c.op = "div"   -> Quotient(r[c.n], r[c.m])
      [] c.op = "sqrt"  -> Root(r[c.m])
      [] c.op = "and"   -> BitAnd(r[c.n], r[c.m])
      [] c.op = "or"    -> BitOr(r[c.n], r[c.m])
      [] c.op = "cmp_gt" -> Truth(r[c.n] > r[c.m])
      [] c.op = "cmp_eq" -> Truth(r[c.n] = r[c.m])
      [] c.op = "tst"   -> Truth(r[c.m] = 0)
      [] c.op \in {"sts", "lds", "flds", "fsts", "float", "ftrc", "movt"} -> r[c.m]

(* ... and the register it goes to.                                         *)
Target(c) ==
    CASE c.op \in {"cmp_gt", "cmp_eq", "tst"} -> "t"
      [] c.op = "mul" -> "macl"
      [] OTHER -> c.n

Size(c) == 1

(* The literal of a MOV.L is one; BRA, JMP and RTS act after the            *)
(* instruction behind them, which does nothing here.                        *)
Jumps == {"bt", "bra", "jmp"}

Sound(c, image, at) ==
    /\ c.op = "movl_pc" =>
          LET a == Longword(at + 2) + 2 * c.x
          IN  a \in DOMAIN image /\ image[a].op = "long"
    /\ c.op \in {"bra", "jmp", "return"} =>
          at + 1 \in DOMAIN image /\ image[at + 1].op = "nop"

Destination(c, r, at) ==
    CASE c.op = "bt" -> IF r["t"] = 1 THEN at + 2 + c.x ELSE at + 1
      [] c.op = "bra" -> at + 2 + c.x
      [] c.op = "jmp" -> r[c.n]
=============================================================================
