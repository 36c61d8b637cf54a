---------------------------- MODULE MCFeatureBuild ----------------------------
(* Instances of FeatureBuild for TLC.                                       *)
EXTENDS FeatureBuild

OutPin(name, type) == [name |-> name, out |-> TRUE, type |-> type, default |-> <<>>]
InPin(name, type) == [name |-> name, out |-> FALSE, type |-> type, default |-> <<>>]
Default(name, type, v) == [InPin(name, type) EXCEPT !.default = <<v>>]

Node(isHook, symbol, pins) == [hook |-> isHook, symbol |-> symbol, pins |-> pins]
Edge(from, fpin, to, tpin) == [from |-> from, fpin |-> fpin, to |-> to, tpin |-> tpin]
Graph(nodes, edges) == [nodes |-> nodes, edges |-> edges]

(* Hooks give what they do at pins 1 and 2 and take a value at pin 3.       *)
A(gives, takes) ==
    Node(TRUE, "A", <<OutPin("x", gives), OutPin("y", gives), InPin("p", takes)>>)
B(gives, takes) ==
    Node(TRUE, "B", <<OutPin("x", gives), OutPin("z", gives), InPin("q", takes)>>)
SourceA(gives) == Node(TRUE, "A", <<OutPin("x", gives), OutPin("y", gives)>>)
SourceB(gives) == Node(TRUE, "B", <<OutPin("x", gives)>>)

(* A primitive has its inputs first, and its output last.                   *)
Prim(f) ==
    LET s == Shapes[f]
    IN  Node(FALSE, f, [k \in 1 .. Len(s.takes) |-> InPin(k, s.takes[k])]
                         \o <<OutPin(0, s.gives)>>)
WithDefault(node, k, v) == [node EXCEPT !.pins[k].default = <<v>>]

(* One primitive of two inputs, for every primitive on numbers.             *)
OnNumbers == {f \in DOMAIN Shapes : Len(Shapes[f].takes) = 2 /\ Shapes[f].takes[1] # "bool"}
Simple ==
    {Graph(<<A(Shapes[f].takes[1], Shapes[f].gives), Prim(f)>>,
           <<Edge(1, 1, 2, 1), Edge(1, 2, 2, 2), Edge(2, 3, 1, 3)>>) : f \in OnNumbers}

OfOne == {Graph(<<Prim(f), A("float", "float")>>, <<Edge(2, 1, 1, 1), Edge(1, 2, 2, 3)>>) :
            f \in {"sqrt_float", "flex_fuel_scale"}}

(* The other primitives, on comparisons; a value of one hook stored at      *)
(* another; a value used twice; consumers that come before what they use; a *)
(* chain too long for its literals.                                         *)
Choice(type) ==
    Graph(<<Prim("subtract_" \o type), WithDefault(Prim("select_" \o type), 2, -1),
            Prim("compare_lt_" \o type), A(type, type)>>,
          <<Edge(4, 1, 3, 1), Edge(4, 2, 3, 2), Edge(3, 3, 2, 1), Edge(4, 2, 2, 3),
            Edge(2, 4, 1, 1), Edge(4, 2, 1, 2), Edge(1, 3, 4, 3)>>)

Compared(last, first) ==
    Graph(<<SourceA("int"), B("int", "bool"), Prim("compare_gt_int"), Prim("compare_lt_int"),
            Prim(first), Prim(last)>>,
          <<Edge(1, 1, 3, 1), Edge(2, 1, 3, 2), Edge(1, 1, 4, 1), Edge(2, 1, 4, 2),
            Edge(3, 3, 5, 1), Edge(5, 2, 6, 1), Edge(4, 3, 6, 2), Edge(6, 3, 2, 3)>>)

Either ==
    Graph(<<A("int", "bool"), Prim("compare_lt_int"), Prim("compare_gt_int"),
            Prim("select_bool")>>,
          <<Edge(1, 1, 2, 1), Edge(1, 2, 2, 2), Edge(1, 1, 3, 1), Edge(1, 2, 3, 2),
            Edge(2, 3, 4, 1), Edge(2, 3, 4, 2), Edge(3, 3, 4, 3), Edge(4, 4, 1, 3)>>)

Twice ==
    Graph(<<A("int", "int"), WithDefault(Prim("add_int"), 2, 2), Prim("multiply_int"),
            Prim("subtract_int")>>,
          <<Edge(1, 1, 2, 1), Edge(2, 3, 3, 1), Edge(2, 3, 3, 2), Edge(3, 3, 4, 1),
            Edge(2, 3, 4, 2), Edge(4, 3, 1, 3)>>)

Chain ==
    Graph(<<A("int", "int")>> \o [n \in 1 .. 5 |-> Prim("add_int")],
          <<Edge(1, 1, 2, 1), Edge(1, 1, 2, 2)>>
            \o FlattenSeq([n \in 1 .. 4 |-> <<Edge(n + 1, 3, n + 2, 1), Edge(1, 1, n + 2, 2)>>])
            \o <<Edge(6, 3, 1, 3)>>)

Nested == {Choice("int"), Choice("float"), Compared("or_bool", "not_bool"),
           Compared("and_bool", "not_bool"), Either, Twice, Chain}

(* Two stores: at two hooks, at two pins, at one pin of two nodes.          *)
TwoHooks ==
    Graph(<<A("int", "int"), B("int", "int"), Prim("subtract_int")>>,
          <<Edge(1, 1, 3, 1), Edge(2, 1, 3, 2), Edge(3, 3, 1, 3), Edge(1, 1, 2, 3)>>)
TwoPins ==
    Graph(<<SourceA("int"),
            Node(TRUE, "A", <<Default("p", "int", 3), InPin("q", "int")>>)>>,
          <<Edge(1, 1, 2, 2)>>)
TwoNodes ==
    Graph(<<A("int", "int"), Node(TRUE, "A", <<Default("p", "int", 3)>>)>>,
          <<Edge(1, 1, 1, 3)>>)
Several == {TwoHooks, TwoPins, TwoNodes}

(* Refused: an input with no source; two types; two drivers; a cycle; an    *)
(* unknown primitive; a primitive whose node has other pins; an input of    *)
(* the pack without an address; no such hook.                               *)
One(node) == Graph(<<A("int", "int"), node>>,
                   <<Edge(1, 1, 2, 1), Edge(1, 2, 2, 2), Edge(2, 3, 1, 3)>>)
Bad == {Graph(<<A("int", "int")>>, <<>>),
        One(Prim("add_float")),
        Graph(<<A("int", "int")>>, <<Edge(1, 1, 1, 3), Edge(1, 2, 1, 3)>>),
        Graph(<<A("int", "int"), Prim("add_int")>>,
              <<Edge(1, 1, 2, 1), Edge(2, 3, 2, 2), Edge(2, 3, 1, 3)>>),
        One([Prim("add_int") EXCEPT !.symbol = "lookup"]),
        One([Prim("add_int") EXCEPT !.symbol = "add_float"]),
        Graph(<<A("int", "int"), B("int", "int")>>, <<Edge(2, 2, 1, 3), Edge(1, 1, 2, 3)>>),
        Graph(<<Node(TRUE, "C", <<Default("p", "int", 1)>>)>>, <<>>)}

Every == Simple \cup OfOne \cup Nested \cup Several \cup Bad
TwoStores == Several

Hook(splice, base, length, inputs) ==
    [splice |-> splice, base |-> base, length |-> length, inputs |-> inputs]
Place(base, length, code) == [base |-> base, length |-> length, code |-> code]

Ax == [x |-> 0, y |-> 4]
Bx == [x |-> 8, z |-> NoAddress]

(* The first code region is far from A and near to B.  Lean has little free *)
(* RAM; in Tight the first code region is smaller and the second ends past  *)
(* the image; in Odd A is at no longword, which a long splice needs, and    *)
(* the second region ends at the last address; in Mixed B's site is where   *)
(* code is put; Fenced leaves less room at A's site than its code is long;  *)
(* the last two are for the other processor and for none that is known.     *)
Plenty == [arch |-> "sh2a",
          hooks |-> [A |-> Hook(2, 12, 20, Ax), B |-> Hook(112, 34, 20, Bx)],
          regions |-> <<Place(0, 70, FALSE), Place(71, 39, TRUE), Place(110, 70, FALSE),
                        Place(180, 90, TRUE)>>]
Lean == [Plenty EXCEPT !.hooks.A.length = 9, !.hooks.B.length = 6]
Tight == [Plenty EXCEPT !.regions[2].length = 19, !.regions[4] = Place(250, 25, TRUE)]
Odd == [Plenty EXCEPT !.hooks.A.splice = 3, !.regions[4] = Place(180, 96, TRUE)]
Mixed == [Plenty EXCEPT !.hooks.B.splice = 196]
Fenced == [Plenty EXCEPT !.regions[1].length = 15]
Other == [Plenty EXCEPT !.arch = "rh850", !.regions[1].length = 110,
                        !.regions[3].length = 110]
Unknown == [Plenty EXCEPT !.arch = "none"]

EveryPack == {Plenty, Lean, Tight, Odd, Mixed, Fenced, Other, Unknown}
OnePack == {Plenty}
=============================================================================
