----------------------------- MODULE FeatureGraph -----------------------------
(***************************************************************************)
(* The graph of a feature, and its lowering to instructions.                *)
(*                                                                         *)
(* A node has pins; an edge goes from an output pin of one node to an input *)
(* pin of another.  Nodes and pins are known by their places.  A hook (a    *)
(* phase break) gives the firmware's values at its outputs before, and      *)
(* takes the feature's at its inputs after, so that it may be at both ends  *)
(* of a chain.                                                              *)
(***************************************************************************)
EXTENDS Integers, SequencesExt, Lists

Nodes(g)     == DOMAIN g.nodes
Pin(g, i, k) == g.nodes[i].pins[k]
PinsOf(g, i, out) ==
    LET all == [k \in DOMAIN g.nodes[i].pins |-> k]
    IN  AtPlaces(all, {k \in DOMAIN all : Pin(g, i, k).out = out})

(* What the parser of a graph gives. *)
IsGraph(g) ==
    /\ IsList(g.nodes) /\ IsList(g.edges)
    /\ \A i \in Nodes(g) :
          /\ g.nodes[i].hook \in BOOLEAN /\ IsList(g.nodes[i].pins)
          /\ \A k \in DOMAIN g.nodes[i].pins : Pin(g, i, k).out \in BOOLEAN

(* connect, called for one edge after the other when a graph is read: both  *)
(* pins there, the directions right, one type, one driver of an input.      *)
Connects(g, n) ==
    LET e == g.edges[n]
        there(i, k) == i \in Nodes(g) /\ k \in DOMAIN g.nodes[i].pins
    IN  /\ there(e.from, e.fpin) /\ there(e.to, e.tpin)
        /\ Pin(g, e.from, e.fpin).out /\ ~Pin(g, e.to, e.tpin).out
        /\ Pin(g, e.from, e.fpin).type = Pin(g, e.to, e.tpin).type
        /\ \A k \in 1 .. n - 1 :
              <<g.edges[k].to, g.edges[k].tpin>> # <<e.to, e.tpin>>

Readable(g) == \A n \in DOMAIN g.edges : Connects(g, n)

(* validate: no cycle, where a path ends at a hook's inputs.                *)
Cyclic(g) ==
    \E S \in SUBSET {i \in Nodes(g) : ~g.nodes[i].hook} :
        /\ S # {}
        /\ \A i \in S : \E n \in DOMAIN g.edges : g.edges[n].from = i /\ g.edges[n].to \in S
-----------------------------------------------------------------------------
(* schedule: each node is two vertices, its outputs and its inputs, and the *)
(* outputs of a node that is no hook come after its inputs.  The vertex     *)
(* that became ready last is taken first.                                   *)

OutSide(i) == 2 * i
InSide(i)  == 2 * i + 1
IsInSide(v) == v % 2 = 1
NodeOf(v)   == v \div 2

Vertices(g) == [n \in 1 .. 2 * Len(g.nodes) |-> n + 1]

After(g, v) ==
    IF IsInSide(v) THEN IF g.nodes[NodeOf(v)].hook THEN <<>> ELSE <<OutSide(NodeOf(v))>>
    ELSE LET from == AtPlaces(g.edges, {n \in DOMAIN g.edges : g.edges[n].from = NodeOf(v)})
         IN  [n \in DOMAIN from |-> InSide(from[n].to)]

(* The arcs into a vertex: another, and a place among those it is before.   *)
ArcsInto(g, v) ==
    UNION {{<<u, k>> : k \in {n \in DOMAIN After(g, u) : After(g, u)[n] = v}} :
             u \in ToSet(Vertices(g))}

InDegree(g, v) == Cardinality(ArcsInto(g, v))

Release(s, w) ==
    [waits |-> [s.waits EXCEPT ![w] = @ - 1],
     ready |-> IF s.waits[w] = 1 THEN Append(s.ready, w) ELSE s.ready,
     order |-> s.order]

TakeLast(g, s) ==
    LET after == After(g, Last(s.ready))
        without == [waits |-> s.waits, ready |-> Front(s.ready),
                    order |-> Append(s.order, Last(s.ready))]
        released[n \in 0 .. Len(after)] ==
          IF n = 0 THEN without ELSE Release(released[n - 1], after[n])
    IN  IF s.ready = <<>> THEN s ELSE released[Len(after)]

Schedule(g) ==
    LET waits == [v \in ToSet(Vertices(g)) |-> InDegree(g, v)]
        start == [waits |-> waits, order |-> <<>>,
                  ready |-> AtPlaces(Vertices(g),
                                     {n \in DOMAIN Vertices(g) : waits[n + 1] = 0})]
        taken[n \in 0 .. 2 * Len(g.nodes)] ==
          IF n = 0 THEN start ELSE TakeLast(g, taken[n - 1])
    IN  taken[2 * Len(g.nodes)].order
-----------------------------------------------------------------------------
(* lower, with the module m under construction: its code, the value of each *)
(* output pin that has one, the operands taken for the node at hand, and    *)
(* whether all went well.  A value is the place of the instruction.         *)

Instruction(op, symbol, p, operands, value) ==
    [op |-> op, symbol |-> symbol, pin |-> p.name, type |-> p.type,
     operands |-> operands, value |-> value]

Emit(m, ins) == [m EXCEPT !.code = Append(@, ins)]

Driver(g, i, k) ==
    AtPlaces(g.edges, {n \in DOMAIN g.edges : g.edges[n].to = i /\ g.edges[n].tpin = k})

(* The operand of an input pin: its driver's value, or its default.         *)
Take(g, m, i, k) ==
    LET d == Driver(g, i, k)
        p == Pin(g, i, k)
    IN  CASE d # <<>> /\ <<d[1].from, d[1].fpin>> \in DOMAIN m.of ->
               [m EXCEPT !.taken = Append(@, m.of[d[1].from, d[1].fpin])]
          [] d = <<>> /\ p.default # <<>> ->
               [Emit(m, Instruction("const", "none", p, <<>>, p.default[1]))
                  EXCEPT !.taken = Append(@, Len(m.code) + 1)]
          [] OTHER -> [m EXCEPT !.ok = FALSE]

(* An instruction that gives an output pin its value: of a hook what the    *)
(* firmware has there, of a primitive what it makes of its operands.        *)
Give(g, m, i, k) ==
    [Emit(m, IF g.nodes[i].hook
             THEN Instruction("input", g.nodes[i].symbol, Pin(g, i, k), <<>>, 0)
             ELSE Instruction("call", g.nodes[i].symbol, Pin(g, i, k), m.taken, 0))
       EXCEPT !.of = [o \in DOMAIN @ \cup {<<i, k>>} |->
                        IF o = <<i, k>> THEN Len(m.code) + 1 ELSE @[o]]]

Put(g, m, i, k) ==
    LET n == Take(g, [m EXCEPT !.taken = <<>>], i, k)
    IN  Emit(n, Instruction("store", g.nodes[i].symbol, Pin(g, i, k), n.taken, 0))

AtPin(g, m, i, k, how) ==
    CASE how = "take" -> Take(g, m, i, k)
      [] how = "put"  -> Put(g, m, i, k)
      [] how = "give" -> Give(g, m, i, k)

EachPin(g, m, i, pins, how) ==
    LET done[n \in 0 .. Len(pins)] ==
          IF n = 0 THEN m ELSE AtPin(g, done[n - 1], i, pins[n], how)
    IN  done[Len(pins)]

Visit(g, m, v) ==
    LET i == NodeOf(v)
        ins == PinsOf(g, i, FALSE)
        outs == PinsOf(g, i, TRUE)
        n == EachPin(g, [m EXCEPT !.taken = <<>>], i, ins, "take")
    IN  CASE ~m.ok -> m
          [] m.ok /\ g.nodes[i].hook /\ IsInSide(v) -> EachPin(g, m, i, ins, "put")
          [] m.ok /\ g.nodes[i].hook /\ ~IsInSide(v) -> EachPin(g, m, i, outs, "give")
          [] m.ok /\ ~g.nodes[i].hook /\ IsInSide(v) -> m
          [] m.ok /\ ~g.nodes[i].hook /\ ~IsInSide(v) -> EachPin(g, n, i, outs, "give")

Empty == [code |-> <<>>, of |-> [o \in {} |-> 0], taken |-> <<>>, ok |-> TRUE]

Lowered(g) ==
    LET s == Schedule(g)
        visited[n \in 0 .. Len(s)] == IF n = 0 THEN Empty ELSE Visit(g, visited[n - 1], s[n])
    IN  visited[Len(s)]
=============================================================================
