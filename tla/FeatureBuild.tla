----------------------------- MODULE FeatureBuild -----------------------------
(***************************************************************************)
(* feature-flash, from the graph of a feature to an ECU that runs it:       *)
(* lower makes a program of the graph, compile the code of each hook,       *)
(* gate_patch asks whether the pack lets it be written,                     *)
(* feature_patch::apply puts it into free places of the image with a jump   *)
(* at each hook and a manifest of what it wrote, build_flash_plan cuts the  *)
(* sectors that changed, and the ECU that was flashed with them comes       *)
(* through the hooks.                                                       *)
(*                                                                         *)
(* Addresses of the image count halfwords, addresses of RAM count bytes.    *)
(***************************************************************************)
EXTENDS CodeWords, FeatureGraph, RomSpace

CONSTANTS
    Graphs,        \* graphs of features, as their files give them
    Packs,         \* definition packs: processor, hooks, writable regions
    RomSize,       \* halfwords of an image
    SectorSize,    \* halfwords of a flash sector
    RamWords,      \* longwords of RAM
    LengthLimit,   \* halfwords from which the length of a record wraps
    DispLimit, Low,    \* of the processors' instructions: see Sh2aCode
    ShortReach         \* and Rh850Code

ASSUME CodeAssumption ==
    /\ Half \in Nat \ {0, 1} /\ Low \in Nat \ {0, 1}
    /\ DispLimit \in Nat \ {0, 1} /\ ShortReach \in Nat /\ RomSize \in Nat
    /\ LengthLimit \in Nat \ (0 .. 6)    \* more than a splice has

VARIABLES
    graph, pack,     \* of this build
    program,         \* ir::Module
    phase,           \* where feature-flash stands, then the ECU
    next,            \* the store compile looks at, the hook apply looks at
    order,           \* ordered_hooks
    works,           \* works: for each hook in order its code, slots and claims
    image,           \* PatchedRom::bytes
    cursors,         \* RomAllocator::cursors_
    claims,          \* the places it gave away
    records,         \* PatchedRom::manifest
    manifestAt,      \* PatchedRom::manifest_address
    car,             \* the flash of the ECU
    mem, regs, at,   \* its RAM, registers and program counter
    hook,            \* the hook it runs
    ran              \* for each hook it has entered, its RAM at that time

compileVars == <<next, order, works>>
patchVars   == <<image, cursors, claims, records, manifestAt>>
ecuVars     == <<mem, regs, at, hook, ran>>
vars == <<graph, pack, program, phase, compileVars, patchVars, car, ecuVars>>

NoAddress == -1       \* what a pack does not declare
NoHook == "none"

(* What the parser of a graph gives. *)
ASSUME GraphAssumption == \A g \in Graphs : IsGraph(g)

(* What the parser of a pack and feature-flash make sure of: regions of 32  *)
(* bits, and no site and no RAM before the first address.                   *)
ASSUME PackAssumption ==
    \A p \in Packs :
        /\ p.regions \in Seq([base : Address, length : Address, code : BOOLEAN])
        /\ \A h \in DOMAIN p.hooks :
              /\ p.hooks[h].splice \in Nat \cup {NoAddress}
              /\ p.hooks[h].base \in Nat \cup {NoAddress} /\ p.hooks[h].length \in Nat

Offsets == 0 .. RomSize - 1
Old(a)  == [Do("old", "none", "none") EXCEPT !.x = a]
Source  == [a \in Offsets |-> Old(a)]
Ram     == {4 * w : w \in 0 .. RamWords - 1}

Nothing == [h \in {} |-> 0]

(* The two backends, and what this build takes from the one it uses.        *)
Sh == INSTANCE Sh2aCode
Rh == INSTANCE Rh850Code

IsSh2a == pack.arch = "sh2a"
Fragment(symbol, o, dst) ==
    IF IsSh2a THEN Sh!Fragment(symbol, o, dst) ELSE Rh!Fragment(symbol, o, dst)
Copy(o, dst)   == IF IsSh2a THEN Sh!Copy(o, dst) ELSE Rh!Copy(o, dst)
Finalize(body) == IF IsSh2a THEN Sh!Finalize(body) ELSE Rh!Finalize(body)
InReach(body)  == IsSh2a => Sh!InReach(body)

IsStore(i) == i.op = "store"
Stores == AtPlaces(program, {n \in DOMAIN program : IsStore(program[n])})

Init ==
    /\ graph \in Graphs /\ pack \in Packs
    /\ phase = "lower" /\ program = <<>> /\ next = 1 /\ order = <<>> /\ works = Nothing
    /\ image = Source /\ cursors = <<>> /\ claims = <<>> /\ records = <<>>
    /\ manifestAt = NoAddress
    /\ car = Source
    /\ mem = [a \in Ram |-> 0] /\ regs = [r \in Sh!Registers \cup Rh!Registers |-> 0]
    /\ at = 0 /\ hook = NoHook /\ ran = Nothing
-----------------------------------------------------------------------------
(* from_toml, lower and select_backend: what is refused before compiling.   *)
Lower ==
    /\ phase = "lower"
    /\ IF /\ Readable(graph) /\ ~Cyclic(graph) /\ Lowered(graph).ok
          /\ pack.arch \in {"sh2a", "rh850"}
       THEN phase' = "compile" /\ program' = Lowered(graph).code
       ELSE phase' = "refused" /\ UNCHANGED program
    /\ UNCHANGED <<graph, pack, compileVars, patchVars, car, ecuVars>>
-----------------------------------------------------------------------------
(* compile, one store at a time; the two backends do it alike.              *)

Align4(n) == ((n + 3) \div 4) * 4

Fresh(h) == [code |-> <<>>, slots |-> Nothing, claims |-> {}, whole |-> TRUE,
             cursor |-> pack.hooks[h].base]

Work(h) == IF h \in DOMAIN works THEN works[h] ELSE Fresh(h)

(* RamAllocator: n claims of a longword in a row, and a mutant that does    *)
(* not look at the end of the hook's free RAM.                              *)
RoomUnchecked(h, cursor, n) == pack.hooks[h].length > 0
RamRoom(h, cursor, n) ==
    n > 0 => Align4(cursor) + 4 * n <= pack.hooks[h].base + pack.hooks[h].length

FirstOfEach(s) == AtPlaces(s, {k \in DOMAIN s : \A j \in 1 .. k - 1 : s[j] # s[k]})

(* The walk of emit_nested_call_primitive: a call after the calls it takes  *)
(* its operands from, each once.  Values are numbered by their place in the *)
(* program, operands before what uses them.                                 *)
IsCall(v) == program[v].op = "call"

Below[v \in 1 .. Len(program)] ==
    Joined([k \in 1 .. Len(program[v].operands) |->
              IF IsCall(program[v].operands[k])
              THEN Below[program[v].operands[k]] ELSE <<>>])
      \o <<v>>

Walk(v) == IF IsCall(v) THEN FirstOfEach(Below[v]) ELSE <<v>>

(* resolve_hook_input_address *)
InputAddress(i) ==
    IF i.symbol \in DOMAIN pack.hooks /\ i.pin \in DOMAIN pack.hooks[i.symbol].inputs
    THEN pack.hooks[i.symbol].inputs[i.pin] ELSE NoAddress

(* operand_from_producer; slot gives where the calls of the walk are kept.  *)
Operand(v, slot) ==
    CASE program[v].op = "const" -> Constant(program[v].value)
      [] program[v].op = "input" -> Pointer(InputAddress(program[v]))
      [] program[v].op = "call"  -> Pointer(slot[v])

Body(v, slot) ==
    IF IsCall(v)
    THEN Joined([k \in 1 .. Len(Walk(v)) |->
            LET c == Walk(v)[k]
            IN  Fragment(program[c].symbol,
                         [j \in 1 .. Len(program[c].operands) |->
                            Operand(program[c].operands[j], slot)],
                         slot[c])])
    ELSE Copy(Operand(v, slot), slot[v])

(* The values a store of v reads, and whether compile can make code of      *)
(* them: addresses known, primitives known, types as their shapes say.      *)
Reads(v) == ToSet(Walk(v)) \cup UNION {ToSet(program[c].operands) : c \in ToSet(Walk(v))}

Makeable(v) ==
    \A u \in Reads(v) :
        /\ program[u].op = "input" => InputAddress(program[u]) # NoAddress
        /\ IsCall(u) =>
              /\ program[u].symbol \in DOMAIN Shapes
              /\ program[u].type = Shapes[program[u].symbol].gives
              /\ [k \in DOMAIN program[u].operands |-> program[program[u].operands[k]].type]
                   = Shapes[program[u].symbol].takes

Declared(h) ==
    /\ h \in DOMAIN pack.hooks
    /\ pack.hooks[h].splice # NoAddress
    /\ pack.hooks[h].base # NoAddress /\ pack.hooks[h].length > 0

(* A pin keeps its slot; the values between get a slot for this store.      *)
CompileStore ==
    /\ phase = "compile" /\ next <= Len(Stores)
    /\ LET s == Stores[next]
           h == s.symbol
           v == s.operands[1]
           kept == s.pin \in DOMAIN Work(h).slots
           inner == SubSeq(Walk(v), 1, Len(Walk(v)) - 1)
           first == Align4(Work(h).cursor)
           claimed == Len(inner) + (IF kept THEN 0 ELSE 1)
           base == IF kept THEN first ELSE first + 4
           dst == IF kept THEN Work(h).slots[s.pin] ELSE first
           slot == [u \in ToSet(Walk(v)) |->
                      IF u = v THEN dst
                      ELSE base + 4 * ((CHOOSE k \in 1 .. Len(inner) : inner[k] = u) - 1)]
       IN  IF Declared(h) /\ RamRoom(h, Work(h).cursor, claimed) /\ Makeable(v)
           THEN /\ works' = [g \in DOMAIN works \cup {h} |->
                     IF g # h THEN works[g]
                     ELSE [code   |-> Work(h).code \o Finalize(Body(v, slot)),
                           slots  |-> [p \in DOMAIN Work(h).slots \cup {s.pin} |->
                                         IF p = s.pin THEN dst ELSE Work(h).slots[p]],
                           claims |-> Work(h).claims
                                        \cup {first + 4 * k : k \in 0 .. claimed - 1},
                           whole  |-> Work(h).whole /\ InReach(Body(v, slot)),
                           cursor |-> IF claimed = 0 THEN Work(h).cursor
                                      ELSE first + 4 * claimed]]
                /\ order' = IF h \in DOMAIN works THEN order ELSE Append(order, h)
                /\ next' = next + 1
                /\ UNCHANGED phase
           ELSE phase' = "refused" /\ UNCHANGED compileVars
    /\ UNCHANGED <<graph, pack, program, patchVars, car, ecuVars>>

(* gate_patch *)
Allowed(h) ==
    \E i \in DOMAIN pack.regions :
        LET r == pack.regions[i]
        IN  /\ r.base <= pack.hooks[h].splice
            /\ pack.hooks[h].splice + Len(works[h].code) <= r.base + r.length

CodeRegions ==
    LET code == AtPlaces(pack.regions,
                         {i \in DOMAIN pack.regions : pack.regions[i].code})
    IN  [i \in DOMAIN code |-> [base |-> code[i].base, length |-> code[i].length]]

Rom == INSTANCE RomAllocator WITH regions <- CodeRegions

Gate ==
    /\ phase = "compile" /\ next > Len(Stores)
    /\ IF (\A h \in ToSet(order) : Allowed(h)) /\ CodeRegions # <<>>
       THEN /\ phase' = "apply" /\ next' = 1
            /\ cursors' = Rom!Bases
       ELSE phase' = "refused" /\ UNCHANGED <<next, cursors>>
    /\ UNCHANGED <<graph, pack, program, order, works, image, claims, records, manifestAt,
                   car, ecuVars>>
-----------------------------------------------------------------------------
(* feature_patch::apply.                                                    *)

(* Claims are of whole longwords: two halfwords. *)
Roomy(size) == Rom!Roomy(size, 2) # {}
ClaimAt(size) == Rom!At(CHOOSE i \in DOMAIN cursors : Rom!Chosen(i, size, 2), 2)

(* emit_splice *)
Splice(site, target) ==
    IF IsSh2a THEN Sh!Splice(site, target) ELSE Rh!Splice(site, target)
Spliceable(site, target) == IsSh2a => Sh!Spliceable(site, target)

Written(rom, a, cells) ==
    [b \in Offsets |-> IF b \in Extent(a, Len(cells)) THEN cells[b - a + 1] ELSE rom[b]]
InImage(a, cells) == a + Len(cells) <= RomSize

(* A record has 16 bits for a length, and apply casts.                      *)
Record(a, cells) == [address |-> a, length |-> Len(cells) % LengthLimit]

(* A manifest that forgets the splices would not take them out again.       *)
CodeOnly(code, splice) == <<code>>
CodeTwice(code, splice) == <<code, splice, code>>
Recorded(code, splice) == <<code, splice>>

ApplyHook ==
    /\ phase = "apply" /\ next <= Len(order)
    /\ LET h    == order[next]
           code == works[h].code
           site == pack.hooks[h].splice
           a    == ClaimAt(Len(code))
       IN  IF /\ Roomy(Len(code)) /\ InImage(a, code)
              /\ Spliceable(site, a) /\ InImage(site, Splice(site, a))
           THEN /\ image' = Written(Written(image, a, code), site, Splice(site, a))
                /\ Rom!Claim(Len(code), 2)
                /\ records' = records
                     \o Recorded(Record(a, code), Record(site, Splice(site, a)))
                /\ next' = next + 1
                /\ UNCHANGED phase
           ELSE phase' = "refused" /\ UNCHANGED <<next, image, cursors, claims, records>>
    /\ UNCHANGED <<graph, pack, program, order, works, manifestAt, car, ecuVars>>

(* encode: eight bytes a record, and a record of zeros.                     *)
Encoded == [k \in 1 .. 4 * (Len(records) + 1) |->
              [Do("record", "none", "none") EXCEPT !.x = k]]

ApplyManifest ==
    /\ phase = "apply" /\ next > Len(order)
    /\ LET a == ClaimAt(Len(Encoded))
       IN  IF Roomy(Len(Encoded)) /\ InImage(a, Encoded)
           THEN /\ image' = Written(image, a, Encoded)
                /\ Rom!Claim(Len(Encoded), 2)
                /\ manifestAt' = a
                /\ phase' = "patched"
           ELSE phase' = "refused" /\ UNCHANGED <<image, cursors, claims, manifestAt>>
    /\ UNCHANGED <<graph, pack, program, compileVars, records, car, ecuVars>>

(* build_flash_plan, by compute_delta, and flashing its sectors.            *)
SectorOf(a) == a \div SectorSize
Planned == {SectorOf(a) : a \in {b \in Offsets : image[b] # Source[b]}}

FlashSectors ==
    /\ phase = "patched"
    /\ car' = [a \in Offsets |-> IF SectorOf(a) \in Planned THEN image[a] ELSE car[a]]
    /\ phase' = "flashed"
    /\ UNCHANGED <<graph, pack, program, compileVars, patchVars, ecuVars>>
-----------------------------------------------------------------------------
(* The ECU.                                                                 *)

InputsOf(h) == {pack.hooks[h].inputs[p] : p \in DOMAIN pack.hooks[h].inputs}
Inputs == UNION {InputsOf(h) : h \in DOMAIN pack.hooks} \ {NoAddress}

(* The engine runs: the variables of the firmware that the feature reads    *)
(* have any values.                                                         *)
ReadInputs ==
    LET stored == {Stores[n].operands[1] : n \in DOMAIN Stores}
    IN  {InputAddress(program[v]) :
           v \in {u \in UNION {Reads(v) : v \in stored} : program[u].op = "input"}}

Boot ==
    /\ phase = "flashed"
    /\ \E values \in [ReadInputs -> Word] :
          mem' = [a \in Ram |-> IF a \in ReadInputs THEN values[a] ELSE 0]
    /\ phase' = "car"
    /\ UNCHANGED <<graph, pack, program, compileVars, patchVars, car, regs, at, hook, ran>>

(* The firmware comes to a hook.                                            *)
Enter(h) ==
    /\ phase = "car" /\ hook = NoHook /\ h \notin DOMAIN ran
    /\ at' = pack.hooks[h].splice /\ hook' = h
    /\ ran' = [g \in DOMAIN ran \cup {h} |-> IF g = h THEN mem ELSE ran[g]]
    /\ UNCHANGED <<graph, pack, program, phase, compileVars, patchVars, car, mem, regs>>

Running == phase = "car" /\ hook # NoHook
Here == car[at]

(* Its processor, as far as this code uses it.                              *)
Computes == IF IsSh2a THEN Sh!Computes ELSE Rh!Computes
Jumps    == IF IsSh2a THEN Sh!Jumps ELSE Rh!Jumps
Sound    == IF IsSh2a THEN Sh!Sound(Here, car, at) ELSE Rh!Sound(Here, car, at)
Behind   == at + (IF IsSh2a THEN Sh!Size(Here) ELSE Rh!Size(Here))

(* What is here is code as the backend writes it.                           *)
Sane ==
    /\ at \in Offsets /\ Sound
    /\ \/ Here.op \in Computes /\ (Here.op = "load" => regs[Here.m] \in Ram)
       \/ Here.op = "store" /\ regs[Here.n] \in Ram
       \/ Here.op \in Jumps \cup {"return"}

Compute ==
    /\ Running /\ Sane /\ Here.op \in Computes
    /\ regs' = IF IsSh2a
               THEN [regs EXCEPT ![Sh!Target(Here)] = Sh!Result(Here, regs, mem, car, at)]
               ELSE [regs EXCEPT ![Rh!Target(Here)] = Rh!Result(Here, regs, mem, car, at)]
    /\ at' = Behind
    /\ UNCHANGED <<phase, mem, hook>>

Store ==
    /\ Running /\ Sane /\ Here.op = "store"
    /\ mem' = [mem EXCEPT ![regs[Here.n]] = regs[Here.m]]
    /\ at' = Behind
    /\ UNCHANGED <<phase, regs, hook>>

Jump ==
    /\ Running /\ Sane /\ Here.op \in Jumps
    /\ at' = IF IsSh2a THEN Sh!Destination(Here, regs, at) ELSE Rh!Destination(Here, regs, at)
    /\ UNCHANGED <<phase, mem, regs, hook>>

Return ==
    /\ Running /\ Sane /\ Here.op = "return"
    /\ hook' = NoHook
    /\ UNCHANGED <<phase, mem, regs, at>>

(* Anything else: where the ECU goes from here is unknown.                  *)
Stray ==
    /\ Running /\ ~Sane
    /\ phase' = "lost"
    /\ UNCHANGED <<mem, regs, at, hook>>

Execute == (Compute \/ Store \/ Jump \/ Return \/ Stray)
             /\ UNCHANGED <<graph, pack, program, compileVars, patchVars, car, ran>>

Next ==
    \/ Lower \/ CompileStore \/ Gate \/ ApplyHook \/ ApplyManifest \/ FlashSectors
    \/ Boot \/ (\E h \in ToSet(order) : Enter(h)) \/ Execute

Spec == Init /\ [][Next]_vars
-----------------------------------------------------------------------------
(* Properties.                                                              *)

Phases == {"lower", "compile", "refused", "apply", "patched", "flashed", "car", "lost"}

(* What lower and compile make is finite: a program whose operands stand    *)
(* before what uses them, and code of some length.                          *)
CompilesToCode ==
    /\ \A v \in DOMAIN program : ToSet(program[v].operands) \subseteq 1 .. v - 1
    /\ Len(Stores) \in Nat
    /\ \A h \in DOMAIN works : Len(works[h].code) \in Nat \ {0}

(* The types of the variables. *)
TypeOK ==
    /\ graph \in Graphs /\ pack \in Packs /\ phase \in Phases
    /\ CompilesToCode
    /\ next \in 1 .. Len(Stores) + 1
    /\ ToSet(order) = DOMAIN works /\ DOMAIN works \subseteq DOMAIN pack.hooks
    /\ DOMAIN image = Offsets /\ DOMAIN car = Offsets
    /\ \A i \in DOMAIN cursors : cursors[i] \in Nat
    /\ Len(records) <= 2 * Len(order) /\ Len(claims) <= Len(order) + 1
    /\ DOMAIN mem = Ram /\ DOMAIN regs = Sh!Registers \cup Rh!Registers
    /\ hook \in DOMAIN works \cup {NoHook} /\ DOMAIN ran \subseteq DOMAIN works

(* What a pack promises and nothing checks: code regions, the places a      *)
(* splice may take and the free RAM of its hooks do not overlap.            *)
Site(h) == Extent(pack.hooks[h].splice, Len(IF IsSh2a THEN Sh!LongSplice(0) ELSE Rh!LongSplice(0)))
FreeRam(h) == Extent(pack.hooks[h].base, pack.hooks[h].length)

PackApart ==
    /\ Rom!RegionsApart
    /\ Disjoint([h \in DOMAIN works |-> Site(h)])
    /\ Disjoint([h \in DOMAIN works |-> FreeRam(h)])
    /\ \A h \in DOMAIN works :
          /\ FreeRam(h) \cap Inputs = {}
          /\ \A i \in DOMAIN CodeRegions : Site(h) \cap Rom!Region(i) = {}

(* What an output pin of the graph gives, and an input pin gets, with this  *)
(* RAM: primitives as they are meant, hooks the variables of the firmware.  *)
(* Where no word holds a quotient the processors differ, and each may.      *)
Means(symbol, v) ==
    IF symbol = "divide_int" /\ ~IsSh2a THEN Wrap(Truncated(v[1], v[2])) ELSE Meaning(symbol, v)

Gives(ram) ==
    LET of[o \in Nodes(graph) \X Nat] ==
          LET n == graph.nodes[o[1]]
              ins == PinsOf(graph, o[1], FALSE)
              gets(k) == LET d == Driver(graph, o[1], k)
                         IN  IF d # <<>> THEN of[d[1].from, d[1].fpin]
                             ELSE n.pins[k].default[1]
          IN  IF ~n.hook THEN Means(n.symbol, [j \in DOMAIN ins |-> gets(ins[j])])
              ELSE IF n.pins[o[2]].out
                   THEN ram[pack.hooks[n.symbol].inputs[n.pins[o[2]].name]]
                   ELSE gets(o[2])
    IN  of

Sourced ==
    \A i \in Nodes(graph) : \A k \in ToSet(PinsOf(graph, i, FALSE)) :
        Driver(graph, i, k) # <<>> \/ Pin(graph, i, k).default # <<>>

Done(h) == h \in DOMAIN ran /\ h # hook

(* The inputs of a hook in the order in which the graph is visited.         *)
InputsAt(h) ==
    LET visited == SelectSeq(Schedule(graph), LAMBDA v :
                       LET n == graph.nodes[NodeOf(v)]
                       IN  IsInSide(v) /\ n.hook /\ n.symbol = h)
        pins(v) == LET ins == PinsOf(graph, NodeOf(v), FALSE)
                   IN  [j \in DOMAIN ins |-> <<NodeOf(v), ins[j]>>]
    IN  FlattenSeq([n \in DOMAIN visited |-> pins(visited[n])])

NameOf(o)   == Pin(graph, o[1], o[2]).name
Holds(h, o) == mem[works[h].slots[NameOf(o)]] = Gives(ran[h])[o]

(* lower finds what a node takes: it fails only for an input that has no    *)
(* driver and no default, never for the order of the nodes.                 *)
SourcesAreFound ==
    phase = "lower" /\ Readable(graph) /\ ~Cyclic(graph) /\ Sourced => Lowered(graph).ok

(* A graph without a cycle whose inputs all have a source is lowered: each  *)
(* driver was visited before ("graph topology bug?" never shows).  And      *)
(* once the ECU has come through a hook, the slot of the first pin stored   *)
(* there holds the value the graph gives it for the firmware's variables at *)
(* that time, and the ECU is back in the firmware.  Only the first: the     *)
(* code of a store ends with a return.                                      *)
PinsHoldTheGraph ==
    /\ SourcesAreFound
    /\ PackApart /\ (\A h \in DOMAIN works : works[h].whole) =>
        /\ phase # "lost"
        /\ \A h \in DOMAIN works : Done(h) => Holds(h, InputsAt(h)[1])

(* The code of a hook writes into the free RAM the pack gives that hook and *)
(* nowhere else.                                                            *)
OnlyOwnRam ==
    [][phase = "car" /\ PackApart =>
         \A a \in Ram : mem'[a] # mem[a] =>
            hook # NoHook /\ Extent(a, 4) \subseteq FreeRam(hook)]_vars

(* Each halfword of the image that is not the old one is in a record, or in *)
(* the manifest, so that the records tell what to restore.  Only a code as  *)
(* long as the length of a record can say, or longer, is not in its record  *)
(* to its end: the length was cut to 16 bits.                               *)
PatchAccounted ==
    \A a \in Offsets : image[a] # Source[a] =>
        \/ \E i \in DOMAIN records : a \in Extent(records[i].address, records[i].length)
        \/ manifestAt # NoAddress /\ a \in Extent(manifestAt, Len(Encoded))
        \/ \E k \in DOMAIN claims : claims[k].length >= LengthLimit /\ a \in Rom!Taken(k)

(* No two claims of code or manifest overlap, and each lies in one code     *)
(* region of the pack.                                                      *)
ClaimsApart == Rom!ClaimsApart

(* compile: "Two writes to the same pin share the slot -- the second emit   *)
(* overwrites the first at runtime, which is the expected semantic."  The   *)
(* second fragment lies behind the return of the first and never runs.      *)
EveryStoreRuns ==
    \A h \in DOMAIN works : Done(h) /\ phase = "car" =>
        \A p \in DOMAIN works[h].slots :
            Holds(h, Last(SelectSeq(InputsAt(h), LAMBDA o : NameOf(o) = p)))
=============================================================================
