---------------------------- MODULE EtsClientProofs ----------------------------
(***************************************************************************)
(* What a client of the AccessPort may rely on, whatever the device does    *)
(* and however many calls are made: while no exchange has lapsed, replies   *)
(* find their requests, and a write or remove that returned success is      *)
(* durable.                                                                 *)
(*                                                                          *)
(* The invariant says that one exchange at a time is on the wire, that all  *)
(* that is there belongs to it, and what the requests of its verb that were *)
(* answered have done to the device.                                        *)
(***************************************************************************)
EXTENDS EtsClient, Integers, TLAPS

(* The channel carries one exchange at a time: a client has one thread that *)
(* calls verbs, or only verbs that the worker runs.                         *)
OneAtATime == DirectVerbs = {} \/ \A c, d \in Callers : c = d

(* Who is in an exchange: a thread of a direct call, when the worker has    *)
(* nothing to do, or the worker.                                            *)
WhoWorks ==
    /\ \A c \in Callers :
         /\ exec[c] # Resting <=> caller[c].at = "direct"
         /\ caller[c].at = "direct" => queue = <<>> /\ state # "run" /\ DirectVerbs # {}
    /\ \A i \in 1 .. Len(queue) : queue[i].file \in FilesOf(queue[i].verb)

(* What a verb has left to send.  The requests that change a file come in   *)
(* the order of the script, with the remount right behind the last of them. *)
VaultChanges == {"putSetup", "putData", "remove"}

Allowed(verb) ==
    Commands \ CASE verb = "write"  -> {"remove"}
                  [] verb = "remove" -> {"putSetup", "putData"}
                  [] OTHER           -> VaultChanges

Follows(verb, a, b) ==
    /\ verb = "write" => /\ b = "putData" <=> a = "putSetup"
                         /\ b = "remount" <=> a = "putData"
                         /\ a # "remount"
    /\ verb = "remove" => /\ b = "remount" <=> a = "remove"
                          /\ a # "remount"

Plan(verb, todo) ==
    /\ todo # <<>>
    /\ \A i \in 1 .. Len(todo) : todo[i] \in Allowed(verb)
    /\ \A i \in 1 .. Len(todo) - 1 : Follows(verb, todo[i], todo[i + 1])
    /\ verb \in {"write", "remove"} => todo[Len(todo)] = "remount"

PlansOK ==
    \A t \in Threads :
        exec[t] # Resting =>
            /\ exec[t].at # "idle" /\ exec[t].task \in Tasks
            /\ exec[t].verb \in Verbs /\ exec[t].file \in FilesOf(exec[t].verb)
            /\ Plan(exec[t].verb, exec[t].todo)

(* A device without power has nothing on the wire.                          *)
Empty == out = <<>> /\ in = <<>> /\ sending = NoReply

WhoInv == TypeOK /\ WhoWorks /\ PlansOK /\ (~up => Empty)

(* What the device did when it answered the request of thread t.            *)
Effected(t) ==
    LET e == exec[t]
    IN  /\ Current(t) = "putSetup" => armed = e.file
        /\ Current(t) = "putData" => vault[e.file] = "new"
        /\ Current(t) = "remove" => vault[e.file] = "absent"
        /\ Current(t) = "remount" => durable = vault

Answers(t, r) ==
    /\ r.task = exec[t].task /\ r.cmd = Current(t) /\ r.file = exec[t].file
    /\ r.ok /\ up => Effected(t)

Part(part, r) == [part |-> part, reply |-> r]

(* While no exchange has lapsed, all that is on the wire belongs to the     *)
(* exchange that waits.                                                     *)
HeadOK(t) ==
    \/ Empty
    \/ /\ out = <<[task |-> exec[t].task, cmd |-> Current(t), file |-> exec[t].file]>>
       /\ in = <<>> /\ sending = NoReply
    \/ /\ out = <<>>
       /\ \E r \in Replies :
            /\ Answers(t, r)
            /\ \/ in = <<Part("head", r)>> /\ sending = r
               \/ in = <<Part("head", r), Part("rest", r)>> /\ sending = NoReply

RestOK(t) ==
    /\ Answers(t, exec[t].got) /\ out = <<>>
    /\ \/ in = <<>> /\ (sending = exec[t].got \/ (~up /\ sending = NoReply))
       \/ in = <<Part("rest", exec[t].got)>> /\ sending = NoReply

WireOK ==
    /\ (\A t \in Threads : exec[t].at \in {"idle", "send"}) => Empty
    /\ \A t \in Threads : exec[t].at = "head" => HeadOK(t)
    /\ \A t \in Threads : exec[t].at = "rest" => RestOK(t)

(* What the requests of a write or a remove have done so far.               *)
Done(t) ==
    LET e == exec[t]
    IN  /\ up /\ e.verb = "write" => /\ Current(t) = "putData" => armed = e.file
                                     /\ Current(t) = "remount" => vault[e.file] = "new"
        /\ up /\ e.verb = "remove" /\ Current(t) = "remount" => vault[e.file] = "absent"
        /\ e.verb = "write" /\ (\/ Current(t) \in {"putData", "remount"}
                                \/ Current(t) = "putSetup" /\ e.at # "send") =>
             acked[e.file] = "none"
        /\ e.verb = "remove" /\ (\/ Current(t) = "remount"
                                 \/ Current(t) = "remove" /\ e.at # "send") =>
             acked[e.file] = "none"

Promised ==
    \A f \in Files : acked[f] # "none" => vault[f] = acked[f] /\ durable[f] = acked[f]

DeliveryInv ==
    ~lapsed => WireOK /\ Promised /\ \A t \in Threads : exec[t] # Resting => Done(t)

-----------------------------------------------------------------------------
(* Sequences and plans.                                                     *)

LEMMA HeadFact ==
  ASSUME NEW S, NEW s \in Seq(S), s # <<>>
  PROVE  /\ Len(s) \in Nat /\ Len(s) > 0 /\ Head(s) = s[1] /\ Head(s) \in S
         /\ Tail(s) \in Seq(S) /\ Len(Tail(s)) = Len(s) - 1
         /\ \A i \in 1 .. Len(s) - 1 : Tail(s)[i] = s[i + 1]
<1>1. Len(s) \in Nat /\ Len(s) # 0
  OBVIOUS
<1> QED
  BY <1>1

(* A sequence with one element, or with more.                               *)
LEMMA TailFact ==
  ASSUME NEW S, NEW s \in Seq(S), s # <<>>
  PROVE  /\ Tail(s) = <<>> => Len(s) = 1
         /\ Tail(s) # <<>> => 1 \in 1 .. Len(s) - 1 /\ Head(Tail(s)) = s[2]
<1>1. PICK n \in Nat : n = Len(s)
  OBVIOUS
<1>2. PICK rest \in Seq(S) : rest = Tail(s)
  BY HeadFact
<1>3. n > 0 /\ Len(rest) = n - 1 /\ \A i \in 1 .. n - 1 : rest[i] = s[i + 1]
  BY <1>1, <1>2, HeadFact
<1>4. CASE rest = <<>>
  <2>1. n - 1 = 0
    BY <1>3, <1>4
  <2> QED
    BY <1>1, <1>2, <1>3, <1>4, <2>1
<1>5. CASE rest # <<>>
  <2>1. PICK m \in Nat : m = Len(rest)
    OBVIOUS
  <2>2. m > 0 /\ Head(rest) = rest[1]
    BY <1>5, <2>1, HeadFact
  <2>3. m = n - 1
    BY <1>3, <2>1
  <2>4. 1 \in 1 .. n - 1 /\ 1 + 1 = 2
    BY <1>3, <2>2, <2>3
  <2> QED
    BY <1>1, <1>2, <1>3, <1>5, <2>2, <2>4
<1> QED
  BY <1>4, <1>5

LEMMA PairFact ==
  \A a, b : /\ Head(<<a>>) = a /\ Tail(<<a>>) = <<>> /\ <<a>> # <<>>
            /\ Head(<<a, b>>) = a /\ Tail(<<a, b>>) = <<b>>
            /\ Append(<<a>>, b) = <<a, b>>
<1> SUFFICES ASSUME NEW a, NEW b
             PROVE  /\ Head(<<a>>) = a /\ Tail(<<a>>) = <<>> /\ <<a>> # <<>>
                    /\ Head(<<a, b>>) = a /\ Tail(<<a, b>>) = <<b>>
                    /\ Append(<<a>>, b) = <<a, b>>
  OBVIOUS
<1>1. Head(<<a>>) = a /\ <<a>> # <<>> /\ Head(<<a, b>>) = a
  OBVIOUS
<1>2. Tail(<<a>>) = <<>>
  OBVIOUS
<1>3. Tail(<<a, b>>) = <<b>>
  OBVIOUS
<1>4. Append(<<a>>, b) = <<a, b>>
  <2>1. PICK x : x = <<a>> /\ x \in Seq({a, b}) /\ Len(x) = 1 /\ x[1] = a
    <3>1. <<a>> \in Seq({a, b}) /\ Len(<<a>>) = 1 /\ <<a>>[1] = a
      OBVIOUS
    <3> QED
      BY <3>1, Zenon
  <2>2. PICK y : y = <<a, b>> /\ y \in Seq({a, b}) /\ Len(y) = 2 /\ y[1] = a /\ y[2] = b
    <3>1. /\ <<a, b>> \in Seq({a, b}) /\ Len(<<a, b>>) = 2
          /\ <<a, b>>[1] = a /\ <<a, b>>[2] = b
      OBVIOUS
    <3> QED
      BY <3>1, Zenon
  <2>3. Append(x, b) \in Seq({a, b}) /\ Len(Append(x, b)) = 2
        /\ Append(x, b)[1] = a /\ Append(x, b)[2] = b
    BY <2>1
  <2>4. \A s, u \in Seq({a, b}) :
          Len(s) = 2 /\ Len(u) = 2 /\ s[1] = u[1] /\ s[2] = u[2] => s = u
    <3> SUFFICES ASSUME NEW s \in Seq({a, b}), NEW u \in Seq({a, b}), Len(s) = 2, Len(u) = 2,
                        s[1] = u[1], s[2] = u[2]
                 PROVE  s = u
      OBVIOUS
    <3>1. \A i \in 1 .. 2 : i = 1 \/ i = 2
      OBVIOUS
    <3>2. \A i \in 1 .. 2 : s[i] = u[i]
      BY <3>1
    <3> QED
      BY <3>2
  <2>5. Append(x, b) = y
    BY <2>2, <2>3, <2>4
  <2> QED
    BY <2>1, <2>2, <2>5
<1> QED
  BY <1>1, <1>2, <1>3, <1>4

LEMMA SuffixFact ==
  ASSUME NEW S, NEW s \in Seq(S), NEW n \in Nat, n <= Len(s)
  PROVE  SubSeq(s, n + 1, Len(s)) \in Seq(S)
<1>1. PICK l \in Nat : l = Len(s)
  OBVIOUS
<1>2. \A i \in n + 1 .. l : s[i] \in S
  BY <1>1
<1> QED
  BY <1>1, <1>2

LEMMA WarmFact ==
  /\ WarmUp \in Seq(Commands) /\ Len(WarmUp) = 6
  /\ \A i \in 1 .. 6 : WarmUp[i] \in Commands \ (VaultChanges \cup {"remount"})
<1>1. Len(WarmUp) = 6 /\ DOMAIN WarmUp = 1 .. 6
  BY DEF WarmUp
<1>2. \A i \in 1 .. 6 : WarmUp[i] \in Commands
  BY <1>1 DEF Commands
<1>3. WarmUp \in Seq({WarmUp[i] : i \in DOMAIN WarmUp})
  BY <1>1 DEF WarmUp
<1>4. WarmUp \in Seq(Commands)
  BY <1>1, <1>2, <1>3
<1>5. \A i \in 1 .. 6 : WarmUp[i] \notin VaultChanges \cup {"remount"}
  BY DEF WarmUp, VaultChanges
<1> QED
  BY <1>1, <1>2, <1>4, <1>5

VerbNames == {"ls", "read", "write", "remove", "queryState", "remountUser", "capabilities",
              "barrier"}

LEMMA VerbsNamed == Verbs \subseteq VerbNames
  BY ClientAssumption DEF Verbs, VerbNames

LEMMA ScriptFact ==
  ASSUME NEW verb \in VerbNames
  PROVE  /\ Script(verb) \in Seq(Commands) /\ Plan(verb, Script(verb))
         /\ verb = "write" => Head(Script(verb)) = "putSetup"
         /\ verb = "remove" => Head(Script(verb)) = "remove"
<1>1. VaultCommands \cup {"remount", "capabilities"} \subseteq Commands
  BY DEF Commands
<1>2. CASE verb = "queryState"
  <2>1. Script(verb) = WarmUp /\ Allowed(verb) = Commands \ VaultChanges
    BY <1>2 DEF Script, Allowed
  <2>2. Plan(verb, WarmUp)
    <3>1. WarmUp # <<>>
      BY DEF WarmUp
    <3> QED
      BY <1>2, <2>1, <3>1, WarmFact DEF Plan, Follows
  <2> QED
    BY <1>2, <2>1, <2>2, WarmFact
<1>3. CASE verb = "write"
  <2>1. Script(verb) = <<"putSetup", "putData", "remount">>
        /\ Allowed(verb) = Commands \ {"remove"}
    BY <1>3 DEF Script, Allowed
  <2> DEFINE s == <<"putSetup", "putData", "remount">>
  <2>2. s \in Seq(Commands) /\ Len(s) = 3 /\ s # <<>>
        /\ s[1] = "putSetup" /\ s[2] = "putData" /\ s[3] = "remount" /\ Head(s) = "putSetup"
    BY <1>1 DEF VaultCommands
  <2> HIDE DEF s
  <2>3. \A i \in 1 .. 3 : s[i] \in Allowed(verb)
    BY <1>1, <2>1, <2>2 DEF VaultCommands
  <2>4. \A i \in 1 .. 2 : Follows(verb, s[i], s[i + 1])
    BY <1>3, <2>2 DEF Follows
  <2>5. Plan(verb, s)
    BY <2>2, <2>3, <2>4 DEF Plan
  <2> QED
    BY <1>3, <2>1, <2>2, <2>5 DEF s
<1>4. CASE verb = "remove"
  <2>1. Script(verb) = <<"remove", "remount">>
        /\ Allowed(verb) = Commands \ {"putSetup", "putData"}
    BY <1>4 DEF Script, Allowed
  <2> DEFINE s == <<"remove", "remount">>
  <2>2. s \in Seq(Commands) /\ Len(s) = 2 /\ s # <<>>
        /\ s[1] = "remove" /\ s[2] = "remount" /\ Head(s) = "remove"
    BY <1>1 DEF VaultCommands
  <2> HIDE DEF s
  <2>3. \A i \in 1 .. 2 : s[i] \in Allowed(verb)
    BY <1>1, <2>1, <2>2 DEF VaultCommands
  <2>4. \A i \in 1 .. 1 : Follows(verb, s[i], s[i + 1])
    BY <1>4, <2>2 DEF Follows
  <2>5. Plan(verb, s)
    BY <2>2, <2>3, <2>4 DEF Plan
  <2> QED
    BY <1>4, <2>1, <2>2, <2>5 DEF s
<1>5. CASE verb = "read"
  <2>1. Script(verb) = <<"readSetup", "readData">> /\ Allowed(verb) = Commands \ VaultChanges
    BY <1>5 DEF Script, Allowed
  <2> DEFINE s == <<"readSetup", "readData">>
  <2>2. s \in Seq(Commands) /\ Len(s) = 2 /\ s # <<>>
        /\ s[1] = "readSetup" /\ s[2] = "readData"
    BY <1>1 DEF VaultCommands
  <2> HIDE DEF s
  <2>3. \A i \in 1 .. 2 : s[i] \in Allowed(verb)
    BY <1>1, <2>1, <2>2 DEF VaultCommands, VaultChanges
  <2>5. Plan(verb, s)
    BY <1>5, <2>2, <2>3 DEF Plan, Follows
  <2> QED
    BY <1>5, <2>1, <2>2, <2>5 DEF s
<1>6. CASE verb \in {"ls", "remountUser", "capabilities", "barrier"}
  <2>1. PICK c \in {"list", "remount", "capabilities"} : Script(verb) = <<c>>
    BY <1>6 DEF Script
  <2>2. Allowed(verb) = Commands \ VaultChanges
    BY <1>6 DEF Allowed
  <2>3. c \in Commands \ VaultChanges
    BY <1>1, <2>1 DEF VaultCommands, VaultChanges
  <2>4. Plan(verb, <<c>>)
    BY <1>6, <2>2, <2>3 DEF Plan, Follows
  <2> QED
    BY <1>6, <2>1, <2>3, <2>4
<1> QED
  BY <1>2, <1>3, <1>4, <1>5, <1>6 DEF VerbNames

LEMMA JoinFact ==
  ASSUME NEW S, NEW v \in Seq(S), NEW s \in Seq(S)
  PROVE  /\ v \o s \in Seq(S) /\ Len(v \o s) = Len(v) + Len(s)
         /\ \A i \in 1 .. Len(v) : (v \o s)[i] = v[i]
         /\ \A i \in 1 .. Len(s) : (v \o s)[Len(v) + i] = s[i]
  OBVIOUS

(* The warm-up in front of a script changes nothing of its end.             *)
LEMMA PlanAfterWarmUp ==
  ASSUME NEW verb \in VerbNames, NEW s \in Seq(Commands), Plan(verb, s),
         verb = "write" => Head(s) = "putSetup", verb = "remove" => Head(s) = "remove"
  PROVE  /\ WarmUp \o s \in Seq(Commands) /\ Plan(verb, WarmUp \o s)
         /\ Head(WarmUp \o s) \notin VaultChanges \cup {"remount"}
<1>1. PICK w \in Seq(Commands) : w = WarmUp
  BY WarmFact
<1>2. Len(w) = 6 /\ \A i \in 1 .. 6 : w[i] \in Commands \ (VaultChanges \cup {"remount"})
  BY <1>1, WarmFact
<1>3. PICK n \in Nat : n = Len(s)
  OBVIOUS
<1>4. n > 0 /\ Head(s) = s[1]
  BY <1>3, HeadFact DEF Plan
<1>5. PICK long \in Seq(Commands) : long = w \o s
  BY JoinFact
<1>6. /\ Len(long) = n + 6
      /\ \A i \in 1 .. 6 : long[i] = w[i]
      /\ \A i \in 1 .. n : long[6 + i] = s[i]
  <2>1. /\ Len(long) = Len(w) + Len(s)
        /\ \A i \in 1 .. Len(w) : long[i] = w[i]
        /\ \A i \in 1 .. Len(s) : long[Len(w) + i] = s[i]
    BY <1>5, JoinFact
  <2> QED
    BY <1>2, <1>3, <2>1
<1>7. long # <<>> /\ Head(long) = long[1]
  <2>1. Len(long) # 0
    BY <1>6
  <2> QED
    BY <2>1, HeadFact
<1>8. ASSUME NEW i \in 1 .. n + 6
      PROVE  \/ /\ i \in 1 .. 6 /\ long[i] = w[i]
             \/ /\ i \notin 1 .. 6 /\ i - 6 \in 1 .. n /\ long[i] = s[i - 6]
  <2>1. i \in 1 .. 6 \/ (i \notin 1 .. 6 /\ i - 6 \in 1 .. n /\ 6 + (i - 6) = i)
    OBVIOUS
  <2> QED
    BY <1>6, <2>1
<1>9. ASSUME NEW i \in 1 .. n + 6 PROVE long[i] \in Allowed(verb)
  <2>1. w[i] \in Commands \ (VaultChanges \cup {"remount"}) => w[i] \in Allowed(verb)
    BY DEF Allowed, VaultChanges
  <2>2. \A j \in 1 .. n : s[j] \in Allowed(verb)
    BY <1>3 DEF Plan
  <2> QED
    BY <1>2, <1>8, <2>1, <2>2
<1>10. ASSUME NEW i \in 1 .. n + 5 PROVE Follows(verb, long[i], long[i + 1])
  <2>1. CASE i \in 1 .. 5
    <3>1. i \in 1 .. 6 /\ i + 1 \in 1 .. 6
      BY <2>1
    <3>2. /\ long[i] \notin VaultChanges \cup {"remount"}
          /\ long[i + 1] \notin VaultChanges \cup {"remount"}
      BY <1>2, <1>6, <3>1
    <3> QED
      BY <3>2 DEF Follows, VaultChanges
  <2>2. CASE i = 6
    <3>1. 6 \in 1 .. 6 /\ 1 \in 1 .. n /\ 6 + 1 = 7
      BY <1>4
    <3>2. long[6] \notin VaultChanges \cup {"remount"} /\ long[7] = Head(s)
      BY <1>2, <1>4, <1>6, <3>1
    <3> QED
      BY <2>2, <3>1, <3>2 DEF Follows, VaultChanges
  <2>3. CASE i \in 7 .. n + 5
    <3>1. PICK j \in 1 .. n - 1 : i = 6 + j /\ i + 1 = 6 + (j + 1) /\ j \in 1 .. n /\ j + 1 \in 1 .. n
      <4>1. i - 6 \in 1 .. n - 1 /\ i = 6 + (i - 6) /\ i + 1 = 6 + ((i - 6) + 1)
            /\ i - 6 \in 1 .. n /\ (i - 6) + 1 \in 1 .. n
        BY <2>3
      <4> QED
        BY <4>1
    <3>2. long[i] = s[j] /\ long[i + 1] = s[j + 1]
      BY <1>6, <3>1
    <3>3. Follows(verb, s[j], s[j + 1])
      BY <1>3, <3>1 DEF Plan
    <3> QED
      BY <3>2, <3>3
  <2>4. i \in 1 .. 5 \/ i = 6 \/ i \in 7 .. n + 5
    OBVIOUS
  <2> QED
    BY <2>1, <2>2, <2>3, <2>4
<1>11. verb \in {"write", "remove"} => long[n + 6] = "remount"
  <2>1. n \in 1 .. n /\ 6 + n = n + 6
    BY <1>4
  <2>2. verb \in {"write", "remove"} => s[n] = "remount"
    BY <1>3 DEF Plan
  <2> QED
    BY <1>6, <2>1, <2>2
<1>12. Plan(verb, long)
  <2>1. (n + 6) - 1 = n + 5
    OBVIOUS
  <2> QED
    BY <1>6, <1>7, <1>9, <1>10, <1>11, <2>1 DEF Plan
<1> QED
  BY <1>1, <1>2, <1>5, <1>6, <1>7, <1>12

LEMMA RequestsFact ==
  ASSUME NEW verb \in Verbs
  PROVE  /\ Requests(verb) \in Seq(Commands) /\ Plan(verb, Requests(verb))
         /\ verb = "write" => Head(Requests(verb)) \notin {"putData", "remount"}
         /\ verb = "remove" => Head(Requests(verb)) # "remount"
<1>1. verb \in VerbNames
  BY VerbsNamed
<1>2. /\ Script(verb) \in Seq(Commands) /\ Plan(verb, Script(verb))
      /\ verb = "write" => Head(Script(verb)) = "putSetup"
      /\ verb = "remove" => Head(Script(verb)) = "remove"
  BY <1>1, ScriptFact
<1>3. /\ WarmUp \o Script(verb) \in Seq(Commands) /\ Plan(verb, WarmUp \o Script(verb))
      /\ Head(WarmUp \o Script(verb)) \notin VaultChanges \cup {"remount"}
  BY <1>1, <1>2, PlanAfterWarmUp
<1>4. CASE NeedsWarmUp(verb) /\ ~warm
  <2>1. Requests(verb) = WarmUp \o Script(verb)
    BY <1>4 DEF Requests
  <2> QED
    BY <1>3, <2>1 DEF VaultChanges
<1>5. CASE ~(NeedsWarmUp(verb) /\ ~warm)
  <2>1. Requests(verb) = Script(verb)
    BY <1>5 DEF Requests
  <2> QED
    BY <1>2, <2>1
<1> QED
  BY <1>4, <1>5

(* The next request of a plan, the plan behind it, and which is the last.   *)
LEMMA PlanStep ==
  ASSUME NEW verb, NEW todo \in Seq(Commands), Plan(verb, todo)
  PROVE  /\ Head(todo) \in Allowed(verb)
         /\ Tail(todo) \in Seq(Commands)
         /\ Tail(todo) = <<>> /\ verb \in {"write", "remove"} => Head(todo) = "remount"
         /\ Tail(todo) # <<>> => /\ Follows(verb, Head(todo), Head(Tail(todo)))
                                 /\ Plan(verb, Tail(todo))
<1>1. todo # <<>>
  BY DEF Plan
<1>2. PICK n \in Nat : n = Len(todo)
  OBVIOUS
<1>3. n > 0 /\ 1 \in 1 .. n /\ Head(todo) = todo[1]
  BY <1>1, <1>2, HeadFact
<1>4. Head(todo) \in Allowed(verb)
  BY <1>2, <1>3 DEF Plan
<1>5. PICK rest \in Seq(Commands) : rest = Tail(todo)
  BY <1>1, HeadFact
<1>6. Len(rest) = n - 1 /\ \A i \in 1 .. n - 1 : rest[i] = todo[i + 1]
  BY <1>1, <1>2, <1>5, HeadFact
<1>7. CASE rest = <<>>
  <2>1. n = 1
    BY <1>1, <1>2, <1>5, <1>7, TailFact
  <2>2. verb \in {"write", "remove"} => todo[1] = "remount"
    BY <1>2, <2>1 DEF Plan
  <2> QED
    BY <1>3, <1>4, <1>5, <1>7, <2>2
<1>8. CASE rest # <<>>
  <2>1. 1 \in 1 .. n - 1 /\ Head(rest) = todo[2] /\ 1 + 1 = 2
    BY <1>1, <1>2, <1>5, <1>8, TailFact
  <2>2. Follows(verb, Head(todo), Head(rest))
    BY <1>2, <1>3, <2>1 DEF Plan
  <2>3. ASSUME NEW i \in 1 .. n - 1 PROVE rest[i] \in Allowed(verb)
    <3>1. i + 1 \in 1 .. n
      OBVIOUS
    <3> QED
      BY <1>2, <1>6, <3>1 DEF Plan
  <2>4. ASSUME NEW i \in 1 .. (n - 1) - 1 PROVE Follows(verb, rest[i], rest[i + 1])
    <3>1. i \in 1 .. n - 1 /\ i + 1 \in 1 .. n - 1
      OBVIOUS
    <3>2. rest[i] = todo[i + 1] /\ rest[i + 1] = todo[(i + 1) + 1]
      BY <1>6, <3>1
    <3> QED
      BY <1>2, <3>1, <3>2 DEF Plan
  <2>5. verb \in {"write", "remove"} => rest[n - 1] = "remount"
    <3>1. n - 1 \in 1 .. n - 1 /\ (n - 1) + 1 = n
      BY <2>1
    <3>2. verb \in {"write", "remove"} => todo[n] = "remount"
      BY <1>2 DEF Plan
    <3> QED
      BY <1>6, <3>1, <3>2
  <2>6. Plan(verb, rest)
    BY <1>6, <1>8, <2>3, <2>4, <2>5 DEF Plan
  <2> QED
    BY <1>4, <1>5, <1>8, <2>2, <2>6
<1> QED
  BY <1>7, <1>8
-----------------------------------------------------------------------------
(* The types, and who works.                                                *)

Results == {"none", "pending", "ok", "failed", "cancelled"}
Jobs == [task : Tasks, verb : QueuedVerbs, file : Paths, stoppable : BOOLEAN]

LEMMA RestingFact ==
  /\ NoReply \in Replies /\ Resting \in Execs /\ Resting.at = "idle" /\ Resting.todo = <<>>
  /\ Free \in CallerStates /\ Free.at = "free"
<1>1. NoReply \in Replies
  BY DEF NoReply, Replies, Ids, Paths
<1>2. Resting.todo = <<>> /\ <<>> \in Seq(Commands)
  BY DEF Resting
<1>3. Resting \in Execs
  BY <1>1, <1>2 DEF Resting, Execs, Ids, Paths
<1> QED
  BY <1>1, <1>2, <1>3 DEF Resting, Free, CallerStates, Ids

LEMMA FilesFact ==
  ASSUME NEW verb, NEW file \in FilesOf(verb)
  PROVE  file \in Paths /\ (verb \in {"write", "remove"} => file \in Files)
  BY DEF FilesOf, Paths

(* A verb begins.                                                           *)
LEMMA BeginFact ==
  ASSUME TypeOK, NEW t \in Threads, NEW task \in Tasks, NEW verb \in Verbs,
         NEW file \in FilesOf(verb), Begin(t, task, verb, file)
  PROVE  /\ exec' \in [Threads -> Execs]
         /\ \A u \in Threads \ {t} : exec'[u] = exec[u]
         /\ exec'[t] = [at |-> "send", task |-> task, verb |-> verb, file |-> file,
                        todo |-> Requests(verb), got |-> NoReply]
         /\ exec'[t] # Resting
<1> DEFINE e == [at |-> "send", task |-> task, verb |-> verb, file |-> file,
                 todo |-> Requests(verb), got |-> NoReply]
<1>1. file \in Paths /\ Requests(verb) \in Seq(Commands) /\ NoReply \in Replies
  BY FilesFact, RequestsFact, RestingFact
<1>2. e \in Execs /\ e.at = "send"
  BY <1>1 DEF Execs, Ids
<1>3. e # Resting
  BY <1>2, RestingFact
<1>4. exec' = [exec EXCEPT ![t] = e]
  BY DEF Begin
<1> HIDE DEF e
<1>5. exec' \in [Threads -> Execs] /\ exec'[t] = e /\ \A u \in Threads \ {t} : exec'[u] = exec[u]
  BY <1>2, <1>4 DEF TypeOK
<1> QED
  BY <1>3, <1>5 DEF e

(* Who works on what, of a thread in an exchange.                           *)
LEMMA ExecFact ==
  ASSUME TypeOK, PlansOK, NEW t \in Threads, exec[t] # Resting
  PROVE  /\ exec[t] \in Execs /\ exec[t].at \in {"send", "head", "rest"}
         /\ exec[t].task \in Tasks /\ exec[t].verb \in Verbs /\ exec[t].file \in Paths
         /\ exec[t].file \in FilesOf(exec[t].verb)
         /\ exec[t].verb \in {"write", "remove"} => exec[t].file \in Files
         /\ exec[t].todo \in Seq(Commands) /\ Plan(exec[t].verb, exec[t].todo)
         /\ Current(t) \in Allowed(exec[t].verb) /\ Current(t) \in Commands
         /\ exec[t].got \in Replies
<1>1. exec[t] \in Execs
  BY DEF TypeOK
<1>2. /\ exec[t].at \in {"idle", "send", "head", "rest"} /\ exec[t].got \in Replies
      /\ exec[t].todo \in Seq(Commands)
  BY <1>1 DEF Execs
<1>3. /\ exec[t].at # "idle" /\ exec[t].task \in Tasks /\ exec[t].verb \in Verbs
      /\ exec[t].file \in FilesOf(exec[t].verb) /\ Plan(exec[t].verb, exec[t].todo)
  BY DEF PlansOK
<1>4. Current(t) \in Allowed(exec[t].verb)
  BY <1>2, <1>3, PlanStep DEF Current
<1>5. Current(t) \in Commands
  BY <1>4 DEF Allowed
<1> QED
  BY <1>1, <1>2, <1>3, <1>4, <1>5, FilesFact

LEMMA FailFact ==
  ASSUME TypeOK, PlansOK, NEW t \in Threads, exec[t] # Resting, Fail(t)
  PROVE  /\ exec' \in [Threads -> Execs] /\ exec'[t] = Resting
         /\ \A u \in Threads \ {t} : exec'[u] = exec[u]
         /\ result' \in [Tasks -> Results] /\ warm' = warm /\ acked' = acked
<1>1. exec[t].task \in Tasks
  BY ExecFact
<1>2. exec' \in [Threads -> Execs] /\ exec'[t] = Resting
      /\ \A u \in Threads \ {t} : exec'[u] = exec[u]
  BY RestingFact DEF Fail, TypeOK
<1>3. result \in [Tasks -> Results] /\ result' = [result EXCEPT ![exec[t].task] = "failed"]
  BY DEF Fail, TypeOK, Results
<1>4. result' \in [Tasks -> Results]
  BY <1>1, <1>3 DEF Results
<1> QED
  BY <1>2, <1>4 DEF Fail

(* After an answer a verb has its next request to send, or has succeeded.   *)
LEMMA AdvanceFact ==
  ASSUME TypeOK, PlansOK, NEW t \in Threads, exec[t] # Resting, Advance(t)
  PROVE  /\ exec' \in [Threads -> Execs]
         /\ \A u \in Threads \ {t} : exec'[u] = exec[u]
         /\ result' \in [Tasks -> Results] /\ warm' \in BOOLEAN
         /\ acked' \in [Files -> Contents \cup {"none"}]
         /\ \/ /\ exec'[t] = [exec[t] EXCEPT !.at = "send", !.todo = Tail(exec[t].todo),
                                             !.got = NoReply]
               /\ Follows(exec[t].verb, Current(t), Head(Tail(exec[t].todo)))
               /\ Plan(exec[t].verb, Tail(exec[t].todo))
               /\ acked' = acked
            \/ /\ exec'[t] = Resting
               /\ exec[t].verb \in {"write", "remove"} =>
                    /\ Current(t) = "remount"
                    /\ acked' = [acked EXCEPT ![exec[t].file] = Intended(exec[t].verb)]
               /\ exec[t].verb \notin {"write", "remove"} => acked' = acked
<1> DEFINE e == exec[t]
           rest == Tail(e.todo)
<1>1. /\ e \in Execs /\ e.task \in Tasks /\ e.todo \in Seq(Commands) /\ Plan(e.verb, e.todo)
      /\ e.verb \in {"write", "remove"} => e.file \in Files
  BY ExecFact
<1>2. /\ rest \in Seq(Commands)
      /\ rest = <<>> /\ e.verb \in {"write", "remove"} => Current(t) = "remount"
      /\ rest # <<>> => Follows(e.verb, Current(t), Head(rest)) /\ Plan(e.verb, rest)
  BY <1>1, PlanStep DEF Current
<1>3. warm' \in BOOLEAN
  BY DEF Advance, TypeOK
<1>4. exec \in [Threads -> Execs] /\ result \in [Tasks -> Results]
      /\ acked \in [Files -> Contents \cup {"none"}]
  BY DEF TypeOK, Results
<1>5. CASE rest # <<>>
  <2> DEFINE n == [e EXCEPT !.at = "send", !.todo = rest, !.got = NoReply]
  <2>1. exec' = [exec EXCEPT ![t] = n] /\ UNCHANGED <<result, acked>>
    BY <1>5 DEF Advance
  <2>2. n \in Execs
    BY <1>1, <1>2, RestingFact DEF Execs
  <2> HIDE DEF n
  <2>3. exec' \in [Threads -> Execs] /\ exec'[t] = n /\ \A u \in Threads \ {t} : exec'[u] = exec[u]
    BY <1>4, <2>1, <2>2
  <2> QED
    BY <1>2, <1>3, <1>4, <1>5, <2>1, <2>3 DEF n
<1>6. CASE rest = <<>>
  <2>1. /\ exec' = [exec EXCEPT ![t] = Resting]
        /\ result' = [result EXCEPT ![e.task] = "ok"]
        /\ acked' = IF e.verb \in {"write", "remove"}
                    THEN [acked EXCEPT ![e.file] = Intended(e.verb)] ELSE acked
    BY <1>6 DEF Advance
  <2>2. exec' \in [Threads -> Execs] /\ exec'[t] = Resting
        /\ \A u \in Threads \ {t} : exec'[u] = exec[u]
    BY <1>4, <2>1, RestingFact
  <2>3. result' \in [Tasks -> Results]
    BY <1>1, <1>4, <2>1 DEF Results
  <2>4. acked' \in [Files -> Contents \cup {"none"}]
    <3>1. Intended(e.verb) \in Contents \cup {"none"}
      BY DEF Intended, Contents
    <3>2. CASE e.verb \in {"write", "remove"}
      <4>1. acked' = [acked EXCEPT ![e.file] = Intended(e.verb)]
        BY <2>1, <3>2
      <4> QED
        BY <1>4, <3>1, <4>1
    <3>3. CASE e.verb \notin {"write", "remove"}
      BY <1>4, <2>1, <3>3
    <3> QED
      BY <3>2, <3>3
  <2>5. /\ e.verb \in {"write", "remove"} =>
             Current(t) = "remount" /\ acked' = [acked EXCEPT ![e.file] = Intended(e.verb)]
        /\ e.verb \notin {"write", "remove"} => acked' = acked
    BY <1>2, <1>6, <2>1
  <2> QED
    BY <1>3, <2>2, <2>3, <2>4, <2>5
<1> QED
  BY <1>5, <1>6
(* One step of the exchange of thread t, as seen by the others.             *)
LEMMA ExchangeFact ==
  ASSUME TypeOK, PlansOK, NEW t \in Threads, exec[t] # Resting, Exchange(t)
  PROVE  /\ exec' \in [Threads -> Execs]
         /\ \A u \in Threads \ {t} : exec'[u] = exec[u]
         /\ exec'[t] # Resting =>
              /\ exec'[t].at # "idle" /\ exec'[t].task = exec[t].task
              /\ exec'[t].verb = exec[t].verb /\ exec'[t].file = exec[t].file
              /\ Plan(exec[t].verb, exec'[t].todo)
         /\ result' \in [Tasks -> Results] /\ {warm, lapsed}' \subseteq BOOLEAN
         /\ acked' \in [Files -> Contents \cup {"none"}]
         /\ out' \in Seq([task : Tasks, cmd : Commands, file : Paths])
         /\ in' \in Seq([part : {"head", "rest"}, reply : Replies])
         /\ UNCHANGED <<sending, device, up>>
         /\ ~up /\ Empty => Empty'
<1> DEFINE Sent == [task : Tasks, cmd : Commands, file : Paths]
           Parts == [part : {"head", "rest"}, reply : Replies]
<1>1. /\ exec[t] \in Execs /\ exec[t].at \in {"send", "head", "rest"}
      /\ exec[t].task \in Tasks /\ exec[t].file \in Paths /\ Current(t) \in Commands
      /\ exec[t].verb \in {"write", "remove"} => exec[t].file \in Files
      /\ Plan(exec[t].verb, exec[t].todo)
      /\ Current(t) \in Allowed(exec[t].verb) /\ Current(t) \in Commands
  BY ExecFact
<1>2. /\ exec \in [Threads -> Execs] /\ result \in [Tasks -> Results]
      /\ acked \in [Files -> Contents \cup {"none"}] /\ {warm, lapsed} \subseteq BOOLEAN
      /\ out \in Seq(Sent) /\ in \in Seq(Parts)
  BY DEF TypeOK, Results
<1>3. ASSUME Fail(t), out' = out, in' \in Seq(Parts), lapsed' \in BOOLEAN,
             UNCHANGED <<sending, device, up>>, Empty => in' = in
      PROVE  /\ exec' \in [Threads -> Execs] /\ exec'[t] = Resting
             /\ \A u \in Threads \ {t} : exec'[u] = exec[u]
             /\ result' \in [Tasks -> Results] /\ {warm, lapsed}' \subseteq BOOLEAN
             /\ acked' \in [Files -> Contents \cup {"none"}]
             /\ out' \in Seq(Sent) /\ (~up /\ Empty => Empty')
  <2>1. /\ exec' \in [Threads -> Execs] /\ exec'[t] = Resting
        /\ \A u \in Threads \ {t} : exec'[u] = exec[u]
        /\ result' \in [Tasks -> Results] /\ warm' = warm /\ acked' = acked
    BY <1>3, FailFact
  <2> QED
    BY <1>2, <1>3, <2>1 DEF Empty
<1>4. CASE Send(t)
  <2>1. CASE Fail(t) /\ UNCHANGED out
    <3>1. UNCHANGED <<in, sending, device, up, lapsed>>
      BY <1>4 DEF Send
    <3> QED
      BY <1>2, <1>3, <2>1, <3>1
  <2>2. CASE /\ up /\ exec' = [exec EXCEPT ![t].at = "head"]
             /\ out' = Append(out, [task |-> exec[t].task, cmd |-> Current(t),
                                    file |-> exec[t].file])
             /\ acked' = IF Current(t) \in {"putSetup", "remove"}
                         THEN [acked EXCEPT ![exec[t].file] = "none"] ELSE acked
             /\ UNCHANGED <<warm, result>>
    <3> DEFINE req == [task |-> exec[t].task, cmd |-> Current(t), file |-> exec[t].file]
    <3>1. /\ out' = Append(out, req) /\ exec' = [exec EXCEPT ![t].at = "head"]
          /\ UNCHANGED <<warm, result, in, sending, device, up, lapsed>>
      BY <1>4, <2>2 DEF Send
    <3>2. acked' = IF Current(t) \in {"putSetup", "remove"}
                   THEN [acked EXCEPT ![exec[t].file] = "none"] ELSE acked
      BY <2>2
    <3>3. req \in Sent
      BY <1>1
    <3> HIDE DEF req
    <3>4. out' \in Seq(Sent)
      BY <1>2, <3>1, <3>3
    <3>5. /\ exec'[t] = [exec[t] EXCEPT !.at = "head"]
          /\ \A u \in Threads \ {t} : exec'[u] = exec[u]
          /\ DOMAIN exec' = Threads /\ exec' = [u \in Threads |-> exec'[u]]
      BY <1>2, <3>1
    <3>6. exec'[t] \in Execs /\ exec'[t].at = "head"
      BY <1>1, <3>5 DEF Execs
    <3>7. exec' \in [Threads -> Execs]
      BY <1>2, <3>1, <3>5, <3>6
    <3>8. /\ exec'[t].task = exec[t].task /\ exec'[t].verb = exec[t].verb
          /\ exec'[t].file = exec[t].file /\ exec'[t].todo = exec[t].todo
      BY <1>1, <3>5 DEF Execs
    <3>9. acked' \in [Files -> Contents \cup {"none"}]
      <4>1. CASE Current(t) \in {"putSetup", "remove"}
        BY <1>2, <3>2, <4>1
      <4>2. CASE Current(t) \notin {"putSetup", "remove"}
        BY <1>2, <3>2, <4>2
      <4> QED
        BY <4>1, <4>2
    <3> QED
      BY <1>1, <1>2, <2>2, <3>1, <3>4, <3>5, <3>6, <3>7, <3>8, <3>9
  <2> QED
    BY <1>4, <2>1, <2>2 DEF Send
<1>5. CASE ReadHead(t)
  <2>1. /\ in # <<>> /\ in' = Tail(in)
        /\ exec' = [exec EXCEPT ![t].at = "rest", ![t].got = Head(in).reply]
        /\ UNCHANGED <<warm, result, out, sending, device, up, lapsed, acked>>
    BY <1>5 DEF ReadHead
  <2>2. Head(in) \in Parts /\ Tail(in) \in Seq(Parts)
    BY <1>2, <2>1, HeadFact
  <2>3. PICK r \in Replies : r = Head(in).reply
    BY <2>2
  <2>4. /\ exec'[t] = [exec[t] EXCEPT !.at = "rest", !.got = r]
        /\ \A u \in Threads \ {t} : exec'[u] = exec[u]
    BY <1>2, <2>1, <2>3
  <2>5. exec'[t] \in Execs /\ exec'[t].at = "rest"
    BY <1>1, <2>4 DEF Execs
  <2>6. exec' \in [Threads -> Execs]
    BY <1>2, <2>1, <2>4, <2>5
  <2>7. /\ exec'[t].task = exec[t].task /\ exec'[t].verb = exec[t].verb
        /\ exec'[t].file = exec[t].file /\ exec'[t].todo = exec[t].todo
    BY <1>1, <2>4 DEF Execs
  <2>8. ~(~up /\ Empty)
    BY <2>1 DEF Empty
  <2> QED
    BY <1>1, <1>2, <2>1, <2>2, <2>4, <2>5, <2>6, <2>7, <2>8
<1>6. CASE ReadJunk(t)
  <2>1. Fail(t) /\ UNCHANGED <<out, sending, device, up>> /\ lapsed' = TRUE /\ in # <<>>
    BY <1>6 DEF ReadJunk
  <2>2. in' \in Seq(Parts)
    <3>1. PICK n \in {0, 1, 2} : n <= Len(in) /\ in' = SubSeq(in, n + 1, Len(in))
      BY <1>6 DEF ReadJunk
    <3> QED
      BY <1>2, <3>1, SuffixFact
  <2>3. Empty => in' = in
    BY <2>1 DEF Empty
  <2>4. /\ exec' \in [Threads -> Execs] /\ exec'[t] = Resting
        /\ \A u \in Threads \ {t} : exec'[u] = exec[u]
        /\ result' \in [Tasks -> Results] /\ {warm, lapsed}' \subseteq BOOLEAN
        /\ acked' \in [Files -> Contents \cup {"none"}]
        /\ out' \in Seq(Sent) /\ (~up /\ Empty => Empty')
    BY <1>3, <2>1, <2>2, <2>3
  <2> QED
    BY <2>1, <2>2, <2>4
<1>7. CASE ReadRest(t)
  <2>1. in # <<>> /\ in' = Tail(in) /\ UNCHANGED <<out, sending, device, up>>
    BY <1>7 DEF ReadRest
  <2>2. in' \in Seq(Parts) /\ (Empty => in' = in)
    BY <1>2, <2>1, HeadFact DEF Empty
  <2>3. CASE Fail(t)
    <3>1. lapsed' \in BOOLEAN
      BY <1>2, <1>7 DEF ReadRest
    <3>2. /\ exec' \in [Threads -> Execs] /\ exec'[t] = Resting
          /\ \A u \in Threads \ {t} : exec'[u] = exec[u]
          /\ result' \in [Tasks -> Results] /\ {warm, lapsed}' \subseteq BOOLEAN
          /\ acked' \in [Files -> Contents \cup {"none"}]
          /\ out' \in Seq(Sent) /\ (~up /\ Empty => Empty')
      BY <1>3, <2>1, <2>2, <2>3, <3>1
    <3> QED
      BY <2>1, <2>2, <3>2
  <2>4. CASE Advance(t) /\ UNCHANGED lapsed
    <3>1. /\ exec' \in [Threads -> Execs] /\ \A u \in Threads \ {t} : exec'[u] = exec[u]
          /\ result' \in [Tasks -> Results] /\ warm' \in BOOLEAN
          /\ acked' \in [Files -> Contents \cup {"none"}]
          /\ \/ /\ exec'[t] = [exec[t] EXCEPT !.at = "send", !.todo = Tail(exec[t].todo),
                                              !.got = NoReply]
                /\ Plan(exec[t].verb, Tail(exec[t].todo))
             \/ exec'[t] = Resting
      BY <2>4, AdvanceFact
    <3>2. exec'[t] # Resting =>
            /\ exec'[t].at # "idle" /\ exec'[t].task = exec[t].task
            /\ exec'[t].verb = exec[t].verb /\ exec'[t].file = exec[t].file
            /\ Plan(exec[t].verb, exec'[t].todo)
      BY <1>1, <3>1 DEF Execs
    <3>3. ~(~up /\ Empty)
      BY <2>1 DEF Empty
    <3> QED
      BY <1>2, <2>1, <2>2, <2>4, <3>1, <3>2, <3>3
  <2> QED
    BY <1>7, <2>3, <2>4 DEF ReadRest
<1>8. CASE GiveUp(t)
  <2>1. Fail(t) /\ UNCHANGED <<out, in, sending, device, up>> /\ lapsed' = TRUE
    BY <1>8 DEF GiveUp
  <2> QED
    BY <1>2, <1>3, <2>1
<1> QED
  BY <1>4, <1>5, <1>6, <1>7, <1>8 DEF Exchange
-----------------------------------------------------------------------------
(* One thread at a time is in an exchange, at every step.                   *)

LEMMA ThreadsFact ==
  /\ worker \in Threads /\ worker \notin Callers
  /\ \A c \in Callers : c \in Threads
  /\ \A t \in Threads : t = worker \/ t \in Callers
  BY ClientAssumption

LEMMA OnlyOne ==
  ASSUME WhoInv, OneAtATime, NEW t \in Threads, NEW u \in Threads,
         exec[t] # Resting, exec[u] # Resting
  PROVE  t = u
<1>1. exec[worker] # Resting => state = "run"
  BY DEF WhoInv, TypeOK
<1>2. \A c \in Callers : exec[c] # Resting => state # "run" /\ DirectVerbs # {}
  BY DEF WhoInv, WhoWorks
<1>3. CASE t = worker \/ u = worker
  BY <1>1, <1>2, <1>3, ThreadsFact
<1>4. CASE t \in Callers /\ u \in Callers
  BY <1>2, <1>4 DEF OneAtATime
<1> QED
  BY <1>3, <1>4, ThreadsFact

LEMMA OnlyOneNext ==
  ASSUME WhoInv', OneAtATime, NEW t \in Threads, NEW u \in Threads,
         exec'[t] # Resting, exec'[u] # Resting
  PROVE  t = u
<1>1. exec'[worker] # Resting => state' = "run"
  BY DEF WhoInv, TypeOK
<1>2. \A c \in Callers : exec'[c] # Resting => state' # "run" /\ DirectVerbs # {}
  BY DEF WhoInv, WhoWorks
<1>3. CASE t = worker \/ u = worker
  BY <1>1, <1>2, <1>3, ThreadsFact
<1>4. CASE t \in Callers /\ u \in Callers
  BY <1>2, <1>4 DEF OneAtATime
<1> QED
  BY <1>3, <1>4, ThreadsFact

LEMMA WhoInit == Init => WhoInv
<1> SUFFICES ASSUME Init PROVE WhoInv
  OBVIOUS
<1>1. /\ exec = [t \in Threads |-> Resting] /\ result = [k \in Tasks |-> "none"]
      /\ out = <<>> /\ in = <<>> /\ sending = NoReply
      /\ vault = [f \in Files |-> "old"] /\ durable = vault
      /\ armed = NoFile /\ warm = FALSE /\ greeted = FALSE /\ up = TRUE /\ lapsed = FALSE
      /\ acked = [f \in Files |-> "none"]
      /\ queue = <<>> /\ calls = 0 /\ state = "test" /\ stopping = FALSE
      /\ caller = [c \in Callers |-> Free] /\ life = "alive" /\ token = FALSE
  BY DEF Init, WireInit
<1>2. exec[worker] = Resting
  BY <1>1, ThreadsFact
<1>3. TypeOK
  <2>1. exec \in [Threads -> Execs] /\ caller \in [Callers -> CallerStates]
    BY <1>1, RestingFact
  <2>2. result \in [Tasks -> {"none", "pending", "ok", "failed", "cancelled"}]
    BY <1>1
  <2>3. /\ vault \in [Files -> Contents] /\ durable \in [Files -> Contents]
        /\ acked \in [Files -> Contents \cup {"none"}] /\ armed \in Paths
    BY <1>1 DEF Contents, Paths
  <2>4. /\ out \in Seq([task : Tasks, cmd : Commands, file : Paths])
        /\ in \in Seq([part : {"head", "rest"}, reply : Replies]) /\ sending \in Replies
        /\ queue \in Seq([task : Tasks, verb : QueuedVerbs, file : Paths, stoppable : BOOLEAN])
    BY <1>1, RestingFact
  <2>5. /\ calls \in 0 .. MaxTasks /\ state \in {"test", "asleep", "run", "returned"}
        /\ life \in {"alive", "notify", "join", "gone"} /\ state # "run"
    BY <1>1, ClientAssumption
  <2> QED
    BY <1>1, <1>2, <2>1, <2>2, <2>3, <2>4, <2>5 DEF TypeOK
<1>4. \A c \in Callers : exec[c] = Resting /\ caller[c].at # "direct"
  BY <1>1, RestingFact, ThreadsFact
<1>5. WhoWorks
  BY <1>1, <1>4 DEF WhoWorks
<1>6. PlansOK
  BY <1>1 DEF PlansOK
<1> QED
  BY <1>1, <1>3, <1>5, <1>6 DEF WhoInv

(* A call of a verb is entered and left without the wire.                   *)
LEMMA WhoQueue ==
  ASSUME WhoInv, OneAtATime, NEW c \in Callers, Enqueue(c)
  PROVE  WhoInv'
<1>1. TypeOK /\ WhoWorks /\ PlansOK /\ (~up => Empty)
  BY DEF WhoInv
<1>2. PICK verb \in QueuedVerbs, async \in BOOLEAN :
        \E file \in FilesOf(verb) :
          /\ queue' = Append(queue, [task |-> calls + 1, verb |-> verb,
                                     file |-> file, stoppable |-> async])
          /\ caller' = [caller EXCEPT ![c] = [at   |-> IF async THEN "notify" ELSE "notifyGet",
                                              task |-> calls + 1]]
  BY DEF Enqueue
<1>3. PICK file \in FilesOf(verb) :
        /\ queue' = Append(queue, [task |-> calls + 1, verb |-> verb,
                                   file |-> file, stoppable |-> async])
        /\ caller' = [caller EXCEPT ![c] = [at   |-> IF async THEN "notify" ELSE "notifyGet",
                                            task |-> calls + 1]]
  BY <1>2
<1>4. /\ caller[c] = Free /\ calls < MaxTasks /\ calls' = calls + 1
      /\ result' = [result EXCEPT ![calls + 1] = "pending"]
      /\ UNCHANGED <<exec, warm, out, in, sending, device, up, lapsed, acked, state,
                     stopping, life, token>>
  BY DEF Enqueue, MayCall
<1>5. calls + 1 \in Tasks /\ calls + 1 \in 0 .. MaxTasks
  BY <1>1, <1>4, ClientAssumption DEF TypeOK
<1> DEFINE job == [task |-> calls + 1, verb |-> verb, file |-> file, stoppable |-> async]
           at == IF async THEN "notify" ELSE "notifyGet"
<1>6. job \in Jobs /\ job.file \in FilesOf(job.verb)
  BY <1>5, FilesFact DEF Jobs
<1>7. queue' = Append(queue, job)
  BY <1>3
<1> HIDE DEF job
<1>8. queue \in Seq(Jobs)
  BY <1>1 DEF TypeOK, Jobs
<1>9. queue' \in Seq(Jobs)
  BY <1>6, <1>7, <1>8
<1>10. \A i \in 1 .. Len(queue') : queue'[i].file \in FilesOf(queue'[i].verb)
  <2>1. PICK n \in Nat : n = Len(queue)
    BY <1>8
  <2>2. Len(queue') = n + 1 /\ queue'[n + 1] = job
        /\ \A i \in 1 .. n : queue'[i] = queue[i]
    BY <1>6, <1>7, <1>8, <2>1
  <2>3. \A i \in 1 .. n : queue[i].file \in FilesOf(queue[i].verb)
    BY <1>1, <2>1 DEF WhoWorks
  <2>4. \A i \in 1 .. n + 1 : i = n + 1 \/ i \in 1 .. n
    OBVIOUS
  <2> QED
    BY <1>6, <2>2, <2>3, <2>4
<1>11. /\ caller' \in [Callers -> CallerStates] /\ caller'[c].at # "direct"
       /\ \A d \in Callers \ {c} : caller'[d] = caller[d]
  <2>1. at \in {"notify", "notifyGet"}
    OBVIOUS
  <2>2. [at |-> at, task |-> calls + 1] \in CallerStates
        /\ [at |-> at, task |-> calls + 1].at # "direct"
    BY <1>5, <2>1 DEF CallerStates, Ids
  <2>3. caller' = [caller EXCEPT ![c] = [at |-> at, task |-> calls + 1]]
    BY <1>3
  <2> HIDE DEF at
  <2> QED
    BY <1>1, <2>2, <2>3 DEF TypeOK
<1>12. result' \in [Tasks -> Results]
  BY <1>1, <1>4, <1>5 DEF TypeOK, Results
<1>13. TypeOK'
  BY <1>1, <1>4, <1>5, <1>9, <1>11, <1>12 DEF TypeOK, Results, Jobs, device
<1>14. \A d \in Callers : caller[d].at # "direct"
  <2>1. caller[c].at # "direct"
    BY <1>4, RestingFact
  <2>2. ASSUME NEW d \in Callers, caller[d].at = "direct" PROVE d = c
    BY <1>1, <2>2 DEF WhoWorks, OneAtATime
  <2> QED
    BY <2>1, <2>2
<1>15. WhoWorks'
  BY <1>1, <1>4, <1>10, <1>11, <1>14 DEF WhoWorks
<1>16. PlansOK' /\ (~up => Empty)'
  BY <1>1, <1>4 DEF PlansOK, Empty, device
<1> QED
  BY <1>13, <1>15, <1>16 DEF WhoInv

(* Steps that leave the exchanges, the wire and the queue alone.            *)
LEMMA WhoCallers ==
  ASSUME WhoInv, UNCHANGED <<wireVars, queue, calls>>,
         caller' \in [Callers -> CallerStates],
         \A c \in Callers : caller'[c] = caller[c] \/ (caller[c].at # "direct" /\ caller'[c].at # "direct"),
         state' = state \/ (state # "run" /\ state' \in {"test", "asleep", "returned"}),
         {stopping, token}' \subseteq BOOLEAN, life' \in {"alive", "notify", "join", "gone"}
  PROVE  WhoInv'
<1>1. TypeOK /\ WhoWorks /\ PlansOK /\ (~up => Empty)
  BY DEF WhoInv
<1>2. /\ UNCHANGED <<exec, warm, result, out, in, sending, vault, durable, armed, greeted, up,
                     lapsed, acked, queue, calls>>
  BY DEF wireVars, device
<1>3. TypeOK'
  BY <1>1, <1>2 DEF TypeOK
<1>4. WhoWorks'
  BY <1>1, <1>2 DEF WhoWorks
<1>5. PlansOK' /\ (~up => Empty)'
  BY <1>1, <1>2 DEF PlansOK, Empty
<1> QED
  BY <1>3, <1>4, <1>5 DEF WhoInv

LEMMA WhoDirect ==
  ASSUME WhoInv, NEW c \in Callers, CallDirect(c)
  PROVE  WhoInv'
<1>1. TypeOK /\ WhoWorks /\ PlansOK /\ (~up => Empty)
  BY DEF WhoInv
<1>2. PICK verb \in DirectVerbs : Begin(c, calls + 1, verb, NoFile)
  BY DEF CallDirect
<1>3. /\ calls < MaxTasks /\ calls' = calls + 1
      /\ caller' = [caller EXCEPT ![c] = [at |-> "direct", task |-> calls + 1]]
      /\ result' = [result EXCEPT ![calls + 1] = "pending"]
      /\ UNCHANGED <<warm, out, in, sending, vault, durable, armed, greeted, up, lapsed, acked,
                     queue, state, stopping, life, token>>
      /\ queue = <<>> /\ (\A t \in Threads : exec[t] = Resting)
      /\ (\A d \in Callers : caller[d] = Free) /\ state # "run"
  BY DEF CallDirect, MayCall, Quiet, device
<1>4. calls + 1 \in Tasks /\ calls + 1 \in 0 .. MaxTasks
  BY <1>1, <1>3, ClientAssumption DEF TypeOK
<1>5. verb \in Verbs /\ FilesOf(verb) = {NoFile} /\ DirectVerbs # {}
  <2>1. verb \notin {"read", "write", "remove"}
    BY ClientAssumption
  <2> QED
    BY <2>1 DEF Verbs, FilesOf
<1>6. /\ exec' \in [Threads -> Execs] /\ exec'[c] # Resting
      /\ \A u \in Threads \ {c} : exec'[u] = exec[u]
      /\ exec'[c] = [at |-> "send", task |-> calls + 1, verb |-> verb, file |-> NoFile,
                     todo |-> Requests(verb), got |-> NoReply]
  BY <1>1, <1>2, <1>4, <1>5, BeginFact, ThreadsFact
<1>7. /\ caller' \in [Callers -> CallerStates] /\ caller'[c].at = "direct"
      /\ \A d \in Callers \ {c} : caller'[d] = Free
  <2>1. [at |-> "direct", task |-> calls + 1] \in CallerStates
    BY <1>4 DEF CallerStates, Ids
  <2> QED
    BY <1>1, <1>3, <2>1 DEF TypeOK
<1>8. result' \in [Tasks -> Results]
  BY <1>1, <1>3, <1>4 DEF TypeOK, Results
<1>9. exec'[worker] = Resting
  BY <1>3, <1>6, ThreadsFact
<1>10. TypeOK'
  BY <1>1, <1>3, <1>4, <1>6, <1>7, <1>8, <1>9 DEF TypeOK, Results
<1>11. WhoWorks'
  <2>1. \A d \in Callers \ {c} : exec'[d] = Resting /\ caller'[d].at # "direct"
    BY <1>3, <1>6, <1>7, RestingFact, ThreadsFact
  <2>2. \A d \in Callers : exec'[d] # Resting <=> caller'[d].at = "direct"
    BY <1>6, <1>7, <2>1
  <2> QED
    BY <1>3, <1>5, <2>2 DEF WhoWorks
<1>12. PlansOK'
  <2>1. Plan(verb, Requests(verb))
    BY <1>5, RequestsFact
  <2>2. \A t \in Threads : exec'[t] # Resting => t = c
    BY <1>3, <1>6
  <2>3. /\ exec'[c].at # "idle" /\ exec'[c].task \in Tasks /\ exec'[c].verb \in Verbs
        /\ exec'[c].file \in FilesOf(exec'[c].verb) /\ Plan(exec'[c].verb, exec'[c].todo)
    BY <1>4, <1>5, <1>6, <2>1
  <2> QED
    BY <2>2, <2>3 DEF PlansOK
<1>13. (~up => Empty)'
  BY <1>1, <1>3 DEF Empty
<1> QED
  BY <1>10, <1>11, <1>12, <1>13 DEF WhoInv
(* The direct call of c goes on.                                            *)
LEMMA WhoRunDirect ==
  ASSUME WhoInv, OneAtATime, NEW c \in Callers, RunDirect(c)
  PROVE  exec[c] # Resting /\ WhoInv'
<1>1. TypeOK /\ WhoWorks /\ PlansOK /\ (~up => Empty) /\ c \in Threads
  BY ThreadsFact DEF WhoInv
<1>2. /\ caller[c].at = "direct" /\ Exchange(c)
      /\ caller' = IF exec'[c] = Resting THEN [caller EXCEPT ![c] = Free] ELSE caller
      /\ UNCHANGED <<queue, calls, state, stopping, life, token>>
  BY DEF RunDirect
<1>3. exec[c] # Resting /\ queue = <<>> /\ state # "run" /\ DirectVerbs # {}
  BY <1>1, <1>2 DEF WhoWorks
<1>4. \A d \in Callers \ {c} : exec[d] = Resting /\ caller[d].at # "direct"
  <2>1. \A d \in Callers : exec[d] # Resting => d = c
    BY <1>1, <1>3, OnlyOne, ThreadsFact
  <2> QED
    BY <1>1, <2>1 DEF WhoWorks
<1>5. /\ exec' \in [Threads -> Execs]
      /\ \A u \in Threads \ {c} : exec'[u] = exec[u]
      /\ exec'[c] # Resting =>
           /\ exec'[c].at # "idle" /\ exec'[c].task = exec[c].task
           /\ exec'[c].verb = exec[c].verb /\ exec'[c].file = exec[c].file
           /\ Plan(exec[c].verb, exec'[c].todo)
      /\ result' \in [Tasks -> Results] /\ {warm, lapsed}' \subseteq BOOLEAN
      /\ acked' \in [Files -> Contents \cup {"none"}]
      /\ out' \in Seq([task : Tasks, cmd : Commands, file : Paths])
      /\ in' \in Seq([part : {"head", "rest"}, reply : Replies])
      /\ UNCHANGED <<sending, device, up>>
      /\ ~up /\ Empty => Empty'
  BY <1>1, <1>2, <1>3, ExchangeFact
<1>6. /\ caller' \in [Callers -> CallerStates]
      /\ \A d \in Callers \ {c} : caller'[d] = caller[d]
      /\ exec'[c] # Resting <=> caller'[c].at = "direct"
  <2>1. CASE exec'[c] = Resting
    BY <1>1, <1>2, <2>1, RestingFact DEF TypeOK
  <2>2. CASE exec'[c] # Resting
    BY <1>1, <1>2, <2>2 DEF TypeOK
  <2> QED
    BY <2>1, <2>2
<1>7. exec'[worker] = exec[worker]
  BY <1>5, ThreadsFact
<1>8. TypeOK'
  BY <1>1, <1>2, <1>5, <1>6, <1>7 DEF TypeOK, Results, device
<1>9. WhoWorks'
  <2>1. \A d \in Callers \ {c} : exec'[d] = Resting /\ caller'[d].at # "direct"
    BY <1>4, <1>5, <1>6, ThreadsFact
  <2>2. \A d \in Callers : exec'[d] # Resting <=> caller'[d].at = "direct"
    BY <1>6, <2>1
  <2> QED
    BY <1>1, <1>2, <1>3, <2>2 DEF WhoWorks
<1>10. PlansOK'
  BY <1>1, <1>3, <1>5 DEF PlansOK
<1>11. (~up => Empty)'
  BY <1>1, <1>5
<1> QED
  BY <1>3, <1>8, <1>9, <1>10, <1>11 DEF WhoInv

(* The worker's exchange goes on.                                           *)
LEMMA WhoWorkerRun ==
  ASSUME WhoInv, WorkerRun
  PROVE  exec[worker] # Resting /\ WhoInv'
<1>1. TypeOK /\ WhoWorks /\ PlansOK /\ (~up => Empty) /\ worker \in Threads
  BY ThreadsFact DEF WhoInv
<1>2. /\ state = "run" /\ Exchange(worker)
      /\ state' = AfterExchange(exec'[worker] = Resting)
      /\ UNCHANGED <<queue, calls, caller, stopping, life, token>>
  BY DEF WorkerRun
<1>3. exec[worker] # Resting
  BY <1>1, <1>2 DEF TypeOK
<1>4. /\ exec' \in [Threads -> Execs]
      /\ \A u \in Threads \ {worker} : exec'[u] = exec[u]
      /\ exec'[worker] # Resting =>
           /\ exec'[worker].at # "idle" /\ exec'[worker].task = exec[worker].task
           /\ exec'[worker].verb = exec[worker].verb /\ exec'[worker].file = exec[worker].file
           /\ Plan(exec[worker].verb, exec'[worker].todo)
      /\ result' \in [Tasks -> Results] /\ {warm, lapsed}' \subseteq BOOLEAN
      /\ acked' \in [Files -> Contents \cup {"none"}]
      /\ out' \in Seq([task : Tasks, cmd : Commands, file : Paths])
      /\ in' \in Seq([part : {"head", "rest"}, reply : Replies])
      /\ UNCHANGED <<sending, device, up>>
      /\ ~up /\ Empty => Empty'
  BY <1>1, <1>2, <1>3, ExchangeFact
<1>5. (state' = "run" <=> exec'[worker] # Resting) /\ state' \in {"test", "run"}
  <2>1. CASE exec'[worker] = Resting
    BY <1>2, <2>1 DEF AfterExchange
  <2>2. CASE exec'[worker] # Resting
    BY <1>2, <2>2 DEF AfterExchange
  <2> QED
    BY <2>1, <2>2
<1>6. TypeOK'
  BY <1>1, <1>2, <1>4, <1>5 DEF TypeOK, Results, device
<1>7. WhoWorks'
  <2>1. \A c \in Callers : exec'[c] = exec[c] /\ caller[c].at # "direct"
    BY <1>1, <1>2, <1>4, ThreadsFact DEF WhoWorks
  <2> QED
    BY <1>1, <1>2, <2>1 DEF WhoWorks
<1>8. PlansOK'
  BY <1>1, <1>3, <1>4 DEF PlansOK
<1>9. (~up => Empty)'
  BY <1>1, <1>4
<1> QED
  BY <1>3, <1>6, <1>7, <1>8, <1>9 DEF WhoInv

(* The worker looks at its queue; while it does, no thread is in an         *)
(* exchange when something is queued.                                       *)
LEMMA WhoWorkerTest ==
  ASSUME WhoInv, WorkerTest
  PROVE  WhoInv'
<1>1. TypeOK /\ WhoWorks /\ PlansOK /\ (~up => Empty) /\ worker \in Threads
  BY ThreadsFact DEF WhoInv
<1>2. /\ state = "test"
      /\ UNCHANGED <<warm, out, in, sending, vault, durable, armed, greeted, up, lapsed, acked,
                     calls, caller, stopping, life, token>>
  BY DEF WorkerTest, device
<1>3. exec[worker] = Resting
  BY <1>1, <1>2 DEF TypeOK
<1>4. CASE UNCHANGED <<exec, result, queue>> /\ state' \in {"returned", "asleep"}
  <2>1. TypeOK'
    BY <1>1, <1>2, <1>3, <1>4 DEF TypeOK
  <2>2. WhoWorks'
    BY <1>1, <1>2, <1>4 DEF WhoWorks
  <2>3. PlansOK' /\ (~up => Empty)'
    BY <1>1, <1>2, <1>4 DEF PlansOK, Empty
  <2> QED
    BY <2>1, <2>2, <2>3 DEF WhoInv
<1>5. CASE /\ queue # <<>> /\ queue' = Tail(queue)
           /\ IF Cancelled(Head(queue))
              THEN /\ result' = [result EXCEPT ![Head(queue).task] = "cancelled"]
                   /\ UNCHANGED <<exec, state>>
              ELSE /\ Begin(worker, Head(queue).task, Head(queue).verb, Head(queue).file)
                   /\ state' = "run"
                   /\ UNCHANGED result
  <2>1. queue \in Seq(Jobs)
    BY <1>1 DEF TypeOK, Jobs
  <2>2. PICK n \in Nat : n = Len(queue)
    BY <2>1
  <2>3. /\ n > 0 /\ Head(queue) = queue[1] /\ Head(queue) \in Jobs
        /\ queue' \in Seq(Jobs) /\ Len(queue') = n - 1
        /\ \A i \in 1 .. n - 1 : queue'[i] = queue[i + 1]
    BY <1>5, <2>1, <2>2, HeadFact
  <2>4. \A i \in 1 .. n : queue[i].file \in FilesOf(queue[i].verb)
    BY <1>1, <2>2 DEF WhoWorks
  <2>5. \A i \in 1 .. Len(queue') : queue'[i].file \in FilesOf(queue'[i].verb)
    <3>1. \A i \in 1 .. n - 1 : i + 1 \in 1 .. n
      BY <2>3
    <3> QED
      BY <2>3, <2>4, <3>1
  <2>6. PICK job \in Jobs : job = Head(queue)
    BY <2>3
  <2>7. /\ job.task \in Tasks /\ job.verb \in Verbs /\ job.file \in FilesOf(job.verb)
    <3>1. 1 \in 1 .. n
      BY <2>3
    <3> QED
      BY <2>3, <2>4, <2>6, <3>1 DEF Jobs, Verbs
  <2>8. \A c \in Callers : exec[c] = Resting /\ caller[c].at # "direct"
    BY <1>1, <1>5 DEF WhoWorks
  <2>9. CASE Cancelled(job)
    <3>1. result' = [result EXCEPT ![job.task] = "cancelled"] /\ UNCHANGED <<exec, state>>
      BY <1>5, <2>6, <2>9
    <3>2. result' \in [Tasks -> Results]
      BY <1>1, <2>7, <3>1 DEF TypeOK, Results
    <3>3. TypeOK'
      BY <1>1, <1>2, <2>3, <3>1, <3>2 DEF TypeOK, Results, Jobs
    <3>4. WhoWorks'
      BY <1>2, <2>5, <2>8, <3>1 DEF WhoWorks
    <3>5. PlansOK' /\ (~up => Empty)'
      BY <1>1, <1>2, <3>1 DEF PlansOK, Empty
    <3> QED
      BY <3>3, <3>4, <3>5 DEF WhoInv
  <2>10. CASE ~Cancelled(job)
    <3>1. Begin(worker, job.task, job.verb, job.file) /\ state' = "run" /\ UNCHANGED result
      BY <1>5, <2>6, <2>10
    <3>2. /\ exec' \in [Threads -> Execs] /\ exec'[worker] # Resting
          /\ \A u \in Threads \ {worker} : exec'[u] = exec[u]
          /\ exec'[worker] = [at |-> "send", task |-> job.task, verb |-> job.verb,
                              file |-> job.file, todo |-> Requests(job.verb), got |-> NoReply]
      BY <1>1, <2>7, <3>1, BeginFact
    <3>3. TypeOK'
      BY <1>1, <1>2, <2>3, <3>1, <3>2 DEF TypeOK, Jobs
    <3>4. \A c \in Callers : exec'[c] = Resting
      BY <2>8, <3>2, ThreadsFact
    <3>5. WhoWorks'
      BY <1>2, <2>5, <2>8, <3>4 DEF WhoWorks
    <3>6. PlansOK'
      <4>1. Plan(job.verb, Requests(job.verb))
        BY <2>7, RequestsFact
      <4>2. /\ exec'[worker].at # "idle" /\ exec'[worker].task \in Tasks
            /\ exec'[worker].verb \in Verbs
            /\ exec'[worker].file \in FilesOf(exec'[worker].verb)
            /\ Plan(exec'[worker].verb, exec'[worker].todo)
        BY <2>7, <3>2, <4>1
      <4> QED
        BY <1>1, <3>2, <4>2 DEF PlansOK
    <3>7. (~up => Empty)'
      BY <1>1, <1>2 DEF Empty
    <3> QED
      BY <3>3, <3>5, <3>6, <3>7 DEF WhoInv
  <2> QED
    BY <2>9, <2>10
<1> QED
  BY <1>4, <1>5 DEF WorkerTest, Oldest
(* What a request does to the device keeps the types.                       *)
LEMMA CarryOutFact ==
  ASSUME TypeOK, NEW req \in [task : Tasks, cmd : Commands, file : Paths],
         (CanDo(req) /\ CarryOut(req)) \/ UNCHANGED device
  PROVE  /\ vault' \in [Files -> Contents] /\ durable' \in [Files -> Contents]
         /\ armed' \in Paths /\ greeted' \in BOOLEAN
<1>1. /\ vault \in [Files -> Contents] /\ durable \in [Files -> Contents]
      /\ armed \in Paths /\ greeted \in BOOLEAN
  BY DEF TypeOK
<1>2. CASE UNCHANGED device
  BY <1>1, <1>2 DEF device
<1>3. CASE CanDo(req) /\ CarryOut(req)
  <2>1. /\ vault' = VaultAfter(req) /\ durable' = IF req.cmd = "remount" THEN vault ELSE durable
        /\ armed' = IF req.cmd = "putSetup" THEN req.file ELSE armed
        /\ greeted' = (greeted \/ req.cmd = "userInfo")
    BY <1>3 DEF CarryOut
  <2>2. vault' \in [Files -> Contents]
    <3>1. {"new", "absent"} \subseteq Contents
      BY DEF Contents
    <3>2. CASE req.cmd = "putData"
      <4>1. vault' = [vault EXCEPT ![armed] = "new"]
        BY <2>1, <3>2 DEF VaultAfter
      <4> QED
        BY <1>1, <3>1, <4>1
    <3>3. CASE req.cmd = "remove"
      <4>1. vault' = [vault EXCEPT ![req.file] = "absent"]
        BY <2>1, <3>3 DEF VaultAfter
      <4> QED
        BY <1>1, <3>1, <4>1
    <3>4. CASE req.cmd \notin {"putData", "remove"}
      <4>1. vault' = vault
        BY <2>1, <3>4 DEF VaultAfter
      <4> QED
        BY <1>1, <4>1
    <3> QED
      BY <3>2, <3>3, <3>4
  <2>3. durable' \in [Files -> Contents]
    BY <1>1, <2>1
  <2>4. armed' \in Paths
    BY <1>1, <2>1
  <2> QED
    BY <2>1, <2>2, <2>3, <2>4
<1> QED
  BY <1>2, <1>3
(* Steps of the device: nobody's exchange moves.                            *)
LEMMA WhoDevice ==
  ASSUME WhoInv, (Handle \/ SendRest \/ PowerCut) /\ ClientUnchanged
  PROVE  WhoInv'
<1> DEFINE Sent == [task : Tasks, cmd : Commands, file : Paths]
           Parts == [part : {"head", "rest"}, reply : Replies]
<1>1. TypeOK /\ WhoWorks /\ PlansOK /\ (~up => Empty)
  BY DEF WhoInv
<1>2. UNCHANGED <<exec, warm, result, lapsed, acked, queue, calls, state, caller, stopping, life,
                  token>>
  BY DEF Handle, SendRest, PowerCut, ClientUnchanged
<1>3. out \in Seq(Sent) /\ in \in Seq(Parts) /\ sending \in Replies
  BY <1>1 DEF TypeOK
<1>4. /\ out' \in Seq(Sent) /\ in' \in Seq(Parts) /\ sending' \in Replies
      /\ vault' \in [Files -> Contents] /\ durable' \in [Files -> Contents]
      /\ armed' \in Paths /\ greeted' \in BOOLEAN /\ up' \in BOOLEAN
      /\ (~up => Empty)'
  <2>1. CASE Handle
    <3>1. up /\ out # <<>> /\ sending = NoReply /\ out' = Tail(out) /\ UNCHANGED up
      BY <2>1 DEF Handle
    <3>2. PICK req \in Sent : req = Head(out)
      BY <1>3, <3>1, HeadFact
    <3>3. (CanDo(req) /\ CarryOut(req)) \/ UNCHANGED device
      BY <2>1, <3>2 DEF Handle
    <3>4. /\ vault' \in [Files -> Contents] /\ durable' \in [Files -> Contents]
          /\ armed' \in Paths /\ greeted' \in BOOLEAN
      BY <1>1, <3>2, <3>3, CarryOutFact
    <3>5. \/ UNCHANGED <<in, sending>>
          \/ \E ok \in BOOLEAN : /\ sending' = Reply(req, ok)
                                 /\ in' = Append(in, [part |-> "head", reply |-> Reply(req, ok)])
      BY <2>1, <3>2 DEF Handle
    <3>6. \A ok \in BOOLEAN : Reply(req, ok) \in Replies
      BY <3>2 DEF Reply, Replies, Ids
    <3>7. in' \in Seq(Parts) /\ sending' \in Replies
      <4>1. CASE UNCHANGED <<in, sending>>
        BY <1>3, <4>1
      <4>2. ASSUME NEW ok \in BOOLEAN, sending' = Reply(req, ok),
                   in' = Append(in, [part |-> "head", reply |-> Reply(req, ok)])
            PROVE  in' \in Seq(Parts) /\ sending' \in Replies
        <5>1. PICK r \in Replies : r = Reply(req, ok)
          BY <3>6
        <5>2. [part |-> "head", reply |-> r] \in Parts
          OBVIOUS
        <5>3. PICK p \in Parts : p = [part |-> "head", reply |-> r]
          BY <5>2
        <5>4. in' = Append(in, p)
          BY <4>2, <5>1, <5>3
        <5> HIDE DEF Parts
        <5> QED
          BY <1>3, <4>2, <5>1, <5>4
      <4> QED
        BY <3>5, <4>1, <4>2
    <3>8. out' \in Seq(Sent)
      BY <1>3, <3>1, HeadFact
    <3> QED
      BY <1>1, <3>1, <3>4, <3>7, <3>8 DEF TypeOK
  <2>2. CASE SendRest
    <3>1. /\ up /\ sending # NoReply /\ in' = Append(in, [part |-> "rest", reply |-> sending])
          /\ sending' = NoReply /\ UNCHANGED <<out, vault, durable, armed, greeted, up>>
      BY <2>2 DEF SendRest, device
    <3>2. PICK p \in Parts : p = [part |-> "rest", reply |-> sending]
      BY <1>3
    <3>3. in' = Append(in, p)
      BY <3>1, <3>2
    <3>4. in' \in Seq(Parts)
      <4> HIDE DEF Parts
      <4> QED
        BY <1>3, <3>3
    <3> QED
      BY <1>1, <1>3, <3>1, <3>4, RestingFact DEF TypeOK
  <2>3. CASE PowerCut
    <3>1. /\ up' = FALSE /\ vault' = durable /\ armed' = NoFile /\ greeted' = FALSE
          /\ out' = <<>> /\ in' = <<>> /\ sending' = NoReply /\ UNCHANGED durable
      BY <2>3 DEF PowerCut
    <3>2. durable \in [Files -> Contents] /\ NoFile \in Paths
      BY <1>1 DEF TypeOK, Paths
    <3>3. (~up => Empty)'
      BY <3>1 DEF Empty
    <3>4. <<>> \in Seq(Sent) /\ <<>> \in Seq(Parts) /\ NoReply \in Replies
      BY RestingFact
    <3>5. out' \in Seq(Sent) /\ in' \in Seq(Parts) /\ sending' \in Replies
      BY <3>1, <3>4
    <3>6. vault' \in [Files -> Contents] /\ durable' \in [Files -> Contents] /\ armed' \in Paths
      BY <3>1, <3>2
    <3>7. greeted' \in BOOLEAN /\ up' \in BOOLEAN
      BY <3>1
    <3> QED
      BY <3>3, <3>5, <3>6, <3>7
  <2> QED
    BY <2>1, <2>2, <2>3
<1>5. TypeOK'
  BY <1>1, <1>2, <1>4 DEF TypeOK
<1>6. WhoWorks'
  BY <1>1, <1>2 DEF WhoWorks
<1>7. PlansOK'
  BY <1>1, <1>2 DEF PlansOK
<1> QED
  BY <1>4, <1>5, <1>6, <1>7 DEF WhoInv

LEMMA WhoStep ==
  ASSUME WhoInv, OneAtATime, [Next]_vars
  PROVE  WhoInv'
<1>1. /\ TypeOK /\ caller \in [Callers -> CallerStates] /\ {stopping, token} \subseteq BOOLEAN
      /\ life \in {"alive", "notify", "join", "gone"}
  BY DEF WhoInv, TypeOK
<1>2. state = "run" => Woken = "run"
  BY DEF Woken
<1>3. state # "run" => Woken = state \/ Woken = "test"
  BY DEF Woken
<1>4. CASE \E c \in Callers : Enqueue(c)
  BY <1>4, WhoQueue
<1>5. ASSUME NEW c \in Callers, Notify(c) PROVE WhoInv'
  <2>1. /\ caller[c].at # "direct" /\ state' = Woken
        /\ caller' = [caller EXCEPT ![c] = IF caller[c].at = "notify" THEN Free
                                           ELSE [caller[c] EXCEPT !.at = "get"]]
        /\ UNCHANGED <<wireVars, queue, calls, stopping, life, token>>
    BY <1>5 DEF Notify
  <2> DEFINE after == IF caller[c].at = "notify" THEN Free ELSE [caller[c] EXCEPT !.at = "get"]
  <2>2. caller[c] \in CallerStates
    BY <1>1
  <2>3. after \in CallerStates /\ after.at # "direct"
    BY <2>2, RestingFact DEF CallerStates
  <2> HIDE DEF after
  <2>4. caller' = [caller EXCEPT ![c] = after]
    BY <2>1 DEF after
  <2>5. /\ caller' \in [Callers -> CallerStates]
        /\ \A d \in Callers : \/ caller'[d] = caller[d]
                              \/ caller[d].at # "direct" /\ caller'[d].at # "direct"
    BY <1>1, <2>1, <2>3, <2>4
  <2> QED
    BY <1>1, <1>2, <1>3, <2>1, <2>5, WhoCallers
<1>6. ASSUME NEW c \in Callers, Get(c) PROVE WhoInv'
  <2>1. /\ caller[c].at # "direct" /\ caller' = [caller EXCEPT ![c] = Free]
        /\ UNCHANGED <<wireVars, queue, calls, state, stopping, life, token>>
    BY <1>6 DEF Get
  <2>2. /\ caller' \in [Callers -> CallerStates]
        /\ \A d \in Callers : \/ caller'[d] = caller[d]
                              \/ caller[d].at # "direct" /\ caller'[d].at # "direct"
    BY <1>1, <2>1, RestingFact
  <2> QED
    BY <1>1, <2>1, <2>2, WhoCallers
<1>7. CASE \E c \in Callers : CallDirect(c)
  BY <1>7, WhoDirect
<1>8. CASE \E c \in Callers : RunDirect(c)
  BY <1>8, WhoRunDirect
<1>9. CASE RequestStop
  BY <1>1, <1>9, WhoCallers DEF RequestStop
<1>10. CASE WorkerTest
  BY <1>10, WhoWorkerTest
<1>11. CASE WorkerRun
  BY <1>11, WhoWorkerRun
<1>12. CASE DtorStop
  BY <1>1, <1>12, WhoCallers DEF DtorStop
<1>13. CASE DtorNotify
  BY <1>1, <1>2, <1>3, <1>13, WhoCallers DEF DtorNotify
<1>14. CASE DtorJoin
  BY <1>1, <1>14, WhoCallers DEF DtorJoin
<1>15. CASE (Handle \/ SendRest \/ PowerCut) /\ ClientUnchanged
  BY <1>15, WhoDevice
<1>16. CASE UNCHANGED vars
  BY <1>1, <1>16, WhoCallers DEF vars
<1> QED
  BY <1>4, <1>5, <1>6, <1>7, <1>8, <1>9, <1>10, <1>11, <1>12, <1>13, <1>14, <1>15, <1>16
  DEF Next

(* The variables keep their types, and the worker is in a task when it      *)
(* says so, while the channel carries one exchange at a time.               *)
THEOREM TypeCorrect ==
  ASSUME OneAtATime
  PROVE  Spec => []TypeOK
<1>1. WhoInv /\ [Next]_vars => WhoInv'
  BY WhoStep
<1>2. WhoInv => TypeOK
  BY DEF WhoInv
<1> QED
  BY <1>1, <1>2, WhoInit, PTL DEF Spec
-----------------------------------------------------------------------------
(* What is on the wire, and what was promised.                              *)

(* What the invariant says of the thread that works.                        *)
Mine(t) ==
    /\ exec[t].at = "send" => Empty
    /\ exec[t].at = "head" => HeadOK(t)
    /\ exec[t].at = "rest" => RestOK(t)
    /\ Done(t)

LEMMA MineFact ==
  ASSUME WhoInv, OneAtATime, DeliveryInv, ~lapsed, NEW t \in Threads, exec[t] # Resting
  PROVE  Mine(t) /\ Promised
<1>1. WireOK /\ Promised /\ Done(t)
  BY DEF DeliveryInv
<1>2. ASSUME exec[t].at = "send" PROVE Empty
  <2>1. \A u \in Threads : exec[u] # Resting => u = t
    BY OnlyOne
  <2>2. \A u \in Threads : exec[u].at \in {"idle", "send"}
    BY <1>2, <2>1, RestingFact
  <2> QED
    BY <1>1, <2>2 DEF WireOK
<1> QED
  BY <1>1, <1>2 DEF Mine, WireOK

LEMMA MineNext ==
  ASSUME WhoInv', OneAtATime, NEW t \in Threads, exec'[t] # Resting,
         Mine(t)', Promised'
  PROVE  DeliveryInv'
<1>1. \A u \in Threads : exec'[u] # Resting => u = t
  BY OnlyOneNext
<1>2. \A u \in Threads : u # t => exec'[u].at = "idle"
  BY <1>1, RestingFact
<1>3. exec'[t].at \in {"send", "head", "rest"}
  <2>1. exec'[t] \in Execs
    BY DEF WhoInv, TypeOK
  <2>2. exec'[t].at # "idle"
    BY DEF WhoInv, PlansOK
  <2> QED
    BY <2>1, <2>2 DEF Execs
<1>4. (\A u \in Threads : exec'[u].at \in {"idle", "send"}) => Empty'
  BY <1>3 DEF Mine
<1>5. \A u \in Threads : exec'[u].at = "head" => HeadOK(u)'
  BY <1>2 DEF Mine
<1>6. \A u \in Threads : exec'[u].at = "rest" => RestOK(u)'
  BY <1>2 DEF Mine
<1>7. WireOK'
  BY <1>4, <1>5, <1>6 DEF WireOK
<1>8. \A u \in Threads : exec'[u] # Resting => Done(u)'
  BY <1>1 DEF Mine
<1> QED
  BY <1>7, <1>8 DEF DeliveryInv

LEMMA IdleNext ==
  ASSUME \A u \in Threads : exec'[u] = Resting, Empty', Promised'
  PROVE  DeliveryInv'
<1>1. \A u \in Threads : exec'[u].at = "idle"
  BY RestingFact
<1>2. WireOK'
  BY <1>1 DEF WireOK
<1> QED
  BY <1>2 DEF DeliveryInv

LEMMA DeliveryInit == Init => DeliveryInv
<1> SUFFICES ASSUME Init PROVE DeliveryInv
  OBVIOUS
<1>1. /\ exec = [t \in Threads |-> Resting]
      /\ out = <<>> /\ in = <<>> /\ sending = NoReply /\ acked = [f \in Files |-> "none"]
  BY DEF Init, WireInit
<1>2. Empty /\ \A t \in Threads : exec[t].at = "idle" /\ exec[t] = Resting
  BY <1>1, RestingFact DEF Empty
<1>3. WireOK
  BY <1>2 DEF WireOK
<1> QED
  BY <1>1, <1>2, <1>3 DEF DeliveryInv, Promised

LEMMA SameWire ==
  ASSUME DeliveryInv, UNCHANGED <<exec, out, in, sending, vault, durable, armed, up, lapsed, acked>>
  PROVE  DeliveryInv'
<1>1. Empty' = Empty /\ Promised' = Promised
  BY DEF Empty, Promised
<1>2. \A t \in Threads : /\ HeadOK(t) => HeadOK(t)'
                         /\ RestOK(t) => RestOK(t)'
                         /\ Done(t) => Done(t)'
  BY DEF HeadOK, RestOK, Done, Answers, Effected, Current, Empty
<1>3. WireOK => WireOK'
  BY <1>1, <1>2 DEF WireOK
<1> QED
  BY <1>1, <1>2, <1>3 DEF DeliveryInv

(* A verb begins when nothing is on the wire.                               *)
LEMMA DeliveryBegin ==
  ASSUME WhoInv', OneAtATime, DeliveryInv, \A u \in Threads : exec[u] = Resting,
         NEW t \in Threads, NEW task, NEW verb \in Verbs, NEW file,
         exec'[t] # Resting,
         exec'[t] = [at |-> "send", task |-> task, verb |-> verb, file |-> file,
                     todo |-> Requests(verb), got |-> NoReply],
         UNCHANGED <<out, in, sending, vault, durable, armed, up, lapsed, acked>>
  PROVE  DeliveryInv'
<1>1. CASE lapsed'
  BY <1>1 DEF DeliveryInv
<1>2. CASE ~lapsed'
  <2>1. WireOK /\ Promised
    BY <1>2 DEF DeliveryInv
  <2>2. Empty
    BY <2>1, RestingFact DEF WireOK
  <2>3. Empty' /\ Promised'
    BY <2>1, <2>2 DEF Empty, Promised
  <2>4. /\ verb = "write" => Head(Requests(verb)) \notin {"putData", "remount"}
        /\ verb = "remove" => Head(Requests(verb)) # "remount"
    BY RequestsFact
  <2>5. /\ exec'[t].at = "send" /\ exec'[t].verb = verb
        /\ Current(t)' = Head(Requests(verb))
    BY DEF Current
  <2>6. Done(t)'
    BY <2>4, <2>5 DEF Done
  <2>7. Mine(t)'
    BY <2>3, <2>5, <2>6 DEF Mine
  <2> QED
    BY <2>3, <2>7, MineNext
<1> QED
  BY <1>1, <1>2
(* The exchange of t goes on.                                               *)
LEMMA DeliverySend ==
  ASSUME WhoInv, WhoInv', OneAtATime, DeliveryInv, ~lapsed,
         NEW t \in Threads, exec[t] # Resting, Send(t), up
  PROVE  DeliveryInv'
<1>1. TypeOK /\ PlansOK /\ Mine(t) /\ Promised
  BY MineFact DEF WhoInv
<1>2. /\ exec[t] \in Execs /\ exec[t].file \in Paths
      /\ exec[t].verb \in {"write", "remove"} => exec[t].file \in Files
      /\ Current(t) \in Allowed(exec[t].verb)
      /\ exec[t].task \in Tasks
  BY <1>1, ExecFact
<1>3. exec[t].at = "send"
  BY DEF Send
<1>4. out = <<>> /\ in = <<>> /\ sending = NoReply /\ Done(t)
  BY <1>1, <1>3 DEF Mine, Empty
<1> DEFINE req == [task |-> exec[t].task, cmd |-> Current(t), file |-> exec[t].file]
<1>5. /\ out' = Append(out, req)
      /\ exec' = [exec EXCEPT ![t].at = "head"]
      /\ acked' = IF Current(t) \in {"putSetup", "remove"}
                  THEN [acked EXCEPT ![exec[t].file] = "none"] ELSE acked
      /\ UNCHANGED <<in, sending, vault, durable, armed, up>>
  BY DEF Send, device
<1>6. exec \in [Threads -> Execs] /\ acked \in [Files -> Contents \cup {"none"}]
  BY <1>1 DEF TypeOK
<1>7. exec'[t] = [exec[t] EXCEPT !.at = "head"]
  BY <1>5, <1>6
<1>8. /\ exec'[t].at = "head" /\ exec'[t].task = exec[t].task /\ exec'[t].verb = exec[t].verb
      /\ exec'[t].file = exec[t].file /\ exec'[t].todo = exec[t].todo
  BY <1>2, <1>7 DEF Execs
<1>9. Current(t)' = Current(t)
  BY <1>8 DEF Current
<1>10. out' = <<req>>
  BY <1>4, <1>5
<1>11. HeadOK(t)'
  BY <1>4, <1>5, <1>8, <1>9, <1>10 DEF HeadOK
<1>12. exec'[t] # Resting
  BY <1>8, RestingFact
<1>13. /\ exec[t].verb = "write" => Current(t) # "remove"
       /\ exec[t].verb = "remove" => Current(t) \notin {"putSetup", "putData"}
       /\ exec[t].verb \notin {"write", "remove"} => Current(t) \notin VaultChanges
  BY <1>2 DEF Allowed
<1>14. \A f \in Files : acked'[f] # "none" => acked'[f] = acked[f]
  BY <1>5, <1>6
<1>15. Promised'
  BY <1>1, <1>5, <1>14 DEF Promised
<1>16. Current(t) \in {"putSetup", "remove"} => acked'[exec[t].file] = "none"
  <2>1. Current(t) \in {"putSetup", "remove"} => exec[t].file \in Files
    BY <1>2, <1>13 DEF VaultChanges
  <2> QED
    BY <1>5, <1>6, <2>1
<1>17. Current(t) \notin {"putSetup", "remove"} => acked' = acked
  BY <1>5
<1>18. Done(t)'
  BY <1>4, <1>3, <1>5, <1>8, <1>9, <1>16, <1>17 DEF Done
<1>19. Mine(t)'
  BY <1>8, <1>11, <1>18 DEF Mine
<1> QED
  BY <1>12, <1>15, <1>19, MineNext

LEMMA DeliveryReadHead ==
  ASSUME WhoInv, WhoInv', OneAtATime, DeliveryInv, ~lapsed,
         NEW t \in Threads, exec[t] # Resting, ReadHead(t)
  PROVE  DeliveryInv'
<1>1. TypeOK /\ PlansOK /\ Mine(t) /\ Promised
  BY MineFact DEF WhoInv
<1>2. exec[t] \in Execs
  BY <1>1, ExecFact
<1>3. /\ exec[t].at = "head" /\ in # <<>> /\ in' = Tail(in)
      /\ exec' = [exec EXCEPT ![t].at = "rest", ![t].got = Head(in).reply]
      /\ UNCHANGED <<out, sending, vault, durable, armed, up, acked>>
  BY DEF ReadHead, device
<1>4. HeadOK(t) /\ Done(t)
  BY <1>1, <1>3 DEF Mine
<1>5. out = <<>>
  BY <1>3, <1>4 DEF HeadOK, Empty
<1>6. PICK r \in Replies :
        /\ Answers(t, r)
        /\ \/ in = <<Part("head", r)>> /\ sending = r
           \/ in = <<Part("head", r), Part("rest", r)>> /\ sending = NoReply
  BY <1>3, <1>4 DEF HeadOK, Empty
<1>7. Head(in).reply = r /\ \/ in' = <<>> /\ sending = r
                            \/ in' = <<Part("rest", r)>> /\ sending = NoReply
  <2>1. Part("head", r).reply = r
    BY DEF Part
  <2> QED
    BY <1>3, <1>6, <2>1, PairFact
<1>8. exec'[t] = [exec[t] EXCEPT !.at = "rest", !.got = r]
  BY <1>1, <1>3, <1>7 DEF TypeOK
<1>9. /\ exec'[t].at = "rest" /\ exec'[t].task = exec[t].task /\ exec'[t].verb = exec[t].verb
      /\ exec'[t].file = exec[t].file /\ exec'[t].todo = exec[t].todo /\ exec'[t].got = r
  BY <1>2, <1>8 DEF Execs
<1>10. Current(t)' = Current(t)
  BY <1>9 DEF Current
<1>11. r.task = exec[t].task /\ r.cmd = Current(t) /\ r.file = exec[t].file
       /\ (r.ok /\ up => Effected(t))
  BY <1>6 DEF Answers
<1>12. Effected(t) => Effected(t)'
  BY <1>3, <1>9, <1>10 DEF Effected
<1>13. Answers(t, exec[t].got)'
  BY <1>3, <1>9, <1>10, <1>11, <1>12 DEF Answers
<1>14. RestOK(t)'
  BY <1>3, <1>5, <1>7, <1>9, <1>13 DEF RestOK
<1>15. exec'[t] # Resting
  BY <1>9, RestingFact
<1>16. Done(t)'
  BY <1>3, <1>4, <1>9, <1>10 DEF Done
<1>17. Promised'
  BY <1>1, <1>3 DEF Promised
<1>18. Mine(t)'
  BY <1>9, <1>14, <1>16 DEF Mine
<1> QED
  BY <1>15, <1>17, <1>18, MineNext
LEMMA DeliveryReadRest ==
  ASSUME WhoInv, WhoInv', OneAtATime, DeliveryInv, ~lapsed', ~lapsed,
         NEW t \in Threads, exec[t] # Resting, ReadRest(t)
  PROVE  DeliveryInv'
<1>1. TypeOK /\ PlansOK /\ Mine(t) /\ Promised
  BY MineFact DEF WhoInv
<1>2. /\ exec[t] \in Execs
      /\ exec[t].verb \in {"write", "remove"} => exec[t].file \in Files
  BY <1>1, ExecFact
<1>3. /\ exec[t].at = "rest" /\ in # <<>> /\ in' = Tail(in)
      /\ UNCHANGED <<out, sending, vault, durable, armed, up>>
  BY DEF ReadRest, device
<1>4. RestOK(t) /\ Done(t)
  BY <1>1, <1>3 DEF Mine
<1>5. /\ in = <<Part("rest", exec[t].got)>> /\ sending = NoReply /\ out = <<>>
      /\ Answers(t, exec[t].got)
  BY <1>3, <1>4 DEF RestOK
<1>6. Head(in) = Part("rest", exec[t].got) /\ in' = <<>>
  BY <1>3, <1>5, PairFact
<1>7. Empty'
  BY <1>3, <1>5, <1>6 DEF Empty
<1>8. up
  BY <1>3 DEF WhoInv, Empty
<1>9. IF exec[t].got.ok THEN Advance(t) ELSE Fail(t)
  <2>1. Head(in).reply = exec[t].got
    BY <1>6 DEF Part
  <2> QED
    BY <1>6, <2>1 DEF ReadRest, Accepts, Part
<1>10. \A u \in Threads : u # t => exec[u] = Resting
  BY OnlyOne
<1>11. CASE Fail(t)
  <2>1. /\ exec'[t] = Resting /\ acked' = acked
        /\ \A u \in Threads \ {t} : exec'[u] = exec[u]
    BY <1>1, <1>11, FailFact
  <2>2. \A u \in Threads : exec'[u] = Resting
    BY <1>10, <2>1
  <2>3. Promised'
    BY <1>1, <1>3, <2>1 DEF Promised
  <2> QED
    BY <1>7, <2>2, <2>3, IdleNext
<1>12. CASE exec[t].got.ok /\ Advance(t)
  <2> DEFINE e == exec[t]
             rest == Tail(e.todo)
  <2>1. Effected(t)
    BY <1>5, <1>8, <1>12 DEF Answers
  <2>2. \A u \in Threads \ {t} : exec'[u] = exec[u]
    BY <1>1, <1>12, AdvanceFact
  <2>3. CASE /\ exec'[t] = [e EXCEPT !.at = "send", !.todo = rest, !.got = NoReply]
             /\ Follows(e.verb, Current(t), Head(rest)) /\ acked' = acked
    <3>1. /\ exec'[t].at = "send" /\ exec'[t].verb = e.verb /\ exec'[t].file = e.file
          /\ exec'[t].todo = rest
      BY <1>2, <2>3 DEF Execs
    <3>2. Current(t)' = Head(rest)
      BY <3>1 DEF Current
    <3>3. e.at # "send"
      BY <1>3
    <3>4. e.verb = "write" => /\ Current(t)' = "putData" => Current(t) = "putSetup"
                              /\ Current(t)' = "remount" => Current(t) = "putData"
      BY <2>3, <3>2 DEF Follows
    <3>5. e.verb = "remove" => (Current(t)' = "remount" => Current(t) = "remove")
      BY <2>3, <3>2 DEF Follows
    <3>6. ASSUME e.verb = "write" PROVE Done(t)'
      <4>1. Current(t)' = "putData" => armed' = e.file /\ acked'[e.file] = "none"
        BY <1>3, <1>4, <2>1, <2>3, <3>3, <3>4, <3>6 DEF Effected, Done
      <4>2. Current(t)' = "remount" => vault'[e.file] = "new" /\ acked'[e.file] = "none"
        BY <1>3, <1>4, <2>1, <2>3, <3>3, <3>4, <3>6 DEF Effected, Done
      <4> QED
        BY <3>1, <3>6, <4>1, <4>2 DEF Done
    <3>7. ASSUME e.verb = "remove" PROVE Done(t)'
      <4>1. Current(t)' = "remount" => vault'[e.file] = "absent" /\ acked'[e.file] = "none"
        BY <1>3, <1>4, <2>1, <2>3, <3>3, <3>5, <3>7 DEF Effected, Done
      <4> QED
        BY <3>1, <3>7, <4>1 DEF Done
    <3>8. ASSUME e.verb \notin {"write", "remove"} PROVE Done(t)'
      BY <3>1, <3>8 DEF Done
    <3>9. Done(t)'
      BY <3>6, <3>7, <3>8
    <3>10. Mine(t)'
      BY <1>7, <3>1, <3>9 DEF Mine
    <3>11. Promised'
      BY <1>1, <1>3, <2>3 DEF Promised
    <3>12. exec'[t] # Resting
      BY <3>1, RestingFact
    <3> QED
      BY <3>10, <3>11, <3>12, MineNext
  <2>4. CASE /\ exec'[t] = Resting
             /\ e.verb \in {"write", "remove"} =>
                  /\ Current(t) = "remount"
                  /\ acked' = [acked EXCEPT ![e.file] = Intended(e.verb)]
             /\ e.verb \notin {"write", "remove"} => acked' = acked
    <3>1. \A u \in Threads : exec'[u] = Resting
      BY <1>10, <2>2, <2>4
    <3>2. ASSUME e.verb \in {"write", "remove"} PROVE Promised'
      <4>1. durable = vault /\ vault[e.file] = Intended(e.verb)
        BY <1>4, <1>8, <2>1, <2>4, <3>2 DEF Effected, Done, Intended
      <4>2. acked' = [acked EXCEPT ![e.file] = Intended(e.verb)]
            /\ acked \in [Files -> Contents \cup {"none"}]
        BY <1>1, <2>4, <3>2 DEF TypeOK
      <4>3. \A f \in Files : acked'[f] = IF f = e.file THEN Intended(e.verb) ELSE acked[f]
        BY <4>2
      <4> QED
        BY <1>1, <1>3, <4>1, <4>3 DEF Promised
    <3>3. ASSUME e.verb \notin {"write", "remove"} PROVE Promised'
      BY <1>1, <1>3, <2>4, <3>3 DEF Promised
    <3>4. Promised'
      BY <3>2, <3>3
    <3> QED
      BY <1>7, <3>1, <3>4, IdleNext
  <2> QED
    BY <1>1, <1>12, <2>3, <2>4, AdvanceFact
<1> QED
  BY <1>9, <1>11, <1>12

LEMMA DeliveryExchange ==
  ASSUME WhoInv, WhoInv', OneAtATime, DeliveryInv, NEW t \in Threads, exec[t] # Resting,
         Exchange(t)
  PROVE  DeliveryInv'
<1>1. CASE lapsed'
  BY <1>1 DEF DeliveryInv
<1>2. CASE ~lapsed'
  <2>1. ~lapsed
    BY <1>2 DEF Exchange, Send, ReadHead, ReadJunk, ReadRest, GiveUp
  <2>2. CASE Send(t) /\ up
    BY <2>1, <2>2, DeliverySend
  <2>3. CASE Send(t) /\ ~up
    <3>1. Fail(t) /\ exec[t].at = "send" /\ UNCHANGED <<out, in, sending, vault, durable>>
      BY <2>3 DEF Send, device
    <3>2. TypeOK /\ PlansOK /\ Mine(t) /\ Promised
      BY <2>1, MineFact DEF WhoInv
    <3>3. /\ exec'[t] = Resting /\ acked' = acked
          /\ \A u \in Threads \ {t} : exec'[u] = exec[u]
      BY <3>1, <3>2, FailFact
    <3>4. \A u \in Threads : u # t => exec[u] = Resting
      BY OnlyOne
    <3>5. \A u \in Threads : exec'[u] = Resting
      BY <3>3, <3>4
    <3>6. Empty' /\ Promised'
      BY <3>1, <3>2, <3>3 DEF Mine, Empty, Promised
    <3> QED
      BY <3>5, <3>6, IdleNext
  <2>4. CASE ReadHead(t)
    BY <2>1, <2>4, DeliveryReadHead
  <2>5. CASE ReadRest(t)
    BY <1>2, <2>1, <2>5, DeliveryReadRest
  <2>6. ~ReadJunk(t) /\ ~GiveUp(t)
    BY <1>2 DEF ReadJunk, GiveUp
  <2> QED
    BY <2>2, <2>3, <2>4, <2>5, <2>6 DEF Exchange
<1> QED
  BY <1>1, <1>2
(* The device handles a request: the one that the exchange which waits has  *)
(* sent.                                                                    *)
LEMMA HandleEffect ==
  ASSUME TypeOK, PlansOK, Promised, NEW t \in Threads, exec[t] # Resting, exec[t].at = "head",
         Done(t), up, NEW req, req.cmd = Current(t), req.file = exec[t].file,
         UNCHANGED <<exec, acked, up>>,
         (CanDo(req) /\ CarryOut(req)) \/ UNCHANGED device
  PROVE  Done(t)' /\ Promised' /\ (CanDo(req) /\ CarryOut(req) => Effected(t)')
<1> DEFINE e == exec[t]
<1>1. /\ e.verb = "write" => Current(t) # "remove"
      /\ e.verb = "remove" => Current(t) \notin {"putSetup", "putData"}
      /\ e.verb \notin {"write", "remove"} => Current(t) \notin VaultChanges
      /\ e.verb \in {"write", "remove"} => e.file \in Files
  BY ExecFact DEF Allowed
<1>2. vault \in [Files -> Contents]
  BY DEF TypeOK
<1>3. Current(t)' = Current(t) /\ exec'[t] = e
  BY DEF Current
<1>4. CASE UNCHANGED device /\ ~(CanDo(req) /\ CarryOut(req))
  <2>1. UNCHANGED <<vault, durable, armed>>
    BY <1>4 DEF device
  <2>2. Done(t)' /\ Promised'
    BY <1>3, <2>1 DEF Done, Promised
  <2> QED
    BY <1>4, <2>2
<1>5. CASE CanDo(req) /\ CarryOut(req)
  <2>1. /\ vault' = VaultAfter(req) /\ durable' = IF req.cmd = "remount" THEN vault ELSE durable
        /\ armed' = IF req.cmd = "putSetup" THEN req.file ELSE armed
    BY <1>5 DEF CarryOut
  <2>2. CASE Current(t) = "putSetup"
    <3>1. e.verb = "write" /\ vault' = vault /\ durable' = durable /\ armed' = e.file
      BY <1>1, <2>1, <2>2 DEF VaultAfter, VaultChanges
    <3>2. Done(t)'
      BY <1>3, <2>2, <3>1 DEF Done
    <3>3. Promised'
      BY <3>1 DEF Promised
    <3> QED
      BY <1>3, <2>2, <3>1, <3>2, <3>3 DEF Effected
  <2>3. CASE Current(t) = "putData"
    <3>1. e.verb = "write" /\ durable' = durable /\ armed' = armed /\ armed = e.file
          /\ acked[e.file] = "none" /\ e.file \in Files
      <4>1. e.verb = "write"
        BY <1>1, <2>3 DEF VaultChanges
      <4> QED
        BY <1>1, <2>1, <2>3, <4>1 DEF Done
    <3>2. vault' = [vault EXCEPT ![e.file] = "new"]
      BY <2>1, <2>3, <3>1 DEF VaultAfter
    <3>3. vault'[e.file] = "new" /\ \A f \in Files : f # e.file => vault'[f] = vault[f]
      BY <1>2, <3>1, <3>2
    <3>4. Done(t)'
      BY <1>3, <2>3, <3>1 DEF Done
    <3>5. Promised'
      BY <3>1, <3>3 DEF Promised
    <3> QED
      BY <1>3, <2>3, <3>3, <3>4, <3>5 DEF Effected
  <2>4. CASE Current(t) = "remove"
    <3>1. e.verb = "remove" /\ durable' = durable /\ armed' = armed
          /\ acked[e.file] = "none" /\ e.file \in Files
      <4>1. e.verb = "remove"
        BY <1>1, <2>4 DEF VaultChanges
      <4> QED
        BY <1>1, <2>1, <2>4, <4>1 DEF Done
    <3>2. vault' = [vault EXCEPT ![e.file] = "absent"]
      BY <2>1, <2>4 DEF VaultAfter
    <3>3. vault'[e.file] = "absent" /\ \A f \in Files : f # e.file => vault'[f] = vault[f]
      BY <1>2, <3>1, <3>2
    <3>4. Done(t)'
      BY <1>3, <2>4, <3>1 DEF Done
    <3>5. Promised'
      BY <3>1, <3>3 DEF Promised
    <3> QED
      BY <1>3, <2>4, <3>3, <3>4, <3>5 DEF Effected
  <2>5. CASE Current(t) \notin VaultChanges
    <3>1. vault' = vault /\ armed' = armed
          /\ durable' = IF Current(t) = "remount" THEN vault ELSE durable
      BY <2>1, <2>5 DEF VaultAfter, VaultChanges
    <3>2. Done(t)'
      BY <1>3, <3>1 DEF Done
    <3>3. Promised'
      BY <3>1 DEF Promised
    <3>4. Effected(t)'
      BY <1>3, <2>5, <3>1 DEF Effected, VaultChanges
    <3> QED
      BY <3>2, <3>3, <3>4
  <2> QED
    BY <2>2, <2>3, <2>4, <2>5 DEF VaultChanges
<1> QED
  BY <1>4, <1>5

LEMMA SomeoneWaits ==
  ASSUME WhoInv, OneAtATime, DeliveryInv, ~lapsed, ~Empty
  PROVE  \E t \in Threads : exec[t] # Resting /\ exec[t].at \in {"head", "rest"} /\ Mine(t)
<1>1. WireOK
  BY DEF DeliveryInv
<1>2. PICK t \in Threads : exec[t].at \notin {"idle", "send"}
  BY <1>1 DEF WireOK
<1>3. exec[t] # Resting
  BY <1>2, RestingFact
<1>4. exec[t].at \in {"head", "rest"}
  BY <1>2, <1>3, ExecFact DEF WhoInv
<1> QED
  BY <1>3, <1>4, MineFact

LEMMA DeliveryHandle ==
  ASSUME WhoInv, WhoInv', OneAtATime, DeliveryInv, Handle
  PROVE  DeliveryInv'
<1>1. /\ up /\ out # <<>> /\ sending = NoReply /\ out' = Tail(out)
      /\ UNCHANGED <<exec, up, lapsed, acked>>
  BY DEF Handle
<1>2. CASE lapsed
  BY <1>1, <1>2 DEF DeliveryInv
<1>3. CASE ~lapsed
  <2>1. ~Empty
    BY <1>1 DEF Empty
  <2>2. PICK t \in Threads : exec[t] # Resting /\ exec[t].at \in {"head", "rest"} /\ Mine(t)
    BY <1>3, <2>1, SomeoneWaits
  <2>3. exec[t].at = "head" /\ HeadOK(t) /\ Done(t)
    BY <1>1, <2>2 DEF Mine, RestOK
  <2> DEFINE req == [task |-> exec[t].task, cmd |-> Current(t), file |-> exec[t].file]
  <2>4. out = <<req>> /\ in = <<>>
    BY <1>1, <2>1, <2>3 DEF HeadOK
  <2>5. Head(out) = req /\ out' = <<>>
    BY <1>1, <2>4, PairFact
  <2>6. req.cmd = Current(t) /\ req.file = exec[t].file /\ req.task = exec[t].task
    OBVIOUS
  <2>7. req \in [task : Tasks, cmd : Commands, file : Paths]
    BY <2>2, ExecFact DEF WhoInv
  <2> HIDE DEF req
  <2>8. /\ (CanDo(req) /\ CarryOut(req)) \/ UNCHANGED device
        /\ \/ UNCHANGED <<in, sending>>
           \/ \E ok \in BOOLEAN :
                /\ ok => CanDo(req) /\ CarryOut(req)
                /\ sending' = Reply(req, ok)
                /\ in' = Append(in, [part |-> "head", reply |-> Reply(req, ok)])
    BY <2>5 DEF Handle
  <2>9. TypeOK /\ PlansOK /\ Promised
    BY <1>3 DEF WhoInv, DeliveryInv
  <2>10. Done(t)' /\ Promised' /\ (CanDo(req) /\ CarryOut(req) => Effected(t)')
    BY <1>1, <2>2, <2>3, <2>6, <2>8, <2>9, HandleEffect
  <2>11. exec'[t] # Resting /\ exec'[t].at = "head" /\ Current(t)' = Current(t)
    BY <1>1, <2>2, <2>3 DEF Current
  <2>12. HeadOK(t)'
    <3>1. CASE UNCHANGED <<in, sending>>
      <4>1. Empty'
        BY <1>1, <2>4, <2>5, <3>1 DEF Empty
      <4> QED
        BY <4>1 DEF HeadOK
    <3>2. ASSUME NEW ok \in BOOLEAN, ok => CanDo(req) /\ CarryOut(req),
                 sending' = Reply(req, ok),
                 in' = Append(in, [part |-> "head", reply |-> Reply(req, ok)])
          PROVE  HeadOK(t)'
      <4>1. PICK r \in Replies : r = Reply(req, ok)
        BY <2>7 DEF Reply, Replies, Ids
      <4>2. r.task = exec[t].task /\ r.cmd = Current(t) /\ r.file = exec[t].file /\ r.ok = ok
        BY <2>6, <4>1 DEF Reply
      <4>3. Answers(t, r)'
        BY <1>1, <2>10, <2>11, <3>2, <4>2 DEF Answers
      <4>4. in' = <<Part("head", r)>> /\ sending' = r /\ out' = <<>>
        BY <2>4, <2>5, <3>2, <4>1 DEF Part
      <4> QED
        BY <4>3, <4>4 DEF HeadOK
    <3> QED
      BY <2>8, <3>1, <3>2
  <2>13. Mine(t)'
    BY <2>10, <2>11, <2>12 DEF Mine
  <2> QED
    BY <2>10, <2>11, <2>13, MineNext
<1> QED
  BY <1>2, <1>3
LEMMA DeliverySendRest ==
  ASSUME WhoInv, WhoInv', OneAtATime, DeliveryInv, SendRest
  PROVE  DeliveryInv'
<1>1. /\ sending # NoReply /\ sending' = NoReply
      /\ in' = Append(in, Part("rest", sending))
      /\ UNCHANGED <<exec, out, vault, durable, armed, up, lapsed, acked>>
  BY DEF SendRest, device, Part
<1>2. CASE lapsed
  BY <1>1, <1>2 DEF DeliveryInv
<1>3. CASE ~lapsed
  <2>1. ~Empty
    BY <1>1 DEF Empty
  <2>2. PICK t \in Threads : exec[t] # Resting /\ exec[t].at \in {"head", "rest"} /\ Mine(t)
    BY <1>3, <2>1, SomeoneWaits
  <2>3. exec'[t] = exec[t] /\ exec'[t] # Resting /\ Current(t)' = Current(t) /\ Done(t)
    BY <1>1, <2>2 DEF Current, Mine
  <2>4. Done(t)'
    BY <1>1, <2>3 DEF Done
  <2>5. Promised'
    BY <1>1, <1>3 DEF Promised, DeliveryInv
  <2>6. ASSUME NEW r, Answers(t, r) PROVE Answers(t, r)'
    BY <1>1, <2>3, <2>6 DEF Answers, Effected
  <2>7. ASSUME exec[t].at = "head" PROVE HeadOK(t)'
    <3>1. HeadOK(t)
      BY <2>2, <2>7 DEF Mine
    <3>2. PICK r \in Replies : Answers(t, r) /\ in = <<Part("head", r)>> /\ sending = r /\ out = <<>>
      BY <1>1, <2>1, <3>1 DEF HeadOK
    <3>3. in' = <<Part("head", r), Part("rest", r)>>
      BY <1>1, <3>2, PairFact
    <3>4. Answers(t, r)'
      BY <2>6, <3>2
    <3> QED
      BY <1>1, <3>2, <3>3, <3>4 DEF HeadOK
  <2>8. ASSUME exec[t].at = "rest" PROVE RestOK(t)'
    <3>1. RestOK(t)
      BY <2>2, <2>8 DEF Mine
    <3>2. Answers(t, exec[t].got) /\ in = <<>> /\ sending = exec[t].got /\ out = <<>>
      BY <1>1, <3>1 DEF RestOK
    <3>3. in' = <<Part("rest", exec[t].got)>>
      BY <1>1, <3>2
    <3>4. Answers(t, exec[t].got)'
      BY <1>1, <2>3, <3>2 DEF Answers, Effected
    <3> QED
      BY <1>1, <2>3, <3>2, <3>3, <3>4 DEF RestOK
  <2>9. Mine(t)'
    BY <2>2, <2>3, <2>4, <2>7, <2>8 DEF Mine
  <2> QED
    BY <2>3, <2>5, <2>9, MineNext
<1> QED
  BY <1>2, <1>3

(* A power cut takes back what no remount made durable, and the wire.       *)
LEMMA DeliveryPowerCut ==
  ASSUME DeliveryInv, PowerCut
  PROVE  DeliveryInv'
<1>1. /\ up' = FALSE /\ vault' = durable /\ out' = <<>> /\ in' = <<>> /\ sending' = NoReply
      /\ UNCHANGED <<exec, durable, lapsed, acked>>
  BY DEF PowerCut
<1>2. CASE lapsed
  BY <1>1, <1>2 DEF DeliveryInv
<1>3. CASE ~lapsed
  <2>1. WireOK /\ Promised /\ \A t \in Threads : exec[t] # Resting => Done(t)
    BY <1>3 DEF DeliveryInv
  <2>2. Empty'
    BY <1>1 DEF Empty
  <2>3. Promised'
    BY <1>1, <2>1 DEF Promised
  <2>4. ASSUME NEW t \in Threads, RestOK(t) PROVE RestOK(t)'
    <3>1. Answers(t, exec[t].got)
      BY <2>4 DEF RestOK
    <3>2. exec'[t] = exec[t] /\ Current(t)' = Current(t)
      BY <1>1 DEF Current
    <3>3. Answers(t, exec[t].got)'
      BY <1>1, <3>1, <3>2 DEF Answers
    <3> QED
      BY <1>1, <3>3 DEF RestOK
  <2>5. \A t \in Threads : HeadOK(t)'
    BY <2>2 DEF HeadOK
  <2>6. WireOK'
    BY <1>1, <2>1, <2>2, <2>4, <2>5 DEF WireOK
  <2>7. ASSUME NEW t \in Threads, exec'[t] # Resting PROVE Done(t)'
    <3>1. exec'[t] = exec[t] /\ Current(t)' = Current(t) /\ Done(t)
      BY <1>1, <2>1, <2>7 DEF Current
    <3> QED
      BY <1>1, <3>1 DEF Done
  <2> QED
    BY <2>3, <2>6, <2>7 DEF DeliveryInv
<1> QED
  BY <1>2, <1>3

LEMMA DeliveryStep ==
  ASSUME WhoInv, OneAtATime, DeliveryInv, [Next]_vars
  PROVE  DeliveryInv'
<1>1. WhoInv'
  BY WhoStep
<1>2. TypeOK /\ WhoWorks
  BY DEF WhoInv
<1>3. CASE UNCHANGED <<exec, out, in, sending, vault, durable, armed, up, lapsed, acked>>
  BY <1>3, SameWire
<1>4. CASE \E c \in Callers : Enqueue(c)
  BY <1>3, <1>4 DEF Enqueue, device
<1>5. CASE \/ \E c \in Callers : Notify(c) \/ Get(c)
           \/ RequestStop \/ DtorStop \/ DtorNotify \/ DtorJoin \/ UNCHANGED vars
  BY <1>3, <1>5 DEF Notify, Get, RequestStop, DtorStop, DtorNotify, DtorJoin, vars, wireVars, device
<1>6. ASSUME NEW c \in Callers, CallDirect(c) PROVE DeliveryInv'
  <2>1. PICK verb \in DirectVerbs : Begin(c, calls + 1, verb, NoFile)
    BY <1>6 DEF CallDirect
  <2>2. /\ calls < MaxTasks /\ (\A u \in Threads : exec[u] = Resting)
        /\ UNCHANGED <<out, in, sending, vault, durable, armed, up, lapsed, acked>>
    BY <1>6 DEF CallDirect, MayCall, Quiet, device
  <2>3. calls + 1 \in Tasks
    BY <1>2, <2>2, ClientAssumption DEF TypeOK
  <2>4. verb \in Verbs /\ NoFile \in FilesOf(verb)
    <3>1. verb \notin {"read", "write", "remove"}
      BY ClientAssumption
    <3> QED
      BY <3>1 DEF Verbs, FilesOf
  <2>5. /\ exec'[c] # Resting
        /\ exec'[c] = [at |-> "send", task |-> calls + 1, verb |-> verb, file |-> NoFile,
                       todo |-> Requests(verb), got |-> NoReply]
    BY <1>2, <2>1, <2>3, <2>4, BeginFact, ThreadsFact
  <2> QED
    BY <1>1, <2>2, <2>4, <2>5, DeliveryBegin, ThreadsFact
<1>7. ASSUME NEW c \in Callers, RunDirect(c) PROVE DeliveryInv'
  <2>1. exec[c] # Resting /\ Exchange(c)
    BY <1>7, WhoRunDirect DEF RunDirect
  <2> QED
    BY <1>1, <2>1, DeliveryExchange, ThreadsFact
<1>8. CASE WorkerRun
  <2>1. exec[worker] # Resting /\ Exchange(worker)
    BY <1>8, WhoWorkerRun DEF WorkerRun
  <2> QED
    BY <1>1, <2>1, DeliveryExchange, ThreadsFact
<1>9. CASE WorkerTest
  <2>1. UNCHANGED <<out, in, sending, vault, durable, armed, up, lapsed, acked>> /\ state = "test"
    BY <1>9 DEF WorkerTest, device
  <2>2. CASE UNCHANGED exec
    BY <1>3, <2>1, <2>2
  <2>3. CASE exec' # exec
    <3>1. /\ queue # <<>>
          /\ Begin(worker, Head(queue).task, Head(queue).verb, Head(queue).file)
      BY <1>9, <2>3 DEF WorkerTest, Oldest
    <3>2. queue \in Seq(Jobs)
      BY <1>2 DEF TypeOK, Jobs
    <3>3. PICK n \in Nat : n = Len(queue)
      BY <3>2
    <3>4. PICK job \in Jobs : job = Head(queue)
      BY <3>1, <3>2, HeadFact
    <3>5. n > 0 /\ 1 \in 1 .. n /\ job = queue[1]
      BY <3>1, <3>2, <3>3, <3>4, HeadFact
    <3>6. job.task \in Tasks /\ job.verb \in Verbs /\ job.file \in FilesOf(job.verb)
      BY <1>2, <3>3, <3>5 DEF Jobs, Verbs, WhoWorks
    <3>7. /\ exec'[worker] # Resting
          /\ exec'[worker] = [at |-> "send", task |-> job.task, verb |-> job.verb,
                              file |-> job.file, todo |-> Requests(job.verb), got |-> NoReply]
      BY <1>2, <3>1, <3>4, <3>6, BeginFact, ThreadsFact
    <3>8. \A u \in Threads : exec[u] = Resting
      <4>1. exec[worker] = Resting
        BY <1>2, <2>1 DEF TypeOK
      <4>2. \A c \in Callers : exec[c] = Resting
        BY <1>2, <3>1 DEF WhoWorks
      <4> QED
        BY <4>1, <4>2, ThreadsFact
    <3> QED
      BY <1>1, <2>1, <3>6, <3>7, <3>8, DeliveryBegin, ThreadsFact
  <2> QED
    BY <2>2, <2>3
<1>10. CASE Handle
  BY <1>1, <1>10, DeliveryHandle
<1>11. CASE SendRest
  BY <1>1, <1>11, DeliverySendRest
<1>12. CASE PowerCut
  BY <1>12, DeliveryPowerCut
<1> QED
  BY <1>4, <1>5, <1>6, <1>7, <1>8, <1>9, <1>10, <1>11, <1>12 DEF Next

LEMMA DeliveryAlways ==
  ASSUME OneAtATime
  PROVE  Spec => [](WhoInv /\ DeliveryInv)
<1>1. Init => WhoInv /\ DeliveryInv
  BY WhoInit, DeliveryInit
<1>2. WhoInv /\ DeliveryInv /\ [Next]_vars => WhoInv' /\ DeliveryInv'
  BY WhoStep, DeliveryStep
<1> QED
  BY <1>1, <1>2, PTL DEF Spec

(* While no exchange has lapsed, the reply a verb takes is the answer to    *)
(* its own request, although nothing on the wire says so.                   *)
THEOREM RepliesMatch ==
  ASSUME OneAtATime
  PROVE  Spec => []RepliesFindTheirRequests
<1>1. WhoInv /\ DeliveryInv => RepliesFindTheirRequests
  BY DEF DeliveryInv, WireOK, RestOK, Answers, RepliesFindTheirRequests
<1> QED
  BY <1>1, DeliveryAlways, PTL

(* While no exchange has lapsed, what a write or a remove reported done is  *)
(* in the durable files, where a power cut cannot take it back.             *)
THEOREM AckedIsDurable ==
  ASSUME OneAtATime
  PROVE  Spec => []AckedSurvives
<1>1. WhoInv /\ DeliveryInv => AckedSurvives
  BY DEF DeliveryInv, Promised, AckedSurvives
<1> QED
  BY <1>1, DeliveryAlways, PTL
=============================================================================
