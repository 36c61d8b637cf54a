------------------------- MODULE FlashExecuteProofs -------------------------
(***************************************************************************)
(* Theorems about FlashExecute, for every plan, option set and bound.       *)
(*                                                                          *)
(* The first part states what Ordered and Remaining do to a plan; Remaining *)
(* is a loop, and its lemma is an induction carried out as the search for a *)
(* least counterexample.  The second part proves TypeOK, the third that     *)
(* what a report says of the flash is true.  The fourth is about a whole    *)
(* flash: what success means, which sector comes last, what a chain of      *)
(* resumed calls leaves, and that execute implements FlashJob.              *)
(***************************************************************************)
EXTENDS FlashExecute, TLAPS, WellFoundedInduction

-----------------------------------------------------------------------------
(* Sequences.                                                               *)

Distinct(p) == \A i, j \in 1 .. Len(p) : p[i] = p[j] => i = j

(* A non-empty set of naturals has a least element. *)
LEMMA Least ==
  ASSUME NEW S \in SUBSET Nat, S # {}
  PROVE  \E m \in S : \A k \in S : m <= k
<1>1. PICK m \in S : \A k \in S : ~ (<<k, m>> \in OpToRel(<, Nat))
  BY WFMin, NatLessThanWellFounded
<1>2. \A k \in S : ~(k < m)
  BY <1>1 DEF OpToRel
<1> QED BY <1>2

(* The tail of a sequence without repetitions has none either, and does not *)
(* hold its head.                                                           *)
LEMMA DistinctTail ==
  ASSUME NEW S, NEW p \in Seq(S), Distinct(p), p # <<>>
  PROVE  /\ Tail(p) \in Seq(S) /\ Distinct(Tail(p))
         /\ SeqRange(Tail(p)) = SeqRange(p) \ {Head(p)}
         /\ Head(p) \in S /\ Head(p) \in SeqRange(p)
<1>1. /\ Len(p) \in Nat \ {0} /\ Tail(p) \in Seq(S) /\ Len(Tail(p)) = Len(p) - 1
      /\ \A i \in 1 .. Len(p) - 1 : Tail(p)[i] = p[i + 1]
      /\ Head(p) = p[1] /\ Head(p) \in S
  OBVIOUS
<1>2. Distinct(Tail(p))
  BY <1>1 DEF Distinct
<1>3. SeqRange(Tail(p)) \subseteq SeqRange(p) \ {Head(p)}
  BY <1>1 DEF Distinct, SeqRange
<1>4. SeqRange(p) \ {Head(p)} \subseteq SeqRange(Tail(p))
  <2> SUFFICES ASSUME NEW i \in 1 .. Len(p), p[i] # p[1]
               PROVE  p[i] \in SeqRange(Tail(p))
    BY <1>1 DEF SeqRange
  <2>1. i - 1 \in 1 .. Len(Tail(p)) /\ Tail(p)[i - 1] = p[i]
    BY <1>1
  <2> QED BY <2>1 DEF SeqRange
<1>5. Head(p) \in SeqRange(p)
  BY <1>1 DEF SeqRange
<1> QED BY <1>1, <1>2, <1>3, <1>4, <1>5

(* Ordered permutes a plan without repetitions. *)
LEMMA OrderedPermutes ==
  ASSUME NEW S, NEW p \in Seq(S), Distinct(p)
  PROVE  /\ Ordered(p) \in Seq(S) /\ Distinct(Ordered(p))
         /\ SeqRange(Ordered(p)) = SeqRange(p)
<1>1. CASE integrity \notin SeqRange(p)
  BY <1>1 DEF Ordered
<1>2. CASE integrity \in SeqRange(p)
  <2> DEFINE n == Len(p)
             k == CHOOSE k \in 1 .. n : p[k] = integrity
             q == [i \in 1 .. n |-> IF i < k THEN p[i]
                                    ELSE IF i < n THEN p[i + 1] ELSE p[k]]
  <2>1. n \in Nat /\ (\A i \in 1 .. n : p[i] \in S) /\ k \in 1 .. n
    BY <1>2 DEF SeqRange
  <2> HIDE DEF k
  <2>2. q \in [1 .. n -> S]
    BY <2>1
  <2>3. q \in Seq(S) /\ Len(q) = n
    BY <2>2, <2>1
  <2>4. Distinct(q)
    BY <2>1, <2>3 DEF Distinct
  <2>5. SeqRange(q) \subseteq SeqRange(p)
    BY <2>1, <2>3 DEF SeqRange
  <2>6. SeqRange(p) \subseteq SeqRange(q)
    <3> SUFFICES ASSUME NEW i \in 1 .. n PROVE \E j \in 1 .. n : q[j] = p[i]
      BY <2>3 DEF SeqRange
    <3>1. CASE i < k
      BY <3>1, <2>1
    <3>2. CASE i = k
      <4>1. n \in 1 .. n /\ q[n] = p[k] BY <2>1
      <4> QED BY <4>1, <3>2
    <3>3. CASE i > k
      <4>1. i - 1 \in 1 .. n /\ q[i - 1] = p[i] BY <3>3, <2>1
      <4> QED BY <4>1
    <3> QED BY <3>1, <3>2, <3>3, <2>1
  <2>7. Ordered(p) = q
    BY <1>2 DEF Ordered, k
  <2> QED BY <2>3, <2>4, <2>5, <2>6, <2>7
<1> QED BY <1>1, <1>2

(* Remaining keeps a plan a plan: sectors only, none of them twice.  It has *)
(* the sectors that are not done, and the last of them is the only one that *)
(* can have been the last of the plan.                                      *)
LEMMA RemainingType ==
  ASSUME NEW S, NEW p \in Seq(S), NEW entries, Distinct(p)
  PROVE  LET r == Remaining(p, entries) IN
         /\ r \in Seq(S) /\ Distinct(r)
         /\ SeqRange(r) = SeqRange(p) \ Done(entries)
         /\ \A i \in 1 .. Len(r) - 1 : \E j \in 1 .. Len(p) - 1 : r[i] = p[j]
<1> DEFINE N == Len(p)
           D == Done(entries)
           Body(f, i) == IF i = 0 THEN <<>>
                         ELSE IF p[i] \in D THEN f[i - 1]
                         ELSE Append(f[i - 1], p[i])
           Good(n) == \E f \in [0 .. n -> Seq(S)] : \A i \in 0 .. n : f[i] = Body(f, i)
           G == CHOOSE f : f = [i \in 0 .. N |-> Body(f, i)]
<1> HIDE DEF D
<1>1. N \in Nat /\ \A i \in 1 .. N : p[i] \in S
  OBVIOUS
<1>2. \A n \in 0 .. N : Good(n)
  <2> SUFFICES ASSUME {n \in 0 .. N : ~Good(n)} # {} PROVE FALSE
    OBVIOUS
  <2> HIDE DEF Good
  <2>1. PICK m \in 0 .. N : ~Good(m) /\ \A k \in 0 .. N : ~Good(k) => m <= k
    <3>1. {n \in 0 .. N : ~Good(n)} \in SUBSET Nat BY <1>1
    <3> QED BY <3>1, Least
  <2>2. Good(0)
    <3> DEFINE f0 == [i \in 0 .. 0 |-> <<>>]
    <3>1. f0 \in [0 .. 0 -> Seq(S)]
      OBVIOUS
    <3>2. \A i \in 0 .. 0 : f0[i] = Body(f0, i)
      OBVIOUS
    <3> HIDE DEF f0, Body
    <3> QED BY <3>1, <3>2 DEF Good
  <2>3. m # 0 /\ m - 1 \in 0 .. N /\ Good(m - 1)
    BY <2>1, <2>2, <1>1
  <2>4. PICK f \in [0 .. m - 1 -> Seq(S)] : \A i \in 0 .. m - 1 : f[i] = Body(f, i)
    BY <2>3 DEF Good
  <2> DEFINE g == [i \in 0 .. m |-> IF i < m THEN f[i] ELSE Body(f, m)]
  <2>5. Body(f, m) \in Seq(S)
    <3>1. f[m - 1] \in Seq(S) /\ p[m] \in S
      BY <2>3, <1>1
    <3> QED BY <3>1
  <2>6. g \in [0 .. m -> Seq(S)]
    BY <2>5, <2>3
  <2>7. \A i \in 0 .. m : g[i] = Body(g, i)
    <3> SUFFICES ASSUME NEW i \in 0 .. m PROVE g[i] = Body(g, i)
      OBVIOUS
    <3>1. CASE i = m
      <4>1. g[m - 1] = f[m - 1] BY <2>3, <1>1
      <4>2. g[m] = Body(f, m) BY <2>3, <1>1
      <4> QED BY <4>1, <4>2, <3>1, <2>3
    <3>2. CASE i < m
      <4>1. g[i] = f[i] BY <3>2
      <4>2. i # 0 => g[i - 1] = f[i - 1] BY <3>2, <1>1
      <4>3. i \in 0 .. m - 1 BY <3>2, <1>1
      <4>4. f[i] = Body(f, i) BY <2>4, <4>3
      <4> QED BY <4>1, <4>2, <4>4
    <3> QED BY <3>1, <3>2, <1>1
  <2>8. Good(m) BY <2>6, <2>7 DEF Good
  <2> QED BY <2>1, <2>8
<1>3. G = [i \in 0 .. N |-> Body(G, i)]
  <2>1. PICK f \in [0 .. N -> Seq(S)] : \A i \in 0 .. N : f[i] = Body(f, i)
    <3>1. Good(N)
      <4> HIDE DEF Good
      <4> QED BY <1>2, <1>1
    <3> QED BY <3>1
  <2>2. f = [i \in 0 .. N |-> Body(f, i)]
    BY <2>1
  <2> QED BY <2>2
<1> HIDE DEF G
<1> DEFINE Fine(n) == /\ G[n] \in Seq(S) /\ Distinct(G[n])
                      /\ \A i \in 1 .. Len(G[n]) :
                           \E j \in 1 .. n : G[n][i] = p[j] /\ p[j] \notin D
                      /\ \A j \in 1 .. n : p[j] \notin D =>
                           \E i \in 1 .. Len(G[n]) : G[n][i] = p[j]
                      /\ \A i \in 1 .. Len(G[n]) - 1 : \E j \in 1 .. n - 1 : G[n][i] = p[j]
<1>4. \A n \in 0 .. N : Fine(n)
  <2> SUFFICES ASSUME {n \in 0 .. N : ~Fine(n)} # {} PROVE FALSE
    OBVIOUS
  <2> HIDE DEF Fine
  <2>1. PICK m \in 0 .. N : ~Fine(m) /\ \A k \in 0 .. N : ~Fine(k) => m <= k
    <3>1. {n \in 0 .. N : ~Fine(n)} \in SUBSET Nat BY <1>1
    <3> QED BY <3>1, Least
  <2>2. G[m] = Body(G, m)
    BY <1>3
  <2>3. CASE m = 0
    <3>1. G[m] = <<>> BY <2>2, <2>3
    <3>2. Len(G[m]) = 0 /\ G[m] \in Seq(S) /\ Distinct(G[m])
      BY <3>1 DEF Distinct
    <3>3. Fine(m) BY <3>2, <2>3 DEF Fine
    <3> QED BY <3>3, <2>1
  <2>4. CASE m # 0
    <3>1. m - 1 \in 0 .. N /\ Fine(m - 1) BY <2>1, <2>4, <1>1
    <3> DEFINE q == G[m - 1]
    <3>2. /\ q \in Seq(S) /\ Distinct(q) /\ p[m] \in S /\ m \in 1 .. N
          /\ \A i \in 1 .. Len(q) :
               \E j \in 1 .. m - 1 : q[i] = p[j] /\ p[j] \notin D
          /\ \A j \in 1 .. m - 1 : p[j] \notin D =>
               \E i \in 1 .. Len(q) : q[i] = p[j]
      BY <3>1, <2>4, <1>1 DEF Fine
    <3>3. CASE p[m] \in D
      <4>1. G[m] = q BY <3>3, <2>2, <2>4
      <4> HIDE DEF q
      <4>2. \A i \in 1 .. Len(q) :
               \E j \in 1 .. m : q[i] = p[j] /\ p[j] \notin D
        BY <3>2
      <4>3. \A j \in 1 .. m : p[j] \notin D => \E i \in 1 .. Len(q) : q[i] = p[j]
        BY <3>2, <3>3
      <4>4. \A i \in 1 .. Len(q) - 1 : \E j \in 1 .. m - 1 : q[i] = p[j]
        BY <3>2
      <4>5. Fine(m) BY <4>1, <4>2, <4>3, <4>4, <3>2 DEF Fine, q
      <4> QED BY <4>5, <2>1
    <3>4. CASE p[m] \notin D
      <4> DEFINE r == Append(q, p[m])
      <4> HIDE DEF q
      <4>1. G[m] = r BY <3>4, <2>2, <2>4 DEF q
      <4>2. /\ r \in Seq(S) /\ Len(r) = Len(q) + 1 /\ r[Len(q) + 1] = p[m]
            /\ \A i \in 1 .. Len(q) : r[i] = q[i]
            /\ Len(q) \in Nat
        BY <3>2
      <4>3. \A i \in 1 .. Len(q) : q[i] # p[m]
        BY <3>2 DEF Distinct
      <4> HIDE DEF r
      <4>4. Distinct(r)
        BY <4>2, <4>3, <3>2 DEF Distinct
      <4>5. \A i \in 1 .. Len(r) :
               \E j \in 1 .. m : r[i] = p[j] /\ p[j] \notin D
        <5> SUFFICES ASSUME NEW i \in 1 .. Len(r)
                     PROVE  \E j \in 1 .. m : r[i] = p[j] /\ p[j] \notin D
          OBVIOUS
        <5>1. CASE i = Len(q) + 1
          <6>1. m \in 1 .. m /\ r[i] = p[m] BY <5>1, <4>2, <3>2
          <6> QED BY <6>1, <3>4
        <5>2. CASE i \in 1 .. Len(q)
          <6>1. PICK j \in 1 .. m - 1 : q[i] = p[j] /\ p[j] \notin D BY <5>2, <3>2
          <6>2. j \in 1 .. m /\ r[i] = p[j] BY <6>1, <5>2, <4>2, <3>2
          <6> QED BY <6>1, <6>2
        <5> QED BY <5>1, <5>2, <4>2
      <4>6. \A j \in 1 .. m : p[j] \notin D => \E i \in 1 .. Len(r) : r[i] = p[j]
        <5> SUFFICES ASSUME NEW j \in 1 .. m, p[j] \notin D
                     PROVE  \E i \in 1 .. Len(r) : r[i] = p[j]
          OBVIOUS
        <5>1. CASE j = m BY <5>1, <4>2
        <5>2. CASE j \in 1 .. m - 1
          <6>1. PICK i \in 1 .. Len(q) : q[i] = p[j] BY <5>2, <3>2
          <6> QED BY <6>1, <4>2
        <5> QED BY <5>1, <5>2, <3>2
      <4>7. \A i \in 1 .. Len(r) - 1 : \E j \in 1 .. m - 1 : r[i] = p[j]
        BY <4>2, <3>2
      <4>8. Fine(m) BY <4>1, <4>2, <4>4, <4>5, <4>6, <4>7 DEF Fine
      <4> QED BY <4>8, <2>1
    <3> QED BY <3>3, <3>4
  <2> QED BY <2>3, <2>4
<1>5. Remaining(p, entries) = G[N]
  BY DEF Remaining, G, D
<1>6. Fine(N)
  <2> HIDE DEF Fine
  <2> QED BY <1>4, <1>1
<1>7. SeqRange(G[N]) = SeqRange(p) \ D
  <2>1. ASSUME NEW i \in 1 .. Len(G[N]) PROVE G[N][i] \in SeqRange(p) \ D
    BY <1>6 DEF SeqRange
  <2>2. ASSUME NEW j \in 1 .. N, p[j] \notin D PROVE p[j] \in SeqRange(G[N])
    BY <1>6, <2>2 DEF SeqRange
  <2> QED BY <2>1, <2>2 DEF SeqRange
<1> QED BY <1>5, <1>6, <1>7 DEF D

-----------------------------------------------------------------------------
(* The ECU: what an answer can be.                                          *)

SessionType == {"default", "programming"}

LEMMA AnswerCases ==
  ASSUME NEW S, NEW a \in [ecu : S, ok : BOOLEAN] \cup {[ecu |-> ecu, ok |-> FALSE]}
  PROVE  /\ a.ok \in BOOLEAN
         /\ a.ecu = ecu \/ a.ecu \in S
         /\ a.ok => a.ecu \in S
<1>1. CASE a = [ecu |-> ecu, ok |-> FALSE]
  BY <1>1
<1>2. CASE a \in [ecu : S, ok : BOOLEAN]
  <2>1. a.ecu \in S /\ a.ok \in BOOLEAN
    BY <1>2
  <2> QED BY <2>1
<1> QED BY <1>1, <1>2

LEMMA EcuFields ==
  ASSUME ecu \in EcuType
  PROVE  /\ ecu.session \in SessionType /\ ecu.muted \in BOOLEAN
         /\ ecu.dl \in [sector : Sectors \cup {NoSector}, expect : Nat, got : Nat]
         /\ ecu.dl.sector \in Sectors \cup {NoSector}
         /\ ecu.dl.expect \in Nat /\ ecu.dl.got \in Nat
         /\ ecu.flash \in [Sectors -> Contents]
BY DEF EcuType, SessionType

LEMMA SessionAnswer ==
  ASSUME ecu \in EcuType, NEW s \in SessionType, NEW a \in SessionAnswers(s)
  PROVE  /\ a.ecu \in EcuType /\ a.ok \in BOOLEAN
         /\ a.ecu.flash = ecu.flash /\ a.ecu.muted = ecu.muted
<1>1. /\ a.ok \in BOOLEAN
      /\ a.ecu \in {ecu, [ecu EXCEPT !.session = s, !.dl = NoDownload]}
  BY AnswerCases DEF Answers, SessionAnswers
<1> DEFINE new == [ecu EXCEPT !.session = s, !.dl = NoDownload]
<1>2. NoDownload \in [sector : Sectors \cup {NoSector}, expect : Nat, got : Nat]
  BY DEF NoDownload
<1>3. new.flash = ecu.flash /\ new.muted = ecu.muted
  BY DEF EcuType
<1>4. new \in EcuType
  BY <1>2 DEF EcuType, SessionType
<1> QED BY <1>1, <1>3, <1>4

LEMMA CommControlAnswer ==
  ASSUME ecu \in EcuType, NEW m \in BOOLEAN, NEW a \in CommControlAnswers(m)
  PROVE  /\ a.ecu \in EcuType /\ a.ok \in BOOLEAN
         /\ a.ecu.flash = ecu.flash
         /\ a.ok => a.ecu.muted = m
         /\ a.ecu.muted \in {m, ecu.muted}
<1>1. /\ a.ok \in BOOLEAN
      /\ a.ecu \in {ecu, [ecu EXCEPT !.muted = m]}
      /\ a.ok => a.ecu = [ecu EXCEPT !.muted = m]
  BY AnswerCases DEF Answers, CommControlAnswers
<1>2. [ecu EXCEPT !.muted = m].muted = m
  BY DEF EcuType
<1>3. /\ [ecu EXCEPT !.muted = m] \in EcuType
      /\ [ecu EXCEPT !.muted = m].flash = ecu.flash
  BY DEF EcuType
<1> QED BY <1>1, <1>2, <1>3

LEMMA EraseAnswer ==
  ASSUME ecu \in EcuType, NEW s, NEW a \in EraseAnswers(s)
  PROVE  /\ a.ecu \in EcuType /\ a.ok \in BOOLEAN
         /\ a.ecu.muted = ecu.muted /\ a.ecu.dl = ecu.dl
         /\ \A t \in Sectors \ {s} : a.ecu.flash[t] = ecu.flash[t]
<1>1. a.ok \in BOOLEAN /\ a.ecu \in {ecu, [ecu EXCEPT !.flash[s] = "erased"]}
  BY AnswerCases DEF Answers, EraseAnswers
<1> QED BY <1>1 DEF EcuType, Contents

LEMMA DownloadAnswer ==
  ASSUME ecu \in EcuType, NEW s \in Sectors, NEW a \in DownloadAnswers(s)
  PROVE  /\ a.ecu \in EcuType /\ a.ok \in BOOLEAN
         /\ a.ecu.flash = ecu.flash /\ a.ecu.muted = ecu.muted
         /\ a.ok => a.ecu.dl.sector = s /\ a.ecu.dl.got = 0
<1> DEFINE new == [sector |-> s, expect |-> 1, got |-> 0]
<1>1. /\ a.ok \in BOOLEAN
      /\ a.ecu \in {ecu, [ecu EXCEPT !.dl = new]}
      /\ a.ok => a.ecu = [ecu EXCEPT !.dl = new]
  BY AnswerCases DEF Answers, DownloadAnswers
<1> QED BY <1>1 DEF EcuType

LEMMA TransferExitAnswer ==
  ASSUME ecu \in EcuType, NEW a \in TransferExitAnswers
  PROVE  /\ a.ecu \in EcuType /\ a.ok \in BOOLEAN
         /\ a.ecu.flash = ecu.flash /\ a.ecu.muted = ecu.muted
<1>1. a.ok \in BOOLEAN /\ a.ecu \in {ecu, [ecu EXCEPT !.dl = NoDownload]}
  BY AnswerCases DEF Answers, TransferExitAnswers
<1> QED BY <1>1 DEF EcuType, NoDownload

LEMMA CheckAnswer ==
  ASSUME NEW a \in CheckAnswers
  PROVE  a.ecu = ecu /\ a.ok \in BOOLEAN
BY AnswerCases DEF Answers, CheckAnswers

(* A block the ECU acknowledged went into the open download. *)
LEMMA TransferAnswer ==
  ASSUME ConstantAssumption, ecu \in EcuType, NEW c, NEW a \in TransferAnswers(c)
  PROVE  /\ a.ecu \in EcuType /\ a.ok \in BOOLEAN
         /\ a.ecu.muted = ecu.muted
         /\ \A t \in Sectors \ {ecu.dl.sector} : a.ecu.flash[t] = ecu.flash[t]
         /\ a.ok => /\ ecu.dl.sector # NoSector
                    /\ a.ecu.dl.sector = ecu.dl.sector
                    /\ a.ecu.dl.got = ecu.dl.got + 1
                    /\ a.ecu.dl.got = Blocks =>
                          a.ecu.flash[ecu.dl.sector] \in Rewritten
<1> DEFINE s == ecu.dl.sector
           got == ecu.dl.got + 1
           next == (ecu.dl.expect + 1) % CounterMod
<1>1. next \in Nat
  BY EcuFields DEF ConstantAssumption
<1> HIDE DEF next
<1> DEFINE Written(content) ==
              [ecu EXCEPT !.flash[s] = content,
                          !.dl = [sector |-> s, got |-> got, expect |-> next]]
<1>2. /\ a.ok \in BOOLEAN
      /\ a.ok \/ a.ecu # ecu =>
            /\ s # NoSector
            /\ \E content \in Programmed(s, got) : a.ecu = Written(content)
  <2> DEFINE All == {Written(content) :
                       content \in IF s = NoSector THEN {} ELSE Programmed(s, got)}
  <2>1. /\ a.ok \in BOOLEAN
        /\ a.ok \/ a.ecu # ecu => s # NoSector /\ a.ecu \in All
    <3> HIDE DEF Written
    <3>1. a \in Answers(/\ Programming
                        /\ s # NoSector
                        /\ got <= Blocks
                        /\ opts.bulk \/ c = ecu.dl.expect, All)
      BY DEF TransferAnswers, next, Written
    <3> HIDE DEF All
    <3> QED BY <3>1, AnswerCases DEF Answers
  <2> QED BY <2>1
<1>3. CASE ~a.ok /\ a.ecu = ecu
  BY <1>2, <1>3
<1>4. CASE a.ok \/ a.ecu # ecu
  <2>1. PICK content \in Programmed(s, got) : a.ecu = Written(content)
    BY <1>2, <1>4
  <2>2. s \in Sectors /\ got \in Nat /\ ecu.flash \in [Sectors -> Contents]
    <3>1. ecu.dl.sector \in Sectors \cup {NoSector} /\ ecu.dl.got \in Nat
      BY EcuFields
    <3>2. ecu.dl.sector # NoSector
      BY <1>2, <1>4
    <3> QED BY <3>1, <3>2, EcuFields
  <2>3. content \in Contents /\ (got = Blocks => content \in Rewritten)
    BY DEF Programmed, Contents, Rewritten
  <2>4. /\ a.ecu.muted = ecu.muted /\ a.ecu.session = ecu.session
        /\ a.ecu.dl = [sector |-> s, got |-> got, expect |-> next]
        /\ a.ecu.flash = [ecu.flash EXCEPT ![s] = content]
    BY <2>1 DEF EcuType
  <2>5. a.ecu \in EcuType
    <3> HIDE DEF s, got
    <3>1. [ecu.flash EXCEPT ![s] = content] \in [Sectors -> Contents]
      BY <2>2, <2>3
    <3>2. [sector |-> s, got |-> got, expect |-> next]
            \in [sector : Sectors \cup {NoSector}, expect : Nat, got : Nat]
      BY <2>2, <1>1
    <3>3. /\ a.ecu.flash \in [Sectors -> Contents]
          /\ a.ecu.dl \in [sector : Sectors \cup {NoSector}, expect : Nat, got : Nat]
          /\ a.ecu.muted \in BOOLEAN /\ a.ecu.session \in SessionType
      BY <2>4, <3>1, <3>2, EcuFields
    <3>4. a.ecu = [session |-> a.ecu.session, muted |-> a.ecu.muted,
                   dl |-> a.ecu.dl, flash |-> a.ecu.flash]
      BY <2>1 DEF EcuType
    <3> QED BY <3>3, <3>4 DEF EcuType, SessionType
  <2>6. a.ok \in BOOLEAN /\ s # NoSector
    BY <1>2, <1>4
  <2>7. \A t \in Sectors \ {s} : a.ecu.flash[t] = ecu.flash[t]
    BY <2>2, <2>4
  <2>8. got = Blocks => a.ecu.flash[s] \in Rewritten
    BY <2>2, <2>3, <2>4
  <2>9. a.ecu.dl.sector = s /\ a.ecu.dl.got = got
    BY <2>4
  <2> QED BY <2>4, <2>5, <2>6, <2>7, <2>8, <2>9
<1> QED BY <1>2, <1>3, <1>4

-----------------------------------------------------------------------------
(* Type correctness.  TypeOK needs to know that a sector is at hand whenever *)
(* execute is inside its sequence, that no sector is listed twice, and that *)
(* a block is only sent while one is missing.                               *)

AtSector == {"erase", "download", "block", "transfer", "exit", "check", "verify",
             "commit", "journal"}

Place ==
    /\ Distinct(plan) /\ Distinct(todo)
    /\ pc \in AtSector => todo # <<>> /\ outcome.sector = Head(todo)
    /\ pc = "transfer" => sent < Blocks

TypeInv == TypeOK /\ Place

LEMMA BlankType ==
  ASSUME NEW s \in Sectors \cup {NoSector}
  PROVE  Blank(s) \in OutcomeType /\ Blank(s).sector = s
BY DEF Blank, OutcomeType

LEMMA EmptyReportType == EmptyReport \in ReportType
BY DEF EmptyReport, ReportType

LEMMA ManifestType ==
  ASSUME NEW p \in Seq(Sectors), NEW r \in Seq(OutcomeType)
  PROVE  Manifest(p, r) \in Seq(EntryType)
<1> DEFINE n == IF Len(p) < Len(r) THEN Len(p) ELSE Len(r)
           e == [i \in 1 .. n |-> [sector |-> p[i], transferred |-> r[i].transferred,
                                   verified |-> r[i].verified]]
<1>1. n \in Nat /\ n <= Len(p) /\ n <= Len(r)
  OBVIOUS
<1>2. \A i \in 1 .. n : p[i] \in Sectors /\ r[i] \in OutcomeType
  BY <1>1
<1>3. \A i \in 1 .. n : [sector |-> p[i], transferred |-> r[i].transferred,
                          verified |-> r[i].verified] \in EntryType
  BY <1>2 DEF EntryType, OutcomeType
<1>4. e \in [1 .. n -> EntryType]
  BY <1>3
<1>5. e \in Seq(EntryType)
  BY <1>1, <1>4
<1> QED BY <1>5 DEF Manifest

LEMMA TypeInit ==
  ASSUME ConstantAssumption, Init PROVE TypeInv
<1>1. ecu \in EcuType
  <2>1. NoDownload \in [sector : Sectors \cup {NoSector}, expect : Nat, got : Nat]
    BY DEF NoDownload
  <2>2. [s \in Sectors |-> "old"] \in [Sectors -> Contents]
    BY DEF Contents
  <2> QED BY <2>1, <2>2 DEF Init, EcuType
<1>2. journal \in JournalType
  BY DEF Init, NoJournal, JournalType
<1>3. WorkerOK
  BY DEF Init, WorkerOK, PcType, Stopped, ErrorType, PduType
<1>4. JobOK
  BY DEF Init, JobOK, ConstantAssumption
<1>5. LoopOK
  BY DEF Init, LoopOK, AuditType
<1>6. RecordOK
  <2>1. 0 \in 0 .. Blocks /\ 1 \in 0 .. CounterMod - 1
    BY DEF ConstantAssumption
  <2> QED BY <2>1, BlankType, EmptyReportType DEF Init, RecordOK
<1>7. Place
  BY DEF Init, Place, Distinct, AtSector, ConstantAssumption
<1> QED BY <1>1, <1>2, <1>3, <1>4, <1>5, <1>6, <1>7 DEF TypeInv, TypeOK

LEMMA ContinueType ==
  ASSUME LoopOK, Place, WorkerOK, pc \in {"commit", "journal"}, Continue
  PROVE  /\ LoopOK' /\ Distinct(todo')
         /\ pc' \in PcType \ AtSector
<1>1. todo # <<>> /\ todo \in Seq(Sectors) /\ Distinct(todo)
  BY DEF Place, AtSector, LoopOK
<1>2. Tail(todo) \in Seq(Sectors) /\ Distinct(Tail(todo))
  BY <1>1, DistinctTail
<1>3. Append(audit, "FlashSectorWritten") \in Seq(AuditType)
  BY DEF LoopOK, AuditType
<1>4. todo' \in {todo, Tail(todo)} /\ audit' \in {audit, Append(audit, "FlashSectorWritten")}
  BY DEF Continue
<1>5. LoopOK' /\ Distinct(todo')
  BY <1>1, <1>2, <1>3, <1>4 DEF LoopOK
<1>6. pc' \in PcType \ AtSector
  BY DEF Continue, WorkerOK, PcType, AtSector
<1> QED BY <1>5, <1>6

LEMMA SectorAtHand ==
  ASSUME TypeInv, pc \in AtSector
  PROVE  /\ todo # <<>> /\ outcome.sector = Head(todo)
         /\ outcome.sector \in Sectors
         /\ todo \in Seq(Sectors) /\ Distinct(todo)
BY DEF TypeInv, TypeOK, LoopOK, Place

LEMMA CutType ==
  ASSUME NEW m \in Seq(EntryType), NEW c \in Cut(m)
  PROVE  /\ c \in Seq(EntryType)
         /\ \A i \in 1 .. Len(c) : /\ i \in 1 .. Len(m) /\ c[i].sector = m[i].sector
                                   /\ c[i].transferred => m[i].transferred
<1>1. PICK n \in 0 .. Len(m), flags \in 0 .. 2 :
         c = CutAt(m, n, flags)
  BY DEF Cut
<1>2. n \in Nat /\ 1 .. n \subseteq 1 .. Len(m) /\ Len(m) \in Nat
  OBVIOUS
<1>3. ASSUME NEW i \in 1 .. n
      PROVE  c[i] \in EntryType /\ c[i].sector = m[i].sector
             /\ (c[i].transferred => m[i].transferred)
  <2>1. m[i] \in EntryType
    BY <1>2
  <2>2. [m[i] EXCEPT !.transferred = @ /\ flags >= 1, !.verified = @ /\ flags = 2]
           \in EntryType
    BY <2>1 DEF EntryType
  <2>3. c[i] = IF i < n THEN m[i]
               ELSE [m[i] EXCEPT !.transferred = @ /\ flags >= 1,
                                 !.verified = @ /\ flags = 2]
    BY <1>1 DEF CutAt
  <2> QED BY <2>1, <2>2, <2>3 DEF EntryType
<1>4. c \in Seq(EntryType) /\ Len(c) = n
  <2>1. DOMAIN c = 1 .. n /\ c = [i \in 1 .. n |-> c[i]]
    BY <1>1 DEF CutAt
  <2> QED BY <2>1, <1>2, <1>3
<1> QED BY <1>2, <1>3, <1>4

LEMMA TornJournalType == TornJournal \in JournalType
BY DEF TornJournal, JournalType

LEMMA TypeStep ==
  ASSUME ConstantAssumption, TypeInv, [Next]_vars PROVE TypeInv'
<1> USE DEF TypeInv, TypeOK
<1>1. CASE UNCHANGED vars
  BY <1>1 DEF vars, hostVars, jobVars, WorkerOK, JobOK, LoopOK, RecordOK, Place
<1>2. CASE EnterSession
  <2>1. WorkerOK'
    BY <1>2 DEF EnterSession, Exchange, WorkerOK, PcType, Stopped, ErrorType,
       PduType
  <2>2. RecordOK'
    BY <1>2 DEF EnterSession, Exchange, RecordOK, ReportType
  <2>3. ecu' \in EcuType
    BY <1>2, SessionAnswer DEF EnterSession, Exchange, SessionType
  <2>4. JobOK' /\ LoopOK' /\ journal' \in JournalType
    BY <1>2 DEF EnterSession, Exchange, JobOK, jobVars, LoopOK, AuditType
  <2>5. Place'
    BY <1>2 DEF EnterSession, Exchange, Place, AtSector, jobVars
  <2> QED BY <2>1, <2>2, <2>3, <2>4, <2>5
<1>3. CASE SilenceBus
  <2>1. WorkerOK'
    BY <1>3 DEF SilenceBus, Exchange, WorkerOK, PcType, Stopped, ErrorType,
       PduType
  <2>2. RecordOK'
    BY <1>3 DEF SilenceBus, Exchange, RecordOK, ReportType
  <2>3. ecu' \in EcuType
    BY <1>3, CommControlAnswer DEF SilenceBus, Exchange
  <2>4. JobOK' /\ LoopOK' /\ journal' \in JournalType
    BY <1>3 DEF SilenceBus, Exchange, JobOK, jobVars, LoopOK, AuditType
  <2>5. Place'
    BY <1>3 DEF SilenceBus, Exchange, Place, AtSector, jobVars
  <2> QED BY <2>1, <2>2, <2>3, <2>4, <2>5
<1>4. CASE DrySector
  <2>1. WorkerOK'
    BY <1>4 DEF DrySector, WorkerOK, PcType, Stopped, ErrorType, PduType
  <2>2. RecordOK'
    BY <1>4, BlankType DEF DrySector, RecordOK, LoopOK
  <2>3. JobOK' /\ LoopOK' /\ journal' \in JournalType /\ ecu' \in EcuType
    BY <1>4 DEF DrySector, JobOK, jobVars, LoopOK, AuditType
  <2>4. Place'
    BY <1>4, BlankType DEF DrySector, Place, AtSector, jobVars, LoopOK
  <2> QED BY <2>1, <2>2, <2>3, <2>4
<1>5. CASE BeginSector
  <2>1. WorkerOK'
    BY <1>5 DEF BeginSector, WorkerOK, PcType, Stopped, ErrorType, PduType
  <2>2. RecordOK'
    BY <1>5, BlankType DEF BeginSector, RecordOK, LoopOK, ConstantAssumption
  <2>3. JobOK' /\ LoopOK' /\ journal' \in JournalType /\ ecu' \in EcuType
    BY <1>5 DEF BeginSector, JobOK, jobVars, LoopOK, AuditType
  <2>4. Place'
    BY <1>5, BlankType DEF BeginSector, Place, AtSector, jobVars, LoopOK
  <2> QED BY <2>1, <2>2, <2>3, <2>4
<1>6. CASE CancelBetweenSectors
  <2>1. WorkerOK'
    BY <1>6 DEF CancelBetweenSectors, WorkerOK, PcType, Stopped, ErrorType,
       PduType
  <2>2. JobOK' /\ LoopOK' /\ RecordOK' /\ journal' \in JournalType /\ ecu' \in EcuType
    BY <1>6 DEF CancelBetweenSectors, JobOK, jobVars, LoopOK, AuditType,
       RecordOK
  <2>3. Place'
    BY <1>6 DEF CancelBetweenSectors, Place, AtSector, jobVars
  <2> QED BY <2>1, <2>2, <2>3
<1>7. CASE Erase
  <2>1. WorkerOK'
    BY <1>7 DEF Erase, Exchange, SectorFailed, WorkerOK, PcType, Stopped,
       ErrorType, PduType
  <2>2. RecordOK'
    BY <1>7 DEF Erase, Exchange, SectorFailed, RecordOK, OutcomeType
  <2>3. ecu' \in EcuType
    BY <1>7, EraseAnswer DEF Erase, Exchange, SectorFailed
  <2>4. JobOK' /\ LoopOK' /\ journal' \in JournalType
    BY <1>7 DEF Erase, Exchange, SectorFailed, JobOK, jobVars, LoopOK,
       AuditType
  <2>5. Place'
    BY <1>7 DEF Erase, Exchange, SectorFailed, Place, AtSector, jobVars,
       RecordOK, OutcomeType
  <2> QED BY <2>1, <2>2, <2>3, <2>4, <2>5
<1>8. CASE Download
  <2>1. WorkerOK'
    BY <1>8 DEF Download, Exchange, SectorFailed, WorkerOK, PcType, Stopped,
       ErrorType, PduType
  <2>2. RecordOK'
    BY <1>8 DEF Download, Exchange, SectorFailed, RecordOK, OutcomeType
  <2>3. ecu' \in EcuType
    BY <1>8, DownloadAnswer DEF Download, Exchange, SectorFailed, Place,
       AtSector, LoopOK
  <2>4. JobOK' /\ LoopOK' /\ journal' \in JournalType
    BY <1>8 DEF Download, Exchange, SectorFailed, JobOK, jobVars, LoopOK,
       AuditType
  <2>5. Place'
    BY <1>8 DEF Download, Exchange, SectorFailed, Place, AtSector, jobVars,
       RecordOK, OutcomeType
  <2> QED BY <2>1, <2>2, <2>3, <2>4, <2>5
<1>9. CASE NextBlock
  <2>1. WorkerOK'
    BY <1>9 DEF NextBlock, WorkerOK, PcType, Stopped, ErrorType, PduType
  <2>2. RecordOK'
    BY <1>9 DEF NextBlock, RecordOK, OutcomeType
  <2>3. JobOK' /\ LoopOK' /\ journal' \in JournalType /\ ecu' \in EcuType
    BY <1>9 DEF NextBlock, JobOK, jobVars, LoopOK, AuditType
  <2>4. Place'
    BY <1>9 DEF NextBlock, Place, AtSector, jobVars, RecordOK, OutcomeType
  <2> QED BY <2>1, <2>2, <2>3, <2>4
<1>10. CASE CancelMidSector
  <2>1. WorkerOK'
    BY <1>10 DEF CancelMidSector, WorkerOK, PcType, Stopped, ErrorType,
       PduType
  <2>2. JobOK' /\ LoopOK' /\ RecordOK' /\ journal' \in JournalType /\ ecu' \in EcuType
    BY <1>10 DEF CancelMidSector, JobOK, jobVars, LoopOK, AuditType, RecordOK
  <2>3. Place'
    BY <1>10 DEF CancelMidSector, Place, AtSector, jobVars
  <2> QED BY <2>1, <2>2, <2>3
<1>11. CASE BulkRefused
  <2>1. WorkerOK'
    BY <1>11 DEF BulkRefused, SectorFailed, WorkerOK, PcType, Stopped,
       ErrorType, PduType
  <2>2. JobOK' /\ LoopOK' /\ RecordOK' /\ journal' \in JournalType /\ ecu' \in EcuType
    BY <1>11 DEF BulkRefused, SectorFailed, JobOK, jobVars, LoopOK, AuditType,
       RecordOK
  <2>3. Place'
    BY <1>11 DEF BulkRefused, SectorFailed, Place, AtSector, jobVars
  <2> QED BY <2>1, <2>2, <2>3
<1>12. CASE Transfer
  <2>1. WorkerOK'
    BY <1>12 DEF Transfer, Exchange, SectorFailed, WorkerOK, PcType, Stopped,
       ErrorType, PduType
  <2>2. RecordOK'
    BY <1>12 DEF Transfer, Exchange, SectorFailed, RecordOK, Place,
       NextCounter, ConstantAssumption
  <2>3. ecu' \in EcuType
    BY <1>12, TransferAnswer DEF Transfer, Exchange, SectorFailed
  <2>4. JobOK' /\ LoopOK' /\ journal' \in JournalType
    BY <1>12 DEF Transfer, Exchange, SectorFailed, JobOK, jobVars, LoopOK,
       AuditType
  <2>5. Place'
    BY <1>12 DEF Transfer, Exchange, SectorFailed, Place, AtSector, jobVars
  <2> QED BY <2>1, <2>2, <2>3, <2>4, <2>5
<1>13. CASE TransferExit
  <2>1. WorkerOK'
    BY <1>13 DEF TransferExit, Exchange, SectorFailed, WorkerOK, PcType,
       Stopped, ErrorType, PduType
  <2>2. RecordOK'
    BY <1>13 DEF TransferExit, Exchange, SectorFailed, RecordOK, OutcomeType
  <2>3. ecu' \in EcuType
    BY <1>13, TransferExitAnswer DEF TransferExit, Exchange, SectorFailed
  <2>4. JobOK' /\ LoopOK' /\ journal' \in JournalType
    BY <1>13 DEF TransferExit, Exchange, SectorFailed, JobOK, jobVars, LoopOK,
       AuditType
  <2>5. Place'
    BY <1>13 DEF TransferExit, Exchange, SectorFailed, Place, AtSector,
       jobVars, RecordOK, OutcomeType
  <2> QED BY <2>1, <2>2, <2>3, <2>4, <2>5
<1>14. CASE CheckDependencies
  <2>1. WorkerOK'
    BY <1>14 DEF CheckDependencies, Exchange, SectorFailed, WorkerOK, PcType,
       Stopped, ErrorType, PduType
  <2>2. RecordOK'
    BY <1>14 DEF CheckDependencies, Exchange, SectorFailed, RecordOK,
       OutcomeType
  <2>3. ecu' \in EcuType
    BY <1>14, CheckAnswer DEF CheckDependencies, Exchange, SectorFailed
  <2>4. JobOK' /\ LoopOK' /\ journal' \in JournalType
    BY <1>14 DEF CheckDependencies, Exchange, SectorFailed, JobOK, jobVars,
       LoopOK, AuditType
  <2>5. Place'
    BY <1>14 DEF CheckDependencies, Exchange, SectorFailed, Place, AtSector,
       jobVars, RecordOK, OutcomeType
  <2> QED BY <2>1, <2>2, <2>3, <2>4, <2>5
<1>15. CASE Verify
  <2>1. WorkerOK'
    BY <1>15 DEF Verify, Exchange, SectorFailed, WorkerOK, PcType, Stopped,
       ErrorType, PduType
  <2>2. RecordOK'
    BY <1>15 DEF Verify, Exchange, SectorFailed, RecordOK, ReadBack,
       OutcomeType
  <2>3. JobOK' /\ LoopOK' /\ journal' \in JournalType /\ ecu' \in EcuType
    BY <1>15 DEF Verify, Exchange, SectorFailed, JobOK, jobVars, LoopOK,
       AuditType
  <2>4. Place'
    BY <1>15 DEF Verify, Exchange, SectorFailed, Place, AtSector, jobVars,
       RecordOK, OutcomeType
  <2> QED BY <2>1, <2>2, <2>3, <2>4
<1>16. CASE CommitOutcome
  <2>1. pc = "commit" /\ ((pc' = "journal" /\ UNCHANGED <<todo, audit>>) \/ Continue)
    BY <1>16 DEF CommitOutcome
  <2>2. WorkerOK' /\ LoopOK' /\ Place'
    <3>1. LoopOK' /\ Distinct(todo') /\ pc' \in PcType
          /\ (pc' \in AtSector => UNCHANGED todo /\ pc' = "journal")
      BY <2>1, ContinueType DEF LoopOK, Place, PcType
    <3>2. UNCHANGED <<resumeAt, outcome, sent, error, cancel, lastPdu, late, plan>>
      BY <1>16 DEF CommitOutcome, jobVars
    <3>3. todo # <<>> /\ outcome.sector = Head(todo)
      BY <2>1 DEF Place, AtSector
    <3> QED BY <3>1, <3>2, <3>3 DEF WorkerOK, Place, AtSector
  <2>3. RecordOK'
    <3>1. Append(report.sectors, outcome) \in Seq(OutcomeType)
      BY DEF RecordOK, ReportType
    <3>2. report' = [report EXCEPT !.sectors = Append(report.sectors, outcome)]
      BY <1>16 DEF CommitOutcome
    <3>3. report' \in ReportType
      BY <3>1, <3>2 DEF RecordOK, ReportType
    <3> QED BY <1>16, <3>3 DEF CommitOutcome, RecordOK
  <2>4. JobOK' /\ ecu' \in EcuType
    BY <1>16 DEF CommitOutcome, JobOK, jobVars
  <2>5. journal' \in JournalType
    BY <1>16, TornJournalType DEF CommitOutcome
  <2> QED BY <2>2, <2>3, <2>4, <2>5
<1>17. CASE WriteJournal
  <2>1. pc = "journal" /\ Continue
    BY <1>17 DEF WriteJournal
  <2>2. WorkerOK' /\ LoopOK' /\ Place'
    <3>1. LoopOK' /\ Distinct(todo') /\ pc' \in PcType \ AtSector
      BY <2>1, ContinueType
    <3>2. UNCHANGED <<resumeAt, error, cancel, lastPdu, late, plan>>
      BY <1>17 DEF WriteJournal, jobVars
    <3> QED BY <3>1, <3>2 DEF WorkerOK, Place, AtSector
  <2>3. RecordOK' /\ JobOK' /\ ecu' \in EcuType
    BY <1>17 DEF WriteJournal, RecordOK, JobOK, jobVars
  <2>4. journal' \in JournalType
    <3>1. Manifest(plan, report.sectors) \in Seq(EntryType)
      BY ManifestType DEF JobOK, RecordOK, ReportType
    <3>2. CASE journal' = TornJournal
      BY <3>2, TornJournalType
    <3>3. ASSUME NEW m \in Cut(Manifest(plan, report.sectors)),
                 journal' = [state |-> "whole", entries |-> m]
          PROVE  journal' \in JournalType
      <4>1. m \in Seq(EntryType)
        BY <3>1, CutType
      <4> QED BY <3>3, <4>1 DEF JournalType
    <3> QED BY <1>17, <3>2, <3>3 DEF WriteJournal
  <2> QED BY <2>2, <2>3, <2>4
<1>18. CASE CancelExit
  <2>1. WorkerOK'
    BY <1>18 DEF CancelExit, Exchange, WorkerOK, PcType, Stopped, ErrorType,
       PduType
  <2>2. ecu' \in EcuType
    BY <1>18, TransferExitAnswer DEF CancelExit, Exchange
  <2>3. JobOK' /\ LoopOK' /\ RecordOK' /\ journal' \in JournalType
    BY <1>18 DEF CancelExit, Exchange, JobOK, jobVars, LoopOK, AuditType,
       RecordOK
  <2>4. Place'
    BY <1>18 DEF CancelExit, Exchange, Place, AtSector, jobVars
  <2> QED BY <2>1, <2>2, <2>3, <2>4
<1>19. CASE CancelRestore
  <2>1. WorkerOK'
    BY <1>19 DEF CancelRestore, Exchange, RestoreBus, WorkerOK, PcType,
       Stopped, ErrorType, PduType
  <2>2. RecordOK'
    BY <1>19 DEF CancelRestore, Exchange, RestoreBus, RecordOK, ReportType
  <2>3. ecu' \in EcuType
    BY <1>19, CommControlAnswer DEF CancelRestore, Exchange, RestoreBus
  <2>4. JobOK' /\ LoopOK' /\ journal' \in JournalType
    BY <1>19 DEF CancelRestore, Exchange, RestoreBus, JobOK, jobVars, LoopOK,
       AuditType
  <2>5. Place'
    BY <1>19 DEF CancelRestore, Exchange, RestoreBus, Place, AtSector, jobVars
  <2> QED BY <2>1, <2>2, <2>3, <2>4, <2>5
<1>20. CASE CancelSession
  <2>1. WorkerOK'
    BY <1>20 DEF CancelSession, Exchange, WorkerOK, PcType, Stopped,
       ErrorType, PduType
  <2>2. ecu' \in EcuType
    BY <1>20, SessionAnswer DEF CancelSession, Exchange, SessionType
  <2>3. JobOK' /\ LoopOK' /\ RecordOK' /\ journal' \in JournalType
    BY <1>20 DEF CancelSession, Exchange, JobOK, jobVars, LoopOK, AuditType,
       RecordOK
  <2>4. Place'
    BY <1>20 DEF CancelSession, Exchange, Place, AtSector, jobVars
  <2> QED BY <2>1, <2>2, <2>3, <2>4
<1>21. CASE Bail
  <2>1. WorkerOK'
    BY <1>21 DEF Bail, Exchange, RestoreBus, WorkerOK, PcType, Stopped,
       ErrorType, PduType
  <2>2. LoopOK'
    BY <1>21 DEF Bail, Exchange, RestoreBus, LoopOK, AuditType, TerminalEntry
  <2>3. RecordOK'
    BY <1>21 DEF Bail, Exchange, RestoreBus, RecordOK, ReportType
  <2>4. ecu' \in EcuType
    BY <1>21, CommControlAnswer DEF Bail, Exchange, RestoreBus
  <2>5. JobOK' /\ journal' \in JournalType
    BY <1>21 DEF Bail, Exchange, RestoreBus, JobOK, jobVars
  <2>6. Place'
    BY <1>21 DEF Bail, Exchange, RestoreBus, Place, AtSector, jobVars
  <2> QED BY <2>1, <2>2, <2>3, <2>4, <2>5, <2>6
<1>22. CASE Complete
  <2>1. WorkerOK'
    BY <1>22 DEF Complete, Exchange, RestoreBus, WorkerOK, PcType, Stopped,
       ErrorType, PduType
  <2>2. LoopOK'
    BY <1>22 DEF Complete, Exchange, RestoreBus, LoopOK, AuditType
  <2>3. RecordOK'
    BY <1>22 DEF Complete, Exchange, RestoreBus, RecordOK, ReportType
  <2>4. ecu' \in EcuType
    BY <1>22, CommControlAnswer DEF Complete, Exchange, RestoreBus
  <2>5. JobOK' /\ journal' \in JournalType
    BY <1>22 DEF Complete, Exchange, RestoreBus, JobOK, jobVars
  <2>6. Place'
    BY <1>22 DEF Complete, Exchange, RestoreBus, Place, AtSector, jobVars
  <2> QED BY <2>1, <2>2, <2>3, <2>4, <2>5, <2>6
<1>23. CASE Start
  <2>1. Ordered(plan) \in Seq(Sectors) /\ Distinct(Ordered(plan))
    BY OrderedPermutes DEF JobOK, Place
  <2>2. WorkerOK'
    BY <1>23 DEF Start, WorkerOK, PcType, ErrorType, Stopped
  <2>3. LoopOK'
    <3>1. audit' \in {<<"FlashStarted">>, <<"FlashStarted", "FlashFailed">>}
      BY <1>23 DEF Start
    <3>2. "FlashStarted" \in AuditType /\ "FlashFailed" \in AuditType
      BY DEF AuditType
    <3>3. <<"FlashStarted">> \in Seq(AuditType)
      BY <3>2
    <3>4. <<"FlashStarted", "FlashFailed">> \in Seq(AuditType)
      BY <3>2
    <3> QED BY <1>23, <2>1, <3>1, <3>3, <3>4 DEF Start, LoopOK
  <2>4. RecordOK'
    BY <1>23, BlankType, EmptyReportType DEF Start, RecordOK, ConstantAssumption
  <2>5. journal' \in JournalType
    BY <1>23 DEF Start, NoJournal, JournalType
  <2>6. JobOK' /\ ecu' \in EcuType
    BY <1>23 DEF Start, JobOK
  <2>7. Place'
    BY <1>23, <2>1 DEF Start, Place, AtSector
  <2> QED BY <2>2, <2>3, <2>4, <2>5, <2>6, <2>7
<1>24. CASE Resume
  <2>1. WorkerOK'
    BY <1>24 DEF Resume, Forget, WorkerOK, PcType, Stopped, ErrorType, PduType
  <2>2. JobOK'
    BY <1>24, RemainingType DEF Resume, Forget, JobOK, jobVars, Place
  <2>3. LoopOK'
    BY <1>24 DEF Resume, Forget, LoopOK, AuditType
  <2>4. RecordOK'
    BY <1>24, BlankType, EmptyReportType DEF Resume, Forget, RecordOK,
       ConstantAssumption
  <2>5. journal' \in JournalType /\ ecu' \in EcuType
    BY <1>24 DEF Resume, Forget, jobVars
  <2>6. Place'
    BY <1>24, RemainingType DEF Resume, Forget, Place, AtSector, jobVars,
       JobOK, Distinct
  <2> QED BY <2>1, <2>2, <2>3, <2>4, <2>5, <2>6
<1>25. CASE RaiseCancel
  <2>1. WorkerOK'
    BY <1>25 DEF RaiseCancel, hostVars, WorkerOK, PcType, Stopped, ErrorType,
       PduType
  <2>2. JobOK' /\ LoopOK' /\ RecordOK' /\ journal' \in JournalType /\ ecu' \in EcuType
    BY <1>25 DEF RaiseCancel, hostVars, JobOK, jobVars, LoopOK, AuditType,
       RecordOK
  <2>3. Place'
    BY <1>25 DEF RaiseCancel, hostVars, Place, AtSector, jobVars
  <2> QED BY <2>1, <2>2, <2>3
<1>26. CASE Crash
  <2>1. WorkerOK'
    BY <1>26 DEF Crash, Forget, WorkerOK, PcType, Stopped, ErrorType, PduType
  <2>2. LoopOK'
    BY <1>26 DEF Crash, Forget, LoopOK, AuditType
  <2>3. RecordOK'
    BY <1>26, BlankType, EmptyReportType DEF Crash, Forget, RecordOK,
       ConstantAssumption
  <2>4. JobOK' /\ journal' \in JournalType /\ ecu' \in EcuType
    BY <1>26 DEF Crash, Forget, JobOK, jobVars
  <2>5. Place'
    BY <1>26 DEF Crash, Forget, Place, AtSector, jobVars, Distinct
  <2> QED BY <2>1, <2>2, <2>3, <2>4, <2>5
<1>27. CASE EcuReset
  <2>1. WorkerOK'
    BY <1>27 DEF EcuReset, hostVars, WorkerOK, PcType, Stopped, ErrorType,
       PduType
  <2>2. ecu' \in EcuType
    BY <1>27 DEF EcuReset, hostVars, EcuType, NoDownload
  <2>3. JobOK' /\ LoopOK' /\ RecordOK' /\ journal' \in JournalType
    BY <1>27 DEF EcuReset, hostVars, JobOK, jobVars, LoopOK, AuditType,
       RecordOK
  <2>4. Place'
    BY <1>27 DEF EcuReset, hostVars, Place, AtSector, jobVars
  <2> QED BY <2>1, <2>2, <2>3, <2>4
<1> QED
    BY <1>1, <1>2, <1>3, <1>4, <1>5, <1>6, <1>7, <1>8, <1>9, <1>10, <1>11,
       <1>12, <1>13, <1>14, <1>15, <1>16, <1>17, <1>18, <1>19, <1>20, <1>21,
       <1>22, <1>23, <1>24, <1>25, <1>26, <1>27 DEF Next, Step

LEMMA AlwaysTyped == Spec => []TypeInv
<1>1. Init => TypeInv
  BY TypeInit, ConstantAssumption
<1>2. TypeInv /\ [Next]_vars => TypeInv'
  BY TypeStep, ConstantAssumption
<1> QED BY <1>1, <1>2, PTL DEF Spec

(* Every variable has its type, for every plan, option set and bound: no     *)
(* interleaving of the worker, the operator, a crash and an ECU reset drives *)
(* the sector loop past the end of the plan, the block loop past the end of  *)
(* a sector, or the block sequence counter out of its eight bits.            *)
THEOREM TypeCorrect == Spec => []TypeOK
<1>1. TypeInv => TypeOK
  BY DEF TypeInv
<1> QED BY <1>1, AlwaysTyped, PTL

-----------------------------------------------------------------------------
(* Cancellation.  Only the request that was decided on before the flag was  *)
(* looked at can still write: after it the worker passes a cancel check     *)
(* before the next.                                                         *)

PromptInv ==
    /\ late \in {0, 1}
    /\ late = 1 => cancel /\ pc \notin {"erase", "transfer"}

LEMMA PromptStep ==
  ASSUME TypeInv, PromptInv, [Next]_vars PROVE PromptInv'
<1> cancel \in BOOLEAN /\ resumeAt \in {"boundary", "bail", "cancelExit"}
  BY DEF TypeInv, TypeOK, WorkerOK
<1>1. CASE UNCHANGED vars
  BY <1>1 DEF PromptInv, vars, hostVars, jobVars
<1>2. CASE EnterSession
  BY <1>2 DEF PromptInv, EnterSession, Exchange, jobVars
<1>3. CASE SilenceBus
  BY <1>3 DEF PromptInv, SilenceBus, Exchange, jobVars
<1>4. CASE DrySector
  BY <1>4 DEF PromptInv, DrySector, jobVars
<1>5. CASE BeginSector
  BY <1>5 DEF PromptInv, BeginSector, jobVars, IsCancelled
<1>6. CASE CancelBetweenSectors
  BY <1>6 DEF PromptInv, CancelBetweenSectors, jobVars
<1>7. CASE Erase
  BY <1>7 DEF PromptInv, Erase, Exchange, SectorFailed, jobVars
<1>8. CASE Download
  BY <1>8 DEF PromptInv, Download, Exchange, SectorFailed, jobVars
<1>9. CASE NextBlock
  BY <1>9 DEF PromptInv, NextBlock, jobVars, IsCancelled
<1>10. CASE CancelMidSector
  BY <1>10 DEF PromptInv, CancelMidSector, jobVars
<1>11. CASE BulkRefused
  BY <1>11 DEF PromptInv, BulkRefused, SectorFailed, jobVars
<1>12. CASE Transfer
  BY <1>12 DEF PromptInv, Transfer, Exchange, SectorFailed, jobVars
<1>13. CASE TransferExit
  BY <1>13 DEF PromptInv, TransferExit, Exchange, SectorFailed, jobVars
<1>14. CASE CheckDependencies
  BY <1>14 DEF PromptInv, CheckDependencies, Exchange, SectorFailed, jobVars
<1>15. CASE Verify
  BY <1>15 DEF PromptInv, Verify, Exchange, SectorFailed, jobVars
<1>16. CASE CommitOutcome
  BY <1>16 DEF PromptInv, CommitOutcome, Continue, jobVars
<1>17. CASE WriteJournal
  BY <1>17 DEF PromptInv, WriteJournal, Continue, jobVars
<1>18. CASE CancelExit
  BY <1>18 DEF PromptInv, CancelExit, Exchange, jobVars
<1>19. CASE CancelRestore
  BY <1>19 DEF PromptInv, CancelRestore, Exchange, RestoreBus, jobVars
<1>20. CASE CancelSession
  BY <1>20 DEF PromptInv, CancelSession, Exchange, jobVars
<1>21. CASE Bail
  BY <1>21 DEF PromptInv, Bail, Exchange, RestoreBus, jobVars
<1>22. CASE Complete
  BY <1>22 DEF PromptInv, Complete, Exchange, RestoreBus, jobVars
<1>23. CASE Start
  BY <1>23 DEF PromptInv, Start, jobVars
<1>24. CASE Resume
  BY <1>24 DEF PromptInv, Resume, Forget, jobVars
<1>25. CASE RaiseCancel
  BY <1>25 DEF PromptInv, RaiseCancel, hostVars, jobVars
<1>26. CASE Crash
  BY <1>26 DEF PromptInv, Crash, Forget, jobVars
<1>27. CASE EcuReset
  BY <1>27 DEF PromptInv, EcuReset, hostVars, jobVars
<1> QED
  BY <1>1, <1>2, <1>3, <1>4, <1>5, <1>6, <1>7, <1>8, <1>9, <1>10, <1>11,
     <1>12, <1>13, <1>14, <1>15, <1>16, <1>17, <1>18, <1>19, <1>20, <1>21,
     <1>22, <1>23, <1>24, <1>25, <1>26, <1>27 DEF Next, Step

(* Once cancel is raised at most one more erase or block goes out, whatever *)
(* the length of the plan and of its sectors.                               *)
THEOREM CancelPrompt == Spec => []CancelIsPrompt
<1>1. Init => PromptInv
  BY DEF Init, PromptInv
<1>2. TypeInv /\ PromptInv /\ [Next]_vars => PromptInv'
  BY PromptStep
<1>3. PromptInv => CancelIsPrompt
  BY DEF PromptInv, CancelIsPrompt
<1> QED BY <1>1, <1>2, <1>3, AlwaysTyped, PTL DEF Spec

-----------------------------------------------------------------------------
(* The bus.  restored_bus is set by nothing but an acknowledged             *)
(* CommunicationControl, and nothing mutes the bus after the silence step.  *)

AudibleInv ==
    /\ RestoredMeansAudible
    /\ pc \in {"session", "silence"} => ~report.restored

LEMMA AudibleStep ==
  ASSUME TypeInv, AudibleInv, [Next]_vars PROVE AudibleInv'
<1> USE DEF RestoredMeansAudible
<1> /\ ecu \in EcuType /\ report \in ReportType
    /\ resumeAt \in {"boundary", "bail", "cancelExit"}
  BY DEF TypeInv, TypeOK, WorkerOK, RecordOK
<1> ConstantAssumption
  BY ConstantAssumption
<1> pc \in AtSector => outcome.sector \in Sectors
  BY SectorAtHand
<1>1. CASE UNCHANGED vars
  BY <1>1 DEF AudibleInv, vars, hostVars, jobVars
<1>2. CASE EnterSession
  BY <1>2, SessionAnswer DEF AudibleInv, EnterSession, Exchange, jobVars,
     ReportType, SessionType
<1>3. CASE SilenceBus
  BY <1>3, CommControlAnswer DEF AudibleInv, SilenceBus, Exchange, jobVars,
     ReportType
<1>4. CASE DrySector
  BY <1>4 DEF AudibleInv, DrySector, jobVars, ReportType
<1>5. CASE BeginSector
  BY <1>5 DEF AudibleInv, BeginSector, jobVars, ReportType
<1>6. CASE CancelBetweenSectors
  BY <1>6 DEF AudibleInv, CancelBetweenSectors, jobVars, ReportType
<1>7. CASE Erase
  BY <1>7, EraseAnswer DEF AudibleInv, Erase, Exchange, SectorFailed, jobVars,
     ReportType
<1>8. CASE Download
  BY <1>8, DownloadAnswer DEF AudibleInv, Download, Exchange, SectorFailed,
     jobVars, ReportType, AtSector
<1>9. CASE NextBlock
  BY <1>9 DEF AudibleInv, NextBlock, jobVars, ReportType
<1>10. CASE CancelMidSector
  BY <1>10 DEF AudibleInv, CancelMidSector, jobVars, ReportType
<1>11. CASE BulkRefused
  BY <1>11 DEF AudibleInv, BulkRefused, SectorFailed, jobVars, ReportType
<1>12. CASE Transfer
  BY <1>12, TransferAnswer DEF AudibleInv, Transfer, Exchange, SectorFailed,
     jobVars, ReportType
<1>13. CASE TransferExit
  BY <1>13, TransferExitAnswer DEF AudibleInv, TransferExit, Exchange,
     SectorFailed, jobVars, ReportType
<1>14. CASE CheckDependencies
  BY <1>14, CheckAnswer DEF AudibleInv, CheckDependencies, Exchange,
     SectorFailed, jobVars, ReportType
<1>15. CASE Verify
  BY <1>15 DEF AudibleInv, Verify, Exchange, SectorFailed, jobVars, ReportType
<1>16. CASE CommitOutcome
  BY <1>16 DEF AudibleInv, CommitOutcome, Continue, jobVars, ReportType
<1>17. CASE WriteJournal
  BY <1>17 DEF AudibleInv, WriteJournal, Continue, jobVars, ReportType
<1>18. CASE CancelExit
  BY <1>18, TransferExitAnswer DEF AudibleInv, CancelExit, Exchange, jobVars,
     ReportType
<1>19. CASE CancelRestore
  BY <1>19, CommControlAnswer DEF AudibleInv, CancelRestore, Exchange,
     RestoreBus, jobVars, ReportType
<1>20. CASE CancelSession
  BY <1>20, SessionAnswer DEF AudibleInv, CancelSession, Exchange, jobVars,
     ReportType, SessionType
<1>21. CASE Bail
  BY <1>21, CommControlAnswer DEF AudibleInv, Bail, Exchange, RestoreBus,
     jobVars, ReportType
<1>22. CASE Complete
  BY <1>22, CommControlAnswer DEF AudibleInv, Complete, Exchange, RestoreBus,
     jobVars, ReportType
<1>23. CASE Start
  BY <1>23 DEF AudibleInv, Start, jobVars, ReportType, EmptyReport
<1>24. CASE Resume
  BY <1>24 DEF AudibleInv, Resume, Forget, jobVars, ReportType, EmptyReport
<1>25. CASE RaiseCancel
  BY <1>25 DEF AudibleInv, RaiseCancel, hostVars, jobVars, ReportType
<1>26. CASE Crash
  BY <1>26 DEF AudibleInv, Crash, Forget, jobVars, ReportType, EmptyReport
<1>27. CASE EcuReset
  BY <1>27 DEF AudibleInv, EcuReset, hostVars, jobVars, ReportType, EcuType
<1> QED
  BY <1>1, <1>2, <1>3, <1>4, <1>5, <1>6, <1>7, <1>8, <1>9, <1>10, <1>11,
     <1>12, <1>13, <1>14, <1>15, <1>16, <1>17, <1>18, <1>19, <1>20, <1>21,
     <1>22, <1>23, <1>24, <1>25, <1>26, <1>27 DEF Next, Step

(* A report that says the bus was restored is right, on every exit path: the *)
(* ECU accepted the request and nothing muted it again.                     *)
THEOREM RestoredAudible == Spec => []RestoredMeansAudible
<1>1. Init => AudibleInv
  BY DEF Init, AudibleInv, RestoredMeansAudible, EmptyReport
<1>2. TypeInv /\ AudibleInv /\ [Next]_vars => AudibleInv'
  BY AudibleStep
<1>3. AudibleInv => RestoredMeansAudible
  BY DEF AudibleInv
<1> QED BY <1>1, <1>2, <1>3, AlwaysTyped, PTL DEF Spec

-----------------------------------------------------------------------------
(* The report.  Three facts carry it.  A sector that has an outcome is never *)
(* touched again in the same call, because no sector is in the plan twice.  *)
(* The blocks the worker counts are the blocks of the open download, unless *)
(* a reset has closed it, and then no further block is accepted.  And an    *)
(* outcome is marked transferred and verified only from such a count and a  *)
(* comparison.                                                              *)

LoopPc == AtSector \cup {"session", "silence", "boundary"}

Untouched ==
    /\ \A i \in 1 .. Len(report.sectors) : report.sectors[i].sector \in Sectors
    /\ pc \in LoopPc =>
         \A i \in 1 .. Len(report.sectors) :
            report.sectors[i].sector \notin
                (IF pc = "journal" THEN SeqRange(Tail(todo)) ELSE SeqRange(todo))

Counted ==
    /\ pc \in {"erase", "download"} => sent = 0
    /\ pc \in {"block", "transfer"} =>
         /\ ecu.dl.sector \in {NoSector, outcome.sector}
         /\ ecu.dl.sector = outcome.sector => ecu.dl.got = sent
         /\ sent = Blocks => ecu.flash[outcome.sector] \in Rewritten

TrueOf(o) ==
    /\ o.transferred => ecu.flash[o.sector] \in Rewritten
    /\ opts.verify /\ Completed(o) /\ o.verified => ecu.flash[o.sector] = "new"

Marked ==
    /\ pc \in {"erase", "download", "block", "transfer"} => ~outcome.transferred
    /\ pc \in {"erase", "download", "block", "transfer", "exit", "check"} =>
         ~outcome.checked
    /\ pc \in AtSector \ {"commit", "journal"} =>
         (outcome.transferred => ecu.flash[outcome.sector] \in Rewritten)
    /\ pc = "commit" => TrueOf(outcome)

ReportInv == ReportIsTrue /\ Untouched /\ Counted /\ Marked

LEMMA ReportParts ==
  ReportIsTrue <=> \A i \in 1 .. Len(report.sectors) : TrueOf(report.sectors[i])
BY DEF ReportIsTrue, TrueOf

LEMMA KeepReport ==
  ASSUME ReportIsTrue, UNCHANGED <<report.sectors, opts, ecu.flash>>
  PROVE  ReportIsTrue'
BY DEF ReportIsTrue, Completed

LEMMA KeepUntouched ==
  ASSUME Untouched, UNCHANGED <<report.sectors, todo>>, pc \in LoopPc \ {"journal"},
         pc' # "journal"
  PROVE  Untouched'
BY DEF Untouched, LoopPc, AtSector

LEMMA LeaveLoop ==
  ASSUME Untouched, UNCHANGED report.sectors, pc' \notin LoopPc
  PROVE  Untouched'
BY DEF Untouched

LEMMA EmptyReportTrue ==
  ASSUME report' = EmptyReport
  PROVE  ReportIsTrue' /\ Untouched'
BY DEF ReportIsTrue, Untouched, EmptyReport

LEMMA ReportStep ==
  ASSUME TypeInv, ReportInv, [Next]_vars PROVE ReportInv'
<1> ConstantAssumption /\ TypeInv'
  BY ConstantAssumption, TypeStep
<1> USE DEF ReportInv
<1> /\ ecu \in EcuType /\ report \in ReportType /\ outcome \in OutcomeType
    /\ sent \in 0 .. Blocks /\ opts \in OptionType
    /\ resumeAt \in {"boundary", "bail", "cancelExit"}
  BY DEF TypeInv, TypeOK, WorkerOK, RecordOK, JobOK
<1> pc \in AtSector => outcome.sector \in Sectors
  BY SectorAtHand
<1>1. CASE UNCHANGED vars
  BY <1>1 DEF ReportIsTrue, Completed, Untouched, Counted, Marked, TrueOf, vars, hostVars, jobVars
<1>2. CASE EnterSession
  <2>1. UNCHANGED <<report.sectors, opts, ecu.flash>>
    BY <1>2, SessionAnswer DEF EnterSession, Exchange, jobVars, AtSector,
       ReportType, SessionType
  <2>2. ReportIsTrue'
    BY <2>1, KeepReport
  <2>3. Untouched'
    BY <1>2, <2>1, KeepUntouched DEF EnterSession, Exchange, LoopPc, AtSector
  <2>4. Counted' /\ Marked'
    BY <1>2, <2>1, SessionAnswer DEF EnterSession, Exchange, jobVars, Counted,
       Marked, TrueOf, AtSector
  <2> QED BY <2>2, <2>3, <2>4
<1>3. CASE SilenceBus
  <2>1. UNCHANGED <<report.sectors, opts, ecu.flash>>
    BY <1>3, CommControlAnswer DEF SilenceBus, Exchange, jobVars, AtSector,
       ReportType
  <2>2. ReportIsTrue'
    BY <2>1, KeepReport
  <2>3. Untouched'
    BY <1>3, <2>1, KeepUntouched DEF SilenceBus, Exchange, LoopPc, AtSector
  <2>4. Counted' /\ Marked'
    BY <1>3, <2>1, CommControlAnswer DEF SilenceBus, Exchange, jobVars,
       Counted, Marked, TrueOf, AtSector
  <2> QED BY <2>2, <2>3, <2>4
<1>4. CASE DrySector
  <2>1. UNCHANGED <<report.sectors, opts, ecu.flash>>
    BY <1>4 DEF DrySector, jobVars, AtSector
  <2>2. ReportIsTrue'
    BY <2>1, KeepReport
  <2>3. Untouched'
    BY <1>4, <2>1, KeepUntouched DEF DrySector, LoopPc, AtSector
  <2>4. Counted' /\ Marked'
    BY <1>4, <2>1 DEF DrySector, jobVars, Counted, Marked, TrueOf, AtSector,
       Blank, Completed
  <2> QED BY <2>2, <2>3, <2>4
<1>5. CASE BeginSector
  <2>1. UNCHANGED <<report.sectors, opts, ecu.flash>>
    BY <1>5 DEF BeginSector, jobVars, AtSector
  <2>2. ReportIsTrue'
    BY <2>1, KeepReport
  <2>3. Untouched'
    BY <1>5, <2>1, KeepUntouched DEF BeginSector, LoopPc, AtSector
  <2>4. Counted' /\ Marked'
    BY <1>5, <2>1 DEF BeginSector, jobVars, Counted, Marked, TrueOf, AtSector,
       Blank, Completed
  <2> QED BY <2>2, <2>3, <2>4
<1>6. CASE CancelBetweenSectors
  <2>1. UNCHANGED <<report.sectors, opts, ecu.flash>>
    BY <1>6 DEF CancelBetweenSectors, jobVars, AtSector
  <2>2. ReportIsTrue'
    BY <2>1, KeepReport
  <2>3. Untouched'
    BY <1>6, <2>1, LeaveLoop DEF CancelBetweenSectors, LoopPc, AtSector
  <2>4. Counted' /\ Marked'
    BY <1>6, <2>1 DEF CancelBetweenSectors, jobVars, Counted, Marked, TrueOf,
       AtSector
  <2> QED BY <2>2, <2>3, <2>4
<1>7. CASE Erase
  <2>1. PICK a \in EraseAnswers(outcome.sector) : ecu' = a.ecu
    BY <1>7 DEF Erase, Exchange
  <2>2. /\ \A t \in Sectors \ {outcome.sector} : ecu'.flash[t] = ecu.flash[t]
        /\ UNCHANGED <<report, todo, opts, sent>>
        /\ outcome'.sector = outcome.sector
        /\ UNCHANGED <<outcome.transferred, outcome.checked>>
        /\ pc = "erase" /\ pc' \in {"download", "commit"}
    BY <1>7, <2>1, EraseAnswer DEF Erase, Exchange, SectorFailed, jobVars, OutcomeType
  <2>3. \A i \in 1 .. Len(report.sectors) :
           report.sectors[i].sector \in Sectors \ {outcome.sector}
    <3>1. outcome.sector \in SeqRange(todo)
      BY <2>2, SectorAtHand, DistinctTail DEF AtSector
    <3> QED BY <2>2, <3>1 DEF Untouched, LoopPc, AtSector
  <2>4. ReportIsTrue'
    BY <2>2, <2>3 DEF ReportIsTrue, Completed
  <2>5. Untouched'
    BY <2>2, KeepUntouched DEF LoopPc, AtSector
  <2>6. Counted' /\ Marked'
    BY <2>2 DEF Counted, Marked, TrueOf, Completed, AtSector
  <2> QED BY <2>4, <2>5, <2>6
<1>8. CASE Download
  <2>1. UNCHANGED <<report.sectors, opts, ecu.flash>>
    BY <1>8, DownloadAnswer DEF Download, Exchange, SectorFailed, jobVars,
       AtSector
  <2>2. ReportIsTrue'
    BY <2>1, KeepReport
  <2>3. Untouched'
    BY <1>8, <2>1, KeepUntouched DEF Download, Exchange, SectorFailed, LoopPc,
       AtSector
  <2>4. Counted' /\ Marked'
    BY <1>8, <2>1, DownloadAnswer DEF Download, Exchange, SectorFailed,
       jobVars, Counted, Marked, TrueOf, AtSector, OutcomeType, Completed,
       ConstantAssumption
  <2> QED BY <2>2, <2>3, <2>4
<1>9. CASE NextBlock
  <2>1. UNCHANGED <<report.sectors, opts, ecu.flash>>
    BY <1>9 DEF NextBlock, jobVars, AtSector
  <2>2. ReportIsTrue'
    BY <2>1, KeepReport
  <2>3. Untouched'
    BY <1>9, <2>1, KeepUntouched DEF NextBlock, LoopPc, AtSector
  <2>4. Counted' /\ Marked'
    BY <1>9, <2>1 DEF NextBlock, jobVars, Counted, Marked, TrueOf, AtSector,
       OutcomeType, Completed
  <2> QED BY <2>2, <2>3, <2>4
<1>10. CASE CancelMidSector
  <2>1. UNCHANGED <<report.sectors, opts, ecu.flash>>
    BY <1>10 DEF CancelMidSector, jobVars, AtSector
  <2>2. ReportIsTrue'
    BY <2>1, KeepReport
  <2>3. Untouched'
    BY <1>10, <2>1, KeepUntouched DEF CancelMidSector, LoopPc, AtSector
  <2>4. Counted' /\ Marked'
    BY <1>10, <2>1 DEF CancelMidSector, jobVars, Counted, Marked, TrueOf,
       AtSector, Completed
  <2> QED BY <2>2, <2>3, <2>4
<1>11. CASE BulkRefused
  <2>1. UNCHANGED <<report.sectors, opts, ecu.flash>>
    BY <1>11 DEF BulkRefused, SectorFailed, jobVars, AtSector
  <2>2. ReportIsTrue'
    BY <2>1, KeepReport
  <2>3. Untouched'
    BY <1>11, <2>1, KeepUntouched DEF BulkRefused, SectorFailed, LoopPc,
       AtSector
  <2>4. Counted' /\ Marked'
    BY <1>11, <2>1 DEF BulkRefused, SectorFailed, jobVars, Counted, Marked,
       TrueOf, AtSector, Completed
  <2> QED BY <2>2, <2>3, <2>4
<1>12. CASE Transfer
  <2>1. PICK a \in TransferAnswers(counter) :
           /\ ecu' = a.ecu
           /\ IF a.ok THEN /\ sent' = sent + 1 /\ pc' = "block"
                           /\ UNCHANGED <<report, todo, outcome>>
              ELSE SectorFailed(outcome, "EcuError")
    BY <1>12 DEF Transfer, Exchange
  <2>2. UNCHANGED <<report, todo, opts, outcome>> /\ pc = "transfer"
        /\ pc' \in {"block", "commit"} /\ (a.ok <=> pc' = "block")
    BY <1>12, <2>1, TransferAnswer DEF Transfer, Exchange, SectorFailed, jobVars
  <2>3. /\ ecu.dl.sector \in {NoSector, outcome.sector}
        /\ ecu.dl.sector = outcome.sector => ecu.dl.got = sent
        /\ outcome.sector \in Sectors /\ NoSector \notin Sectors
    BY <2>2 DEF Counted, AtSector, ConstantAssumption
  <2>4. \A i \in 1 .. Len(report.sectors) :
           report.sectors[i].sector \in Sectors \ {ecu.dl.sector}
    <3>1. outcome.sector \in SeqRange(todo)
      BY <2>2, SectorAtHand, DistinctTail DEF AtSector
    <3> QED BY <2>2, <2>3, <3>1 DEF Untouched, LoopPc, AtSector
  <2>5. \A t \in Sectors \ {ecu.dl.sector} : ecu'.flash[t] = ecu.flash[t]
    BY <2>1, TransferAnswer
  <2>6. ReportIsTrue'
    BY <2>2, <2>4, <2>5 DEF ReportIsTrue, Completed
  <2>7. Untouched'
    BY <2>2, KeepUntouched DEF LoopPc, AtSector
  <2>8. Marked'
    BY <2>2 DEF Marked, TrueOf, Completed, AtSector
  <2>9. Counted'
    <3>1. CASE a.ok
      <4>1. /\ ecu.dl.sector = outcome.sector /\ ecu'.dl.sector = outcome.sector
            /\ ecu'.dl.got = sent + 1 /\ sent' = sent + 1
            /\ ecu'.dl.got = Blocks => ecu'.flash[outcome.sector] \in Rewritten
        BY <2>1, <2>3, <3>1, TransferAnswer
      <4> QED BY <2>2, <3>1, <4>1 DEF Counted
    <3>2. CASE ~a.ok
      BY <2>2, <3>2 DEF Counted
    <3> QED BY <3>1, <3>2
  <2> QED BY <2>6, <2>7, <2>8, <2>9
<1>13. CASE TransferExit
  <2>1. UNCHANGED <<report.sectors, opts, ecu.flash>>
    BY <1>13, TransferExitAnswer DEF TransferExit, Exchange, SectorFailed,
       jobVars, AtSector
  <2>2. ReportIsTrue'
    BY <2>1, KeepReport
  <2>3. Untouched'
    BY <1>13, <2>1, KeepUntouched DEF TransferExit, Exchange, SectorFailed,
       LoopPc, AtSector
  <2>4. Counted' /\ Marked'
    BY <1>13, <2>1, TransferExitAnswer DEF TransferExit, Exchange,
       SectorFailed, jobVars, Counted, Marked, TrueOf, AtSector, OutcomeType,
       Completed
  <2> QED BY <2>2, <2>3, <2>4
<1>14. CASE CheckDependencies
  <2>1. UNCHANGED <<report.sectors, opts, ecu.flash>>
    BY <1>14, CheckAnswer DEF CheckDependencies, Exchange, SectorFailed,
       jobVars, AtSector
  <2>2. ReportIsTrue'
    BY <2>1, KeepReport
  <2>3. Untouched'
    BY <1>14, <2>1, KeepUntouched DEF CheckDependencies, Exchange,
       SectorFailed, LoopPc, AtSector
  <2>4. Counted' /\ Marked'
    BY <1>14, <2>1, CheckAnswer DEF CheckDependencies, Exchange, SectorFailed,
       jobVars, Counted, Marked, TrueOf, AtSector, OutcomeType, Completed
  <2> QED BY <2>2, <2>3, <2>4
<1>15. CASE Verify
  <2>1. UNCHANGED <<report.sectors, opts, ecu.flash>>
    BY <1>15 DEF Verify, Exchange, SectorFailed, jobVars, AtSector
  <2>2. ReportIsTrue'
    BY <2>1, KeepReport
  <2>3. Untouched'
    BY <1>15, <2>1, KeepUntouched DEF Verify, Exchange, SectorFailed, LoopPc,
       AtSector
  <2>4. Counted' /\ Marked'
    BY <1>15, <2>1 DEF Verify, Exchange, SectorFailed, jobVars, Counted,
       Marked, TrueOf, AtSector, OutcomeType, Completed, ReadBack
  <2> QED BY <2>2, <2>3, <2>4
<1>16. CASE CommitOutcome
  <2>1. /\ report'.sectors = Append(report.sectors, outcome)
        /\ UNCHANGED <<opts, ecu, outcome>> /\ pc = "commit"
        /\ report.sectors \in Seq(OutcomeType)
        /\ \/ pc' = "journal" /\ UNCHANGED todo
           \/ pc' \in {"bail", "cancelExit"}
           \/ pc' = "boundary" /\ todo' = Tail(todo)
    BY <1>16 DEF CommitOutcome, Continue, jobVars, ReportType
  <2>2. /\ Len(report'.sectors) = Len(report.sectors) + 1
        /\ report'.sectors[Len(report.sectors) + 1] = outcome
        /\ \A i \in 1 .. Len(report.sectors) : report'.sectors[i] = report.sectors[i]
        /\ Len(report.sectors) \in Nat
    BY <2>1
  <2>3. ReportIsTrue'
    <3>1. \A i \in 1 .. Len(report.sectors) : TrueOf(report.sectors[i])
      BY ReportParts
    <3>2. TrueOf(outcome)
      BY <2>1 DEF Marked
    <3>3. ASSUME NEW i \in 1 .. Len(report'.sectors) PROVE TrueOf(report.sectors[i])'
      <4>1. CASE i = Len(report.sectors) + 1
        BY <2>1, <2>2, <3>2, <4>1 DEF TrueOf, Completed
      <4>2. CASE i \in 1 .. Len(report.sectors)
        BY <2>1, <2>2, <3>1, <4>2 DEF TrueOf, Completed
      <4> QED BY <2>2, <4>1, <4>2
    <3> QED BY <3>3 DEF ReportIsTrue, TrueOf
  <2>4. Untouched'
    <3> DEFINE next == IF pc' = "journal" THEN SeqRange(Tail(todo')) ELSE SeqRange(todo')
    <3>1. outcome.sector \in Sectors /\ outcome.sector = Head(todo)
          /\ SeqRange(Tail(todo)) = SeqRange(todo) \ {Head(todo)}
      BY <2>1, SectorAtHand, DistinctTail DEF AtSector
    <3>2. pc' \in LoopPc => next = SeqRange(todo) \ {outcome.sector}
      BY <2>1, <3>1 DEF LoopPc, AtSector
    <3>3. \A i \in 1 .. Len(report.sectors) :
             /\ report.sectors[i].sector \in Sectors
             /\ report.sectors[i].sector \notin SeqRange(todo)
      BY <2>1 DEF Untouched, LoopPc, AtSector
    <3> HIDE DEF next
    <3>4. \A i \in 1 .. Len(report'.sectors) :
             /\ report'.sectors[i].sector \in Sectors
             /\ pc' \in LoopPc => report'.sectors[i].sector \notin next
      <4> SUFFICES ASSUME NEW i \in 1 .. Len(report'.sectors)
                   PROVE  /\ report'.sectors[i].sector \in Sectors
                          /\ pc' \in LoopPc => report'.sectors[i].sector \notin next
        OBVIOUS
      <4>1. CASE i = Len(report.sectors) + 1
        BY <2>2, <3>1, <3>2, <4>1
      <4>2. CASE i \in 1 .. Len(report.sectors)
        BY <2>2, <3>2, <3>3, <4>2
      <4> QED BY <2>2, <4>1, <4>2
    <3> QED BY <3>4 DEF Untouched, next
  <2>5. Counted' /\ Marked'
    BY <2>1 DEF Counted, Marked, AtSector
  <2> QED BY <2>3, <2>4, <2>5
<1>17. CASE WriteJournal
  <2>1. /\ UNCHANGED <<opts, ecu, outcome, report>> /\ pc = "journal"
        /\ \/ pc' \in {"bail", "cancelExit"}
           \/ pc' = "boundary" /\ todo' = Tail(todo)
    BY <1>17 DEF WriteJournal, Continue, jobVars
  <2>2. ReportIsTrue'
    BY <2>1, KeepReport
  <2>3. Untouched'
    BY <2>1 DEF Untouched, LoopPc, AtSector
  <2>4. Counted' /\ Marked'
    BY <2>1 DEF Counted, Marked, AtSector
  <2> QED BY <2>2, <2>3, <2>4
<1>18. CASE CancelExit
  <2>1. UNCHANGED <<report.sectors, opts, ecu.flash>>
    BY <1>18, TransferExitAnswer DEF CancelExit, Exchange, jobVars, AtSector
  <2>2. ReportIsTrue'
    BY <2>1, KeepReport
  <2>3. Untouched'
    BY <1>18, <2>1, LeaveLoop DEF CancelExit, Exchange, LoopPc, AtSector
  <2>4. Counted' /\ Marked'
    BY <1>18, <2>1, TransferExitAnswer DEF CancelExit, Exchange, jobVars,
       Counted, Marked, TrueOf, AtSector
  <2> QED BY <2>2, <2>3, <2>4
<1>19. CASE CancelRestore
  <2>1. UNCHANGED <<report.sectors, opts, ecu.flash>>
    BY <1>19, CommControlAnswer DEF CancelRestore, Exchange, RestoreBus,
       jobVars, AtSector, ReportType
  <2>2. ReportIsTrue'
    BY <2>1, KeepReport
  <2>3. Untouched'
    BY <1>19, <2>1, LeaveLoop DEF CancelRestore, Exchange, RestoreBus, LoopPc,
       AtSector
  <2>4. Counted' /\ Marked'
    BY <1>19, <2>1, CommControlAnswer DEF CancelRestore, Exchange, RestoreBus,
       jobVars, Counted, Marked, TrueOf, AtSector
  <2> QED BY <2>2, <2>3, <2>4
<1>20. CASE CancelSession
  <2>1. UNCHANGED <<report.sectors, opts, ecu.flash>>
    BY <1>20, SessionAnswer DEF CancelSession, Exchange, jobVars, AtSector,
       SessionType
  <2>2. ReportIsTrue'
    BY <2>1, KeepReport
  <2>3. Untouched'
    BY <1>20, <2>1, LeaveLoop DEF CancelSession, Exchange, LoopPc, AtSector
  <2>4. Counted' /\ Marked'
    BY <1>20, <2>1, SessionAnswer DEF CancelSession, Exchange, jobVars,
       Counted, Marked, TrueOf, AtSector
  <2> QED BY <2>2, <2>3, <2>4
<1>21. CASE Bail
  <2>1. UNCHANGED <<report.sectors, opts, ecu.flash>>
    BY <1>21, CommControlAnswer DEF Bail, Exchange, RestoreBus, jobVars,
       AtSector, ReportType
  <2>2. ReportIsTrue'
    BY <2>1, KeepReport
  <2>3. Untouched'
    BY <1>21, <2>1, LeaveLoop DEF Bail, Exchange, RestoreBus, LoopPc, AtSector
  <2>4. Counted' /\ Marked'
    BY <1>21, <2>1, CommControlAnswer DEF Bail, Exchange, RestoreBus, jobVars,
       Counted, Marked, TrueOf, AtSector
  <2> QED BY <2>2, <2>3, <2>4
<1>22. CASE Complete
  <2>1. UNCHANGED <<report.sectors, opts, ecu.flash>>
    BY <1>22, CommControlAnswer DEF Complete, Exchange, RestoreBus, jobVars,
       AtSector, ReportType
  <2>2. ReportIsTrue'
    BY <2>1, KeepReport
  <2>3. Untouched'
    BY <1>22, <2>1, LeaveLoop DEF Complete, Exchange, RestoreBus, LoopPc,
       AtSector
  <2>4. Counted' /\ Marked'
    BY <1>22, <2>1, CommControlAnswer DEF Complete, Exchange, RestoreBus,
       jobVars, Counted, Marked, TrueOf, AtSector
  <2> QED BY <2>2, <2>3, <2>4
<1>23. CASE Start
  <2>1. ReportIsTrue' /\ Untouched'
    BY <1>23, EmptyReportTrue DEF Start
  <2>2. Counted' /\ Marked'
    BY <1>23 DEF Start, Counted, Marked, AtSector
  <2> QED BY <2>1, <2>2
<1>24. CASE Resume
  <2>1. ReportIsTrue' /\ Untouched'
    BY <1>24, EmptyReportTrue DEF Resume, Forget
  <2>2. Counted' /\ Marked'
    BY <1>24 DEF Resume, Counted, Marked, AtSector
  <2> QED BY <2>1, <2>2
<1>25. CASE RaiseCancel
  BY <1>25 DEF RaiseCancel, hostVars, jobVars, ReportIsTrue, Completed, Untouched, Counted,
     Marked, TrueOf
<1>26. CASE Crash
  <2>1. ReportIsTrue' /\ Untouched'
    BY <1>26, EmptyReportTrue DEF Crash, Forget
  <2>2. Counted' /\ Marked'
    BY <1>26 DEF Crash, Counted, Marked, AtSector
  <2> QED BY <2>1, <2>2
<1>27. CASE EcuReset
  <2>1. /\ UNCHANGED <<pc, todo, opts, report, outcome, sent>>
        /\ ecu'.flash = ecu.flash /\ ecu'.dl.sector = NoSector
    BY <1>27 DEF EcuReset, hostVars, jobVars, EcuType, NoDownload
  <2>2. ReportIsTrue'
    BY <2>1, KeepReport
  <2>3. Untouched'
    BY <2>1 DEF Untouched
  <2>4. Counted' /\ Marked'
    BY <2>1 DEF Counted, Marked, TrueOf, Completed, AtSector, ConstantAssumption
  <2> QED BY <2>2, <2>3, <2>4
<1> QED
  BY <1>1, <1>2, <1>3, <1>4, <1>5, <1>6, <1>7, <1>8, <1>9, <1>10, <1>11,
     <1>12, <1>13, <1>14, <1>15, <1>16, <1>17, <1>18, <1>19, <1>20, <1>21,
     <1>22, <1>23, <1>24, <1>25, <1>26, <1>27 DEF Next, Step

(* What the report says of a sector is true of the flash, for every plan,   *)
(* every length of a sector and every mixture of lost answers, refusals,    *)
(* cancellation, crashes and ECU resets: transferred means every block was  *)
(* programmed, transferred and verified means the plan's bytes are there.   *)
THEOREM ReportTrue == Spec => []ReportIsTrue
<1>1. Init => ReportInv
  BY DEF Init, ReportInv, ReportIsTrue, Untouched, Counted, Marked, EmptyReport, AtSector
<1>2. TypeInv /\ ReportInv /\ [Next]_vars => ReportInv'
  BY ReportStep
<1>3. ReportInv => ReportIsTrue
  BY DEF ReportInv
<1> QED BY <1>1, <1>2, <1>3, AlwaysTyped, PTL DEF Spec

-----------------------------------------------------------------------------
(* Dry runs.  A dry run opens the session and silences the bus like any      *)
(* other; the branch at the sector boundary is all that keeps it from the   *)
(* requests that write.                                                     *)

DryInv == opts.dry => pc \notin {"erase", "download", "block", "transfer"}

LEMMA DryStep ==
  ASSUME TypeInv, DryInv, [Next]_vars PROVE DryInv'
<1> resumeAt \in {"boundary", "bail", "cancelExit"}
  BY DEF TypeInv, TypeOK, WorkerOK
<1>1. CASE UNCHANGED vars
  BY <1>1 DEF DryInv, vars, hostVars, jobVars
<1>2. CASE EnterSession
  BY <1>2 DEF DryInv, EnterSession, Exchange, jobVars
<1>3. CASE SilenceBus
  BY <1>3 DEF DryInv, SilenceBus, Exchange, jobVars
<1>4. CASE DrySector
  BY <1>4 DEF DryInv, DrySector, jobVars
<1>5. CASE BeginSector
  BY <1>5 DEF DryInv, BeginSector, jobVars
<1>6. CASE CancelBetweenSectors
  BY <1>6 DEF DryInv, CancelBetweenSectors, jobVars
<1>7. CASE Erase
  BY <1>7 DEF DryInv, Erase, Exchange, SectorFailed, jobVars
<1>8. CASE Download
  BY <1>8 DEF DryInv, Download, Exchange, SectorFailed, jobVars
<1>9. CASE NextBlock
  BY <1>9 DEF DryInv, NextBlock, jobVars
<1>10. CASE CancelMidSector
  BY <1>10 DEF DryInv, CancelMidSector, jobVars
<1>11. CASE BulkRefused
  BY <1>11 DEF DryInv, BulkRefused, SectorFailed, jobVars
<1>12. CASE Transfer
  BY <1>12 DEF DryInv, Transfer, Exchange, SectorFailed, jobVars
<1>13. CASE TransferExit
  BY <1>13 DEF DryInv, TransferExit, Exchange, SectorFailed, jobVars
<1>14. CASE CheckDependencies
  BY <1>14 DEF DryInv, CheckDependencies, Exchange, SectorFailed, jobVars
<1>15. CASE Verify
  BY <1>15 DEF DryInv, Verify, Exchange, SectorFailed, jobVars
<1>16. CASE CommitOutcome
  BY <1>16 DEF DryInv, CommitOutcome, Continue, jobVars
<1>17. CASE WriteJournal
  BY <1>17 DEF DryInv, WriteJournal, Continue, jobVars
<1>18. CASE CancelExit
  BY <1>18 DEF DryInv, CancelExit, Exchange, jobVars
<1>19. CASE CancelRestore
  BY <1>19 DEF DryInv, CancelRestore, Exchange, RestoreBus, jobVars
<1>20. CASE CancelSession
  BY <1>20 DEF DryInv, CancelSession, Exchange, jobVars
<1>21. CASE Bail
  BY <1>21 DEF DryInv, Bail, Exchange, RestoreBus, jobVars
<1>22. CASE Complete
  BY <1>22 DEF DryInv, Complete, Exchange, RestoreBus, jobVars
<1>23. CASE Start
  BY <1>23 DEF DryInv, Start, jobVars
<1>24. CASE Resume
  BY <1>24 DEF DryInv, Resume, Forget, jobVars
<1>25. CASE RaiseCancel
  BY <1>25 DEF DryInv, RaiseCancel, hostVars, jobVars
<1>26. CASE Crash
  BY <1>26 DEF DryInv, Crash, Forget, jobVars
<1>27. CASE EcuReset
  BY <1>27 DEF DryInv, EcuReset, hostVars, jobVars
<1> QED
  BY <1>1, <1>2, <1>3, <1>4, <1>5, <1>6, <1>7, <1>8, <1>9, <1>10, <1>11,
     <1>12, <1>13, <1>14, <1>15, <1>16, <1>17, <1>18, <1>19, <1>20, <1>21,
     <1>22, <1>23, <1>24, <1>25, <1>26, <1>27 DEF Next, Step

LEMMA DryFlash ==
  ASSUME TypeInv, DryInv, [Next]_vars PROVE opts.dry => ecu'.flash = ecu.flash
<1> ecu \in EcuType
  BY DEF TypeInv, TypeOK
<1> pc \in AtSector => outcome.sector \in Sectors
  BY SectorAtHand
<1>1. CASE UNCHANGED vars
  BY <1>1 DEF DryInv, vars, hostVars, jobVars
<1>2. CASE EnterSession
  BY <1>2, SessionAnswer DEF DryInv, EnterSession, Exchange, jobVars,
     SessionType
<1>3. CASE SilenceBus
  BY <1>3, CommControlAnswer DEF DryInv, SilenceBus, Exchange, jobVars
<1>4. CASE DrySector
  BY <1>4 DEF DryInv, DrySector, jobVars
<1>5. CASE BeginSector
  BY <1>5 DEF DryInv, BeginSector, jobVars
<1>6. CASE CancelBetweenSectors
  BY <1>6 DEF DryInv, CancelBetweenSectors, jobVars
<1>7. CASE Erase
  BY <1>7, EraseAnswer DEF DryInv, Erase, Exchange, SectorFailed, jobVars
<1>8. CASE Download
  BY <1>8, DownloadAnswer DEF DryInv, Download, Exchange, SectorFailed,
     jobVars
<1>9. CASE NextBlock
  BY <1>9 DEF DryInv, NextBlock, jobVars
<1>10. CASE CancelMidSector
  BY <1>10 DEF DryInv, CancelMidSector, jobVars
<1>11. CASE BulkRefused
  BY <1>11 DEF DryInv, BulkRefused, SectorFailed, jobVars
<1>12. CASE Transfer
  BY <1>12, TransferAnswer DEF DryInv, Transfer, Exchange, SectorFailed,
     jobVars
<1>13. CASE TransferExit
  BY <1>13, TransferExitAnswer DEF DryInv, TransferExit, Exchange,
     SectorFailed, jobVars
<1>14. CASE CheckDependencies
  BY <1>14, CheckAnswer DEF DryInv, CheckDependencies, Exchange, SectorFailed,
     jobVars
<1>15. CASE Verify
  BY <1>15 DEF DryInv, Verify, Exchange, SectorFailed, jobVars
<1>16. CASE CommitOutcome
  BY <1>16 DEF DryInv, CommitOutcome, Continue, jobVars
<1>17. CASE WriteJournal
  BY <1>17 DEF DryInv, WriteJournal, Continue, jobVars
<1>18. CASE CancelExit
  BY <1>18, TransferExitAnswer DEF DryInv, CancelExit, Exchange, jobVars
<1>19. CASE CancelRestore
  <2>1. ecu' = ecu \/ \E a \in CommControlAnswers(FALSE) : ecu' = a.ecu
    BY <1>19 DEF CancelRestore, RestoreBus, Exchange
  <2> QED BY <2>1, CommControlAnswer
<1>20. CASE CancelSession
  BY <1>20, SessionAnswer DEF DryInv, CancelSession, Exchange, jobVars,
     SessionType
<1>21. CASE Bail
  <2>1. ecu' = ecu \/ \E a \in CommControlAnswers(FALSE) : ecu' = a.ecu
    BY <1>21 DEF Bail, RestoreBus, Exchange
  <2> QED BY <2>1, CommControlAnswer
<1>22. CASE Complete
  <2>1. ecu' = ecu \/ \E a \in CommControlAnswers(FALSE) : ecu' = a.ecu
    BY <1>22 DEF Complete, RestoreBus, Exchange
  <2> QED BY <2>1, CommControlAnswer
<1>23. CASE Start
  BY <1>23 DEF DryInv, Start, jobVars
<1>24. CASE Resume
  BY <1>24 DEF DryInv, Resume, Forget, jobVars
<1>25. CASE RaiseCancel
  BY <1>25 DEF DryInv, RaiseCancel, hostVars, jobVars
<1>26. CASE Crash
  BY <1>26 DEF DryInv, Crash, Forget, jobVars
<1>27. CASE EcuReset
  BY <1>27 DEF DryInv, EcuReset, hostVars, jobVars, EcuType
<1> QED
  BY <1>1, <1>2, <1>3, <1>4, <1>5, <1>6, <1>7, <1>8, <1>9, <1>10, <1>11,
     <1>12, <1>13, <1>14, <1>15, <1>16, <1>17, <1>18, <1>19, <1>20, <1>21,
     <1>22, <1>23, <1>24, <1>25, <1>26, <1>27 DEF Next, Step

(* A dry run leaves the flash as it was, at every step and however it ends: *)
(* refused, cancelled, crashed or complete.                                 *)
THEOREM DryRunHarmless == Spec => DryRunKeepsFlash
<1>1. Init => DryInv
  BY DEF Init, DryInv
<1>2. TypeInv /\ DryInv /\ [Next]_vars => DryInv'
  BY DryStep
<1>3. TypeInv /\ DryInv /\ [Next]_vars => [opts.dry => ecu'.flash = ecu.flash]_vars
  BY DryFlash
<1> QED BY <1>1, <1>2, <1>3, AlwaysTyped, PTL DEF Spec, DryRunKeepsFlash
-----------------------------------------------------------------------------
(* Where a call stands in its plan.  The outcomes reported are those of the *)
(* ordered plan's first sectors, in order; the sectors to do are the rest.  *)

Taken == IF pc = "journal" THEN Len(report.sectors) - 1 ELSE Len(report.sectors)

Listed ==
    /\ Len(report.sectors) <= Len(Ordered(plan))
    /\ \A i \in 1 .. Len(report.sectors) : report.sectors[i].sector = Ordered(plan)[i]

Aligned ==
    pc \in LoopPc =>
        /\ Taken + Len(todo) = Len(Ordered(plan))
        /\ \A i \in 1 .. Len(todo) : todo[i] = Ordered(plan)[Taken + i]

(* What the current outcome has behind it at each place of the sequence.    *)
Flags ==
    /\ pc \in {"download", "block", "transfer", "exit", "check", "verify"} => outcome.erased
    /\ pc \in {"block", "transfer", "exit", "check", "verify"} => outcome.downloaded
    /\ pc \in {"exit", "check", "verify"} => outcome.transferred
    /\ pc \in {"check", "verify"} => outcome.exited
    /\ pc = "verify" => outcome.checked

(* A call without an error so far has reported whole sectors only.          *)
Leaving == {"cancelExit", "cancelRestore", "cancelSession", "bail"}

Errors ==
    /\ pc \in LoopPc \ {"commit", "journal"} => error = NoError
    /\ pc \in {"commit", "journal"} => (error = NoError <=> resumeAt = "boundary")
    /\ pc \in Leaving => error # NoError

Kept(o) == opts.dry \/ Completed(o)

Whole ==
    /\ error = NoError =>
         \A i \in 1 .. Len(report.sectors) : Kept(report.sectors[i])
    /\ pc \in {"commit", "journal"} /\ error = NoError => Kept(outcome)

Finished ==
    pc = "returned" /\ error = NoError => Len(report.sectors) = Len(Ordered(plan))

PlanInv == Listed /\ Aligned /\ Flags /\ Errors /\ Whole /\ Finished

(* The flash of the sector at hand.                                         *)
Begun ==
    /\ pc \in {"download", "block", "transfer"} /\ sent < Blocks =>
         ecu.flash[outcome.sector] \notin {"old"} \cup Rewritten
    /\ pc = "journal" => TrueOf(outcome)

(* The journal of this call, and the sectors no longer in the plan.         *)
Recorded ==
    journal.state = "whole" =>
        /\ \A i \in 1 .. Len(journal.entries) :
             journal.entries[i].transferred => ecu.flash[journal.entries[i].sector] \in Rewritten
        /\ pc \in LoopPc =>
             /\ pc # "journal"
             /\ \A i \in 1 .. Len(journal.entries) :
                  journal.entries[i].sector \notin SeqRange(todo)

Behind == \A s \in SeqRange(Plan) \ SeqRange(plan) : ecu.flash[s] \in Rewritten

InPlanOrder == \A i \in 1 .. Len(plan) - 1 : plan[i] # integrity

ChainInv == KeepsPlanOrder => InPlanOrder /\ Recorded /\ Behind

LEMMA OrderKept ==
  ASSUME UNCHANGED <<plan, integrity>> PROVE Ordered(plan)' = Ordered(plan)
BY DEF Ordered

(* Most steps leave the place in the plan alone.                            *)
LEMMA KeepPlace ==
  ASSUME Listed, Aligned, UNCHANGED <<report.sectors, todo, plan, integrity>>,
         pc \in LoopPc \ {"journal"} \/ pc' \notin LoopPc, pc' # "journal"
  PROVE  Listed' /\ Aligned'
<1>1. Ordered(plan)' = Ordered(plan)
  BY OrderKept
<1>2. Listed'
  BY <1>1 DEF Listed
<1>3. Aligned'
  BY <1>1 DEF Aligned, Taken
<1> QED BY <1>2, <1>3

(* A call that has reported nothing stands at the beginning.                *)
LEMMA NothingReported ==
  ASSUME report' = EmptyReport, integrity' = integrity, TypeInv'
  PROVE  Listed'
<1>1. Len(report'.sectors) = 0
  BY DEF EmptyReport
<1>2. plan' \in Seq(Sectors) /\ Distinct(plan')
  BY DEF TypeInv, TypeOK, JobOK, Place, Distinct
<1>3. Ordered(plan') \in Seq(Sectors)
  BY <1>2, OrderedPermutes
<1>4. Ordered(plan)' = Ordered(plan')
  BY DEF Ordered
<1>5. Len(Ordered(plan)') \in Nat
  BY <1>3, <1>4
<1> QED BY <1>1, <1>5 DEF Listed

LEMMA PlanStep ==
  ASSUME TypeInv, PlanInv, [Next]_vars PROVE PlanInv'
<1> TypeInv'
  BY TypeStep, ConstantAssumption
<1> USE DEF PlanInv
<1> /\ report \in ReportType /\ outcome \in OutcomeType /\ opts \in OptionType
    /\ sent \in 0 .. Blocks /\ resumeAt \in {"boundary", "bail", "cancelExit"}
    /\ todo \in Seq(Sectors) /\ report.sectors \in Seq(OutcomeType)
  BY DEF TypeInv, TypeOK, WorkerOK, RecordOK, JobOK, LoopOK, ReportType
<1>1. CASE UNCHANGED vars
  BY <1>1, OrderKept DEF vars, hostVars, jobVars, Listed, Aligned, Taken, Flags,
     Errors, Kept,
     Whole, Completed, Finished
<1>2. CASE EnterSession
  <2>1. /\ UNCHANGED <<report.sectors, todo, plan, integrity, opts>>
        /\ pc \in LoopPc \ {"journal"} \/ pc' \notin LoopPc
        /\ pc' # "journal"
    BY <1>2 DEF EnterSession, Exchange, jobVars, ReportType, LoopPc, AtSector
  <2>2. Listed' /\ Aligned'
    BY <2>1, KeepPlace
  <2>3. Flags' /\ Errors'
    BY <1>2 DEF EnterSession, Exchange, jobVars, ReportType, Flags, Errors,
       LoopPc, AtSector,
       Leaving, OutcomeType, NoError, Cancelled
  <2>4. Whole' /\ Finished'
    BY <1>2, <2>1 DEF EnterSession, Exchange, jobVars, ReportType, Flags, Errors,
       Whole, Kept, Completed,
       Finished, LoopPc, AtSector, Leaving, OutcomeType, NoError, Cancelled
  <2> QED BY <2>2, <2>3, <2>4
<1>3. CASE SilenceBus
  <2>1. /\ UNCHANGED <<report.sectors, todo, plan, integrity, opts>>
        /\ pc \in LoopPc \ {"journal"} \/ pc' \notin LoopPc
        /\ pc' # "journal"
    BY <1>3 DEF SilenceBus, Exchange, jobVars, ReportType, LoopPc, AtSector
  <2>2. Listed' /\ Aligned'
    BY <2>1, KeepPlace
  <2>3. Flags' /\ Errors'
    BY <1>3 DEF SilenceBus, Exchange, jobVars, ReportType, Flags, Errors, LoopPc,
       AtSector,
       Leaving, OutcomeType, NoError, Cancelled
  <2>4. Whole' /\ Finished'
    BY <1>3, <2>1 DEF SilenceBus, Exchange, jobVars, ReportType, Flags, Errors,
       Whole, Kept, Completed,
       Finished, LoopPc, AtSector, Leaving, OutcomeType, NoError, Cancelled
  <2> QED BY <2>2, <2>3, <2>4
<1>4. CASE DrySector
  <2>1. /\ UNCHANGED <<report.sectors, todo, plan, integrity, opts>>
        /\ pc \in LoopPc \ {"journal"} \/ pc' \notin LoopPc
        /\ pc' # "journal"
    BY <1>4 DEF DrySector, jobVars, LoopPc, AtSector
  <2>2. Listed' /\ Aligned'
    BY <2>1, KeepPlace
  <2>3. Flags' /\ Errors'
    BY <1>4 DEF DrySector, jobVars, Flags, Errors, LoopPc, AtSector,
       Leaving, OutcomeType, NoError, Cancelled
  <2>4. Whole' /\ Finished'
    BY <1>4, <2>1 DEF DrySector, jobVars, Flags, Errors, Whole, Kept, Completed,
       Finished, LoopPc, AtSector, Leaving, OutcomeType, NoError, Cancelled
  <2> QED BY <2>2, <2>3, <2>4
<1>5. CASE BeginSector
  <2>1. /\ UNCHANGED <<report.sectors, todo, plan, integrity, opts>>
        /\ pc \in LoopPc \ {"journal"} \/ pc' \notin LoopPc
        /\ pc' # "journal"
    BY <1>5 DEF BeginSector, jobVars, LoopPc, AtSector
  <2>2. Listed' /\ Aligned'
    BY <2>1, KeepPlace
  <2>3. Flags' /\ Errors'
    BY <1>5 DEF BeginSector, jobVars, Flags, Errors, LoopPc, AtSector,
       Leaving, OutcomeType, NoError, Cancelled
  <2>4. Whole' /\ Finished'
    BY <1>5, <2>1 DEF BeginSector, jobVars, Flags, Errors, Whole, Kept, Completed,
       Finished, LoopPc, AtSector, Leaving, OutcomeType, NoError, Cancelled
  <2> QED BY <2>2, <2>3, <2>4
<1>6. CASE CancelBetweenSectors
  <2>1. /\ UNCHANGED <<report.sectors, todo, plan, integrity, opts>>
        /\ pc \in LoopPc \ {"journal"} \/ pc' \notin LoopPc
        /\ pc' # "journal"
    BY <1>6 DEF CancelBetweenSectors, jobVars, LoopPc, AtSector
  <2>2. Listed' /\ Aligned'
    BY <2>1, KeepPlace
  <2>3. Flags' /\ Errors'
    BY <1>6 DEF CancelBetweenSectors, jobVars, Flags, Errors, LoopPc, AtSector,
       Leaving, OutcomeType, NoError, Cancelled
  <2>4. Whole' /\ Finished'
    BY <1>6, <2>1 DEF CancelBetweenSectors, jobVars, Flags, Errors, Whole, Kept,
       Completed,
       Finished, LoopPc, AtSector, Leaving, OutcomeType, NoError, Cancelled
  <2> QED BY <2>2, <2>3, <2>4
<1>7. CASE Erase
  <2>1. /\ UNCHANGED <<report.sectors, todo, plan, integrity, opts>>
        /\ pc \in LoopPc \ {"journal"} \/ pc' \notin LoopPc
        /\ pc' # "journal"
    BY <1>7 DEF Erase, Exchange, SectorFailed, jobVars, LoopPc, AtSector
  <2>2. Listed' /\ Aligned'
    BY <2>1, KeepPlace
  <2>3. Flags' /\ Errors'
    BY <1>7 DEF Erase, Exchange, SectorFailed, jobVars, Flags, Errors, LoopPc,
       AtSector,
       Leaving, OutcomeType, NoError, Cancelled
  <2>4. Whole' /\ Finished'
    BY <1>7, <2>1 DEF Erase, Exchange, SectorFailed, jobVars, Flags, Errors,
       Whole, Kept, Completed,
       Finished, LoopPc, AtSector, Leaving, OutcomeType, NoError, Cancelled
  <2> QED BY <2>2, <2>3, <2>4
<1>8. CASE Download
  <2>1. /\ UNCHANGED <<report.sectors, todo, plan, integrity, opts>>
        /\ pc \in LoopPc \ {"journal"} \/ pc' \notin LoopPc
        /\ pc' # "journal"
    BY <1>8 DEF Download, Exchange, SectorFailed, jobVars, LoopPc, AtSector
  <2>2. Listed' /\ Aligned'
    BY <2>1, KeepPlace
  <2>3. Flags' /\ Errors'
    BY <1>8 DEF Download, Exchange, SectorFailed, jobVars, Flags, Errors, LoopPc,
       AtSector,
       Leaving, OutcomeType, NoError, Cancelled
  <2>4. Whole' /\ Finished'
    BY <1>8, <2>1 DEF Download, Exchange, SectorFailed, jobVars, Flags, Errors,
       Whole, Kept, Completed,
       Finished, LoopPc, AtSector, Leaving, OutcomeType, NoError, Cancelled
  <2> QED BY <2>2, <2>3, <2>4
<1>9. CASE NextBlock
  <2>1. /\ UNCHANGED <<report.sectors, todo, plan, integrity, opts>>
        /\ pc \in LoopPc \ {"journal"} \/ pc' \notin LoopPc
        /\ pc' # "journal"
    BY <1>9 DEF NextBlock, jobVars, LoopPc, AtSector
  <2>2. Listed' /\ Aligned'
    BY <2>1, KeepPlace
  <2>3. Flags' /\ Errors'
    BY <1>9 DEF NextBlock, jobVars, Flags, Errors, LoopPc, AtSector,
       Leaving, OutcomeType, NoError, Cancelled
  <2>4. Whole' /\ Finished'
    BY <1>9, <2>1 DEF NextBlock, jobVars, Flags, Errors, Whole, Kept, Completed,
       Finished, LoopPc, AtSector, Leaving, OutcomeType, NoError, Cancelled
  <2> QED BY <2>2, <2>3, <2>4
<1>10. CASE CancelMidSector
  <2>1. /\ UNCHANGED <<report.sectors, todo, plan, integrity, opts>>
        /\ pc \in LoopPc \ {"journal"} \/ pc' \notin LoopPc
        /\ pc' # "journal"
    BY <1>10 DEF CancelMidSector, jobVars, LoopPc, AtSector
  <2>2. Listed' /\ Aligned'
    BY <2>1, KeepPlace
  <2>3. Flags' /\ Errors'
    BY <1>10 DEF CancelMidSector, jobVars, Flags, Errors, LoopPc, AtSector,
       Leaving, OutcomeType, NoError, Cancelled
  <2>4. Whole' /\ Finished'
    BY <1>10, <2>1 DEF CancelMidSector, jobVars, Flags, Errors, Whole, Kept,
       Completed,
       Finished, LoopPc, AtSector, Leaving, OutcomeType, NoError, Cancelled
  <2> QED BY <2>2, <2>3, <2>4
<1>11. CASE BulkRefused
  <2>1. /\ UNCHANGED <<report.sectors, todo, plan, integrity, opts>>
        /\ pc \in LoopPc \ {"journal"} \/ pc' \notin LoopPc
        /\ pc' # "journal"
    BY <1>11 DEF BulkRefused, SectorFailed, jobVars, LoopPc, AtSector
  <2>2. Listed' /\ Aligned'
    BY <2>1, KeepPlace
  <2>3. Flags' /\ Errors'
    BY <1>11 DEF BulkRefused, SectorFailed, jobVars, Flags, Errors, LoopPc,
       AtSector,
       Leaving, OutcomeType, NoError, Cancelled
  <2>4. Whole' /\ Finished'
    BY <1>11, <2>1 DEF BulkRefused, SectorFailed, jobVars, Flags, Errors, Whole,
       Kept, Completed,
       Finished, LoopPc, AtSector, Leaving, OutcomeType, NoError, Cancelled
  <2> QED BY <2>2, <2>3, <2>4
<1>12. CASE Transfer
  <2>1. /\ UNCHANGED <<report.sectors, todo, plan, integrity, opts>>
        /\ pc \in LoopPc \ {"journal"} \/ pc' \notin LoopPc
        /\ pc' # "journal"
    BY <1>12 DEF Transfer, Exchange, SectorFailed, jobVars, LoopPc, AtSector
  <2>2. Listed' /\ Aligned'
    BY <2>1, KeepPlace
  <2>3. Flags' /\ Errors'
    BY <1>12 DEF Transfer, Exchange, SectorFailed, jobVars, Flags, Errors,
       LoopPc, AtSector,
       Leaving, OutcomeType, NoError, Cancelled
  <2>4. Whole' /\ Finished'
    BY <1>12, <2>1 DEF Transfer, Exchange, SectorFailed, jobVars, Flags, Errors,
       Whole, Kept, Completed,
       Finished, LoopPc, AtSector, Leaving, OutcomeType, NoError, Cancelled
  <2> QED BY <2>2, <2>3, <2>4
<1>13. CASE TransferExit
  <2>1. /\ UNCHANGED <<report.sectors, todo, plan, integrity, opts>>
        /\ pc \in LoopPc \ {"journal"} \/ pc' \notin LoopPc
        /\ pc' # "journal"
    BY <1>13 DEF TransferExit, Exchange, SectorFailed, jobVars, LoopPc, AtSector
  <2>2. Listed' /\ Aligned'
    BY <2>1, KeepPlace
  <2>3. Flags' /\ Errors'
    BY <1>13 DEF TransferExit, Exchange, SectorFailed, jobVars, Flags, Errors,
       LoopPc, AtSector,
       Leaving, OutcomeType, NoError, Cancelled
  <2>4. Whole' /\ Finished'
    BY <1>13, <2>1 DEF TransferExit, Exchange, SectorFailed, jobVars, Flags,
       Errors, Whole, Kept, Completed,
       Finished, LoopPc, AtSector, Leaving, OutcomeType, NoError, Cancelled
  <2> QED BY <2>2, <2>3, <2>4
<1>14. CASE CheckDependencies
  <2>1. /\ UNCHANGED <<report.sectors, todo, plan, integrity, opts>>
        /\ pc \in LoopPc \ {"journal"} \/ pc' \notin LoopPc
        /\ pc' # "journal"
    BY <1>14 DEF CheckDependencies, Exchange, SectorFailed, jobVars, LoopPc,
       AtSector
  <2>2. Listed' /\ Aligned'
    BY <2>1, KeepPlace
  <2>3. Flags' /\ Errors'
    BY <1>14 DEF CheckDependencies, Exchange, SectorFailed, jobVars, Flags,
       Errors, LoopPc, AtSector,
       Leaving, OutcomeType, NoError, Cancelled
  <2>4. Whole' /\ Finished'
    BY <1>14, <2>1 DEF CheckDependencies, Exchange, SectorFailed, jobVars, Flags,
       Errors, Whole, Kept, Completed,
       Finished, LoopPc, AtSector, Leaving, OutcomeType, NoError, Cancelled
  <2> QED BY <2>2, <2>3, <2>4
<1>15. CASE Verify
  <2>1. /\ UNCHANGED <<report.sectors, todo, plan, integrity, opts>>
        /\ pc \in LoopPc \ {"journal"} \/ pc' \notin LoopPc
        /\ pc' # "journal"
    BY <1>15 DEF Verify, Exchange, SectorFailed, jobVars, LoopPc, AtSector
  <2>2. Listed' /\ Aligned'
    BY <2>1, KeepPlace
  <2>3. Flags' /\ Errors'
    BY <1>15 DEF Verify, Exchange, SectorFailed, jobVars, Flags, Errors, LoopPc,
       AtSector,
       Leaving, OutcomeType, NoError, Cancelled
  <2>4. Whole' /\ Finished'
    BY <1>15, <2>1 DEF Verify, Exchange, SectorFailed, jobVars, Flags, Errors,
       Whole, Kept, Completed,
       Finished, LoopPc, AtSector, Leaving, OutcomeType, NoError, Cancelled
  <2> QED BY <2>2, <2>3, <2>4
<1>16. CASE CancelExit
  <2>1. /\ UNCHANGED <<report.sectors, todo, plan, integrity, opts>>
        /\ pc \in LoopPc \ {"journal"} \/ pc' \notin LoopPc
        /\ pc' # "journal"
    BY <1>16 DEF CancelExit, Exchange, jobVars, LoopPc, AtSector
  <2>2. Listed' /\ Aligned'
    BY <2>1, KeepPlace
  <2>3. Flags' /\ Errors'
    BY <1>16 DEF CancelExit, Exchange, jobVars, Flags, Errors, LoopPc, AtSector,
       Leaving, OutcomeType, NoError, Cancelled
  <2>4. Whole' /\ Finished'
    BY <1>16, <2>1 DEF CancelExit, Exchange, jobVars, Flags, Errors, Whole, Kept,
       Completed,
       Finished, LoopPc, AtSector, Leaving, OutcomeType, NoError, Cancelled
  <2> QED BY <2>2, <2>3, <2>4
<1>17. CASE CancelRestore
  <2>1. /\ UNCHANGED <<report.sectors, todo, plan, integrity, opts>>
        /\ pc \in LoopPc \ {"journal"} \/ pc' \notin LoopPc
        /\ pc' # "journal"
    BY <1>17 DEF CancelRestore, Exchange, RestoreBus, jobVars, ReportType,
       LoopPc, AtSector
  <2>2. Listed' /\ Aligned'
    BY <2>1, KeepPlace
  <2>3. Flags' /\ Errors'
    BY <1>17 DEF CancelRestore, Exchange, RestoreBus, jobVars, ReportType, Flags,
       Errors, LoopPc, AtSector,
       Leaving, OutcomeType, NoError, Cancelled
  <2>4. Whole' /\ Finished'
    BY <1>17, <2>1 DEF CancelRestore, Exchange, RestoreBus, jobVars, ReportType,
       Flags, Errors, Whole, Kept, Completed,
       Finished, LoopPc, AtSector, Leaving, OutcomeType, NoError, Cancelled
  <2> QED BY <2>2, <2>3, <2>4
<1>18. CASE CancelSession
  <2>1. /\ UNCHANGED <<report.sectors, todo, plan, integrity, opts>>
        /\ pc \in LoopPc \ {"journal"} \/ pc' \notin LoopPc
        /\ pc' # "journal"
    BY <1>18 DEF CancelSession, Exchange, jobVars, LoopPc, AtSector
  <2>2. Listed' /\ Aligned'
    BY <2>1, KeepPlace
  <2>3. Flags' /\ Errors'
    BY <1>18 DEF CancelSession, Exchange, jobVars, Flags, Errors, LoopPc, AtSector,
       Leaving, OutcomeType, NoError, Cancelled
  <2>4. Whole' /\ Finished'
    BY <1>18, <2>1 DEF CancelSession, Exchange, jobVars, Flags, Errors, Whole,
       Kept, Completed,
       Finished, LoopPc, AtSector, Leaving, OutcomeType, NoError, Cancelled
  <2> QED BY <2>2, <2>3, <2>4
<1>19. CASE Bail
  <2>1. /\ UNCHANGED <<report.sectors, todo, plan, integrity, opts>>
        /\ pc \in LoopPc \ {"journal"} \/ pc' \notin LoopPc
        /\ pc' # "journal"
    BY <1>19 DEF Bail, Exchange, RestoreBus, jobVars, ReportType, LoopPc, AtSector
  <2>2. Listed' /\ Aligned'
    BY <2>1, KeepPlace
  <2>3. Flags' /\ Errors'
    BY <1>19 DEF Bail, Exchange, RestoreBus, jobVars, ReportType, Flags, Errors,
       LoopPc, AtSector,
       Leaving, OutcomeType, NoError, Cancelled
  <2>4. Whole' /\ Finished'
    BY <1>19, <2>1 DEF Bail, Exchange, RestoreBus, jobVars, ReportType, Flags,
       Errors, Whole, Kept, Completed,
       Finished, LoopPc, AtSector, Leaving, OutcomeType, NoError, Cancelled
  <2> QED BY <2>2, <2>3, <2>4
<1>20. CASE CommitOutcome
  <2>1. /\ report'.sectors = Append(report.sectors, outcome)
        /\ UNCHANGED <<opts, outcome, error, resumeAt, plan, integrity>> /\ pc = "commit"
        /\ \/ pc' = "journal" /\ UNCHANGED todo
           \/ pc' = resumeAt /\ pc' \in {"bail", "cancelExit"}
           \/ pc' = "boundary" /\ resumeAt = "boundary" /\ todo' = Tail(todo)
    BY <1>20 DEF CommitOutcome, Continue, jobVars, ReportType
  <2>2. /\ Len(report'.sectors) = Len(report.sectors) + 1
        /\ report'.sectors[Len(report.sectors) + 1] = outcome
        /\ \A i \in 1 .. Len(report.sectors) : report'.sectors[i] = report.sectors[i]
        /\ Len(report.sectors) \in Nat
    BY <2>1
  <2>3. /\ Len(todo) \in Nat \ {0} /\ outcome.sector = todo[1]
        /\ Len(Tail(todo)) = Len(todo) - 1
        /\ \A i \in 1 .. Len(todo) - 1 : Tail(todo)[i] = todo[i + 1]
    BY <2>1, SectorAtHand DEF AtSector
  <2>4. /\ Len(report.sectors) + Len(todo) = Len(Ordered(plan))
        /\ \A i \in 1 .. Len(todo) : todo[i] = Ordered(plan)[Len(report.sectors) + i]
    BY <2>1 DEF Aligned, Taken, LoopPc, AtSector
  <2>5. Ordered(plan)' = Ordered(plan)
    BY <2>1, OrderKept
  <2>6. Listed'
    <3>1. outcome.sector = Ordered(plan)[Len(report.sectors) + 1]
      BY <2>2, <2>3, <2>4
    <3>2. Len(report'.sectors) <= Len(Ordered(plan))
      BY <2>2, <2>3, <2>4
    <3>3. ASSUME NEW i \in 1 .. Len(report'.sectors)
          PROVE  report'.sectors[i].sector = Ordered(plan)[i]
      <4>1. CASE i = Len(report.sectors) + 1
        BY <2>2, <3>1, <4>1
      <4>2. CASE i \in 1 .. Len(report.sectors)
        BY <2>2, <4>2 DEF Listed
      <4> QED BY <2>2, <4>1, <4>2
    <3> QED BY <2>5, <3>2, <3>3 DEF Listed
  <2>7. Aligned'
    <3>1. CASE pc' = "journal"
      BY <2>1, <2>2, <2>4, <2>5, <3>1 DEF Aligned, Taken
    <3>2. CASE pc' = "boundary" /\ todo' = Tail(todo)
      <4>1. \A i \in 1 .. Len(todo) - 1 :
               Tail(todo)[i] = Ordered(plan)[Len(report.sectors) + 1 + i]
        BY <2>2, <2>3, <2>4
      <4>2. Len(report'.sectors) + Len(todo') = Len(Ordered(plan))
        BY <2>2, <2>3, <2>4, <3>2
      <4> QED BY <2>2, <2>3, <2>5, <3>2, <4>1, <4>2 DEF Aligned, Taken
    <3>3. CASE pc' \in {"bail", "cancelExit"}
      BY <3>3 DEF Aligned, LoopPc, AtSector
    <3> QED BY <2>1, <3>1, <3>2, <3>3
  <2>8. Flags' /\ Errors' /\ Finished'
    BY <2>1 DEF Flags, Errors, Finished, LoopPc, AtSector, Leaving
  <2>9. Whole'
    BY <2>1, <2>2 DEF Whole, Kept, Completed
  <2> QED BY <2>6, <2>7, <2>8, <2>9
<1>21. CASE WriteJournal
  <2>1. /\ UNCHANGED <<opts, outcome, report, error, resumeAt, plan, integrity>>
        /\ pc = "journal"
        /\ \/ pc' = resumeAt /\ pc' \in {"bail", "cancelExit"}
           \/ pc' = "boundary" /\ resumeAt = "boundary" /\ todo' = Tail(todo)
    BY <1>21 DEF WriteJournal, Continue, jobVars
  <2>2. /\ Len(todo) \in Nat \ {0} /\ Len(report.sectors) \in Nat
        /\ Len(Tail(todo)) = Len(todo) - 1
        /\ \A i \in 1 .. Len(todo) - 1 : Tail(todo)[i] = todo[i + 1]
    BY <2>1, SectorAtHand DEF AtSector
  <2>3. /\ Len(report.sectors) - 1 + Len(todo) = Len(Ordered(plan))
        /\ \A i \in 1 .. Len(todo) : todo[i] = Ordered(plan)[Len(report.sectors) - 1 + i]
    BY <2>1 DEF Aligned, Taken, LoopPc, AtSector
  <2>4. Ordered(plan)' = Ordered(plan)
    BY <2>1, OrderKept
  <2>5. Listed'
    BY <2>1, <2>4 DEF Listed
  <2>6. Aligned'
    <3>1. CASE pc' = "boundary" /\ todo' = Tail(todo)
      <4>1. \A i \in 1 .. Len(todo) - 1 :
               Tail(todo)[i] = Ordered(plan)[Len(report.sectors) + i]
        BY <2>2, <2>3
      <4>2. Len(report.sectors) + Len(todo') = Len(Ordered(plan))
        BY <2>2, <2>3, <3>1
      <4> QED BY <2>1, <2>2, <2>4, <3>1, <4>1, <4>2 DEF Aligned, Taken
    <3>2. CASE pc' \in {"bail", "cancelExit"}
      BY <3>2 DEF Aligned, LoopPc, AtSector
    <3> QED BY <2>1, <3>1, <3>2
  <2>7. Flags' /\ Errors' /\ Finished'
    BY <2>1 DEF Flags, Errors, Finished, LoopPc, AtSector, Leaving
  <2>8. Whole'
    BY <2>1 DEF Whole, Kept, Completed
  <2> QED BY <2>5, <2>6, <2>7, <2>8
<1>22. CASE Complete
  <2>1. /\ UNCHANGED <<report.sectors, todo, plan, integrity, opts, error, outcome>>
        /\ pc = "boundary" /\ todo = <<>> /\ pc' = "returned"
    BY <1>22 DEF Complete, Exchange, RestoreBus, jobVars, ReportType
  <2>2. Listed' /\ Aligned'
    BY <2>1, KeepPlace DEF LoopPc, AtSector
  <2>3. Len(report.sectors) = Len(Ordered(plan))
    BY <2>1 DEF Aligned, Taken, LoopPc
  <2>4. Finished'
    BY <2>1, <2>3, OrderKept DEF Finished
  <2>5. Flags' /\ Errors' /\ Whole'
    BY <2>1 DEF Flags, Errors, Whole, Kept, Completed, LoopPc, AtSector, Leaving
  <2> QED BY <2>2, <2>4, <2>5
<1>23. CASE Start
  <2>1. report' = EmptyReport /\ pc' \in {"session", "returned"} /\ todo' = Ordered(plan)
        /\ (pc' = "returned" => error' # NoError) /\ (pc' = "session" => error' = NoError)
        /\ UNCHANGED <<plan, integrity>>
    BY <1>23 DEF Start, NoError
  <2>2. Listed'
    BY <2>1, NothingReported
  <2>3. Len(report'.sectors) = 0
    BY <2>1 DEF EmptyReport
  <2>4. Aligned'
    <3>1. Ordered(plan)' = Ordered(plan) /\ Ordered(plan) \in Seq(Sectors)
      BY <2>1, OrderKept, OrderedPermutes DEF TypeInv, TypeOK, JobOK, Place
    <3>2. Len(Ordered(plan)) \in Nat
      BY <3>1
    <3> QED BY <2>1, <2>3, <3>1, <3>2 DEF Aligned, Taken
  <2>5. Flags' /\ Errors' /\ Whole' /\ Finished'
    BY <2>1, <2>3 DEF Flags, Errors, Whole, Finished, LoopPc, AtSector, Leaving
  <2> QED BY <2>2, <2>4, <2>5
<1>24. CASE Resume
  <2>1. report' = EmptyReport /\ pc' = "idle" /\ integrity' = integrity
    BY <1>24 DEF Resume, Forget, jobVars
  <2>2. Listed'
    BY <2>1, NothingReported
  <2>3. Len(report'.sectors) = 0
    BY <2>1 DEF EmptyReport
  <2>4. Aligned' /\ Flags' /\ Errors' /\ Whole' /\ Finished'
    BY <2>1, <2>3 DEF Aligned, Flags, Errors, Whole, Finished, LoopPc, AtSector,
       Leaving
  <2> QED BY <2>2, <2>4
<1>25. CASE Crash
  <2>1. report' = EmptyReport /\ pc' = "crashed" /\ integrity' = integrity
    BY <1>25 DEF Crash, Forget, jobVars
  <2>2. Listed'
    BY <2>1, NothingReported
  <2>3. Len(report'.sectors) = 0
    BY <2>1 DEF EmptyReport
  <2>4. Aligned' /\ Flags' /\ Errors' /\ Whole' /\ Finished'
    BY <2>1, <2>3 DEF Aligned, Flags, Errors, Whole, Finished, LoopPc, AtSector,
       Leaving
  <2> QED BY <2>2, <2>4
<1>26. CASE RaiseCancel
  BY <1>26, OrderKept DEF RaiseCancel, hostVars, jobVars, Listed, Aligned, Taken,
     Flags, Errors,
     Kept, Whole, Completed, Finished
<1>27. CASE EcuReset
  BY <1>27, OrderKept DEF EcuReset, hostVars, jobVars, Listed, Aligned, Taken,
     Flags, Errors,
     Kept, Whole, Completed, Finished
<1> QED
  BY <1>1, <1>2, <1>3, <1>4, <1>5, <1>6, <1>7, <1>8, <1>9, <1>10, <1>11,
     <1>12, <1>13, <1>14, <1>15, <1>16, <1>17, <1>18, <1>19, <1>20, <1>21,
     <1>22, <1>23, <1>24, <1>25, <1>26, <1>27 DEF Next, Step

LEMMA AlwaysInPlan == Spec => [](TypeInv /\ ReportInv /\ PlanInv)
<1>1. Init => ReportInv
  BY DEF Init, ReportInv, ReportIsTrue, Untouched, Counted, Marked, EmptyReport,
     AtSector
<1>2. Init => PlanInv
  <2> SUFFICES ASSUME Init PROVE PlanInv
    OBVIOUS
  <2>1. Len(report.sectors) = 0 /\ pc = "idle"
    BY DEF Init, EmptyReport
  <2>2. Ordered(plan) \in Seq(Sectors)
    <3>1. TypeInv
      BY TypeInit, ConstantAssumption
    <3> QED BY <3>1, OrderedPermutes DEF TypeInv, TypeOK, JobOK, Place
  <2>3. Listed
    BY <2>1, <2>2 DEF Listed
  <2> QED BY <2>1, <2>3 DEF PlanInv, Aligned, Flags, Errors, Whole, Finished,
             LoopPc, AtSector,
       Leaving
<1>3. TypeInv /\ ReportInv /\ [Next]_vars => ReportInv'
  BY ReportStep
<1>4. TypeInv /\ PlanInv /\ [Next]_vars => PlanInv'
  BY PlanStep
<1> QED BY <1>1, <1>2, <1>3, <1>4, AlwaysTyped, PTL DEF Spec

(* A call that returns without error has an outcome for every sector of the *)
(* plan, and unless it was a dry run each went through every exchange.      *)
THEOREM SuccessComplete == Spec => []SuccessIsComplete
<1>1. TypeInv /\ PlanInv => SuccessIsComplete
  <2> SUFFICES ASSUME TypeInv, PlanInv, pc = "returned", error = NoError
               PROVE  /\ SeqRange(plan) =
                            {report.sectors[i].sector : i \in 1 .. Len(report.sectors)}
                      /\ opts.dry \/ \A i \in 1 .. Len(report.sectors) :
                                       Completed(report.sectors[i])
    BY DEF SuccessIsComplete
  <2>1. SeqRange(Ordered(plan)) = SeqRange(plan)
    BY OrderedPermutes DEF TypeInv, TypeOK, JobOK, Place
  <2>2. /\ Len(report.sectors) = Len(Ordered(plan))
        /\ \A i \in 1 .. Len(report.sectors) : report.sectors[i].sector = Ordered(plan)[i]
    BY DEF PlanInv, Finished, Listed
  <2>3. SeqRange(Ordered(plan)) =
           {report.sectors[i].sector : i \in 1 .. Len(report.sectors)}
    BY <2>2 DEF SeqRange
  <2> QED BY <2>1, <2>3 DEF PlanInv, Whole, Kept
<1> QED BY <1>1, AlwaysInPlan, PTL

-----------------------------------------------------------------------------
(* What a step can do to the flash.                                         *)

LEMMA EraseWrites ==
  ASSUME ecu \in EcuType, NEW s \in Sectors, NEW a \in EraseAnswers(s)
  PROVE  /\ a.ok \in BOOLEAN
         /\ a.ecu.flash \in {ecu.flash, [ecu.flash EXCEPT ![s] = "erased"]}
         /\ a.ok => a.ecu.flash = [ecu.flash EXCEPT ![s] = "erased"]
<1> DEFINE new == [ecu EXCEPT !.flash[s] = "erased"]
<1>1. /\ a.ok \in BOOLEAN /\ a.ecu \in {ecu, new}
      /\ a.ok => a.ecu = new
  BY AnswerCases DEF Answers, EraseAnswers
<1>2. new.flash = [ecu.flash EXCEPT ![s] = "erased"]
  BY DEF EcuType
<1> QED BY <1>1, <1>2

LEMMA TransferWrites ==
  ASSUME ecu \in EcuType, NEW c, NEW a \in TransferAnswers(c)
  PROVE  /\ a.ok \in BOOLEAN
         /\ a.ok \/ a.ecu.flash # ecu.flash =>
              /\ ecu.dl.sector # NoSector
              /\ \E content \in Programmed(ecu.dl.sector, ecu.dl.got + 1) :
                    a.ecu.flash = [ecu.flash EXCEPT ![ecu.dl.sector] = content]
<1> DEFINE s == ecu.dl.sector
           got == ecu.dl.got + 1
           next == (ecu.dl.expect + 1) % CounterMod
           Written(content) ==
              [ecu EXCEPT !.flash[s] = content,
                          !.dl = [sector |-> s, got |-> got, expect |-> next]]
           All == {Written(content) :
                     content \in IF s = NoSector THEN {} ELSE Programmed(s, got)}
<1>1. /\ a.ok \in BOOLEAN
      /\ a.ok \/ a.ecu # ecu => s # NoSector /\ a.ecu \in All
  <2>1. a \in Answers(/\ Programming
                      /\ s # NoSector
                      /\ got <= Blocks
                      /\ opts.bulk \/ c = ecu.dl.expect, All)
    BY DEF TransferAnswers
  <2> HIDE DEF All
  <2> QED BY <2>1, AnswerCases DEF Answers
<1>2. \A content : Written(content).flash = [ecu.flash EXCEPT ![s] = content]
  BY DEF EcuType
<1> QED BY <1>1, <1>2

LEMMA FlashChange ==
  ASSUME TypeInv, ReportInv, [Next]_vars
  PROVE  \/ ecu'.flash = ecu.flash
         \/ Erase /\ ecu'.flash = [ecu.flash EXCEPT ![outcome.sector] = "erased"]
         \/ /\ Transfer
            /\ \E content \in Programmed(outcome.sector, sent + 1) :
                  ecu'.flash = [ecu.flash EXCEPT ![outcome.sector] = content]
<1> /\ ecu \in EcuType /\ (pc \in AtSector => outcome.sector \in Sectors)
  BY SectorAtHand DEF TypeInv, TypeOK
<1>1. CASE UNCHANGED vars
  BY <1>1 DEF vars
<1>2. CASE EnterSession
  BY <1>2, SessionAnswer DEF EnterSession, Exchange, jobVars, ReportType,
     SessionType
<1>3. CASE SilenceBus
  BY <1>3, CommControlAnswer DEF SilenceBus, Exchange, jobVars, ReportType
<1>4. CASE DrySector
  BY <1>4 DEF DrySector, jobVars
<1>5. CASE BeginSector
  BY <1>5 DEF BeginSector, jobVars
<1>6. CASE CancelBetweenSectors
  BY <1>6 DEF CancelBetweenSectors, jobVars
<1>7. CASE Erase
  BY <1>7, EraseWrites DEF Erase, Exchange, AtSector
<1>8. CASE Download
  BY <1>8, DownloadAnswer DEF Download, Exchange, SectorFailed, jobVars, AtSector
<1>9. CASE NextBlock
  BY <1>9 DEF NextBlock, jobVars
<1>10. CASE CancelMidSector
  BY <1>10 DEF CancelMidSector, jobVars
<1>11. CASE BulkRefused
  BY <1>11 DEF BulkRefused, SectorFailed, jobVars
<1>12. CASE Transfer
  <2>1. PICK a \in TransferAnswers(counter) : ecu' = a.ecu
    BY <1>12 DEF Transfer, Exchange
  <2>2. /\ ecu.dl.sector \in {NoSector, outcome.sector}
        /\ ecu.dl.sector = outcome.sector => ecu.dl.got = sent
    BY <1>12 DEF Transfer, ReportInv, Counted
  <2>3. CASE a.ecu.flash # ecu.flash
    <3>1. /\ ecu.dl.sector # NoSector
          /\ \E content \in Programmed(ecu.dl.sector, ecu.dl.got + 1) :
                a.ecu.flash = [ecu.flash EXCEPT ![ecu.dl.sector] = content]
      BY <2>3, TransferWrites
    <3>2. ecu.dl.sector = outcome.sector /\ ecu.dl.got = sent
      BY <2>2, <3>1
    <3> QED BY <1>12, <2>1, <3>1, <3>2
  <2> QED BY <2>1, <2>3
<1>13. CASE TransferExit
  BY <1>13, TransferExitAnswer DEF TransferExit, Exchange, SectorFailed, jobVars
<1>14. CASE CheckDependencies
  BY <1>14, CheckAnswer DEF CheckDependencies, Exchange, SectorFailed, jobVars
<1>15. CASE Verify
  BY <1>15 DEF Verify, Exchange, SectorFailed, jobVars
<1>16. CASE CancelExit
  BY <1>16, TransferExitAnswer DEF CancelExit, Exchange, jobVars
<1>17. CASE CancelRestore
  <2>1. ecu' = ecu \/ \E a \in CommControlAnswers(FALSE) : ecu' = a.ecu
    BY <1>17 DEF CancelRestore, RestoreBus, Exchange
  <2> QED BY <2>1, CommControlAnswer
<1>18. CASE CancelSession
  BY <1>18, SessionAnswer DEF CancelSession, Exchange, jobVars, SessionType
<1>19. CASE Bail
  <2>1. ecu' = ecu \/ \E a \in CommControlAnswers(FALSE) : ecu' = a.ecu
    BY <1>19 DEF Bail, RestoreBus, Exchange
  <2> QED BY <2>1, CommControlAnswer
<1>20. CASE CommitOutcome
  BY <1>20 DEF CommitOutcome, Continue, jobVars
<1>21. CASE WriteJournal
  BY <1>21 DEF WriteJournal, Continue, jobVars
<1>22. CASE Complete
  <2>1. ecu' = ecu \/ \E a \in CommControlAnswers(FALSE) : ecu' = a.ecu
    BY <1>22 DEF Complete, RestoreBus, Exchange
  <2> QED BY <2>1, CommControlAnswer
<1>23. CASE Start
  BY <1>23 DEF Start, jobVars
<1>24. CASE Resume
  BY <1>24 DEF Resume, Forget, jobVars
<1>25. CASE Crash
  BY <1>25 DEF Crash, Forget, jobVars
<1>26. CASE RaiseCancel
  BY <1>26 DEF RaiseCancel, hostVars, jobVars
<1>27. CASE EcuReset
  BY <1>27 DEF EcuReset, hostVars, jobVars, EcuType
<1> QED
  BY <1>1, <1>2, <1>3, <1>4, <1>5, <1>6, <1>7, <1>8, <1>9, <1>10, <1>11,
     <1>12, <1>13, <1>14, <1>15, <1>16, <1>17, <1>18, <1>19, <1>20, <1>21,
     <1>22, <1>23, <1>24, <1>25, <1>26, <1>27 DEF Next, Step

-----------------------------------------------------------------------------
(* The sector with the integrity check.                                     *)

FullInv == TypeInv /\ ReportInv /\ PlanInv /\ DryInv

LEMMA AlwaysFull == Spec => []FullInv
<1>1. Init => DryInv
  BY DEF Init, DryInv
<1>2. TypeInv /\ DryInv /\ [Next]_vars => DryInv'
  BY DryStep
<1> QED BY <1>1, <1>2, AlwaysInPlan, PTL DEF Spec, FullInv

(* Ordered puts it last. *)
LEMMA OrderedLast ==
  ASSUME NEW S, NEW p \in Seq(S), integrity \in SeqRange(p)
  PROVE  /\ Len(Ordered(p)) = Len(p) /\ Len(p) \in Nat \ {0}
         /\ Ordered(p)[Len(p)] = integrity
<1> DEFINE n == Len(p)
           k == CHOOSE k \in 1 .. n : p[k] = integrity
           q == [i \in 1 .. n |-> IF i < k THEN p[i]
                                  ELSE IF i < n THEN p[i + 1] ELSE p[k]]
<1>1. n \in Nat /\ k \in 1 .. n /\ p[k] = integrity
  BY DEF SeqRange
<1> HIDE DEF k
<1>2. n \in 1 .. n /\ ~(n < k) /\ q[n] = p[k] /\ Len(q) = n
  BY <1>1
<1>3. Ordered(p) = q
  BY DEF Ordered, k
<1> QED BY <1>1, <1>2, <1>3

(* While execute programs a sector, every sector before it is rewritten.    *)
LEMMA BeforeThis ==
  ASSUME FullInv, pc = "transfer",
         NEW i \in 1 .. Len(report.sectors)
  PROVE  ecu.flash[report.sectors[i].sector] \in Rewritten
<1>1. error = NoError /\ ~opts.dry
  BY DEF FullInv, PlanInv, Errors, LoopPc, AtSector, DryInv
<1>2. report.sectors[i].transferred
  BY <1>1 DEF FullInv, PlanInv, Whole, Kept, Completed
<1> QED BY <1>2 DEF FullInv, ReportInv, ReportIsTrue

LEMMA LastStep ==
  ASSUME FullInv, [Next]_vars, ecu.flash # ecu'.flash,
         integrity \in SeqRange(plan),
         ecu.flash[integrity] \notin Rewritten, ecu'.flash[integrity] \in Rewritten,
         NEW t \in SeqRange(plan) \ {integrity}
  PROVE  ecu.flash[t] \in Rewritten
<1> /\ TypeInv /\ ReportInv /\ PlanInv /\ plan \in Seq(Sectors) /\ Distinct(plan)
    /\ ecu.flash \in [Sectors -> Contents] /\ integrity \in Sectors
  BY EcuFields DEF FullInv, TypeInv, TypeOK, JobOK, Place, SeqRange
<1>1. Transfer /\ outcome.sector = integrity
  <2>1. ASSUME Erase, ecu'.flash = [ecu.flash EXCEPT ![outcome.sector] = "erased"]
        PROVE  FALSE
    <3>1. "erased" \notin Rewritten
      BY DEF Rewritten
    <3> QED BY <2>1, <3>1
  <2>2. ASSUME Transfer, NEW content \in Programmed(outcome.sector, sent + 1),
               ecu'.flash = [ecu.flash EXCEPT ![outcome.sector] = content]
        PROVE  outcome.sector = integrity
    BY <2>2
  <2> QED BY <2>1, <2>2, FlashChange
<1>2. pc = "transfer" /\ todo # <<>> /\ todo \in Seq(Sectors) /\ integrity = Head(todo)
  BY <1>1, SectorAtHand DEF Transfer, AtSector
<1>3. Len(todo) \in Nat \ {0} /\ todo[1] = integrity /\ Len(report.sectors) \in Nat
  BY <1>2 DEF TypeInv, TypeOK, RecordOK, ReportType
<1>4. /\ Len(report.sectors) + Len(todo) = Len(Ordered(plan))
      /\ Ordered(plan)[Len(report.sectors) + 1] = integrity
  <2>1. /\ Len(report.sectors) + Len(todo) = Len(Ordered(plan))
        /\ \A i \in 1 .. Len(todo) : todo[i] = Ordered(plan)[Len(report.sectors) + i]
    BY <1>2 DEF PlanInv, Aligned, Taken, LoopPc, AtSector
  <2>2. 1 \in 1 .. Len(todo)
    BY <1>3
  <2> QED BY <1>3, <2>1, <2>2
<1>10. /\ Ordered(plan) \in Seq(Sectors) /\ Distinct(Ordered(plan))
      /\ SeqRange(Ordered(plan)) = SeqRange(plan)
  BY OrderedPermutes
<1>5. Len(report.sectors) + 1 = Len(Ordered(plan))
  <2>1. /\ Ordered(plan)[Len(Ordered(plan))] = integrity
        /\ Len(Ordered(plan)) \in Nat \ {0}
    BY OrderedLast
  <2>2. /\ Len(Ordered(plan)) \in 1 .. Len(Ordered(plan))
        /\ Len(report.sectors) + 1 \in 1 .. Len(Ordered(plan))
    BY <1>3, <1>4, <2>1
  <2> QED BY <1>4, <1>10, <2>1, <2>2 DEF Distinct
<1>6. PICK i \in 1 .. Len(Ordered(plan)) : t = Ordered(plan)[i]
  BY <1>10 DEF SeqRange
<1>7. i \in 1 .. Len(report.sectors) /\ report.sectors[i].sector = t
  BY <1>3, <1>4, <1>5, <1>6 DEF PlanInv, Listed
<1> QED BY <1>2, <1>7, BeforeThis

(* The sector with the boot integrity check is the last to be rewritten,    *)
(* whatever the plan and wherever in it that sector is.                     *)
THEOREM IntegrityLast == Spec => IntegritySectorLast
<1>1. ASSUME FullInv, [Next]_vars
      PROVE  [ecu.flash # ecu'.flash =>
                \A s \in SeqRange(plan) :
                  s = integrity /\ ecu.flash[s] \notin Rewritten /\ ecu'.flash[s] \in Rewritten
                  => \A t \in SeqRange(plan) \ {s} : ecu.flash[t] \in Rewritten]_vars
  BY <1>1, LastStep
<1> QED BY <1>1, AlwaysFull, PTL DEF Spec, IntegritySectorLast

-----------------------------------------------------------------------------
(* The refinement.  Begun says what FlashJob needs to know of the sector at *)
(* hand: while blocks are missing it is broken, and a whole outcome that is *)
(* being journaled is still true.                                           *)

LEMMA BegunStep ==
  ASSUME FullInv, Begun, [Next]_vars PROVE Begun'
<1> /\ TypeInv /\ ReportInv /\ PlanInv
    /\ outcome \in OutcomeType /\ sent \in 0 .. Blocks /\ Blocks \in Nat
    /\ resumeAt \in {"boundary", "bail", "cancelExit"}
    /\ ecu \in EcuType /\ ecu.flash \in [Sectors -> Contents]
    /\ (pc \in AtSector => outcome.sector \in Sectors)
  BY SectorAtHand, EcuFields, ConstantAssumption
     DEF FullInv, TypeInv, TypeOK, WorkerOK, RecordOK, ConstantAssumption
<1> /\ ~Erase /\ ~Transfer => ecu'.flash = ecu.flash
  BY FlashChange
<1>1. CASE UNCHANGED vars
  BY <1>1 DEF vars, hostVars, jobVars, Begun, TrueOf, Completed
<1>2. CASE EnterSession
  BY <1>2 DEF EnterSession, Exchange, jobVars, ReportType, Begun, TrueOf,
     Completed, Erase, Transfer, OutcomeType
<1>3. CASE SilenceBus
  BY <1>3 DEF SilenceBus, Exchange, jobVars, ReportType, Begun, TrueOf,
     Completed, Erase, Transfer, OutcomeType
<1>4. CASE DrySector
  BY <1>4 DEF DrySector, jobVars, Begun, TrueOf, Completed, Erase, Transfer,
     OutcomeType
<1>5. CASE BeginSector
  BY <1>5 DEF BeginSector, jobVars, Begun, TrueOf, Completed, Erase, Transfer,
     OutcomeType
<1>6. CASE CancelBetweenSectors
  BY <1>6 DEF CancelBetweenSectors, jobVars, Begun, TrueOf, Completed, Erase,
     Transfer, OutcomeType
<1>7. CASE Erase
  <2>1. PICK a \in EraseAnswers(outcome.sector) :
           /\ ecu' = a.ecu
           /\ IF a.ok THEN pc' = "download" /\ UNCHANGED sent /\ outcome'.sector = outcome.sector
                      ELSE pc' = "commit"
    BY <1>7 DEF Erase, Exchange, SectorFailed, OutcomeType
  <2>2. a.ok => ecu'.flash[outcome.sector] = "erased"
    <3>1. outcome.sector \in Sectors
      BY <1>7 DEF Erase, AtSector
    <3>2. a.ok => ecu'.flash = [ecu.flash EXCEPT ![outcome.sector] = "erased"]
      BY <2>1, <3>1, EraseWrites
    <3> QED BY <3>1, <3>2
  <2>3. CASE a.ok
    BY <2>1, <2>2, <2>3 DEF Begun, Rewritten
  <2>4. CASE ~a.ok
    BY <2>1, <2>4 DEF Begun
  <2> QED BY <2>3, <2>4
<1>8. CASE Download
  BY <1>8 DEF Download, Exchange, SectorFailed, jobVars, Begun, TrueOf,
     Completed, Erase, Transfer, OutcomeType
<1>9. CASE NextBlock
  BY <1>9 DEF NextBlock, jobVars, Begun, TrueOf, Completed, Erase, Transfer,
     OutcomeType
<1>10. CASE CancelMidSector
  BY <1>10 DEF CancelMidSector, jobVars, Begun, TrueOf, Completed, Erase,
     Transfer, OutcomeType
<1>11. CASE BulkRefused
  BY <1>11 DEF BulkRefused, SectorFailed, jobVars, Begun, TrueOf, Completed,
     Erase, Transfer, OutcomeType
<1>12. CASE Transfer
  <2>1. PICK a \in TransferAnswers(counter) :
           /\ ecu' = a.ecu
           /\ IF a.ok THEN pc' = "block" /\ sent' = sent + 1 /\ UNCHANGED outcome
                      ELSE pc' = "commit"
    BY <1>12 DEF Transfer, Exchange, SectorFailed
  <2>2. CASE ~a.ok
    BY <2>1, <2>2 DEF Begun
  <2>3. CASE a.ok
    <3>1. /\ ecu.dl.sector # NoSector
          /\ \E content \in Programmed(ecu.dl.sector, ecu.dl.got + 1) :
                a.ecu.flash = [ecu.flash EXCEPT ![ecu.dl.sector] = content]
      BY <2>3, TransferWrites
    <3>2. ecu.dl.sector = outcome.sector /\ ecu.dl.got = sent
      BY <1>12, <3>1 DEF Transfer, ReportInv, Counted
    <3>3. PICK content \in Programmed(outcome.sector, sent + 1) :
             ecu'.flash = [ecu.flash EXCEPT ![outcome.sector] = content]
      BY <2>1, <3>1, <3>2
    <3>4. sent + 1 < Blocks => content \in {"spoilt", "partial"}
      BY DEF Programmed
    <3>5. ecu'.flash[outcome.sector] = content
      BY <1>12, <3>3 DEF Transfer, AtSector
    <3> QED BY <2>1, <2>3, <3>4, <3>5 DEF Begun, Rewritten
  <2> QED BY <2>1, <2>2, <2>3
<1>13. CASE TransferExit
  BY <1>13 DEF TransferExit, Exchange, SectorFailed, jobVars, Begun, TrueOf,
     Completed, Erase, Transfer, OutcomeType
<1>14. CASE CheckDependencies
  BY <1>14 DEF CheckDependencies, Exchange, SectorFailed, jobVars, Begun, TrueOf,
     Completed, Erase, Transfer, OutcomeType
<1>15. CASE Verify
  BY <1>15 DEF Verify, Exchange, SectorFailed, jobVars, Begun, TrueOf, Completed,
     Erase, Transfer, OutcomeType
<1>16. CASE CancelExit
  BY <1>16 DEF CancelExit, Exchange, jobVars, Begun, TrueOf, Completed, Erase,
     Transfer, OutcomeType
<1>17. CASE CancelRestore
  BY <1>17 DEF CancelRestore, Exchange, RestoreBus, jobVars, ReportType, Begun,
     TrueOf, Completed, Erase, Transfer, OutcomeType
<1>18. CASE CancelSession
  BY <1>18 DEF CancelSession, Exchange, jobVars, Begun, TrueOf, Completed, Erase,
     Transfer, OutcomeType
<1>19. CASE Bail
  BY <1>19 DEF Bail, Exchange, RestoreBus, jobVars, ReportType, Begun, TrueOf,
     Completed, Erase, Transfer, OutcomeType
<1>20. CASE CommitOutcome
  <2>1. pc = "commit" /\ pc' \in {"journal", "boundary", "bail", "cancelExit"}
        /\ UNCHANGED <<outcome, opts>> /\ ecu'.flash = ecu.flash
    BY <1>20 DEF CommitOutcome, Continue, jobVars, Erase, Transfer
  <2> QED BY <2>1 DEF Begun, ReportInv, Marked, TrueOf, Completed
<1>21. CASE WriteJournal
  BY <1>21 DEF WriteJournal, Continue, jobVars, Begun, TrueOf, Completed, Erase,
     Transfer, OutcomeType
<1>22. CASE Complete
  BY <1>22 DEF Complete, Exchange, RestoreBus, jobVars, Begun, TrueOf, Completed,
     Erase, Transfer, OutcomeType
<1>23. CASE Start
  BY <1>23 DEF Start, Begun
<1>24. CASE Resume
  BY <1>24 DEF Resume, Begun
<1>25. CASE Crash
  BY <1>25 DEF Crash, Begun
<1>26. CASE RaiseCancel
  BY <1>26 DEF RaiseCancel, hostVars, jobVars, Begun, TrueOf, Completed, Erase,
     Transfer, OutcomeType
<1>27. CASE EcuReset
  BY <1>27 DEF EcuReset, hostVars, jobVars, Begun, TrueOf, Completed, Erase,
     Transfer, OutcomeType
<1> QED
  BY <1>1, <1>2, <1>3, <1>4, <1>5, <1>6, <1>7, <1>8, <1>9, <1>10, <1>11,
     <1>12, <1>13, <1>14, <1>15, <1>16, <1>17, <1>18, <1>19, <1>20, <1>21,
     <1>22, <1>23, <1>24, <1>25, <1>26, <1>27 DEF Next, Step

(* A step is one of four kinds to a client: it leaves everything it sees    *)
(* alone, or it begins a sector, ends one, or ends the call.                *)
JobPhase == IF Running THEN "busy"
            ELSE IF pc = "idle" THEN "rest"
            ELSE IF pc = "returned" /\ error = NoError THEN "done" ELSE "failed"
JobPending == IF Running /\ ~opts.dry THEN SeqRange(todo) ELSE {}
JobTarget == IF Mid THEN Head(todo) ELSE NoSector
JobContent == [s \in Sectors |->
                  IF ecu.flash[s] = "old" THEN "old"
                  ELSE IF ecu.flash[s] \in Rewritten THEN "rewritten" ELSE "broken"]

LEMMA ContentKept ==
  ASSUME ecu'.flash = ecu.flash PROVE JobContent' = JobContent
BY DEF JobContent

LEMMA PendingInSectors ==
  ASSUME TypeInv' PROVE JobPending' \in SUBSET Sectors
BY DEF TypeInv, TypeOK, LoopOK, JobPending, SeqRange

(* The sector at hand is what the job is on.                                *)
LEMMA TargetAtHand ==
  ASSUME TypeInv, pc \in AtSector, ~opts.dry
  PROVE  /\ JobTarget = outcome.sector /\ JobTarget \in Sectors /\ JobTarget # NoSector
         /\ JobPhase = "busy" /\ JobPending = SeqRange(todo)
<1>1. todo # <<>> /\ outcome.sector = Head(todo) /\ outcome.sector \in Sectors
  BY SectorAtHand
<1>2. Running /\ Mid
  BY <1>1 DEF Running, Stopped, Mid, AtSector
<1> QED BY <1>1, <1>2, ConstantAssumption DEF JobTarget, JobPhase, JobPending,
           ConstantAssumption

(* The sector at hand written with a content. *)
LEMMA ContentWritten ==
  ASSUME ecu.flash \in [Sectors -> Contents], NEW s \in Sectors, NEW content \in Contents,
         ecu'.flash = [ecu.flash EXCEPT ![s] = content], content # "old"
  PROVE  JobContent' = [JobContent EXCEPT ![s] =
                          IF content \in Rewritten THEN "rewritten" ELSE "broken"]
BY DEF JobContent

JobNext == Job!Next \/ UNCHANGED Job!vars

LEMMA AsBegin ==
  ASSUME JobPhase # "busy", JobPhase' = "busy", JobPending' \in SUBSET Sectors,
         UNCHANGED <<JobTarget, JobContent>>
  PROVE  JobNext
<1>1. Job!Begin
  BY DEF Job!Begin, JobPhase, JobPending, JobTarget, JobContent
<1> QED BY <1>1 DEF Job!Next, JobNext

LEMMA AsSettle ==
  ASSUME JobPhase # "busy", JobPhase' \in {"failed", "rest"},
         UNCHANGED <<JobPending, JobTarget, JobContent>>
  PROVE  JobNext
<1>1. Job!Settle
  BY DEF Job!Settle, JobPhase, JobPending, JobTarget, JobContent
<1> QED BY <1>1 DEF Job!Next, JobNext

LEMMA AsChoose ==
  ASSUME JobPhase = "busy", JobTarget = NoSector, JobTarget' \in JobPending,
         UNCHANGED <<JobPhase, JobPending, JobContent>>
  PROVE  JobNext
<1>1. Job!Choose
  BY DEF Job!Choose, JobPhase, JobPending, JobTarget, JobContent
<1> QED BY <1>1 DEF Job!Next, JobNext

LEMMA AsDamage ==
  ASSUME JobPhase = "busy", JobTarget # NoSector,
         JobContent' = [JobContent EXCEPT ![JobTarget] = "broken"],
         UNCHANGED <<JobPhase, JobPending, JobTarget>>
  PROVE  JobNext
<1>1. Job!Damage
  BY DEF Job!Damage, JobPhase, JobPending, JobTarget, JobContent
<1> QED BY <1>1 DEF Job!Next, JobNext

LEMMA AsRewrite ==
  ASSUME JobPhase = "busy", JobTarget # NoSector, JobContent[JobTarget] = "broken",
         JobContent' = [JobContent EXCEPT ![JobTarget] = "rewritten"],
         UNCHANGED <<JobPhase, JobPending, JobTarget>>
  PROVE  JobNext
<1>1. Job!Rewrite
  BY DEF Job!Rewrite, JobPhase, JobPending, JobTarget, JobContent
<1> QED BY <1>1 DEF Job!Next, JobNext

LEMMA AsClose ==
  ASSUME JobPhase = "busy", JobTarget # NoSector, JobContent[JobTarget] = "rewritten",
         JobPending' = JobPending \ {JobTarget}, JobTarget' = NoSector,
         UNCHANGED <<JobPhase, JobContent>>
  PROVE  JobNext
<1>1. Job!Close
  BY DEF Job!Close, JobPhase, JobPending, JobTarget, JobContent
<1> QED BY <1>1 DEF Job!Next, JobNext

LEMMA AsSucceed ==
  ASSUME JobPhase = "busy", JobPending = {}, JobPhase' = "done",
         UNCHANGED <<JobPending, JobTarget, JobContent>>
  PROVE  JobNext
<1>1. Job!Succeed
  BY DEF Job!Succeed, JobPhase, JobPending, JobTarget, JobContent
<1> QED BY <1>1 DEF Job!Next, JobNext

LEMMA AsAbort ==
  ASSUME JobPhase = "busy", JobPhase' = "failed", JobPending' = {},
         JobTarget' = NoSector, UNCHANGED JobContent
  PROVE  JobNext
<1>1. Job!Abort
  BY DEF Job!Abort, JobPhase, JobPending, JobTarget, JobContent
<1> QED BY <1>1 DEF Job!Next, JobNext

LEMMA AsNothing ==
  ASSUME UNCHANGED <<JobPhase, JobPending, JobTarget, JobContent>>
  PROVE  JobNext
<1>1. UNCHANGED Job!vars
  BY DEF Job!vars, JobPhase, JobPending, JobTarget, JobContent
<1> QED BY <1>1 DEF JobNext

(* A step at the sector at hand that stays there.                           *)
LEMMA StaysAtHand ==
  ASSUME TypeInv, pc \in AtSector, pc' \in AtSector \cup Leaving, UNCHANGED <<todo, opts>>
  PROVE  UNCHANGED <<JobPhase, JobPending, JobTarget>>
<1>1. todo # <<>>
  BY SectorAtHand
<1>2. Running /\ Running'
  BY DEF Running, Stopped, AtSector, Leaving
<1>3. Mid <=> Mid'
  BY <1>1, <1>2 DEF Mid, AtSector, Leaving
<1> QED BY <1>2, <1>3 DEF JobPhase, JobPending, JobTarget

(* The end of a call before its end: every sector still to do is given up.  *)
LEMMA GivesUp ==
  ASSUME Running, pc' \in {"returned", "crashed"}, pc' = "returned" => error' # NoError,
         ecu'.flash = ecu.flash
  PROVE  JobNext
<1>1. ~Running' /\ ~Mid' /\ pc' # "idle"
  BY DEF Running, Stopped, Mid
<1> QED BY <1>1, ContentKept, AsAbort DEF JobPhase, JobPending, JobTarget

(* Back at the boundary of a sector that is whole. *)
LEMMA ClosesSector ==
  ASSUME TypeInv, pc \in {"commit", "journal"}, TrueOf(outcome), Kept(outcome),
         pc' = "boundary", todo' = Tail(todo), UNCHANGED opts, ecu'.flash = ecu.flash
  PROVE  JobNext
<1>1. todo \in Seq(Sectors) /\ Distinct(todo) /\ todo # <<>> /\ outcome.sector = Head(todo)
      /\ outcome.sector \in Sectors
  BY SectorAtHand DEF AtSector
<1>2. Running /\ Running' /\ ~Mid'
  BY DEF Running, Stopped, Mid
<1>3. CASE opts.dry
  BY <1>2, <1>3, ContentKept, AsNothing DEF JobPhase, JobPending, JobTarget, Mid
<1>4. CASE ~opts.dry
  <2>1. JobTarget = outcome.sector /\ JobTarget # NoSector /\ JobPhase = "busy"
        /\ JobPending = SeqRange(todo)
    BY <1>4, TargetAtHand DEF AtSector
  <2>2. JobContent[JobTarget] = "rewritten"
    <3>1. ecu.flash[outcome.sector] \in Rewritten
      BY <1>4 DEF TrueOf, Kept, Completed
    <3> QED BY <3>1, <2>1, <1>1 DEF JobContent, Rewritten
  <2>3. JobPending' = JobPending \ {JobTarget}
    BY <1>1, <1>2, <1>4, <2>1, DistinctTail DEF JobPending
  <2> QED BY <1>2, <2>1, <2>2, <2>3, ContentKept, AsClose DEF JobPhase, JobTarget
<1> QED BY <1>3, <1>4

(* A call that leaves the boundary, for the next sector or for good.        *)
LEMMA LeavesBoundary ==
  ASSUME TypeInv, pc \in {"session", "silence", "boundary"},
         pc' \in AtSector \cup Leaving \cup {"silence", "boundary"},
         UNCHANGED <<todo, opts>>, ecu'.flash = ecu.flash
  PROVE  JobNext
<1>1. Running /\ Running' /\ ~Mid /\ todo \in Seq(Sectors)
  BY DEF Running, Stopped, Mid, AtSector, Leaving, TypeInv, TypeOK, LoopOK
<1>2. UNCHANGED <<JobPhase, JobPending>>
  BY <1>1 DEF JobPhase, JobPending
<1>3. CASE Mid'
  <2>1. JobPending = SeqRange(todo) /\ todo # <<>> /\ JobTarget' = Head(todo)
    BY <1>1, <1>3 DEF Mid, JobPending, JobTarget
  <2>2. Head(todo) \in SeqRange(todo)
    BY <1>1, <2>1, DistinctTail DEF TypeInv, Place
  <2> QED BY <1>1, <1>2, <2>1, <2>2, ContentKept, AsChoose DEF JobPhase, JobTarget
<1>4. CASE ~Mid'
  BY <1>1, <1>2, <1>4, ContentKept, AsNothing DEF JobTarget
<1> QED BY <1>3, <1>4

LEMMA JobStep ==
  ASSUME FullInv, Begun, [Next]_vars PROVE JobNext
<1> /\ TypeInv /\ ReportInv /\ PlanInv /\ DryInv
    /\ outcome \in OutcomeType /\ sent \in 0 .. Blocks /\ Blocks \in Nat
    /\ resumeAt \in {"boundary", "bail", "cancelExit"}
    /\ ecu \in EcuType /\ ecu.flash \in [Sectors -> Contents]
    /\ (pc \in AtSector => outcome.sector \in Sectors)
  BY SectorAtHand, EcuFields, ConstantAssumption
     DEF FullInv, TypeInv, TypeOK, WorkerOK, RecordOK, ConstantAssumption
<1> TypeInv'
  BY TypeStep, ConstantAssumption
<1> ~Erase /\ ~Transfer => ecu'.flash = ecu.flash
  BY FlashChange
<1>1. CASE UNCHANGED vars
  BY <1>1, AsNothing DEF vars, hostVars, jobVars, JobPhase, JobPending,
     JobTarget, JobContent,
     Running, Mid
<1>2. CASE EnterSession
  <2>1. /\ pc \in {"session", "silence", "boundary"}
        /\ pc' \in AtSector \cup Leaving \cup {"silence", "boundary"}
        /\ UNCHANGED <<todo, opts>> /\ ecu'.flash = ecu.flash
    BY <1>2 DEF EnterSession, Exchange, jobVars, ReportType, AtSector, Leaving,
       Erase, Transfer
  <2> QED BY <2>1, LeavesBoundary
<1>3. CASE SilenceBus
  <2>1. /\ pc \in {"session", "silence", "boundary"}
        /\ pc' \in AtSector \cup Leaving \cup {"silence", "boundary"}
        /\ UNCHANGED <<todo, opts>> /\ ecu'.flash = ecu.flash
    BY <1>3 DEF SilenceBus, Exchange, jobVars, ReportType, AtSector, Leaving,
       Erase, Transfer
  <2> QED BY <2>1, LeavesBoundary
<1>4. CASE DrySector
  <2>1. /\ pc \in {"session", "silence", "boundary"}
        /\ pc' \in AtSector \cup Leaving \cup {"silence", "boundary"}
        /\ UNCHANGED <<todo, opts>> /\ ecu'.flash = ecu.flash
    BY <1>4 DEF DrySector, jobVars, AtSector, Leaving, Erase, Transfer
  <2> QED BY <2>1, LeavesBoundary
<1>5. CASE BeginSector
  <2>1. /\ pc \in {"session", "silence", "boundary"}
        /\ pc' \in AtSector \cup Leaving \cup {"silence", "boundary"}
        /\ UNCHANGED <<todo, opts>> /\ ecu'.flash = ecu.flash
    BY <1>5 DEF BeginSector, jobVars, AtSector, Leaving, Erase, Transfer
  <2> QED BY <2>1, LeavesBoundary
<1>6. CASE CancelBetweenSectors
  <2>1. /\ pc \in {"session", "silence", "boundary"}
        /\ pc' \in AtSector \cup Leaving \cup {"silence", "boundary"}
        /\ UNCHANGED <<todo, opts>> /\ ecu'.flash = ecu.flash
    BY <1>6 DEF CancelBetweenSectors, jobVars, AtSector, Leaving, Erase, Transfer
  <2> QED BY <2>1, LeavesBoundary
<1>7. CASE Erase
  <2>1. /\ pc \in AtSector /\ pc' \in AtSector /\ UNCHANGED <<todo, opts>> /\ ~opts.dry
    BY <1>7 DEF Erase, Exchange, SectorFailed, jobVars, AtSector, DryInv
  <2>2. UNCHANGED <<JobPhase, JobPending, JobTarget>>
    BY <2>1, StaysAtHand
  <2>3. JobTarget = outcome.sector /\ JobTarget # NoSector /\ JobPhase = "busy"
    BY <2>1, TargetAtHand
  <2>4. CASE ecu'.flash = ecu.flash
    BY <2>2, <2>4, ContentKept, AsNothing
  <2>5. CASE ecu'.flash = [ecu.flash EXCEPT ![outcome.sector] = "erased"]
    <3>1. JobContent' = [JobContent EXCEPT ![outcome.sector] = "broken"]
      BY <2>1, <2>5, ContentWritten DEF Contents, Rewritten
    <3> QED BY <2>2, <2>3, <3>1, AsDamage
  <2> QED BY <1>7, <2>4, <2>5, FlashChange DEF Erase, Transfer
<1>8. CASE Download
  <2>1. /\ pc \in AtSector /\ pc' \in AtSector \cup Leaving
        /\ UNCHANGED <<todo, opts>> /\ ecu'.flash = ecu.flash
    BY <1>8 DEF Download, Exchange, SectorFailed, jobVars, AtSector, Leaving,
       Erase, Transfer
  <2> QED BY <2>1, StaysAtHand, ContentKept, AsNothing
<1>9. CASE NextBlock
  <2>1. /\ pc \in AtSector /\ pc' \in AtSector \cup Leaving
        /\ UNCHANGED <<todo, opts>> /\ ecu'.flash = ecu.flash
    BY <1>9 DEF NextBlock, jobVars, AtSector, Leaving, Erase, Transfer
  <2> QED BY <2>1, StaysAtHand, ContentKept, AsNothing
<1>10. CASE CancelMidSector
  <2>1. /\ pc \in AtSector /\ pc' \in AtSector \cup Leaving
        /\ UNCHANGED <<todo, opts>> /\ ecu'.flash = ecu.flash
    BY <1>10 DEF CancelMidSector, jobVars, AtSector, Leaving, Erase, Transfer
  <2> QED BY <2>1, StaysAtHand, ContentKept, AsNothing
<1>11. CASE BulkRefused
  <2>1. /\ pc \in AtSector /\ pc' \in AtSector \cup Leaving
        /\ UNCHANGED <<todo, opts>> /\ ecu'.flash = ecu.flash
    BY <1>11 DEF BulkRefused, SectorFailed, jobVars, AtSector, Leaving, Erase,
       Transfer
  <2> QED BY <2>1, StaysAtHand, ContentKept, AsNothing
<1>12. CASE Transfer
  <2>1. /\ pc \in AtSector /\ pc' \in AtSector /\ UNCHANGED <<todo, opts>> /\ ~opts.dry
        /\ pc = "transfer"
    BY <1>12 DEF Transfer, Exchange, SectorFailed, jobVars, AtSector, DryInv
  <2>2. UNCHANGED <<JobPhase, JobPending, JobTarget>>
    BY <2>1, StaysAtHand
  <2>3. JobTarget = outcome.sector /\ JobTarget # NoSector /\ JobPhase = "busy"
    BY <2>1, TargetAtHand
  <2>4. JobContent[JobTarget] = "broken"
    <3>1. ecu.flash[outcome.sector] \notin {"old"} \cup Rewritten
      BY <2>1 DEF Begun, TypeInv, Place
    <3> QED BY <2>1, <2>3, <3>1 DEF JobContent
  <2>5. CASE ecu'.flash = ecu.flash
    BY <2>2, <2>5, ContentKept, AsNothing
  <2>6. ASSUME NEW content \in Programmed(outcome.sector, sent + 1),
               ecu'.flash = [ecu.flash EXCEPT ![outcome.sector] = content]
        PROVE  JobNext
    <3>1. content \in Contents /\ content # "old"
      BY DEF Programmed, Contents
    <3>2. JobContent' = [JobContent EXCEPT ![outcome.sector] =
                            IF content \in Rewritten THEN "rewritten" ELSE "broken"]
      BY <2>1, <2>6, <3>1, ContentWritten
    <3>3. CASE content \in Rewritten
      BY <2>2, <2>3, <2>4, <3>2, <3>3, AsRewrite
    <3>4. CASE content \notin Rewritten
      BY <2>2, <2>3, <3>2, <3>4, AsDamage
    <3> QED BY <3>3, <3>4
  <2> QED BY <1>12, <2>5, <2>6, FlashChange DEF Erase, Transfer
<1>13. CASE TransferExit
  <2>1. /\ pc \in AtSector /\ pc' \in AtSector \cup Leaving
        /\ UNCHANGED <<todo, opts>> /\ ecu'.flash = ecu.flash
    BY <1>13 DEF TransferExit, Exchange, SectorFailed, jobVars, AtSector,
       Leaving, Erase, Transfer
  <2> QED BY <2>1, StaysAtHand, ContentKept, AsNothing
<1>14. CASE CheckDependencies
  <2>1. /\ pc \in AtSector /\ pc' \in AtSector \cup Leaving
        /\ UNCHANGED <<todo, opts>> /\ ecu'.flash = ecu.flash
    BY <1>14 DEF CheckDependencies, Exchange, SectorFailed, jobVars, AtSector,
       Leaving, Erase, Transfer
  <2> QED BY <2>1, StaysAtHand, ContentKept, AsNothing
<1>15. CASE Verify
  <2>1. /\ pc \in AtSector /\ pc' \in AtSector \cup Leaving
        /\ UNCHANGED <<todo, opts>> /\ ecu'.flash = ecu.flash
    BY <1>15 DEF Verify, Exchange, SectorFailed, jobVars, AtSector, Leaving,
       Erase, Transfer
  <2> QED BY <2>1, StaysAtHand, ContentKept, AsNothing
<1>16. CASE CancelExit
  <2>1. /\ pc \in Leaving /\ pc' \in Leaving /\ UNCHANGED <<todo, opts>>
        /\ ecu'.flash = ecu.flash
    BY <1>16 DEF CancelExit, Exchange, jobVars, Leaving, Erase, Transfer
  <2>2. Running /\ Running' /\ (Mid <=> Mid')
    BY <2>1 DEF Running, Stopped, Mid, Leaving
  <2> QED BY <2>1, <2>2, ContentKept, AsNothing DEF JobPhase, JobPending, JobTarget
<1>17. CASE CancelRestore
  <2>1. /\ pc \in Leaving /\ pc' \in Leaving /\ UNCHANGED <<todo, opts>>
        /\ ecu'.flash = ecu.flash
    BY <1>17 DEF CancelRestore, Exchange, RestoreBus, jobVars, ReportType,
       Leaving, Erase, Transfer
  <2>2. Running /\ Running' /\ (Mid <=> Mid')
    BY <2>1 DEF Running, Stopped, Mid, Leaving
  <2> QED BY <2>1, <2>2, ContentKept, AsNothing DEF JobPhase, JobPending, JobTarget
<1>18. CASE CancelSession
  <2>1. /\ pc \in Leaving /\ pc' \in Leaving /\ UNCHANGED <<todo, opts>>
        /\ ecu'.flash = ecu.flash
    BY <1>18 DEF CancelSession, Exchange, jobVars, Leaving, Erase, Transfer
  <2>2. Running /\ Running' /\ (Mid <=> Mid')
    BY <2>1 DEF Running, Stopped, Mid, Leaving
  <2> QED BY <2>1, <2>2, ContentKept, AsNothing DEF JobPhase, JobPending, JobTarget
<1>19. CASE Bail
  <2>1. /\ pc = "bail" /\ pc' = "returned" /\ UNCHANGED error /\ ecu'.flash = ecu.flash
    BY <1>19 DEF Bail, Exchange, RestoreBus, jobVars, ReportType, Erase, Transfer
  <2>2. Running /\ error # NoError
    BY <2>1 DEF Running, Stopped, PlanInv, Errors, Leaving
  <2> QED BY <2>1, <2>2, GivesUp
<1>20. CASE CommitOutcome
  <2>1. /\ pc = "commit" /\ UNCHANGED <<outcome, opts>> /\ ecu'.flash = ecu.flash
        /\ \/ pc' \in AtSector \cup Leaving /\ UNCHANGED todo
           \/ pc' = "boundary" /\ resumeAt = "boundary" /\ todo' = Tail(todo)
    BY <1>20 DEF CommitOutcome, Continue, jobVars, AtSector, Leaving, Erase,
       Transfer
  <2>2. CASE pc' \in AtSector \cup Leaving /\ UNCHANGED todo
    BY <2>1, <2>2, StaysAtHand, ContentKept, AsNothing DEF AtSector
  <2>3. CASE pc' = "boundary" /\ resumeAt = "boundary" /\ todo' = Tail(todo)
    <3>1. TrueOf(outcome) /\ Kept(outcome)
      BY <2>1, <2>3 DEF ReportInv, Marked, PlanInv, Errors, Whole
    <3> QED BY <2>1, <2>3, <3>1, ClosesSector
  <2> QED BY <2>1, <2>2, <2>3
<1>21. CASE WriteJournal
  <2>1. /\ pc = "journal" /\ UNCHANGED <<outcome, opts>> /\ ecu'.flash = ecu.flash
        /\ \/ pc' \in AtSector \cup Leaving /\ UNCHANGED todo
           \/ pc' = "boundary" /\ resumeAt = "boundary" /\ todo' = Tail(todo)
    BY <1>21 DEF WriteJournal, Continue, jobVars, AtSector, Leaving, Erase, Transfer
  <2>2. CASE pc' \in AtSector \cup Leaving /\ UNCHANGED todo
    BY <2>1, <2>2, StaysAtHand, ContentKept, AsNothing DEF AtSector
  <2>3. CASE pc' = "boundary" /\ resumeAt = "boundary" /\ todo' = Tail(todo)
    <3>1. TrueOf(outcome) /\ Kept(outcome)
      BY <2>1, <2>3 DEF Begun, PlanInv, Errors, Whole
    <3> QED BY <2>1, <2>3, <3>1, ClosesSector
  <2> QED BY <2>1, <2>2, <2>3
<1>22. CASE Complete
  <2>1. /\ pc = "boundary" /\ todo = <<>> /\ pc' = "returned"
        /\ UNCHANGED <<error, todo>> /\ ecu'.flash = ecu.flash
    BY <1>22 DEF Complete, Exchange, RestoreBus, jobVars, Erase, Transfer
  <2>2. error = NoError
    BY <2>1 DEF PlanInv, Errors, LoopPc, AtSector
  <2>3. Running /\ ~Running' /\ ~Mid /\ ~Mid' /\ SeqRange(todo) = {}
    BY <2>1 DEF Running, Stopped, Mid, SeqRange
  <2> QED BY <2>1, <2>2, <2>3, ContentKept, AsSucceed DEF JobPhase, JobPending,
             JobTarget
<1>23. CASE Start
  <2>1. /\ ~Running /\ ecu'.flash = ecu.flash
        /\ pc' = "session" \/ (pc' = "returned" /\ error' # NoError)
    BY <1>23 DEF Start, Running, Erase, Transfer, NoError
  <2>2. ~Mid /\ ~Mid'
    BY <2>1 DEF Mid, Running, Stopped
  <2>3. UNCHANGED <<JobTarget, JobContent>>
    BY <2>1, <2>2, ContentKept DEF JobTarget
  <2>4. CASE pc' = "session"
    <3>1. Running'
      BY <2>4 DEF Running, Stopped
    <3> QED BY <2>1, <2>3, <3>1, PendingInSectors, AsBegin DEF JobPhase
  <2>5. CASE pc' = "returned" /\ error' # NoError
    <3>1. ~Running'
      BY <2>5 DEF Running, Stopped
    <3> QED BY <2>1, <2>3, <2>5, <3>1, AsSettle DEF JobPhase, JobPending
  <2> QED BY <2>1, <2>4, <2>5
<1>24. CASE Resume
  <2>1. ~Running /\ pc' = "idle" /\ ecu'.flash = ecu.flash
    BY <1>24 DEF Resume, Running, Stopped, Erase, Transfer
  <2>2. ~Running' /\ ~Mid /\ ~Mid'
    BY <2>1 DEF Mid, Running, Stopped
  <2> QED BY <2>1, <2>2, ContentKept, AsSettle DEF JobPhase, JobPending, JobTarget
<1>25. CASE Crash
  <2>1. Running /\ pc' = "crashed" /\ ecu'.flash = ecu.flash
    BY <1>25 DEF Crash, Erase, Transfer
  <2> QED BY <2>1, GivesUp
<1>26. CASE RaiseCancel
  <2>1. UNCHANGED <<pc, todo, opts, error>> /\ ecu'.flash = ecu.flash
    BY <1>26 DEF RaiseCancel, hostVars, jobVars, Erase, Transfer
  <2> QED BY <2>1, ContentKept, AsNothing DEF JobPhase, JobPending, JobTarget,
             Mid, Running
<1>27. CASE EcuReset
  <2>1. UNCHANGED <<pc, todo, opts, error>> /\ ecu'.flash = ecu.flash
    BY <1>27 DEF EcuReset, hostVars, jobVars, Erase, Transfer
  <2> QED BY <2>1, ContentKept, AsNothing DEF JobPhase, JobPending, JobTarget,
             Mid, Running
<1> QED
  BY <1>1, <1>2, <1>3, <1>4, <1>5, <1>6, <1>7, <1>8, <1>9, <1>10, <1>11,
     <1>12, <1>13, <1>14, <1>15, <1>16, <1>17, <1>18, <1>19, <1>20, <1>21,
     <1>22, <1>23, <1>24, <1>25, <1>26, <1>27 DEF Next, Step

(* execute implements FlashJob, for every plan and every option: to a       *)
(* client it rewrites one sector at a time, damages no other, leaves one    *)
(* only when it is rewritten and is done only when none is left.            *)
THEOREM ExecuteIsAJob == Spec => ImplementsFlashJob
<1>1. Init => Begun
  BY DEF Init, Begun
<1>2. FullInv /\ Begun /\ [Next]_vars => Begun'
  BY BegunStep
<1>3. Init => Job!Init
  <2> SUFFICES ASSUME Init PROVE Job!Init
    OBVIOUS
  <2>1. pc = "idle" /\ ~Running /\ ecu.flash = [s \in Sectors |-> "old"]
    BY DEF Init, Running, Stopped
  <2>2. ~Mid
    BY <2>1 DEF Mid
  <2> QED BY <2>1, <2>2 DEF Job!Init
<1>4. FullInv /\ Begun /\ [Next]_vars => [Job!Next]_Job!vars
  BY JobStep DEF JobNext
<1> QED BY <1>1, <1>2, <1>3, <1>4, AlwaysFull, PTL DEF Spec, ImplementsFlashJob,
           Job!Spec

-----------------------------------------------------------------------------
(* Chains of resumed calls.  A sector that is in the first plan and no      *)
(* longer in the current one was journaled as done when it was; no call     *)
(* touches a sector outside its plan.                                       *)

LEMMA OnlySectorAtHand ==
  ASSUME FullInv, [Next]_vars, NEW s \in Sectors, ecu'.flash[s] # ecu.flash[s]
  PROVE  /\ pc \in {"erase", "transfer"}
         /\ s \in SeqRange(todo) /\ s \in SeqRange(plan)
<1> /\ TypeInv /\ ReportInv /\ PlanInv /\ ecu.flash \in [Sectors -> Contents]
    /\ plan \in Seq(Sectors) /\ Distinct(plan)
  BY EcuFields DEF FullInv, TypeInv, TypeOK, JobOK, Place
<1>1. pc \in {"erase", "transfer"} /\ s = outcome.sector
  BY FlashChange DEF Erase, Transfer
<1>2. /\ todo \in Seq(Sectors) /\ todo # <<>> /\ s = todo[1] /\ s \in SeqRange(todo)
  BY <1>1, SectorAtHand, DistinctTail DEF AtSector
<1>3. Len(todo) \in Nat \ {0} /\ 1 \in 1 .. Len(todo) /\ Len(report.sectors) \in Nat
  BY <1>2 DEF TypeInv, TypeOK, RecordOK, ReportType
<1>4. /\ Len(report.sectors) + Len(todo) = Len(Ordered(plan))
      /\ todo[1] = Ordered(plan)[Len(report.sectors) + 1]
  BY <1>1, <1>3 DEF PlanInv, Aligned, Taken, LoopPc, AtSector
<1>5. s \in SeqRange(Ordered(plan))
  BY <1>2, <1>3, <1>4 DEF SeqRange
<1> QED BY <1>1, <1>2, <1>5, OrderedPermutes

(* A plan with the integrity sector at its end, or without it, is not       *)
(* reordered.                                                               *)
LEMMA OrderedKeeps ==
  ASSUME plan \in Seq(Sectors), InPlanOrder PROVE Ordered(plan) = plan
<1>1. CASE integrity \notin SeqRange(plan)
  BY <1>1 DEF Ordered
<1>2. CASE integrity \in SeqRange(plan)
  <2> DEFINE n == Len(plan)
             k == CHOOSE k \in 1 .. n : plan[k] = integrity
             q == [i \in 1 .. n |-> IF i < k THEN plan[i]
                                    ELSE IF i < n THEN plan[i + 1] ELSE plan[k]]
  <2>1. n \in Nat /\ k \in 1 .. n /\ plan[k] = integrity
    BY <1>2 DEF SeqRange
  <2> HIDE DEF k
  <2>2. k = n
    BY <2>1 DEF InPlanOrder
  <2>3. \A i \in 1 .. n : q[i] = plan[i]
    BY <2>1, <2>2
  <2>4. q = [i \in 1 .. n |-> plan[i]] /\ plan = [i \in 1 .. n |-> plan[i]]
    BY <2>3, <2>1
  <2>5. Ordered(plan) = q
    BY <1>2 DEF Ordered, k
  <2> QED BY <2>4, <2>5
<1> QED BY <1>1, <1>2

LEMMA ManifestNames ==
  ASSUME NEW p \in Seq(Sectors), NEW r \in Seq(OutcomeType),
         NEW i \in 1 .. Len(Manifest(p, r))
  PROVE  /\ i \in 1 .. Len(p) /\ i \in 1 .. Len(r)
         /\ Manifest(p, r)[i].sector = p[i]
         /\ Manifest(p, r)[i].transferred = r[i].transferred
<1> DEFINE n == IF Len(p) < Len(r) THEN Len(p) ELSE Len(r)
           e == [j \in 1 .. n |-> [sector |-> p[j], transferred |-> r[j].transferred,
                                   verified |-> r[j].verified]]
<1>1. n \in Nat /\ n <= Len(p) /\ n <= Len(r) /\ Len(e) = n
  OBVIOUS
<1>2. Manifest(p, r) = e
  BY DEF Manifest
<1>3. i \in 1 .. n
  BY <1>1, <1>2
<1> QED BY <1>1, <1>2, <1>3

(* The journal is written by WriteJournal only; a sector once done with is  *)
(* not to do again.                                                         *)
Onward ==
    /\ pc' \in LoopPc => pc \in LoopPc /\ SeqRange(todo') \subseteq SeqRange(todo)
    /\ pc' = "journal" => pc = "journal"

LEMMA JournalSteps ==
  ASSUME ~SharedJournal, TypeInv, [Next]_vars
  PROVE  /\ UNCHANGED integrity
         /\ UNCHANGED plan \/ Resume
         /\ \/ UNCHANGED journal /\ Onward
            \/ journal'.state # "whole"
            \/ WriteJournal
<1> resumeAt \in {"boundary", "bail", "cancelExit"} /\ todo \in Seq(Sectors) /\ Distinct(todo)
  BY DEF TypeInv, TypeOK, WorkerOK, LoopOK, Place
<1>1. CASE UNCHANGED vars
  BY <1>1 DEF vars, hostVars, jobVars, Onward
<1>2. CASE EnterSession
  BY <1>2 DEF EnterSession, Exchange, jobVars, ReportType, Onward, LoopPc, AtSector
<1>3. CASE SilenceBus
  BY <1>3 DEF SilenceBus, Exchange, jobVars, ReportType, Onward, LoopPc, AtSector
<1>4. CASE DrySector
  BY <1>4 DEF DrySector, jobVars, Onward, LoopPc, AtSector
<1>5. CASE BeginSector
  BY <1>5 DEF BeginSector, jobVars, Onward, LoopPc, AtSector
<1>6. CASE CancelBetweenSectors
  BY <1>6 DEF CancelBetweenSectors, jobVars, Onward, LoopPc, AtSector
<1>7. CASE Erase
  BY <1>7 DEF Erase, Exchange, SectorFailed, jobVars, Onward, LoopPc, AtSector
<1>8. CASE Download
  BY <1>8 DEF Download, Exchange, SectorFailed, jobVars, Onward, LoopPc, AtSector
<1>9. CASE NextBlock
  BY <1>9 DEF NextBlock, jobVars, Onward, LoopPc, AtSector
<1>10. CASE CancelMidSector
  BY <1>10 DEF CancelMidSector, jobVars, Onward, LoopPc, AtSector
<1>11. CASE BulkRefused
  BY <1>11 DEF BulkRefused, SectorFailed, jobVars, Onward, LoopPc, AtSector
<1>12. CASE Transfer
  BY <1>12 DEF Transfer, Exchange, SectorFailed, jobVars, Onward, LoopPc, AtSector
<1>13. CASE TransferExit
  BY <1>13 DEF TransferExit, Exchange, SectorFailed, jobVars, Onward, LoopPc,
     AtSector
<1>14. CASE CheckDependencies
  BY <1>14 DEF CheckDependencies, Exchange, SectorFailed, jobVars, Onward,
     LoopPc, AtSector
<1>15. CASE Verify
  BY <1>15 DEF Verify, Exchange, SectorFailed, jobVars, Onward, LoopPc, AtSector
<1>16. CASE CancelExit
  BY <1>16 DEF CancelExit, Exchange, jobVars, Onward, LoopPc, AtSector
<1>17. CASE CancelRestore
  BY <1>17 DEF CancelRestore, Exchange, RestoreBus, jobVars, ReportType, Onward,
     LoopPc, AtSector
<1>18. CASE CancelSession
  BY <1>18 DEF CancelSession, Exchange, jobVars, Onward, LoopPc, AtSector
<1>19. CASE Bail
  BY <1>19 DEF Bail, Exchange, RestoreBus, jobVars, ReportType, Onward, LoopPc,
     AtSector
<1>20. CASE CommitOutcome
  <2>1. todo # <<>> /\ SeqRange(Tail(todo)) \subseteq SeqRange(todo)
    BY <1>20, SectorAtHand, DistinctTail DEF CommitOutcome, AtSector
  <2>2. pc = "commit" /\ UNCHANGED jobVars
    BY <1>20 DEF CommitOutcome
  <2>3. CASE journal' = TornJournal
    <3>1. journal'.state # "whole"
      BY <2>3 DEF TornJournal
    <3> QED BY <2>2, <3>1 DEF jobVars
  <2>4. CASE UNCHANGED journal /\ Continue
    <3>1. pc' \in {"boundary", "bail", "cancelExit"} /\ SeqRange(todo') \subseteq SeqRange(todo)
      BY <2>1, <2>4 DEF Continue
    <3>2. Onward
      BY <2>2, <3>1 DEF Onward, LoopPc, AtSector
    <3> QED BY <2>2, <2>4, <3>2 DEF jobVars
  <2> QED BY <1>20, <2>3, <2>4 DEF CommitOutcome
<1>21. CASE WriteJournal
  BY <1>21 DEF WriteJournal, jobVars
<1>22. CASE Complete
  BY <1>22 DEF Complete, Exchange, RestoreBus, jobVars, Onward, LoopPc, AtSector
<1>23. CASE Start
  BY <1>23 DEF Start, jobVars, NoJournal
<1>24. CASE Resume
  BY <1>24 DEF Resume, Forget, jobVars, Onward, LoopPc, AtSector
<1>25. CASE Crash
  BY <1>25 DEF Crash, Forget, jobVars, Onward, LoopPc, AtSector
<1>26. CASE RaiseCancel
  BY <1>26 DEF RaiseCancel, hostVars, jobVars, Onward, LoopPc, AtSector
<1>27. CASE EcuReset
  BY <1>27 DEF EcuReset, hostVars, jobVars, Onward, LoopPc, AtSector
<1> QED
  BY <1>1, <1>2, <1>3, <1>4, <1>5, <1>6, <1>7, <1>8, <1>9, <1>10, <1>11,
     <1>12, <1>13, <1>14, <1>15, <1>16, <1>17, <1>18, <1>19, <1>20, <1>21,
     <1>22, <1>23, <1>24, <1>25, <1>26, <1>27 DEF Next, Step

LEMMA RecordedStep ==
  ASSUME ~SharedJournal, FullInv, InPlanOrder, Recorded, [Next]_vars PROVE Recorded'
<1> /\ TypeInv /\ ReportInv /\ PlanInv /\ TypeInv' /\ ReportInv'
    /\ ecu.flash \in [Sectors -> Contents]
  BY EcuFields, TypeStep, ReportStep, ConstantAssumption DEF FullInv, TypeInv,
     TypeOK
<1>1. CASE UNCHANGED journal /\ Onward
  <2> SUFFICES ASSUME journal.state = "whole", NEW i \in 1 .. Len(journal.entries)
               PROVE  /\ journal.entries[i].transferred =>
                            ecu'.flash[journal.entries[i].sector] \in Rewritten
                      /\ pc' \in LoopPc =>
                            /\ pc' # "journal"
                            /\ journal.entries[i].sector \notin SeqRange(todo')
    BY <1>1 DEF Recorded, Onward
  <2>1. journal.entries[i].sector \in Sectors
    <3>1. journal.entries \in Seq(EntryType)
      BY DEF TypeInv, TypeOK, JournalType
    <3>2. journal.entries[i] \in EntryType
      BY <3>1
    <3> QED BY <3>2 DEF EntryType
  <2>2. pc \in LoopPc => journal.entries[i].sector \notin SeqRange(todo)
    BY DEF Recorded
  <2>3. ecu'.flash[journal.entries[i].sector] = ecu.flash[journal.entries[i].sector]
    BY <2>1, <2>2, OnlySectorAtHand DEF LoopPc, AtSector
  <2> QED BY <1>1, <2>2, <2>3 DEF Recorded, Onward
<1>2. CASE journal'.state # "whole"
  BY <1>2 DEF Recorded
<1>3. CASE WriteJournal /\ journal'.state = "whole"
  <2> DEFINE m == Manifest(plan, report.sectors)
  <2>1. /\ journal'.entries \in Cut(m)
        /\ UNCHANGED <<report, plan>> /\ ecu' = ecu
        /\ pc' \in {"boundary", "bail", "cancelExit"}
    <3>1. resumeAt \in {"boundary", "bail", "cancelExit"}
      BY DEF TypeInv, TypeOK, WorkerOK
    <3> QED BY <1>3, <3>1 DEF WriteJournal, Continue, jobVars, TornJournal
  <2>6. m \in Seq(EntryType)
    BY ManifestType DEF TypeInv, TypeOK, JobOK, RecordOK, ReportType
  <2>7. ASSUME NEW i \in 1 .. Len(m)
        PROVE  /\ m[i].transferred => ecu.flash[m[i].sector] \in Rewritten
               /\ pc' \in LoopPc => m[i].sector \notin SeqRange(todo')
    <3>2. /\ i \in 1 .. Len(report.sectors)
          /\ m[i].sector = plan[i]
          /\ m[i].transferred = report.sectors[i].transferred
      BY ManifestNames DEF TypeInv, TypeOK, JobOK, RecordOK, ReportType
    <3>3. report.sectors[i].sector = plan[i]
      BY <3>2, OrderedKeeps DEF PlanInv, Listed, TypeInv, TypeOK, JobOK
    <3>4. report.sectors[i].transferred => ecu.flash[report.sectors[i].sector] \in Rewritten
      BY <3>2 DEF ReportInv, ReportIsTrue
    <3>5. pc' \in LoopPc => report.sectors[i].sector \notin SeqRange(todo')
      BY <2>1, <3>2 DEF ReportInv, Untouched, LoopPc, AtSector
    <3> QED BY <3>2, <3>3, <3>4, <3>5
  <2> HIDE DEF m
  <2>8. ASSUME NEW i \in 1 .. Len(journal'.entries)
        PROVE  LET e == journal'.entries[i] IN
               /\ e.transferred => ecu.flash[e.sector] \in Rewritten
               /\ pc' \in LoopPc => e.sector \notin SeqRange(todo')
    <3>1. /\ i \in 1 .. Len(m) /\ journal'.entries[i].sector = m[i].sector
          /\ journal'.entries[i].transferred => m[i].transferred
      BY <2>1, <2>6, CutType
    <3> QED BY <2>7, <3>1
  <2> QED BY <2>1, <2>8 DEF Recorded
<1> QED BY <1>1, <1>2, <1>3, JournalSteps

LEMMA BehindStep ==
  ASSUME ~SharedJournal, FullInv, InPlanOrder, Recorded, Behind, [Next]_vars
  PROVE  InPlanOrder' /\ Behind'
<1> /\ TypeInv /\ ecu.flash \in [Sectors -> Contents] /\ SeqRange(Plan) \subseteq Sectors
    /\ plan \in Seq(Sectors) /\ Distinct(plan)
  BY EcuFields, ConstantAssumption
     DEF FullInv, TypeInv, TypeOK, JobOK, Place, ConstantAssumption, SeqRange
<1>1. UNCHANGED integrity /\ (UNCHANGED plan \/ Resume)
  BY JournalSteps
<1>2. CASE UNCHANGED plan
  <2>1. InPlanOrder'
    BY <1>1, <1>2 DEF InPlanOrder
  <2>2. ASSUME NEW s \in SeqRange(Plan) \ SeqRange(plan)
        PROVE  ecu'.flash[s] \in Rewritten
    <3>1. ecu'.flash[s] = ecu.flash[s]
      BY OnlySectorAtHand
    <3> QED BY <3>1 DEF Behind
  <2> QED BY <1>2, <2>1, <2>2 DEF Behind
<1>3. CASE Resume
  <2> DEFINE r == Remaining(plan, journal.entries)
  <2>1. plan' = r /\ ecu' = ecu /\ journal.state = "whole"
    BY <1>3 DEF Resume
  <2>2. /\ r \in Seq(Sectors)
        /\ SeqRange(r) = SeqRange(plan) \ Done(journal.entries)
        /\ \A i \in 1 .. Len(r) - 1 : \E j \in 1 .. Len(plan) - 1 : r[i] = plan[j]
    BY RemainingType
  <2> HIDE DEF r
  <2>3. InPlanOrder'
    BY <1>1, <2>1, <2>2 DEF InPlanOrder
  <2>4. ASSUME NEW s \in SeqRange(Plan) \ SeqRange(r)
        PROVE  ecu.flash[s] \in Rewritten
    <3>1. CASE s \notin SeqRange(plan)
      BY <3>1 DEF Behind
    <3>2. CASE s \in Done(journal.entries)
      <4>1. PICK i \in 1 .. Len(journal.entries) :
               s = journal.entries[i].sector /\ journal.entries[i].transferred
        BY <3>2 DEF Done
      <4> QED BY <2>1, <4>1 DEF Recorded
    <3> QED BY <2>2, <3>1, <3>2
  <2> QED BY <2>1, <2>3, <2>4 DEF Behind
<1> QED BY <1>1, <1>2, <1>3

LEMMA ChainEnds ==
  ASSUME FullInv, ChainInv PROVE ResumedChainIsComplete
<1> SUFFICES ASSUME KeepsPlanOrder, pc = "returned", error = NoError, ~opts.dry,
                    NEW s \in SeqRange(Plan)
             PROVE  ecu.flash[s] \in Rewritten
  BY DEF ResumedChainIsComplete
<1>1. CASE s \notin SeqRange(plan)
  BY <1>1 DEF ChainInv, Behind
<1>2. CASE s \in SeqRange(plan)
  <2>1. plan \in Seq(Sectors) /\ Ordered(plan) = plan
    BY OrderedKeeps DEF FullInv, TypeInv, TypeOK, JobOK, ChainInv
  <2>2. PICK i \in 1 .. Len(plan) : s = plan[i]
    BY <1>2 DEF SeqRange
  <2>3. i \in 1 .. Len(report.sectors) /\ report.sectors[i].sector = s
    BY <2>1, <2>2 DEF FullInv, PlanInv, Finished, Listed
  <2>4. report.sectors[i].transferred
    BY <2>3 DEF FullInv, PlanInv, Whole, Kept, Completed
  <2> QED BY <2>3, <2>4 DEF FullInv, ReportInv, ReportIsTrue
<1> QED BY <1>1, <1>2

(* When every call has a journal of its own and the plan needs no           *)
(* reordering, a chain of calls in which each runs what is left of the one  *)
(* before, and whose last succeeds, has programmed every sector of the      *)
(* first plan: for every plan, any number of calls, and crashes at any      *)
(* step, inside the write of the journal included.                          *)
THEOREM ChainComplete ==
  ASSUME ~SharedJournal
  PROVE  Spec => []ResumedChainIsComplete
<1>1. Init => ChainInv
  <2> SUFFICES ASSUME Init PROVE ChainInv
    OBVIOUS
  <2>1. plan = Plan /\ journal.state = "none"
    BY DEF Init, NoJournal
  <2> QED BY <2>1 DEF ChainInv, KeepsPlanOrder, InPlanOrder, Recorded, Behind
<1>2. FullInv /\ ChainInv /\ [Next]_vars => ChainInv'
  <2> SUFFICES ASSUME FullInv, ChainInv, [Next]_vars PROVE ChainInv'
    OBVIOUS
  <2>1. UNCHANGED integrity
    BY JournalSteps DEF FullInv
  <2>2. KeepsPlanOrder' <=> KeepsPlanOrder
    BY <2>1 DEF KeepsPlanOrder
  <2> QED BY <2>2, RecordedStep, BehindStep DEF ChainInv
<1>3. FullInv /\ ChainInv => ResumedChainIsComplete
  BY ChainEnds
<1> QED BY <1>1, <1>2, <1>3, AlwaysFull, PTL DEF Spec
==============================================================================
