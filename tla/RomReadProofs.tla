----------------------------- MODULE RomReadProofs -----------------------------
(***************************************************************************)
(* Reading an ECU's ROM, for any size of image and chunk and any number of  *)
(* reads, late answers and crashes: an image that is said to be done is the *)
(* ECU's, and the audit log tells each read once and truly.                 *)
(*                                                                         *)
(* ReadInv says where the frames on their way come from; AuditInv relates   *)
(* the log to how the reads ended.                                          *)
(***************************************************************************)
EXTENDS RomRead, FiniteSetTheorems, TLAPS

(* The thread is in a read.                                                 *)
Reading == pc \in {"open", "probe", "top", "send", "ack", "answer"}

Waiting == pc \in {"ack", "answer"}

(* What an exchange asked for: where the next chunk begins, unless it is a  *)
(* probe.                                                                   *)
Base == IF work.probe THEN 0 ELSE Len(work.out)

(* Nothing on its way begins behind the first n bytes.                      *)
Behind(l, n) ==
    /\ \A i \in 1 .. Len(l.stream) : l.stream[i].from <= n
    /\ \A request \in l.owed : request.from <= n

(* A chunk is asked for only within the image, from where the bytes read    *)
(* end or before.                                                           *)
ChunksOK ==
    /\ pc = "send" => Len(work.out) < Total
    /\ Waiting /\ ~work.probe => work.size >= 1 /\ work.size <= Total - Len(work.out)
    /\ Behind(link, Len(work.out))

(* What is not old belongs to the exchange under way.                       *)
CurrentOK ==
    Waiting =>
        /\ \A i \in 1 .. Len(link.stream) :
             LET frame == link.stream[i]
             IN  ~frame.old => frame.from = Base /\ frame.size = work.size
        /\ \A request \in link.owed :
             ~request.old => request.from = Base /\ request.size = work.size
        /\ way.adapter = "obdx" /\ ~link.late =>
             \A i \in 1 .. Len(link.stream) :
                 link.stream[i].kind # "ack" => ~link.stream[i].old

InPlace(bytes) == \A i \in 1 .. Len(bytes) : bytes[i] = i - 1

ImageOK ==
    /\ way.adapter = "native" \/ ~link.late => InPlace(work.out)
    /\ state = "done" /\ (way.adapter = "native" \/ ~late) =>
         InPlace(result) /\ 2 * Len(result) >= Total

ReadInv == TypeOK /\ ChunksOK /\ CurrentOK /\ ImageOK

(* The reads that ended, and the modal's part in them.                      *)
RunsOK ==
    /\ Reading => run >= 1 /\ Len(ended) = run - 1
    /\ ~Reading => Len(ended) = run
    /\ state \in Terminal => ~Reading /\ run >= 1 /\ ended[run] = state
    /\ ~visible => at = "shown"
    /\ at # "shown" /\ state = "idle" => pc = "none"
    /\ Reading => ~audited

(* What was appended, and what can be read back.                            *)
ToldOK ==
    \A entry \in told :
        /\ entry.run <= run
        /\ entry.kind # "started" =>
             /\ entry.run <= Len(ended) /\ entry.kind = ended[entry.run]
             /\ entry.run = run => ~Reading /\ (state \in Terminal => audited)

FileOK ==
    /\ \A i \in 1 .. Len(file) : file[i] # Junk => file[i] \in told
    /\ \A i, j \in 1 .. Len(file) : i # j /\ file[i] # Junk => file[i] # file[j]

Lost == told \ ToSet(file)

LostOK ==
    /\ IsFiniteSet(told)
    /\ Cardinality(Lost) + (IF torn THEN 1 ELSE 0) = cuts

(* Where the outcome of a read that ended is.                               *)
Outcome(r) == [kind |-> ended[r], run |-> r]

OutcomesOK ==
    \A r \in 1 .. Len(ended) : ended[r] \in Terminal =>
        \/ Outcome(r) \in told
        \/ r \in dropped
        \/ r = run /\ state = ended[r] /\ ~audited

AuditInv == RunsOK /\ ToldOK /\ FileOK /\ LostOK /\ OutcomesOK

-----------------------------------------------------------------------------
(* Sequences.                                                               *)

LEMMA HeadFact ==
  ASSUME NEW S, NEW s \in Seq(S), s # <<>>
  PROVE  /\ Len(s) \in Nat /\ Len(s) > 0 /\ Head(s) = s[1] /\ Head(s) \in S
         /\ Tail(s) \in Seq(S) /\ Len(Tail(s)) = Len(s) - 1
         /\ \A i \in 1 .. Len(s) - 1 : Tail(s)[i] = s[i + 1]
<1>1. Len(s) \in Nat /\ Len(s) # 0
  OBVIOUS
<1> QED
  BY <1>1

LEMMA MapFact ==
  ASSUME NEW S, NEW n \in Nat, NEW s \in [1 .. n -> S]
  PROVE  s \in Seq(S) /\ Len(s) = n
  OBVIOUS

LEMMA AppendFact ==
  ASSUME NEW S, NEW s \in Seq(S), NEW x \in S
  PROVE  /\ Append(s, x) \in Seq(S) /\ Len(Append(s, x)) = Len(s) + 1
         /\ \A i \in 1 .. Len(s) : Append(s, x)[i] = s[i]
         /\ Append(s, x)[Len(s) + 1] = x
         /\ \A i \in 1 .. Len(s) + 1 : i = Len(s) + 1 \/ i \in 1 .. Len(s)
  OBVIOUS

(* What holds of the frames in a stream holds of those behind the first.    *)
LEMMA TailAll ==
  ASSUME NEW s \in Seq(Frames), s # <<>>
  PROVE  \A i \in 1 .. Len(Tail(s)) : \E j \in 1 .. Len(s) : Tail(s)[i] = s[j]
<1> SUFFICES ASSUME NEW i \in 1 .. Len(Tail(s))
             PROVE  \E j \in 1 .. Len(s) : Tail(s)[i] = s[j]
  OBVIOUS
<1>1. PICK n \in Nat : n = Len(s)
  OBVIOUS
<1>2. Len(Tail(s)) = n - 1 /\ \A j \in 1 .. n - 1 : Tail(s)[j] = s[j + 1]
  BY <1>1, HeadFact
<1>3. i \in 1 .. n - 1 /\ i + 1 \in 1 .. n
  BY <1>2
<1> QED
  BY <1>1, <1>2, <1>3

-----------------------------------------------------------------------------
(* The parts of a step.                                                     *)

LEMMA FreshFact ==
  /\ Fresh \in Works /\ Fresh.out = <<>> /\ Len(Fresh.out) = 0 /\ ~Fresh.probe
  /\ Closed \in Links /\ Closed.stream = <<>> /\ Closed.owed = {} /\ ~Closed.late
<1>1. MaxChunk \in Floor .. MaxChunk /\ 0 \in 0 .. MaxChunk /\ 0 \in 0 .. MaxLate
  BY RomAssumption DEF Floor
<1>2. <<>> \in Seq(Bounded) /\ <<>> \in Seq(Frames) /\ Len(<<>>) = 0
  OBVIOUS
<1>3. Fresh \in Works
  BY <1>1, <1>2 DEF Fresh, Works
<1>4. Closed \in Links
  BY <1>1, <1>2 DEF Closed, Links
<1> QED
  BY <1>2, <1>3, <1>4 DEF Fresh, Closed

LEMMA WorkFact ==
  ASSUME TypeOK
  PROVE  /\ work \in Works /\ link \in Links
         /\ work.out \in Seq(Bounded) /\ Len(work.out) \in Nat /\ Len(work.out) <= Total
         /\ work.chunk \in Nat /\ 1 <= work.chunk /\ work.chunk <= MaxChunk
         /\ work.size \in Nat /\ work.probe \in BOOLEAN
         /\ link.stream \in Seq(Frames) /\ link.owed \subseteq Requests
         /\ link.late \in BOOLEAN /\ Total \in Nat /\ Total >= 1 /\ MaxChunk \in Nat
<1>1. work \in Works /\ link \in Links /\ Len(work.out) <= Total
  BY DEF TypeOK
<1>2. /\ work.out \in Seq(Bounded) /\ work.chunk \in Floor .. MaxChunk
      /\ work.size \in 0 .. MaxChunk /\ work.probe \in BOOLEAN
  BY <1>1 DEF Works
<1>3. link.stream \in Seq(Frames) /\ link.owed \subseteq Requests /\ link.late \in BOOLEAN
  BY <1>1 DEF Links
<1>4. Len(work.out) \in Nat
  BY <1>2
<1> QED
  BY <1>1, <1>2, <1>3, <1>4, RomAssumption DEF Floor

LEMMA HalvedFact ==
  ASSUME TypeOK
  PROVE  /\ Halved \in Works /\ Halved.out = work.out /\ Halved.probe = work.probe
         /\ [Halved EXCEPT !.halved = TRUE] \in Works
         /\ [Halved EXCEPT !.halved = TRUE].out = work.out
         /\ [work EXCEPT !.retry = TRUE] \in Works
         /\ [work EXCEPT !.retry = TRUE].out = work.out
<1> DEFINE c == IF work.chunk \div 2 < Floor THEN Floor ELSE work.chunk \div 2
<1>1. c \in Floor .. MaxChunk
  BY WorkFact DEF Floor
<1>2. Halved = [work EXCEPT !.chunk = c, !.retry = FALSE]
  BY DEF Halved
<1> HIDE DEF c
<1>3. Halved \in Works /\ Halved.out = work.out /\ Halved.probe = work.probe
  BY <1>1, <1>2, WorkFact DEF Works
<1>4. /\ [Halved EXCEPT !.halved = TRUE] \in Works
      /\ [Halved EXCEPT !.halved = TRUE].out = work.out
  BY <1>3 DEF Works
<1> QED
  BY <1>3, <1>4, WorkFact DEF Works

LEMMA FrameFact ==
  ASSUME NEW kind \in Kinds, NEW request \in Requests
  PROVE  /\ Frame(kind, request) \in Frames /\ Frame(kind, request).kind = kind
         /\ Frame(kind, request).from = request.from /\ Frame(kind, request).size = request.size
         /\ Frame(kind, request).old = request.old
  BY DEF Frame, Frames, Requests

(* What is given up, or was sent for an earlier request, becomes old.       *)
LEMMA OverdueFact ==
  ASSUME TypeOK
  PROVE  /\ Overdue \subseteq Requests
         /\ \A request \in Overdue : request.old
         /\ \A request \in Overdue : \E r \in link.owed : request.from = r.from
<1> SUFFICES ASSUME NEW request \in Overdue
             PROVE  /\ request \in Requests /\ request.old
                    /\ \E r \in link.owed : request.from = r.from
  OBVIOUS
<1>1. PICK r \in link.owed : request = [r EXCEPT !.old = TRUE]
  BY DEF Overdue
<1>2. r \in Requests
  BY WorkFact
<1> QED
  BY <1>1, <1>2 DEF Requests

LEMMA AgedFact ==
  ASSUME TypeOK
  PROVE  /\ Aged(link.stream) \in Seq(Frames) /\ Len(Aged(link.stream)) = Len(link.stream)
         /\ \A i \in 1 .. Len(link.stream) :
              /\ Aged(link.stream)[i].old
              /\ Aged(link.stream)[i].from = link.stream[i].from
              /\ Aged(link.stream)[i].kind = link.stream[i].kind
<1>1. PICK s \in Seq(Frames) : s = link.stream
  BY WorkFact
<1>2. PICK n \in Nat : n = Len(s)
  OBVIOUS
<1>3. Aged(s) = [i \in 1 .. n |-> [s[i] EXCEPT !.old = TRUE]]
  BY <1>2 DEF Aged
<1>4. \A i \in 1 .. n : s[i] \in Frames
  BY <1>2
<1>5. \A i \in 1 .. n : /\ [s[i] EXCEPT !.old = TRUE] \in Frames
                        /\ [s[i] EXCEPT !.old = TRUE].old
                        /\ [s[i] EXCEPT !.old = TRUE].from = s[i].from
                        /\ [s[i] EXCEPT !.old = TRUE].kind = s[i].kind
  BY <1>4 DEF Frames
<1>6. Aged(s) \in Seq(Frames) /\ Len(Aged(s)) = n
  <2>1. Aged(s) \in [1 .. n -> Frames]
    BY <1>3, <1>5
  <2> QED
    BY <2>1, MapFact
<1> QED
  BY <1>1, <1>2, <1>3, <1>5, <1>6

LEMMA RestFact ==
  ASSUME ReadInv, link.stream # <<>>
  PROVE  /\ Rest \in Links /\ Rest.late = link.late /\ Rest.owed = link.owed
         /\ Rest.stream = Tail(link.stream) /\ Rest.stream \in Seq(Frames)
         /\ Head(link.stream) = link.stream[1] /\ 1 \in 1 .. Len(link.stream)
         /\ Head(link.stream) \in Frames
         /\ Behind(Rest, Len(work.out))
<1>1. TypeOK /\ link \in Links /\ link.stream \in Seq(Frames)
  BY WorkFact DEF ReadInv
<1>2. /\ Head(link.stream) = link.stream[1] /\ 1 \in 1 .. Len(link.stream)
      /\ Head(link.stream) \in Frames /\ Tail(link.stream) \in Seq(Frames)
  BY <1>1, HeadFact
<1>3. /\ Rest \in Links /\ Rest.late = link.late /\ Rest.owed = link.owed
      /\ Rest.stream = Tail(link.stream)
  BY <1>1, <1>2 DEF Rest, Links
<1>4. Behind(Rest, Len(work.out))
  BY <1>1, <1>3, TailAll DEF ReadInv, ChunksOK, Behind
<1> QED
  BY <1>1, <1>2, <1>3, <1>4
-----------------------------------------------------------------------------
(* How the thread goes on.                                                  *)

LEMMA EndStep ==
  ASSUME ReadInv, NEW outcome \in Terminal, End(outcome), UNCHANGED <<way, audit, cuts, dropped>>,
         outcome = "done" => 2 * Len(work.out) >= Total
  PROVE  ReadInv'
<1>1. TypeOK /\ ChunksOK /\ CurrentOK /\ ImageOK
  BY DEF ReadInv
<1>2. /\ pc' = "ended" /\ state' = outcome
      /\ result' = IF outcome = "done" THEN work.out ELSE result
      /\ ended' = Append(ended, outcome)
      /\ work' = Fresh /\ link' = Closed /\ late' = (link.late /\ outcome = "done")
      /\ UNCHANGED <<at, visible, audited, run, cancel, way, file, torn, told, cuts, dropped>>
  BY DEF End, audit
<1>3. /\ work.out \in Seq(Bounded) /\ Len(work.out) <= Total /\ link.late \in BOOLEAN
      /\ Len(work.out) \in Nat /\ Total \in Nat
  BY <1>1, WorkFact
<1>4. ended' \in Seq(Outcomes)
  <2>1. outcome \in Outcomes
    BY DEF Outcomes
  <2> QED
    BY <1>1, <1>2, <2>1 DEF TypeOK
<1>5. late' \in BOOLEAN
  BY <1>2, <1>3
<1>6. TypeOK'
  BY <1>1, <1>2, <1>3, <1>4, <1>5, FreshFact, RomAssumption DEF TypeOK
<1>7. ChunksOK'
  BY <1>2, FreshFact DEF ChunksOK, Behind, Waiting
<1>8. CurrentOK'
  BY <1>2 DEF CurrentOK, Waiting
<1>9. ImageOK'
  <2>1. InPlace(work'.out)
    BY <1>2, FreshFact DEF InPlace
  <2>2. ASSUME state' = "done", way'.adapter = "native" \/ ~late'
        PROVE  InPlace(result') /\ 2 * Len(result') >= Total
    <3>1. outcome = "done" /\ result' = work.out /\ late' = link.late
      BY <1>2, <1>3, <2>2
    <3>2. InPlace(work.out)
      BY <1>1, <1>2, <2>2, <3>1 DEF ImageOK
    <3> QED
      BY <3>1, <3>2
  <2> QED
    BY <2>1, <2>2 DEF ImageOK, InPlace
<1> QED
  BY <1>6, <1>7, <1>8, <1>9 DEF ReadInv

(* No request is under way then.                                            *)
LEMMA GoesStep ==
  ASSUME ReadInv, NEW to \in {"probe", "top", "send"}, NEW w \in Works, NEW l \in Links,
         Goes(to, w, l), UNCHANGED <<way, audit, cuts, dropped>>,
         Len(w.out) <= Total, to = "send" => Len(w.out) < Total,
         Behind(l, Len(w.out)),
         way.adapter = "native" \/ ~l.late => InPlace(w.out)
  PROVE  ReadInv'
<1>1. TypeOK /\ ChunksOK /\ CurrentOK /\ ImageOK
  BY DEF ReadInv
<1>2. /\ pc' = to /\ work' = w /\ link' = l
      /\ UNCHANGED <<at, visible, state, audited, result, run, cancel, way, file, torn, told,
                     late, ended, cuts, dropped>>
  BY DEF Goes, modal, audit
<1>3. TypeOK'
  BY <1>1, <1>2 DEF TypeOK
<1>4. ChunksOK'
  BY <1>2 DEF ChunksOK, Waiting, Behind
<1>5. CurrentOK'
  BY <1>2 DEF CurrentOK, Waiting
<1>6. ImageOK'
  BY <1>1, <1>2 DEF ImageOK, InPlace
<1> QED
  BY <1>3, <1>4, <1>5, <1>6 DEF ReadInv

LEMMA HalfFact ==
  ASSUME NEW n \in Nat, n > Total \div 2
  PROVE  2 * n >= Total
<1>1. Total \in Nat
  BY RomAssumption
<1>2. Total = 2 * (Total \div 2) + (Total % 2) /\ Total % 2 \in 0 .. 1 /\ Total \div 2 \in Nat
  BY <1>1
<1> QED
  BY <1>1, <1>2

LEMMA FailsStep ==
  ASSUME ReadInv, Waiting, NEW why, NEW l \in Links, l.late = link.late,
         Behind(l, Len(work.out)), Fails(why, l), UNCHANGED <<way, audit, cuts, dropped>>
  PROVE  ReadInv'
<1>1. TypeOK /\ ChunksOK /\ CurrentOK /\ ImageOK
  BY DEF ReadInv
<1>2. Len(work.out) <= Total /\ Len(work.out) \in Nat /\ Total \in Nat /\ work.size \in Nat
      /\ work.probe \in BOOLEAN /\ work \in Works
  BY <1>1, WorkFact
<1>3. way.adapter = "native" \/ ~l.late => InPlace(work.out)
  BY <1>1 DEF ImageOK
<1>4. ~work.probe => Len(work.out) < Total
  BY <1>1, <1>2 DEF ChunksOK
<1>5. CASE Goes("probe", Halved, l)
  BY <1>1, <1>2, <1>3, <1>5, HalvedFact, GoesStep
<1>6. CASE Dumping /\ Goes("send", [work EXCEPT !.retry = TRUE], l)
  BY <1>1, <1>2, <1>3, <1>4, <1>6, HalvedFact, GoesStep DEF Dumping
<1>7. CASE Goes("top", [Halved EXCEPT !.halved = TRUE], l)
  BY <1>1, <1>2, <1>3, <1>7, HalvedFact, GoesStep
<1>8. CASE Len(work.out) > Total \div 2 /\ End("done")
  <2>1. 2 * Len(work.out) >= Total
    BY <1>2, <1>8, HalfFact
  <2>2. "done" \in Terminal
    BY DEF Terminal
  <2> QED
    BY <1>8, <2>1, <2>2, EndStep
<1>9. CASE End("failed")
  <2>1. "failed" \in Terminal
    BY DEF Terminal
  <2> QED
    BY <1>9, <2>1, EndStep
<1> QED
  BY <1>5, <1>6, <1>7, <1>8, <1>9 DEF Fails

LEMMA OpenStep ==
  ASSUME ReadInv, OpenLink
  PROVE  ReadInv'
<1>1. TypeOK /\ ChunksOK /\ ImageOK /\ UNCHANGED <<way, audit, cuts, dropped>>
  BY DEF ReadInv, OpenLink
<1>2. /\ work \in Works /\ link \in Links /\ Len(work.out) <= Total
      /\ Behind(link, Len(work.out))
      /\ way.adapter = "native" \/ ~link.late => InPlace(work.out)
  BY <1>1, WorkFact DEF ChunksOK, ImageOK
<1>3. CASE End("failed")
  BY <1>1, <1>3, EndStep DEF Terminal
<1>4. CASE Goes("probe", work, link)
  BY <1>1, <1>2, <1>4, GoesStep
<1>5. CASE Goes("top", work, link)
  BY <1>1, <1>2, <1>5, GoesStep
<1> QED
  BY <1>3, <1>4, <1>5 DEF OpenLink

LEMMA TopStep ==
  ASSUME ReadInv, LoopTop
  PROVE  ReadInv'
<1>1. TypeOK /\ ChunksOK /\ ImageOK /\ UNCHANGED <<way, audit, cuts, dropped>>
  BY DEF ReadInv, LoopTop
<1>2. /\ work \in Works /\ link \in Links /\ Len(work.out) <= Total
      /\ Len(work.out) \in Nat /\ Total \in Nat
      /\ Behind(link, Len(work.out))
      /\ way.adapter = "native" \/ ~link.late => InPlace(work.out)
  BY <1>1, WorkFact DEF ChunksOK, ImageOK
<1>3. CASE Len(work.out) >= Total /\ End("done")
  <2>1. 2 * Len(work.out) >= Total
    BY <1>2, <1>3
  <2>2. "done" \in Terminal
    BY DEF Terminal
  <2> QED
    BY <1>1, <1>3, <2>1, <2>2, EndStep
<1>4. CASE End("cancelled")
  <2>1. "cancelled" \in Terminal
    BY DEF Terminal
  <2> QED
    BY <1>1, <1>4, <2>1, EndStep
<1>5. CASE ~(Len(work.out) >= Total) /\ Goes("send", work, link)
  <2>1. Len(work.out) < Total
    BY <1>2, <1>5
  <2> QED
    BY <1>1, <1>2, <1>5, <2>1, GoesStep
<1> QED
  BY <1>3, <1>4, <1>5 DEF LoopTop
(* A request goes out: what was under way is old.                           *)
LEMMA SendStep ==
  ASSUME ReadInv, Send
  PROVE  ReadInv'
<1> DEFINE probe   == pc = "probe"
           size    == IF probe THEN work.chunk ELSE NextSize
           request == [from |-> IF probe THEN 0 ELSE Len(work.out), size |-> size, old |-> FALSE]
<1>1. TypeOK /\ ChunksOK /\ ImageOK
  BY DEF ReadInv
<1>2. /\ work \in Works /\ link \in Links /\ work.out \in Seq(Bounded)
      /\ Len(work.out) \in Nat /\ Len(work.out) <= Total /\ Total \in Nat /\ Total >= 1
      /\ work.chunk \in Nat /\ 1 <= work.chunk /\ work.chunk <= MaxChunk /\ MaxChunk \in Nat
      /\ link.stream \in Seq(Frames) /\ link.owed \subseteq Requests /\ link.late \in BOOLEAN
  BY <1>1, WorkFact
<1>3. pc \in {"probe", "send"} /\ (~probe => Len(work.out) < Total)
  BY <1>1 DEF Send, ChunksOK
<1>4. /\ size \in 1 .. MaxChunk /\ (~probe => size <= Total - Len(work.out))
      /\ (IF probe THEN 0 ELSE Len(work.out)) \in Bounded
  BY <1>2, <1>3 DEF NextSize, Bounded
<1>5. request \in Requests
  BY <1>4 DEF Requests
<1>6. PICK new \in Requests : new = request
  BY <1>5
<1>7. PICK ack \in Frames : ack = Frame("ack", new) /\ ack.kind = "ack" /\ ack.from = new.from
                            /\ ack.size = new.size /\ ack.old = new.old
  BY FrameFact DEF Kinds
<1>8. /\ work' = [work EXCEPT !.size = size, !.probe = probe] /\ pc' = "ack"
      /\ link' = [link EXCEPT !.stream = Append(Aged(link.stream), ack),
                              !.owed = Overdue \cup {new},
                              !.late = link.late \/ \E f \in ToSet(link.stream) : f.kind # "ack"]
      /\ UNCHANGED <<modal, late, ended, way, audit, cuts, dropped>>
  BY <1>6, <1>7 DEF Send, Goes
<1>9. /\ new.from = (IF probe THEN 0 ELSE Len(work.out)) /\ new.size = size /\ ~new.old
  BY <1>6
<1> HIDE DEF request, size, probe
<1>10. probe \in BOOLEAN
  BY DEF probe
<1>11. /\ work' \in Works /\ work'.out = work.out /\ work'.size = size /\ work'.probe = probe
  <2>1. size \in 0 .. MaxChunk
    BY <1>4
  <2> QED
    BY <1>2, <1>8, <1>10, <2>1 DEF Works
<1>12. PICK aged \in Seq(Frames) : aged = Aged(link.stream)
  BY <1>1, AgedFact
<1>13. PICK n \in Nat : n = Len(link.stream)
  BY <1>2
<1>14. /\ Len(aged) = n
       /\ \A i \in 1 .. n : /\ aged[i].old /\ aged[i].from = link.stream[i].from
                            /\ aged[i].kind = link.stream[i].kind
  BY <1>1, <1>12, <1>13, AgedFact
<1>15. PICK stream \in Seq(Frames) : stream = Append(aged, ack)
  BY AppendFact
<1>16. /\ Len(stream) = n + 1 /\ stream[n + 1] = ack
       /\ \A i \in 1 .. n : stream[i] = aged[i]
       /\ \A i \in 1 .. n + 1 : i = n + 1 \/ i \in 1 .. n
  BY <1>14, <1>15, AppendFact
<1>17. Overdue \cup {new} \subseteq Requests
  BY <1>1, OverdueFact
<1>18. /\ link'.stream = stream /\ link'.owed = Overdue \cup {new} /\ link' \in Links
       /\ link'.late = (link.late \/ \E f \in ToSet(link.stream) : f.kind # "ack")
  <2>1. (link.late \/ \E f \in ToSet(link.stream) : f.kind # "ack") \in BOOLEAN
    BY <1>2
  <2> QED
    BY <1>2, <1>8, <1>12, <1>15, <1>17, <2>1 DEF Links
<1>19. TypeOK'
  BY <1>1, <1>2, <1>8, <1>11, <1>18 DEF TypeOK, modal, audit
<1>20. new.from <= Len(work.out) /\ new.from = (IF work'.probe THEN 0 ELSE Len(work'.out))
  BY <1>2, <1>9, <1>11
<1>21. Behind(link, Len(work.out))
  BY <1>1 DEF ChunksOK
<1>22. Behind(link, Len(work.out))'
  <2>1. \A i \in 1 .. n + 1 : stream[i].from <= Len(work.out)
    BY <1>7, <1>13, <1>14, <1>16, <1>20, <1>21 DEF Behind
  <2>2. \A r \in Overdue : r.from <= Len(work.out)
    BY <1>1, <1>21, OverdueFact DEF Behind
  <2> QED
    BY <1>11, <1>16, <1>18, <1>20, <2>1, <2>2 DEF Behind
<1>23. ChunksOK'
  BY <1>2, <1>4, <1>8, <1>11, <1>22 DEF ChunksOK
<1>24. CurrentOK'
  <2>1. \A i \in 1 .. n + 1 : ~stream[i].old => stream[i].from = Base' /\ stream[i].size = work'.size
    BY <1>7, <1>9, <1>11, <1>14, <1>16, <1>20 DEF Base
  <2>2. \A r \in Overdue \cup {new} : ~r.old => r.from = Base' /\ r.size = work'.size
    BY <1>1, <1>9, <1>11, <1>20, OverdueFact DEF Base
  <2>3. ASSUME ~link'.late, NEW i \in 1 .. n + 1 PROVE stream[i].kind = "ack"
    <3>1. CASE i \in 1 .. n
      <4>1. link.stream[i] \in ToSet(link.stream)
        BY <1>2, <1>13, <3>1 DEF ToSet
      <4> QED
        BY <1>14, <1>16, <1>18, <2>3, <3>1, <4>1
    <3> QED
      BY <1>7, <1>16, <3>1
  <2> QED
    BY <1>16, <1>18, <2>1, <2>2, <2>3 DEF CurrentOK
<1>25. ImageOK'
  BY <1>1, <1>2, <1>8, <1>11, <1>18 DEF ImageOK, InPlace, modal
<1> QED
  BY <1>19, <1>23, <1>24, <1>25 DEF ReadInv

(* An answer of the ECU; one to an old request makes the link late.         *)
LEMMA AnswerStep ==
  ASSUME ReadInv, EcuAnswers
  PROVE  ReadInv'
<1>1. TypeOK /\ ChunksOK /\ CurrentOK /\ ImageOK
  BY DEF ReadInv
<1>2. PICK request \in link.owed, kind \in {"data"} \cup Codes :
        link' = [link EXCEPT !.stream = Append(@, Frame(kind, request)),
                            !.owed = @ \ {request}, !.late = @ \/ request.old]
  BY DEF EcuAnswers
<1>3. /\ pc \in {"ack", "answer"}
      /\ UNCHANGED <<at, visible, state, audited, result, run, cancel, pc, way, work, file, torn,
                     told, late, ended, cuts, dropped>>
  BY DEF EcuAnswers, modal, audit
<1>4. /\ link \in Links /\ link.stream \in Seq(Frames) /\ link.owed \subseteq Requests
      /\ link.late \in BOOLEAN /\ request \in Requests /\ request.old \in BOOLEAN
  <2>1. /\ link \in Links /\ link.stream \in Seq(Frames) /\ link.owed \subseteq Requests
        /\ link.late \in BOOLEAN
    BY <1>1, WorkFact
  <2> QED
    BY <2>1 DEF Requests
<1>5. PICK frame \in Frames : frame = Frame(kind, request) /\ frame.from = request.from
                              /\ frame.size = request.size /\ frame.old = request.old
  BY <1>4, FrameFact DEF Kinds
<1>6. PICK n \in Nat : n = Len(link.stream)
  BY <1>4
<1>7. PICK stream \in Seq(Frames) : stream = Append(link.stream, frame)
  BY <1>4, AppendFact
<1>8. /\ Len(stream) = n + 1 /\ stream[n + 1] = frame
      /\ \A i \in 1 .. n : stream[i] = link.stream[i]
      /\ \A i \in 1 .. n + 1 : i = n + 1 \/ i \in 1 .. n
  BY <1>4, <1>6, <1>7, AppendFact
<1>9. /\ link'.stream = stream /\ link'.owed = link.owed \ {request}
      /\ link'.late = (link.late \/ request.old) /\ link' \in Links
  <2>1. (link.late \/ request.old) \in BOOLEAN
    BY <1>4
  <2> QED
    BY <1>2, <1>4, <1>5, <1>7, <2>1 DEF Links
<1>10. TypeOK'
  BY <1>1, <1>3, <1>9 DEF TypeOK
<1>11. ChunksOK'
  BY <1>1, <1>3, <1>5, <1>6, <1>8, <1>9 DEF ChunksOK, Behind, Waiting
<1>12. CurrentOK'
  <2>1. /\ \A i \in 1 .. n : ~link.stream[i].old =>
             link.stream[i].from = Base /\ link.stream[i].size = work.size
        /\ \A r \in link.owed : ~r.old => r.from = Base /\ r.size = work.size
        /\ way.adapter = "obdx" /\ ~link.late =>
             \A i \in 1 .. n : link.stream[i].kind # "ack" => ~link.stream[i].old
    BY <1>1, <1>3, <1>6 DEF CurrentOK, Waiting
  <2>2. Base' = Base
    BY <1>3 DEF Base
  <2>3. \A i \in 1 .. n + 1 : ~stream[i].old => stream[i].from = Base /\ stream[i].size = work.size
    BY <1>5, <1>8, <2>1
  <2>4. way.adapter = "obdx" /\ ~link'.late =>
          \A i \in 1 .. n + 1 : stream[i].kind # "ack" => ~stream[i].old
    BY <1>4, <1>5, <1>8, <1>9, <2>1
  <2> QED
    BY <1>3, <1>8, <1>9, <2>1, <2>2, <2>3, <2>4 DEF CurrentOK
<1>13. ImageOK'
  BY <1>1, <1>3, <1>4, <1>9 DEF ImageOK, InPlace
<1> QED
  BY <1>10, <1>11, <1>12, <1>13 DEF ReadInv

LEMMA AckStep ==
  ASSUME ReadInv, TakeAck
  PROVE  ReadInv'
<1>1. TypeOK /\ ChunksOK /\ CurrentOK /\ ImageOK
  BY DEF ReadInv
<1>2. pc = "ack" /\ link.stream # <<>> /\ UNCHANGED <<way, audit, cuts, dropped>>
  BY DEF TakeAck
<1>3. /\ Rest \in Links /\ Rest.late = link.late /\ Rest.owed = link.owed
      /\ Rest.stream = Tail(link.stream) /\ Behind(Rest, Len(work.out))
  BY <1>2, RestFact
<1>4. CASE Goes("answer", work, Rest)
  <2>1. /\ pc' = "answer" /\ work' = work /\ link' = Rest
        /\ UNCHANGED <<at, visible, state, audited, result, run, cancel, way, file, torn, told,
                       late, ended, cuts, dropped>>
    BY <1>2, <1>4 DEF Goes, modal, audit
  <2>2. TypeOK'
    BY <1>1, <1>3, <2>1 DEF TypeOK
  <2>3. ChunksOK'
    BY <1>1, <1>2, <1>3, <2>1 DEF ChunksOK, Waiting, Behind
  <2>4. CurrentOK'
    <3>1. \A i \in 1 .. Len(Rest.stream) : \E j \in 1 .. Len(link.stream) :
            Rest.stream[i] = link.stream[j]
      BY <1>1, <1>2, <1>3, TailAll, WorkFact
    <3>2. Base' = Base
      BY <2>1 DEF Base
    <3>3. /\ \A i \in 1 .. Len(link.stream) : ~link.stream[i].old =>
               link.stream[i].from = Base /\ link.stream[i].size = work.size
          /\ \A r \in link.owed : ~r.old => r.from = Base /\ r.size = work.size
          /\ way.adapter = "obdx" /\ ~link.late =>
               \A i \in 1 .. Len(link.stream) : link.stream[i].kind # "ack" => ~link.stream[i].old
      BY <1>1, <1>2 DEF CurrentOK, Waiting
    <3> QED
      BY <1>3, <2>1, <3>1, <3>2, <3>3 DEF CurrentOK
  <2>5. ImageOK'
    BY <1>1, <1>3, <2>1 DEF ImageOK, InPlace
  <2> QED
    BY <2>2, <2>3, <2>4, <2>5 DEF ReadInv
<1>5. CASE Fails("other", Rest)
  BY <1>2, <1>3, <1>5, FailsStep DEF Waiting
<1> QED
  BY <1>4, <1>5 DEF TakeAck

LEMMA TimeOutStep ==
  ASSUME ReadInv, TimeOut
  PROVE  ReadInv'
<1>1. TypeOK /\ ChunksOK
  BY DEF ReadInv
<1>2. pc = "answer" /\ UNCHANGED <<way, audit, cuts, dropped>>
  BY DEF TimeOut
<1>3. link \in Links /\ link.owed \subseteq Requests /\ link.gaveUp \in 0 .. MaxLate
  <2>1. link \in Links /\ link.owed \subseteq Requests
    BY <1>1, WorkFact
  <2> QED
    BY <2>1 DEF Links
<1>4. Behind(link, Len(work.out))
  BY <1>1 DEF ChunksOK
<1>5. CASE Fails("timeout", [link EXCEPT !.owed = {r \in @ : r.old}])
  <2> DEFINE l == [link EXCEPT !.owed = {r \in link.owed : r.old}]
  <2>1. /\ l \in Links /\ l.late = link.late
        /\ l.stream = link.stream /\ l.owed = {r \in link.owed : r.old}
    BY <1>3 DEF Links
  <2>2. Fails("timeout", l)
    BY <1>5
  <2> HIDE DEF l
  <2>3. Behind(l, Len(work.out))
    BY <1>4, <2>1 DEF Behind
  <2> QED
    BY <1>2, <2>1, <2>2, <2>3, FailsStep DEF Waiting
<1>6. CASE /\ link.gaveUp < MaxLate
           /\ Fails("timeout", [link EXCEPT !.owed = Overdue, !.gaveUp = @ + 1])
  <2>1. Overdue \subseteq Requests /\ link.gaveUp + 1 \in 0 .. MaxLate
    BY <1>1, <1>3, <1>6, OverdueFact, RomAssumption
  <2> DEFINE l == [link EXCEPT !.owed = Overdue, !.gaveUp = link.gaveUp + 1]
  <2>2. /\ l \in Links /\ l.late = link.late /\ l.stream = link.stream /\ l.owed = Overdue
    BY <1>3, <2>1 DEF Links
  <2>3. Fails("timeout", l)
    BY <1>6
  <2> HIDE DEF l
  <2>4. Behind(l, Len(work.out))
    BY <1>1, <1>4, <2>2, OverdueFact DEF Behind
  <2> QED
    BY <1>2, <2>2, <2>3, <2>4, FailsStep DEF Waiting
<1> QED
  BY <1>5, <1>6 DEF TimeOut
(* An answer's bytes stand where the image has room for them.               *)
LEMMA BytesFact ==
  ASSUME NEW out \in Seq(Bounded), Len(out) <= Total,
         NEW from \in Bounded, NEW size \in Nat, from <= Len(out), size <= Total - Len(out)
  PROVE  LET all == out \o [i \in 1 .. size |-> from + i - 1]
         IN  /\ all \in Seq(Bounded) /\ Len(all) = Len(out) + size
             /\ InPlace(out) /\ from = Len(out) => InPlace(all)
<1> DEFINE new == [i \in 1 .. size |-> from + i - 1]
           all == out \o new
<1>1. PICK n \in Nat : n = Len(out)
  OBVIOUS
<1>2. n <= Total /\ Total \in Nat /\ from \in Nat /\ from <= n /\ size <= Total - n
  BY <1>1, RomAssumption DEF Bounded
<1>3. \A i \in 1 .. size : from + i - 1 \in Bounded
  BY <1>2 DEF Bounded
<1>4. new \in [1 .. size -> Bounded]
  BY <1>3
<1>5. new \in Seq(Bounded) /\ Len(new) = size
  BY <1>4, MapFact
<1>6. \A i \in 1 .. size : new[i] = from + i - 1
  OBVIOUS
<1> HIDE DEF new
<1>7. /\ all \in Seq(Bounded) /\ Len(all) = n + size
      /\ \A i \in 1 .. n : all[i] = out[i]
      /\ \A i \in 1 .. size : all[n + i] = new[i]
  BY <1>1, <1>5
<1>8. ASSUME InPlace(out), from = Len(out) PROVE InPlace(all)
  <2>1. ASSUME NEW i \in 1 .. n + size PROVE all[i] = i - 1
    <3>1. CASE i \in 1 .. n
      BY <1>1, <1>7, <1>8, <3>1 DEF InPlace
    <3>2. CASE i \notin 1 .. n
      <4>1. i - n \in 1 .. size /\ n + (i - n) = i
        BY <3>2
      <4>2. all[i] = n + (i - n) - 1
        BY <1>1, <1>6, <1>7, <1>8, <4>1
      <4> QED
        BY <4>1, <4>2
    <3> QED
      BY <3>1, <3>2
  <2> HIDE DEF all
  <2> QED
    BY <1>7, <2>1 DEF InPlace
<1> QED
  BY <1>1, <1>7, <1>8 DEF new

LEMMA TakeStep ==
  ASSUME ReadInv, TakeAnswer
  PROVE  ReadInv'
<1> DEFINE frame == Head(link.stream)
           data  == Own(frame) /\ frame.kind = "data"
<1>1. TypeOK /\ ChunksOK /\ CurrentOK /\ ImageOK
  BY DEF ReadInv
<1>2. pc = "answer" /\ link.stream # <<>> /\ UNCHANGED <<way, audit, cuts, dropped>>
  BY DEF TakeAnswer
<1>3. /\ Rest \in Links /\ Rest.late = link.late /\ Behind(Rest, Len(work.out))
      /\ frame = link.stream[1] /\ 1 \in 1 .. Len(link.stream) /\ frame \in Frames
  BY <1>2, RestFact
<1>4. /\ work \in Works /\ work.out \in Seq(Bounded) /\ Len(work.out) \in Nat
      /\ Len(work.out) <= Total /\ Total \in Nat /\ work.size \in Nat
      /\ work.probe \in BOOLEAN
  BY <1>1, WorkFact
<1>5. way.adapter = "native" \/ ~link.late => InPlace(work.out)
  BY <1>1 DEF ImageOK
<1>6. CASE data /\ work.probe /\ Goes("top", work, Rest)
  BY <1>2, <1>3, <1>4, <1>5, <1>6, GoesStep
<1>7. CASE /\ data /\ ~work.probe /\ frame.size = work.size
           /\ Goes("top", [work EXCEPT !.out = @ \o Bytes(frame), !.retry = FALSE], Rest)
  <2> DEFINE w == [work EXCEPT !.out = work.out \o Bytes(frame), !.retry = FALSE]
             all == work.out \o [i \in 1 .. work.size |-> frame.from + i - 1]
  <2>1. /\ frame.from \in Bounded /\ frame.from <= Len(work.out)
        /\ work.size <= Total - Len(work.out)
    <3>1. Behind(link, Len(work.out)) /\ work.size <= Total - Len(work.out)
      BY <1>1, <1>2, <1>7 DEF ChunksOK, Waiting
    <3> QED
      BY <1>3, <3>1 DEF Behind, Frames
  <2>2. /\ all \in Seq(Bounded) /\ Len(all) = Len(work.out) + work.size
        /\ InPlace(work.out) /\ frame.from = Len(work.out) => InPlace(all)
    BY <1>4, <2>1, BytesFact
  <2>3. Bytes(frame) = [i \in 1 .. work.size |-> frame.from + i - 1]
    BY <1>7 DEF Bytes
  <2>4. w = [work EXCEPT !.out = all, !.retry = FALSE]
    BY <2>3
  <2>5. Goes("top", w, Rest)
    BY <1>7
  <2> HIDE DEF w, all, data
  <2>6. w \in Works /\ w.out = all
    BY <1>4, <2>2, <2>4 DEF Works
  <2>7. Len(w.out) <= Total /\ Len(work.out) <= Len(w.out)
    <3>1. PICK n \in Nat : n = Len(work.out)
      BY <1>4
    <3>2. n + work.size <= Total /\ n <= n + work.size
      BY <1>4, <2>1, <3>1
    <3> QED
      BY <2>2, <2>6, <3>1, <3>2
  <2>8. Behind(Rest, Len(w.out))
    <3>1. \A i \in 1 .. Len(Rest.stream) : Rest.stream[i].from \in Nat
      <4>1. Rest.stream \in Seq(Frames)
        BY <1>2, RestFact
      <4>2. \A i \in 1 .. Len(Rest.stream) : Rest.stream[i] \in Frames
        BY <4>1
      <4> QED
        BY <4>2, RomAssumption DEF Frames, Bounded
    <3>2. \A r \in Rest.owed : r.from \in Nat
      <4>1. Rest.owed \subseteq Requests
        BY <1>3 DEF Links
      <4> QED
        BY <4>1, RomAssumption DEF Requests, Bounded
    <3>3. \A x \in Nat : x <= Len(work.out) => x <= Len(w.out)
      <4>1. PICK n \in Nat : n = Len(work.out)
        BY <1>4
      <4>2. PICK m \in Nat : m = Len(w.out)
        BY <2>2, <2>6
      <4>3. n <= m
        BY <2>7, <4>1, <4>2
      <4> QED
        BY <4>1, <4>2, <4>3
    <3> QED
      BY <1>3, <3>1, <3>2, <3>3 DEF Behind
  <2>9. ASSUME way.adapter = "native" \/ ~link.late PROVE InPlace(w.out)
    <3>1. ~frame.old
      <4>1. CASE way.adapter = "native"
        BY <1>7, <4>1 DEF Own, data
      <4>2. CASE way.adapter = "obdx" /\ ~link.late
        <5>1. frame.kind # "ack"
          BY <1>7 DEF data
        <5> QED
          BY <1>1, <1>2, <1>3, <4>2, <5>1 DEF CurrentOK, Waiting
      <4>3. way.adapter \in {"obdx", "native"}
        BY <1>1 DEF TypeOK, Ways
      <4> QED
        BY <2>9, <4>1, <4>2, <4>3
    <3>2. frame.from = Base
      BY <1>1, <1>2, <1>3, <3>1 DEF CurrentOK, Waiting
    <3>3. frame.from = Len(work.out)
      BY <1>7, <3>2 DEF Base
    <3> QED
      BY <1>5, <2>2, <2>6, <2>9, <3>3
  <2> QED
    BY <1>2, <1>3, <2>5, <2>6, <2>7, <2>8, <2>9, GoesStep
<1>8. CASE End("failed")
  <2>1. "failed" \in Terminal
    BY DEF Terminal
  <2> QED
    BY <1>2, <1>8, <2>1, EndStep
<1>9. CASE \E why \in {"other"} \cup {frame.kind} : Fails(why, Rest)
  BY <1>2, <1>3, <1>9, FailsStep DEF Waiting
<1> QED
  BY <1>6, <1>7, <1>8, <1>9 DEF TakeAnswer

-----------------------------------------------------------------------------
(* The modal, and the log.                                                  *)

LEMMA LogFact ==
  ASSUME TypeOK, NEW kind, NEW r, [kind |-> kind, run |-> r] \in Entries, Log(kind, r)
  PROVE  /\ file' \in Seq(Entries \cup {Junk}) /\ torn' \in BOOLEAN /\ told' \subseteq Entries
<1>1. file \in Seq(Entries \cup {Junk}) /\ told \subseteq Entries
  BY DEF TypeOK
<1>2. Append(file, [kind |-> kind, run |-> r]) \in Seq(Entries \cup {Junk})
  BY <1>1
<1> QED
  BY <1>1, <1>2 DEF Log

(* A step that leaves the read as it is.                                    *)
LEMMA QuietStep ==
  ASSUME ReadInv, TypeOK', UNCHANGED <<way, work, link, late>>, pc' = pc \/ pc' = "none",
         state' = "done" => state = "done" /\ result' = result
  PROVE  ReadInv'
<1>1. TypeOK /\ ChunksOK /\ CurrentOK /\ ImageOK
  BY DEF ReadInv
<1>2. Waiting' => Waiting
  BY DEF Waiting
<1>3. ChunksOK'
  BY <1>1, <1>2 DEF ChunksOK, Behind
<1>4. CurrentOK'
  BY <1>1, <1>2 DEF CurrentOK, Base
<1>5. ImageOK'
  BY <1>1 DEF ImageOK, InPlace
<1> QED
  BY <1>3, <1>4, <1>5 DEF ReadInv

(* A step after which there is no exchange and no image.                    *)
LEMMA FreshStep ==
  ASSUME TypeOK', work' = Fresh, link' = Closed, pc' \in {"none", "open"}, state' # "done"
  PROVE  ReadInv'
<1>1. ChunksOK'
  BY FreshFact DEF ChunksOK, Behind, Waiting
<1>2. CurrentOK'
  BY DEF CurrentOK, Waiting
<1>3. ImageOK'
  BY FreshFact DEF ImageOK, InPlace
<1> QED
  BY <1>1, <1>2, <1>3 DEF ReadInv

LEMMA JoinStep ==
  ASSUME ReadInv, JoinThread
  PROVE  ReadInv'
<1>1. TypeOK /\ UNCHANGED <<way, work, link, late, state, result>> /\ (pc' = pc \/ pc' = "none")
  BY DEF ReadInv, JoinThread
<1>2. TypeOK'
  BY <1>1 DEF TypeOK, JoinThread, audit
<1> QED
  BY <1>1, <1>2, QuietStep

LEMMA AuditStep ==
  ASSUME ReadInv, RunsOK, AuditOutcome
  PROVE  ReadInv'
<1>1. TypeOK /\ UNCHANGED <<way, work, link, late, state, result, pc>>
  BY DEF ReadInv, AuditOutcome, thread
<1>2. /\ at' = "audited"
      /\ UNCHANGED <<visible, state, result, run, cancel, pc, way, work, link, late, ended, cuts, dropped>>
  BY DEF AuditOutcome, thread
<1>3. audited' \in BOOLEAN
  BY <1>1 DEF AuditOutcome, TypeOK
<1>4. /\ file' \in Seq(Entries \cup {Junk}) /\ torn' \in BOOLEAN /\ told' \subseteq Entries
  <2>1. CASE state \in Terminal /\ Log(state, run)
    <3>1. [kind |-> state, run |-> run] \in Entries
      BY <1>1, <2>1, RomAssumption DEF TypeOK, Entries, RunsOK
    <3> QED
      BY <1>1, <2>1, <3>1, LogFact
  <2>2. CASE UNCHANGED audit
    BY <1>1, <2>2 DEF TypeOK, audit
  <2> QED
    BY <2>1, <2>2 DEF AuditOutcome
<1>5. TypeOK'
  BY <1>1, <1>2, <1>3, <1>4 DEF TypeOK
<1> QED
  BY <1>1, <1>5, QuietStep

LEMMA ReadStarts ==
  ASSUME ReadInv, Read
  PROVE  ReadInv'
<1>1. TypeOK
  BY DEF ReadInv
<1>2. /\ state' = "running" /\ audited' = FALSE /\ result' = <<>> /\ run' = run + 1
      /\ cancel' = FALSE /\ way' \in Ways /\ pc' = "open" /\ work' = Fresh /\ link' = Closed
      /\ late' = FALSE /\ UNCHANGED <<at, visible, ended, cuts, dropped>> /\ run < MaxRuns
  BY DEF Read
<1>3. run + 1 \in 1 .. MaxRuns /\ run + 1 \in 0 .. MaxRuns
  BY <1>1, <1>2, RomAssumption DEF TypeOK
<1>4. /\ file' \in Seq(Entries \cup {Junk}) /\ torn' \in BOOLEAN /\ told' \subseteq Entries
  <2>1. [kind |-> "started", run |-> run + 1] \in Entries
    BY <1>3 DEF Entries
  <2> QED
    BY <1>1, <2>1, LogFact DEF Read
<1>5. result' \in Seq(Bounded) /\ Len(result') = 0 /\ Total >= 0
  BY <1>2, RomAssumption
<1>6. Len(work'.out) = 0
  BY <1>2, FreshFact
<1>7. TypeOK'
  BY <1>1, <1>2, <1>3, <1>4, <1>5, <1>6, FreshFact DEF TypeOK
<1> QED
  BY <1>2, <1>7, FreshStep

LEMMA ButtonStep ==
  ASSUME ReadInv, CancelRead \/ Dismiss \/ HideModal \/ OpenModal
  PROVE  ReadInv'
<1>1. TypeOK
  BY DEF ReadInv
<1>2. /\ UNCHANGED <<pc, way, work, link, late, audited, run, file, torn, told, ended, cuts>>
      /\ dropped' \subseteq 0 .. MaxRuns
      /\ state' = state \/ state' = "idle"
      /\ at' = at \/ at' = "shown"
      /\ visible' \in BOOLEAN /\ cancel' \in BOOLEAN
      /\ result' = result \/ result' = <<>>
      /\ state' = "done" => result' = result
  BY <1>1 DEF CancelRead, Dismiss, HideModal, OpenModal, thread, audit, TypeOK
<1>3. result' \in Seq(Bounded) /\ Len(result') <= Total
  <2>1. <<>> \in Seq(Bounded) /\ Len(<<>>) = 0 /\ 0 <= Total
    BY RomAssumption
  <2> QED
    BY <1>1, <1>2, <2>1 DEF TypeOK
<1>4. TypeOK'
  BY <1>1, <1>2, <1>3 DEF TypeOK
<1>5. state' = "done" => state = "done"
  BY <1>2
<1> QED
  BY <1>2, <1>4, <1>5, QuietStep

LEMMA CrashStep ==
  ASSUME ReadInv, Crash
  PROVE  ReadInv'
<1>1. TypeOK
  BY DEF ReadInv
<1>2. /\ at' = "shown" /\ visible' = FALSE /\ state' = "idle" /\ audited' = FALSE
      /\ result' = <<>> /\ cancel' = FALSE /\ pc' = "none" /\ work' = Fresh /\ link' = Closed
      /\ ended' = IF Len(ended) < run THEN Append(ended, "crashed")
                  ELSE IF Unlogged THEN [ended EXCEPT ![run] = "crashed"] ELSE ended
      /\ late' = FALSE /\ way' = Chosen /\ UNCHANGED <<run, told, dropped>>
  BY DEF Crash
<1>3. /\ file' \in Seq(Entries \cup {Junk}) /\ torn' \in BOOLEAN /\ cuts' \in 0 .. MaxTorn
  <2>1. CASE UNCHANGED <<file, torn, cuts>>
    BY <1>1, <2>1 DEF TypeOK
  <2>2. CASE cuts < MaxTorn /\ file' = Append(file, Junk) /\ torn' = TRUE /\ cuts' = cuts + 1
    <3>1. cuts + 1 \in 0 .. MaxTorn
      BY <1>1, <2>2, RomAssumption DEF TypeOK
    <3>2. Append(file, Junk) \in Seq(Entries \cup {Junk})
      BY <1>1 DEF TypeOK
    <3> QED
      BY <2>2, <3>1, <3>2
  <2> QED
    BY <2>1, <2>2 DEF Crash
<1>4. ended' \in Seq(Outcomes)
  <2>1. ended \in Seq(Outcomes) /\ "crashed" \in Outcomes
    BY <1>1 DEF TypeOK, Outcomes
  <2>2. [ended EXCEPT ![run] = "crashed"] \in Seq(Outcomes)
    <3>1. PICK n \in Nat : n = Len(ended) /\ DOMAIN ended = 1 .. n
      BY <2>1
    <3>2. [ended EXCEPT ![run] = "crashed"]
             = [i \in 1 .. n |-> IF i = run THEN "crashed" ELSE ended[i]]
      BY <2>1, <3>1
    <3>3. \A i \in 1 .. n : (IF i = run THEN "crashed" ELSE ended[i]) \in Outcomes
      BY <2>1, <3>1
    <3>4. [i \in 1 .. n |-> IF i = run THEN "crashed" ELSE ended[i]] \in Seq(Outcomes)
      BY <3>1, <3>3
    <3> QED
      BY <3>2, <3>4
  <2> QED
    BY <1>2, <2>1, <2>2
<1>5. result' \in Seq(Bounded) /\ Len(result') = 0 /\ Total >= 0
  BY <1>2, RomAssumption
<1>6. Len(work'.out) = 0
  BY <1>2, FreshFact
<1>8. way' \in Ways
  BY <1>2 DEF Chosen, Ways
<1>7. TypeOK'
  BY <1>1, <1>2, <1>3, <1>4, <1>5, <1>6, <1>8, FreshFact DEF TypeOK
<1> QED
  BY <1>2, <1>7, FreshStep

LEMMA InitRead ==
  ASSUME Init
  PROVE  ReadInv
<1>1. /\ result \in Seq(Bounded) /\ Len(result) = 0 /\ Total >= 0 /\ 0 \in 0 .. MaxRuns
      /\ 0 \in 0 .. MaxTorn
  BY RomAssumption DEF Init
<1>2. file \in Seq(Entries \cup {Junk}) /\ ended \in Seq(Outcomes)
  BY DEF Init
<1>3. TypeOK
  BY <1>1, <1>2, FreshFact DEF Init, TypeOK, Chosen, Ways
<1>4. ChunksOK
  BY FreshFact DEF Init, ChunksOK, Behind, Waiting
<1>5. CurrentOK
  BY DEF Init, CurrentOK, Waiting
<1>6. ImageOK
  BY FreshFact DEF Init, ImageOK, InPlace
<1> QED
  BY <1>3, <1>4, <1>5, <1>6 DEF ReadInv

LEMMA ReadInvStep ==
  ASSUME ReadInv, RunsOK, [Next]_vars
  PROVE  ReadInv'
<1>1. CASE UNCHANGED vars
  <2>1. TypeOK'
    BY <1>1 DEF ReadInv, TypeOK, vars, modal, thread, audit
  <2> QED
    BY <1>1, <2>1, QuietStep DEF vars, modal, thread
<1> QED
  BY <1>1, JoinStep, AuditStep, ReadStarts, ButtonStep, OpenStep, TopStep, SendStep, AckStep,
     TakeStep, TimeOutStep, AnswerStep, CrashStep DEF Next

-----------------------------------------------------------------------------
(* The log.                                                                 *)

LEMMA EndedFact ==
  ASSUME TypeOK
  PROVE  /\ run \in Nat /\ ended \in Seq(Outcomes) /\ Len(ended) \in Nat
         /\ told \subseteq Entries /\ file \in Seq(Entries \cup {Junk})
         /\ cuts \in Nat /\ torn \in BOOLEAN
         /\ \A entry \in told : /\ entry.run \in Nat /\ entry.run >= 1
                                /\ entry = [kind |-> entry.kind, run |-> entry.run]
  BY RomAssumption DEF TypeOK, Entries

LEMMA FileGrows ==
  ASSUME TypeOK, NEW e \in Entries \cup {Junk}
  PROVE  /\ Len(file) \in Nat /\ Len(Append(file, e)) = Len(file) + 1
         /\ \A i \in 1 .. Len(file) : Append(file, e)[i] = file[i]
         /\ Append(file, e)[Len(file) + 1] = e
         /\ \A i \in 1 .. Len(file) + 1 : i = Len(file) + 1 \/ i \in 1 .. Len(file)
         /\ ToSet(Append(file, e)) = ToSet(file) \cup {e}
<1>1. PICK f \in Seq(Entries \cup {Junk}) : f = file
  BY DEF TypeOK
<1>2. PICK n \in Nat : n = Len(f)
  OBVIOUS
<1>3. PICK g \in Seq(Entries \cup {Junk}) : g = Append(f, e)
  BY AppendFact
<1>4. /\ Len(g) = n + 1 /\ g[n + 1] = e /\ \A i \in 1 .. n : g[i] = f[i]
      /\ \A i \in 1 .. n + 1 : i = n + 1 \/ i \in 1 .. n
  BY <1>2, <1>3, AppendFact
<1>5. ToSet(g) = {g[i] : i \in 1 .. n + 1} /\ ToSet(f) = {f[i] : i \in 1 .. n}
  BY <1>2, <1>4 DEF ToSet
<1>6. ToSet(g) = ToSet(f) \cup {e}
  <2>1. n + 1 \in 1 .. n + 1 /\ 1 .. n \subseteq 1 .. n + 1
    OBVIOUS
  <2> QED
    BY <1>4, <1>5, <2>1
<1> QED
  BY <1>1, <1>2, <1>3, <1>4, <1>6

(* An entry that was not appended before; one may be glued to a piece.      *)
LEMMA LogStep ==
  ASSUME TypeOK, FileOK, LostOK, NEW kind, NEW r, [kind |-> kind, run |-> r] \in Entries,
         [kind |-> kind, run |-> r] \notin told, Log(kind, r), UNCHANGED cuts
  PROVE  FileOK' /\ LostOK'
<1>1. PICK e \in Entries : e = [kind |-> kind, run |-> r]
  OBVIOUS
<1>2. /\ file' = (IF torn THEN file ELSE Append(file, e)) /\ torn' = FALSE
      /\ told' = told \cup {e} /\ e \notin told
  BY <1>1 DEF Log
<1>3. torn \in BOOLEAN /\ cuts \in Nat /\ IsFiniteSet(told)
  BY EndedFact DEF LostOK
<1>4. IsFiniteSet(told') /\ IsFiniteSet(Lost) /\ Cardinality(Lost) \in Nat
  <2>1. IsFiniteSet(told \cup {e})
    BY <1>3, FS_AddElement
  <2>2. IsFiniteSet(Lost)
    BY <1>3, FS_Subset DEF Lost
  <2> QED
    BY <1>2, <2>1, <2>2, FS_CardinalityType
<1>5. CASE torn
  <2>1. FileOK'
    BY <1>2, <1>5 DEF FileOK
  <2>2. e \notin ToSet(file)
    <3>1. e # Junk
      BY DEF Entries, Junk, Terminal
    <3>2. DOMAIN file = 1 .. Len(file)
      BY EndedFact
    <3> QED
      BY <1>2, <3>1, <3>2 DEF FileOK, ToSet
  <2>3. Lost' = Lost \cup {e} /\ e \notin Lost
    BY <1>2, <1>5, <2>2 DEF Lost
  <2>4. Cardinality(Lost \cup {e}) = Cardinality(Lost) + 1
    BY <1>4, <2>3, FS_AddElement
  <2>7. Cardinality(Lost) + 1 = cuts
    BY <1>5 DEF LostOK
  <2>8. Cardinality(Lost') + (IF torn' THEN 1 ELSE 0) = cuts'
    BY <1>2, <1>3, <1>4, <2>3, <2>4, <2>7
  <2> QED
    BY <1>4, <2>1, <2>8 DEF LostOK
<1>6. CASE ~torn
  <2>1. file' = Append(file, e)
    BY <1>2, <1>6
  <2>2. PICK n \in Nat : n = Len(file)
    BY FileGrows
  <2>3. /\ Len(file') = n + 1 /\ file'[n + 1] = e
        /\ \A i \in 1 .. n : file'[i] = file[i]
        /\ \A i \in 1 .. n + 1 : i = n + 1 \/ i \in 1 .. n
        /\ ToSet(file') = ToSet(file) \cup {e}
    BY <2>1, <2>2, FileGrows
  <2>4. \A i \in 1 .. n : file[i] # Junk => file[i] \in told
    BY <2>2 DEF FileOK
  <2>5. \A i, j \in 1 .. n : i # j /\ file[i] # Junk => file[i] # file[j]
    BY <2>2 DEF FileOK
  <2>6. \A i \in 1 .. n + 1 : file'[i] # Junk => file'[i] \in told'
    BY <1>2, <2>3, <2>4
  <2>7. \A i \in 1 .. n : file[i] # Junk => file[i] # e
    BY <1>2, <2>4
  <2>8. e # Junk
    BY DEF Entries, Junk, Terminal
  <2>9. \A i, j \in 1 .. n + 1 : i # j /\ file'[i] # Junk => file'[i] # file'[j]
    <3> SUFFICES ASSUME NEW i \in 1 .. n + 1, NEW j \in 1 .. n + 1, i # j, file'[i] # Junk
                 PROVE  file'[i] # file'[j]
      OBVIOUS
    <3>1. CASE i = n + 1
      <4>1. j \in 1 .. n
        BY <2>3, <3>1
      <4> QED
        BY <2>3, <2>7, <2>8, <3>1, <4>1
    <3>2. CASE i \in 1 .. n
      BY <2>3, <2>5, <2>7, <3>2
    <3> QED
      BY <2>3, <3>1, <3>2
  <2>10. FileOK'
    BY <2>3, <2>6, <2>9 DEF FileOK
  <2>11. Lost' = Lost
    BY <1>2, <2>3 DEF Lost
  <2>12. Cardinality(Lost') + (IF torn' THEN 1 ELSE 0) = cuts'
    BY <1>2, <1>6, <2>11 DEF LostOK
  <2> QED
    BY <1>4, <2>10, <2>12 DEF LostOK
<1> QED
  BY <1>3, <1>5, <1>6

(* A step of the thread, or of the ECU: the read goes on, or has ended.     *)
LEMMA ThreadShape ==
  ASSUME OpenLink \/ LoopTop \/ Send \/ TakeAck \/ TakeAnswer \/ TimeOut \/ EcuAnswers
  PROVE  /\ Reading /\ UNCHANGED <<at, visible, audited, run, file, torn, told, cuts, dropped>>
         /\ \/ Reading' /\ UNCHANGED <<state, ended>>
            \/ \E outcome \in Terminal :
                 pc' = "ended" /\ state' = outcome /\ ended' = Append(ended, outcome)
<1> DEFINE Shape == /\ UNCHANGED <<at, visible, audited, run>>
                    /\ \/ Reading' /\ UNCHANGED <<state, ended>>
                       \/ \E outcome \in Terminal :
                            pc' = "ended" /\ state' = outcome /\ ended' = Append(ended, outcome)
<1>1. "done" \in Terminal /\ "failed" \in Terminal /\ "cancelled" \in Terminal
  BY DEF Terminal
<1>2. ASSUME NEW outcome \in Terminal, End(outcome) PROVE Shape
  BY <1>2 DEF End
<1>3. ASSUME NEW to \in {"probe", "top", "send", "ack", "answer"}, NEW w, NEW l, Goes(to, w, l)
      PROVE  Shape
  BY <1>3 DEF Goes, modal, Reading
<1>4. ASSUME NEW why, NEW l, Fails(why, l) PROVE Shape
  <2> HIDE DEF Shape
  <2> QED
    BY <1>1, <1>2, <1>3, <1>4 DEF Fails
<1> HIDE DEF Shape
<1>5. Reading
  BY DEF Reading, OpenLink, LoopTop, Send, TakeAck, TakeAnswer, TimeOut, EcuAnswers
<1>6. UNCHANGED <<file, torn, told, cuts, dropped>>
  BY DEF audit, OpenLink, LoopTop, Send, TakeAck, TakeAnswer, TimeOut, EcuAnswers
<1>7. ASSUME OpenLink PROVE Shape
  BY <1>1, <1>2, <1>3, <1>7 DEF OpenLink
<1>8. ASSUME LoopTop PROVE Shape
  BY <1>1, <1>2, <1>3, <1>8 DEF LoopTop
<1>9. ASSUME Send PROVE Shape
  BY <1>3, <1>9 DEF Send
<1>10. ASSUME TakeAck PROVE Shape
  BY <1>3, <1>4, <1>10 DEF TakeAck
<1>11. ASSUME TakeAnswer PROVE Shape
  BY <1>1, <1>2, <1>3, <1>4, <1>11 DEF TakeAnswer
<1>12. ASSUME TimeOut PROVE Shape
  BY <1>4, <1>12 DEF TimeOut
<1>13. ASSUME EcuAnswers PROVE Shape
  BY <1>5, <1>13 DEF EcuAnswers, modal, Shape, Reading
<1> QED
  BY <1>5, <1>6, <1>7, <1>8, <1>9, <1>10, <1>11, <1>12, <1>13 DEF Shape

LEMMA EndedGrows ==
  ASSUME TypeOK, NEW outcome
  PROVE  /\ Len(Append(ended, outcome)) = Len(ended) + 1
         /\ \A i \in 1 .. Len(ended) : Append(ended, outcome)[i] = ended[i]
         /\ Append(ended, outcome)[Len(ended) + 1] = outcome
  BY DEF TypeOK

LEMMA ThreadAudit ==
  ASSUME TypeOK, AuditInv,
         OpenLink \/ LoopTop \/ Send \/ TakeAck \/ TakeAnswer \/ TimeOut \/ EcuAnswers
  PROVE  AuditInv'
<1>1. RunsOK /\ ToldOK /\ FileOK /\ LostOK /\ OutcomesOK
  BY DEF AuditInv
<1>2. Reading /\ UNCHANGED <<at, visible, audited, run, file, torn, told, cuts, dropped>>
  BY ThreadShape
<1>3. /\ run \in Nat /\ run >= 1 /\ Len(ended) = run - 1 /\ Len(ended) \in Nat
      /\ \A entry \in told : entry.run \in Nat /\ entry.run >= 1
  BY <1>1, <1>2, EndedFact DEF RunsOK
<1>4. FileOK' /\ LostOK'
  BY <1>1, <1>2 DEF FileOK, LostOK, Lost
<1>5. CASE Reading' /\ UNCHANGED <<state, ended>>
  <2>1. RunsOK'
    BY <1>1, <1>2, <1>5 DEF RunsOK, Reading
  <2>2. ToldOK'
    BY <1>1, <1>2, <1>5 DEF ToldOK, Reading
  <2>3. OutcomesOK'
    BY <1>1, <1>2, <1>5 DEF OutcomesOK, Outcome
  <2> QED
    BY <1>4, <2>1, <2>2, <2>3 DEF AuditInv
<1>6. CASE \E outcome \in Terminal :
             pc' = "ended" /\ state' = outcome /\ ended' = Append(ended, outcome)
  <2>1. PICK outcome \in Terminal :
          pc' = "ended" /\ state' = outcome /\ ended' = Append(ended, outcome)
    BY <1>6
  <2>2. /\ Len(ended') = run /\ ended'[run] = outcome
        /\ \A i \in 1 .. Len(ended) : ended'[i] = ended[i]
    BY <1>3, <2>1, EndedGrows
  <2>3. ~Reading' /\ state' # "idle"
    BY <2>1 DEF Reading, Terminal
  <2>4. RunsOK'
    BY <1>1, <1>2, <1>3, <2>1, <2>2, <2>3 DEF RunsOK
  <2>5. ASSUME NEW entry \in told, entry.kind # "started"
        PROVE  /\ entry.run <= Len(ended') /\ entry.kind = ended'[entry.run] /\ entry.run # run
    <3>1. entry.run <= Len(ended) /\ entry.kind = ended[entry.run]
      BY <1>1, <2>5 DEF ToldOK
    <3>2. entry.run \in 1 .. Len(ended)
      BY <1>3, <3>1
    <3> QED
      BY <1>3, <2>2, <3>1, <3>2
  <2>6. ToldOK'
    BY <1>1, <1>2, <2>5 DEF ToldOK
  <2>7. OutcomesOK'
    <3> SUFFICES ASSUME NEW r \in 1 .. run, ended'[r] \in Terminal
                 PROVE  \/ Outcome(r)' \in told
                        \/ r \in dropped
                        \/ r = run /\ state' = ended'[r] /\ ~audited
      BY <1>2, <2>2 DEF OutcomesOK
    <3>1. CASE r = run
      BY <1>1, <1>2, <2>1, <2>2, <3>1 DEF RunsOK
    <3>2. CASE r # run
      <4>1. r \in 1 .. Len(ended)
        BY <1>3, <3>2
      <4>2. ended'[r] = ended[r]
        BY <2>2, <4>1
      <4> QED
        BY <1>1, <3>2, <4>1, <4>2 DEF OutcomesOK, Outcome
    <3> QED
      BY <3>1, <3>2
  <2> QED
    BY <1>4, <2>4, <2>6, <2>7 DEF AuditInv
<1> QED
  BY <1>5, <1>6, ThreadShape

(* An outcome is logged once: the flag says whether it was.                 *)
LEMMA OutcomeAudit ==
  ASSUME TypeOK, AuditInv, AuditOutcome
  PROVE  AuditInv'
<1>1. RunsOK /\ ToldOK /\ FileOK /\ LostOK /\ OutcomesOK
  BY DEF AuditInv
<1>2. /\ visible /\ at = "joined" /\ at' = "audited"
      /\ UNCHANGED <<visible, state, run, pc, ended, cuts, dropped>>
  BY DEF AuditOutcome, thread
<1>4. run \in Nat /\ Len(ended) \in Nat
  BY EndedFact
<1>5. CASE state \in Terminal /\ ~audited /\ Log(state, run) /\ audited' = TRUE
  <2>1. ~Reading /\ run >= 1 /\ ended[run] = state /\ Len(ended) = run /\ state # "started"
    BY <1>1, <1>5 DEF RunsOK, Terminal
  <2>2. [kind |-> state, run |-> run] \in Entries
    BY <1>4, <1>5, <2>1, RomAssumption DEF TypeOK, Entries
  <2>3. PICK e \in Entries : e = [kind |-> state, run |-> run]
    BY <2>2
  <2>4. e.kind = state /\ e.run = run
    BY <2>3
  <2>5. e \notin told
    BY <1>1, <1>5, <2>1, <2>4 DEF ToldOK
  <2>6. FileOK' /\ LostOK'
    BY <1>1, <1>2, <1>5, <2>2, <2>3, <2>5, LogStep
  <2>7. told' = told \cup {e}
    BY <1>5, <2>3 DEF Log
  <2>8. ToldOK'
    <3> SUFFICES ASSUME NEW entry \in told'
                 PROVE  /\ entry.run <= run
                        /\ entry.kind # "started" =>
                             /\ entry.run <= Len(ended) /\ entry.kind = ended[entry.run]
                             /\ entry.run = run => ~Reading /\ (state \in Terminal => audited')
      BY <1>2 DEF ToldOK, Reading
    <3>1. CASE entry \in told
      BY <1>1, <1>5, <3>1 DEF ToldOK
    <3>2. CASE entry = e
      BY <1>4, <1>5, <2>1, <2>4, <3>2
    <3> QED
      BY <2>7, <3>1, <3>2
  <2>9. OutcomesOK'
    <3> SUFFICES ASSUME NEW r \in 1 .. Len(ended), ended[r] \in Terminal
                 PROVE  Outcome(r) \in told' \/ r \in dropped
      BY <1>2 DEF OutcomesOK, Outcome
    <3>1. CASE r = run /\ state = ended[r]
      BY <2>3, <2>7, <3>1 DEF Outcome
    <3>2. CASE ~(r = run /\ state = ended[r])
      BY <1>1, <2>7, <3>2 DEF OutcomesOK
    <3> QED
      BY <3>1, <3>2
  <2>10. RunsOK'
    BY <1>1, <1>2, <2>1 DEF RunsOK, Reading
  <2> QED
    BY <2>6, <2>8, <2>9, <2>10 DEF AuditInv
<1>6. CASE /\ ~(state \in Terminal /\ ~audited)
           /\ audited' = (audited /\ state # "idle") /\ UNCHANGED audit
  <2>1. UNCHANGED <<file, torn, told>> /\ (state \in Terminal => audited' = audited /\ audited)
    BY <1>6 DEF audit, Terminal, TypeOK
  <2>2. ToldOK'
    BY <1>1, <1>2, <2>1 DEF ToldOK, Reading
  <2>3. FileOK' /\ LostOK'
    BY <1>1, <1>2, <2>1 DEF FileOK, LostOK, Lost
  <2>4. OutcomesOK'
    BY <1>1, <1>2, <2>1 DEF OutcomesOK, Outcome
  <2>5. RunsOK'
    BY <1>1, <1>2, <1>6 DEF RunsOK, Reading
  <2> QED
    BY <2>2, <2>3, <2>4, <2>5 DEF AuditInv
<1> QED
  BY <1>5, <1>6 DEF AuditOutcome

(* A read that starts has no thread before it, and a number of its own.     *)
LEMMA StartAudit ==
  ASSUME TypeOK, AuditInv, Read
  PROVE  AuditInv'
<1>1. RunsOK /\ ToldOK /\ FileOK /\ LostOK /\ OutcomesOK
  BY DEF AuditInv
<1>2. /\ visible /\ at = "audited" /\ state = "idle" /\ state' = "running" /\ run' = run + 1
      /\ audited' = FALSE
      /\ pc' = "open" /\ Log("started", run + 1)
      /\ UNCHANGED <<at, visible, ended, cuts, dropped>>
  BY DEF Read, Pressed
<1>3. ~Reading /\ Len(ended) = run /\ run \in Nat /\ Reading'
  BY <1>1, <1>2, EndedFact DEF RunsOK, Reading
<1>4. run + 1 \in 1 .. MaxRuns
  BY <1>3, RomAssumption DEF TypeOK, Read
<1>5. PICK e \in Entries : e = [kind |-> "started", run |-> run + 1]
  BY <1>4 DEF Entries
<1>6. e.kind = "started" /\ e.run = run + 1
  BY <1>5
<1>7. e \notin told
  BY <1>1, <1>3, <1>6 DEF ToldOK
<1>8. FileOK' /\ LostOK'
  BY <1>1, <1>2, <1>5, <1>7, LogStep
<1>9. told' = told \cup {e}
  BY <1>2, <1>5 DEF Log
<1>10. RunsOK'
  BY <1>2, <1>3 DEF RunsOK, Terminal
<1>11. ToldOK'
  <2> SUFFICES ASSUME NEW entry \in told'
               PROVE  /\ entry.run <= run + 1
                      /\ entry.kind # "started" =>
                           /\ entry.run <= Len(ended) /\ entry.kind = ended[entry.run]
                           /\ entry.run # run + 1
    BY <1>2 DEF ToldOK
  <2>1. CASE entry \in told
    <3>1. entry.run <= run /\ entry.run \in Nat
      BY <1>1, <2>1, EndedFact DEF ToldOK
    <3> QED
      BY <1>1, <1>3, <2>1, <3>1 DEF ToldOK
  <2>2. CASE entry = e
    BY <1>3, <1>6, <2>2
  <2> QED
    BY <1>9, <2>1, <2>2
<1>12. OutcomesOK'
  BY <1>1, <1>2, <1>9 DEF OutcomesOK, Outcome, Terminal
<1> QED
  BY <1>8, <1>10, <1>11, <1>12 DEF AuditInv

LEMMA ModalAudit ==
  ASSUME TypeOK, AuditInv, JoinThread \/ CancelRead \/ Dismiss \/ HideModal \/ OpenModal
  PROVE  AuditInv'
<1>1. RunsOK /\ ToldOK /\ FileOK /\ LostOK /\ OutcomesOK
  BY DEF AuditInv
<1>2. /\ UNCHANGED <<audited, run, file, torn, told, ended, cuts>>
      /\ state' = state \/ state' = "idle"
      /\ pc' = pc \/ (pc = "ended" /\ pc' = "none")
  BY DEF JoinThread, CancelRead, Dismiss, HideModal, OpenModal, thread, audit
<1>3. (Reading' <=> Reading) /\ (state' \in Terminal => state' = state)
  BY <1>2 DEF Reading, Terminal
<1>4. ToldOK'
  BY <1>1, <1>2, <1>3 DEF ToldOK
<1>5. FileOK' /\ LostOK'
  BY <1>1, <1>2 DEF FileOK, LostOK, Lost
<1>6. /\ ~visible' => at' = "shown"
      /\ at' # "shown" /\ state' = "idle" => pc' = "none"
  <2>1. CASE JoinThread
    BY <2>1 DEF JoinThread
  <2>2. CASE CancelRead
    BY <2>2 DEF CancelRead, Pressed, thread
  <2>3. CASE Dismiss \/ HideModal
    BY <2>3 DEF Dismiss, HideModal
  <2>4. CASE OpenModal
    BY <1>1, <2>4 DEF OpenModal, RunsOK
  <2> QED
    BY <2>1, <2>2, <2>3, <2>4
<1>7. RunsOK'
  BY <1>1, <1>2, <1>3, <1>6 DEF RunsOK
<1>8. /\ dropped \subseteq dropped'
      /\ Unlogged => state' = state \/ run \in dropped'
  <2>1. CASE OpenModal
    BY <2>1 DEF OpenModal
  <2>2. CASE JoinThread \/ CancelRead \/ Dismiss \/ HideModal
    BY <2>2 DEF JoinThread, CancelRead, Dismiss, HideModal, Unlogged
  <2> QED
    BY <2>1, <2>2
<1>9. OutcomesOK'
  <2> SUFFICES ASSUME NEW r \in 1 .. Len(ended), ended[r] \in Terminal
               PROVE  \/ Outcome(r) \in told
                      \/ r \in dropped'
                      \/ r = run /\ state' = ended[r] /\ ~audited
    BY <1>2 DEF OutcomesOK, Outcome
  <2> QED
    BY <1>1, <1>8 DEF OutcomesOK, Unlogged
<1> QED
  BY <1>4, <1>5, <1>7, <1>9 DEF AuditInv

(* A crash cuts at most the entry being appended.                           *)
LEMMA CrashAudit ==
  ASSUME TypeOK, AuditInv, Crash
  PROVE  AuditInv'
<1>1. RunsOK /\ ToldOK /\ FileOK /\ LostOK /\ OutcomesOK
  BY DEF AuditInv
<1>2. /\ at' = "shown" /\ visible' = FALSE /\ state' = "idle" /\ pc' = "none"
      /\ ended' = IF Len(ended) < run THEN Append(ended, "crashed")
                  ELSE IF Unlogged THEN [ended EXCEPT ![run] = "crashed"] ELSE ended
      /\ UNCHANGED <<run, told, dropped>>
  BY DEF Crash
<1>3. ~Reading' /\ state' \notin Terminal
  BY <1>2 DEF Reading, Terminal
<1>4. /\ run \in Nat /\ Len(ended) \in Nat
      /\ \A entry \in told : entry.run \in Nat /\ entry.run >= 1
  BY EndedFact
<1>5. /\ Len(ended') = run
      /\ \A i \in 1 .. Len(ended) : ended'[i] = ended[i] \/ (i = run /\ Unlogged)
      /\ \A i \in 1 .. run : ended'[i] \in Terminal =>
            /\ i \in 1 .. Len(ended) /\ ended'[i] = ended[i]
            /\ ~(i = run /\ Unlogged)
  <2>1. "crashed" \notin Terminal
    BY DEF Terminal
  <2>2. CASE Reading
    <3>1. Len(ended) = run - 1 /\ ended' = Append(ended, "crashed") /\ ~Unlogged
      BY <1>1, <1>2, <1>4, <2>2 DEF RunsOK, Unlogged
    <3>2. /\ Len(ended') = run /\ ended'[run] = "crashed"
          /\ \A i \in 1 .. Len(ended) : ended'[i] = ended[i]
      BY <1>4, <3>1, EndedGrows
    <3>3. \A i \in 1 .. run : i = run \/ i \in 1 .. Len(ended)
      BY <1>4, <3>1
    <3> QED
      BY <2>1, <3>1, <3>2, <3>3
  <2>3. CASE ~Reading /\ Unlogged
    <3>1. Len(ended) = run /\ run >= 1 /\ ended' = [ended EXCEPT ![run] = "crashed"]
      BY <1>1, <1>2, <1>4, <2>3 DEF RunsOK, Unlogged
    <3>2. ended \in Seq(Outcomes)
      BY EndedFact
    <3>3. /\ Len(ended') = run /\ ended'[run] = "crashed"
          /\ \A i \in 1 .. run : i # run => ended'[i] = ended[i]
      BY <1>4, <3>1, <3>2
    <3> QED
      BY <2>1, <2>3, <3>1, <3>3
  <2>4. CASE ~Reading /\ ~Unlogged
    BY <1>1, <1>2, <1>4, <2>4 DEF RunsOK
  <2> QED
    BY <2>2, <2>3, <2>4
<1>6. RunsOK'
  BY <1>2, <1>3, <1>5 DEF RunsOK
<1>7. ToldOK'
  <2> SUFFICES ASSUME NEW entry \in told
               PROVE  /\ entry.run <= run
                      /\ entry.kind # "started" =>
                           entry.run <= Len(ended') /\ entry.kind = ended'[entry.run]
    BY <1>2, <1>3 DEF ToldOK
  <2>1. entry.run <= run
    BY <1>1 DEF ToldOK
  <2>2. ASSUME entry.kind # "started" PROVE entry.kind = ended'[entry.run]
    <3>1. entry.run <= Len(ended) /\ entry.kind = ended[entry.run]
      BY <1>1, <2>2 DEF ToldOK
    <3>2. entry.run \in 1 .. Len(ended)
      BY <1>4, <3>1
    <3>3. ~(entry.run = run /\ Unlogged)
      BY <1>1, <2>2 DEF ToldOK, Unlogged
    <3> QED
      BY <1>5, <3>1, <3>2, <3>3
  <2> QED
    BY <1>5, <2>1, <2>2
<1>10. OutcomesOK'
  <2> SUFFICES ASSUME NEW r \in 1 .. run, ended'[r] \in Terminal
               PROVE  Outcome(r)' \in told \/ r \in dropped
    BY <1>2, <1>5 DEF OutcomesOK
  <2>1. /\ r \in 1 .. Len(ended) /\ ended'[r] = ended[r] /\ ended[r] \in Terminal
        /\ ~(r = run /\ Unlogged)
    BY <1>5
  <2>2. Outcome(r)' = Outcome(r)
    BY <2>1 DEF Outcome
  <2>3. ~(r = run /\ state = ended[r] /\ ~audited)
    BY <2>1 DEF Unlogged
  <2> QED
    BY <1>1, <2>1, <2>2, <2>3 DEF OutcomesOK
<1>8. CASE UNCHANGED <<file, torn, cuts>>
  <2>1. FileOK' /\ LostOK'
    BY <1>1, <1>2, <1>8 DEF FileOK, LostOK, Lost
  <2> QED
    BY <1>6, <1>7, <1>10, <2>1 DEF AuditInv
<1>9. CASE ~torn /\ file' = Append(file, Junk) /\ torn' = TRUE /\ cuts' = cuts + 1
  <2>1. PICK n \in Nat : n = Len(file)
    BY FileGrows
  <2>2. /\ Len(file') = n + 1 /\ file'[n + 1] = Junk
        /\ \A i \in 1 .. n : file'[i] = file[i]
        /\ \A i \in 1 .. n + 1 : i = n + 1 \/ i \in 1 .. n
        /\ ToSet(file') = ToSet(file) \cup {Junk}
    BY <1>9, <2>1, FileGrows
  <2>3. /\ \A i \in 1 .. n : file[i] # Junk => file[i] \in told
        /\ \A i, j \in 1 .. n : i # j /\ file[i] # Junk => file[i] # file[j]
    BY <1>1, <2>1 DEF FileOK
  <2>4. FileOK'
    BY <1>2, <2>2, <2>3 DEF FileOK
  <2>5. Junk \notin told
    BY EndedFact DEF Entries, Junk, Terminal
  <2>6. Lost' = Lost
    BY <1>2, <2>2, <2>5 DEF Lost
  <2>7. IsFiniteSet(told) /\ IsFiniteSet(Lost) /\ cuts \in Nat
    BY <1>1, EndedFact, FS_Subset DEF LostOK, Lost
  <2>8. Cardinality(Lost) \in Nat
    BY <2>7, FS_CardinalityType
  <2>9. Cardinality(Lost) = cuts
    BY <1>1, <1>9, <2>7, <2>8 DEF LostOK
  <2>10. Cardinality(Lost') + (IF torn' THEN 1 ELSE 0) = cuts'
    BY <1>9, <2>6, <2>7, <2>8, <2>9
  <2>11. LostOK'
    BY <1>2, <2>7, <2>10 DEF LostOK
  <2> QED
    BY <1>6, <1>7, <1>10, <2>4, <2>11 DEF AuditInv
<1> QED
  BY <1>8, <1>9 DEF Crash

LEMMA InitAudit ==
  ASSUME Init
  PROVE  AuditInv
<1>1. RunsOK
  BY DEF Init, RunsOK, Reading, Terminal
<1>2. ToldOK /\ FileOK /\ OutcomesOK
  BY DEF Init, ToldOK, FileOK, OutcomesOK
<1>3. Lost = {} /\ IsFiniteSet({}) /\ Cardinality({}) = 0
  BY FS_EmptySet DEF Init, Lost
<1>4. LostOK
  BY <1>3 DEF Init, LostOK
<1> QED
  BY <1>1, <1>2, <1>4 DEF AuditInv

LEMMA AuditInvStep ==
  ASSUME TypeOK, AuditInv, [Next]_vars
  PROVE  AuditInv'
<1>1. CASE UNCHANGED vars
  BY <1>1 DEF vars, modal, thread, audit, AuditInv, RunsOK, ToldOK, FileOK, LostOK, Lost,
     OutcomesOK, Outcome, Reading
<1> QED
  BY <1>1, ModalAudit, OutcomeAudit, StartAudit, ThreadAudit, CrashAudit DEF Next

LEMMA Invariant == Spec => [](ReadInv /\ AuditInv)
<1>1. Init => ReadInv /\ AuditInv
  BY InitRead, InitAudit
<1>2. ReadInv /\ AuditInv /\ [Next]_vars => (ReadInv /\ AuditInv)'
  BY ReadInvStep, AuditInvStep DEF ReadInv, AuditInv
<1> QED
  BY <1>1, <1>2, PTL DEF Spec

-----------------------------------------------------------------------------
(* The theorems.                                                            *)

(* No byte beyond the image is asked for, read or kept, and every entry of  *)
(* the log is of a read that was started.                                   *)
THEOREM TypeCorrect == Spec => []TypeOK
<1>1. ReadInv /\ AuditInv => TypeOK
  BY DEF ReadInv
<1> QED
  BY <1>1, Invariant, PTL

(* What the modal calls done is the ECU's image from its start, each byte   *)
(* at its address, and at least half of it: on the native adapter always,   *)
(* on an OBDX adapter when no answer came after its request was given up.   *)
THEOREM ImageTrue == Spec => []ImageFaithful
<1>1. ReadInv /\ AuditInv => ImageFaithful
  <2> SUFFICES ASSUME ReadInv, state = "done", way.adapter = "native" \/ ~late
               PROVE  /\ \A i \in DOMAIN result : result[i] = i - 1
                      /\ 2 * Len(result) >= Total
    BY DEF ImageFaithful
  <2>1. InPlace(result) /\ 2 * Len(result) >= Total /\ result \in Seq(Bounded)
    BY DEF ReadInv, ImageOK, TypeOK
  <2>2. DOMAIN result = 1 .. Len(result)
    BY <2>1
  <2> QED
    BY <2>1, <2>2 DEF InPlace
<1> QED
  BY <1>1, Invariant, PTL

(* The log has no entry twice and tells no outcome a read did not have; it  *)
(* has lost exactly one appended entry per cut append with an entry after   *)
(* it; an outcome is appended unless the menu or a crash overtook the frame *)
(* that would have; and a read is started only when the thread of the last  *)
(* one was joined.                                                          *)
THEOREM AuditTrue == Spec => []AuditTellsTheRead
<1>1. ReadInv /\ AuditInv => AuditTellsTheRead
  <2> SUFFICES ASSUME ReadInv, AuditInv
               PROVE  AuditTellsTheRead
    OBVIOUS
  <2>1. TypeOK /\ RunsOK /\ ToldOK /\ FileOK /\ LostOK /\ OutcomesOK
    BY DEF ReadInv, AuditInv
  <2>2. DOMAIN file = 1 .. Len(file)
    BY <2>1 DEF TypeOK
  <2>3. \A i, j \in DOMAIN file : i # j /\ file[i] # Junk => file[i] # file[j]
    BY <2>1, <2>2 DEF FileOK
  <2>4. \A entry \in told : entry.kind # "started" => entry.kind = ended[entry.run]
    BY <2>1 DEF ToldOK
  <2>5. IsFiniteSet(Lost) /\ cuts \in Nat
    BY <2>1, EndedFact, FS_Subset DEF LostOK, Lost
  <2>6. Cardinality(Lost) \in Nat
    BY <2>5, FS_CardinalityType
  <2>7. Cardinality(told \ ToSet(file)) = (IF torn THEN cuts - 1 ELSE cuts)
    BY <2>1, <2>5, <2>6 DEF LostOK, Lost
  <2>9. \A r \in DOMAIN ended : ended[r] \in Terminal =>
           \/ [kind |-> ended[r], run |-> r] \in told
           \/ r \in dropped
           \/ r = run /\ state = ended[r] /\ ~audited
    <3>1. DOMAIN ended = 1 .. Len(ended)
      BY <2>1 DEF TypeOK
    <3> QED
      BY <2>1, <3>1 DEF OutcomesOK, Outcome
  <2>8. visible /\ at = "audited" /\ state = "idle" => pc = "none"
    BY <2>1 DEF RunsOK
  <2> QED
    BY <2>3, <2>4, <2>7, <2>8, <2>9 DEF AuditTellsTheRead
<1> QED
  BY <1>1, Invariant, PTL
=============================================================================
