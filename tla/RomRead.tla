------------------------------ MODULE RomRead ------------------------------
(***************************************************************************)
(* "Read ROM from Car": the modal on the interface thread, the thread it    *)
(* starts with the chunk loop of Flasher::read_full_rom (or _ssm), the      *)
(* adapter's byte stream with the ECU behind it, and the audit log.         *)
(*                                                                         *)
(* The interface thread draws a frame in three reads of the state: join,    *)
(* audit, buttons.  An answer of the ECU carries no address.  The OBDX      *)
(* driver takes the first frame it reads as the acknowledgement of its      *)
(* request and the next data frame as the answer; the native driver wants   *)
(* its own sequence number on both, and its adapter is taken to put what the *)
(* ECU answers under the number of the request it answers.  An answer may   *)
(* come after its request was given up.                                     *)
(***************************************************************************)
EXTENDS Integers, Sequences, SequencesExt, FiniteSets

CONSTANTS
    Total,       \* bytes of the image, in units of the smallest chunk
    MaxChunk,    \* the chunk size asked for, in the same unit
    MaxRuns,     \* bound on the reads of a behaviour
    MaxLate,     \* bound on a read's exchanges given up whose answer may still come
    MaxTorn      \* bound on entries of the audit log cut by a crash

ASSUME RomAssumption ==
    /\ Total \in Nat \ {0} /\ MaxChunk \in Nat \ {0}
    /\ MaxRuns \in Nat /\ MaxLate \in Nat /\ MaxTorn \in Nat

VARIABLES
    \* the modal
    at,        \* what its frame has done: "shown" nothing yet, "joined", "audited"
    visible, state, audited,
    result,    \* read_rom_bytes_result
    run,       \* the number of the read, counted from 1
    cancel,
    \* the thread
    pc,        \* "none", "open", "probe", "top", "send", "ack", "answer" or "ended"
    way,       \* its protocol and adapter
    work,      \* the locals of its read: the bytes it has, each by the address it
               \* came from; effective_chunk; whether it sends the chunk for the
               \* second time; halved_in_dump_loop; the exchange under way
    \* the adapter and the ECU
    link,      \* frames nobody has read yet; the requests not answered; how many were
               \* given up that may still be; whether one was
    \* the audit log
    file,      \* the entries that can be read back, and pieces of entries
    torn,      \* it ends in a piece
    told,      \* history: the entries appended
    \* history
    late,      \* of the last read, if done: an answer came after its request was given up
    ended,     \* how each read ended: "crashed" when the program died before a frame
               \* had logged its outcome
    cuts,      \* appends cut by a crash
    dropped    \* reads whose outcome the menu overwrote before it was logged

modal  == <<at, visible, state, audited, result, run, cancel>>
thread == <<pc, way, work, link>>
audit  == <<file, torn, told>>
vars   == <<modal, thread, audit, late, ended, cuts, dropped>>

Floor == 1                         \* kProbeFloor
Terminal == {"done", "failed", "cancelled"}
Ways == {[protocol |-> "uds", adapter |-> "obdx"], [protocol |-> "uds", adapter |-> "native"],
         [protocol |-> "ssm", adapter |-> "obdx"]}

Chosen == [protocol |-> "ssm", adapter |-> "obdx"]     \* on the form of a new program

Junk == [kind |-> "junk", run |-> 0]

Fresh == [out |-> <<>>, chunk |-> MaxChunk, retry |-> FALSE, halved |-> FALSE,
          size |-> 0, probe |-> FALSE]

Closed == [stream |-> <<>>, owed |-> {}, gaveUp |-> 0, late |-> FALSE]

Init ==
    /\ at = "shown" /\ visible = FALSE /\ state = "idle" /\ audited = FALSE /\ result = <<>>
    /\ run = 0 /\ cancel = FALSE
    /\ pc = "none" /\ way = Chosen /\ work = Fresh /\ link = Closed
    /\ late = FALSE
    /\ file = <<>> /\ torn = FALSE /\ told = {}
    /\ ended = <<>> /\ cuts = 0 /\ dropped = {}

-----------------------------------------------------------------------------
(* AuditLog::append: the entry and its line end.  What follows a line that  *)
(* a crash left without its end is glued to it.                             *)
Log(kind, r) ==
    /\ file' = IF torn THEN file ELSE Append(file, [kind |-> kind, run |-> r])
    /\ torn' = FALSE
    /\ told' = told \cup {[kind |-> kind, run |-> r]}

(* The frame, first: once the read is not running its thread is joined,     *)
(* which waits for it.                                                      *)
JoinThread ==
    /\ visible /\ at # "joined"
    /\ at' = "joined"
    /\ IF pc # "none" /\ state # "running"
       THEN pc = "ended" /\ pc' = "none"
       ELSE UNCHANGED pc
    /\ UNCHANGED <<visible, state, audited, result, run, cancel, way, work, link, audit,
                   late, ended, cuts, dropped>>

(* Mutant of AuditOutcome, which follows it: the flag not set.              *)
AuditEachFrame ==
    /\ visible /\ at = "joined"
    /\ at' = "audited"
    /\ IF state \in Terminal /\ ~audited
       THEN Log(state, run) /\ UNCHANGED audited
       ELSE audited' = (audited /\ state # "idle") /\ UNCHANGED audit
    /\ UNCHANGED <<visible, state, result, run, cancel, thread, late, ended, cuts, dropped>>

(* Then: an outcome is logged once.                                         *)
AuditOutcome ==
    /\ visible /\ at = "joined"
    /\ at' = "audited"
    /\ IF state \in Terminal /\ ~audited
       THEN Log(state, run) /\ audited' = TRUE
       ELSE audited' = (audited /\ state # "idle") /\ UNCHANGED audit
    /\ UNCHANGED <<visible, state, result, run, cancel, thread, late, ended, cuts, dropped>>

(* Then a button, or none; the next frame follows.                          *)
Pressed == visible /\ at = "audited"

(* Read: the entry, then the thread.                                        *)
Read ==
    /\ Pressed /\ state = "idle" /\ run < MaxRuns
    /\ state' = "running" /\ audited' = FALSE /\ result' = <<>> /\ run' = run + 1
    /\ cancel' = FALSE
    /\ Log("started", run + 1)
    /\ way' \in Ways /\ pc' = "open" /\ work' = Fresh /\ link' = Closed /\ late' = FALSE
    /\ UNCHANGED <<at, visible, ended, cuts, dropped>>

CancelRead ==
    /\ Pressed /\ state = "running"
    /\ cancel' = TRUE
    /\ UNCHANGED <<at, visible, state, audited, result, run, thread, audit, late, ended, cuts, dropped>>

(* Save, Discard, Back, and Cancel on the form.  The buttons of an outcome  *)
(* are on the screen since an earlier frame, which logged it.               *)
Dismiss ==
    /\ Pressed /\ state # "running" /\ (state \in Terminal => audited)
    /\ state' = "idle" /\ visible' = FALSE /\ at' = "shown"
    /\ result' = IF state = "done" THEN <<>> ELSE result
    /\ UNCHANGED <<audited, run, cancel, thread, audit, late, ended, cuts, dropped>>

Unlogged == state \in Terminal /\ ~audited

(* Ctrl+K opens the palette in the modal's place, whatever it is doing; the *)
(* menu, or the palette, opens it again, on the form.                       *)
HideModal ==
    /\ Pressed
    /\ visible' = FALSE /\ at' = "shown"
    /\ UNCHANGED <<state, audited, result, run, cancel, thread, audit, late, ended, cuts, dropped>>

OpenModal ==
    /\ ~visible
    /\ visible' = TRUE /\ state' = "idle" /\ result' = <<>>
    /\ dropped' = IF Unlogged THEN dropped \cup {run} ELSE dropped
    /\ UNCHANGED <<at, audited, run, cancel, thread, audit, late, ended, cuts>>

-----------------------------------------------------------------------------
(* The thread writes the result, then the state, closes its link and is     *)
(* over.                                                                    *)
End(outcome) ==
    /\ pc' = "ended" /\ state' = outcome
    /\ result' = IF outcome = "done" THEN work.out ELSE result
    /\ ended' = Append(ended, outcome)
    /\ work' = Fresh /\ link' = Closed /\ late' = (link.late /\ outcome = "done")
    /\ UNCHANGED <<at, visible, audited, run, cancel>>

Goes(to, w, l) == pc' = to /\ work' = w /\ link' = l /\ UNCHANGED <<modal, late, ended>>

(* Opening the adapter and the session, and the key exchange.               *)
OpenLink ==
    /\ pc = "open"
    /\ \/ End("failed")
       \/ Goes(IF way.protocol = "uds" /\ MaxChunk > Floor THEN "probe" ELSE "top", work, link)
    /\ UNCHANGED <<way, audit, cuts, dropped>>

(* Mutant of NextSize: the last chunk as long as the others.                *)
NextSizeWhole == work.chunk

NextSize ==
    IF Total - Len(work.out) < work.chunk THEN Total - Len(work.out) ELSE work.chunk

(* The top of the loop: all of it read, cancelled, or another chunk.        *)
LoopTop ==
    /\ pc = "top"
    /\ IF Len(work.out) >= Total THEN End("done")
       ELSE IF cancel THEN End("cancelled")
       ELSE Goes("send", work, link)
    /\ UNCHANGED <<way, audit, cuts, dropped>>

Aged(frames) == [i \in DOMAIN frames |-> [frames[i] EXCEPT !.old = TRUE]]

Overdue == {[request EXCEPT !.old = TRUE] : request \in link.owed}

Frame(kind, request) ==
    [kind |-> kind, from |-> request.from, size |-> request.size, old |-> request.old]

(* The request goes out, and the adapter acknowledges it behind what it has *)
(* already sent.                                                            *)
Send ==
    /\ pc \in {"probe", "send"}
    /\ LET probe   == pc = "probe"
           request == [from |-> IF probe THEN 0 ELSE Len(work.out),
                       size |-> IF probe THEN work.chunk ELSE NextSize, old |-> FALSE]
       IN  Goes("ack",
                [work EXCEPT !.size = request.size, !.probe = probe],
                [link EXCEPT !.stream = Append(Aged(@), Frame("ack", request)),
                             !.owed = Overdue \cup {request},
                             !.late = @ \/ \E f \in ToSet(link.stream) : f.kind # "ack"])
    /\ UNCHANGED <<way, audit, cuts, dropped>>

(* The ECU answers a request, or refuses it.                                *)
Codes == {"size", "range", "other"}

EcuAnswers ==
    /\ pc \in {"ack", "answer"}
    /\ \E request \in link.owed, kind \in {"data"} \cup Codes :
         /\ link' = [link EXCEPT !.stream = Append(@, Frame(kind, request)),
                                !.owed = @ \ {request}, !.late = @ \/ request.old]
    /\ UNCHANGED <<modal, pc, way, work, audit, late, ended, cuts, dropped>>

(* Mutant of Own: the sequence number not looked at.                        *)
OwnAny(frame) == TRUE

Own(frame) == way.adapter = "native" => ~frame.old

Halved == [work EXCEPT !.chunk = IF @ \div 2 < Floor THEN Floor ELSE @ \div 2, !.retry = FALSE]

Dumping == way.protocol = "uds" /\ ~work.probe

(* Mutant of Fails: a persistent timeout tried for ever.                    *)
FailsNever(why, l) ==
    IF way.protocol = "uds" /\ why = "timeout"
    THEN Goes(IF work.probe THEN "probe" ELSE "send", work, l)
    ELSE End("failed")

(* An exchange that failed: the probe's ladder; the loop's one repetition   *)
(* of a chunk that timed out, its one halving, and the end of the range.    *)
Fails(why, l) ==
    IF way.protocol = "uds" /\ work.probe /\ why # "other" /\ work.chunk > Floor
    THEN Goes("probe", Halved, l)
    ELSE IF Dumping /\ why = "timeout" /\ ~work.retry
    THEN Goes("send", [work EXCEPT !.retry = TRUE], l)
    ELSE IF Dumping /\ (work.retry \/ why = "size") /\ ~work.halved /\ work.chunk > Floor
    THEN Goes("top", [Halved EXCEPT !.halved = TRUE], l)
    ELSE IF Dumping /\ why = "range" /\ ~work.retry /\ Len(work.out) > Total \div 2
    THEN End("done")
    ELSE End("failed")

(* dvi_exchange takes any frame for the acknowledgement, request_response   *)
(* its own.                                                                 *)
Rest == [link EXCEPT !.stream = Tail(@)]

TakeAck ==
    /\ pc = "ack" /\ link.stream # <<>>
    /\ LET frame == Head(link.stream)
       IN  IF Own(frame) /\ (way.adapter = "native" => frame.kind = "ack")
           THEN Goes("answer", work, Rest)
           ELSE Fails("other", Rest)
    /\ UNCHANGED <<way, audit, cuts, dropped>>

(* The answer: the bytes, if they are as many as asked for (the probe does  *)
(* not look); a refusal; or a frame that is no answer.                      *)
Bytes(frame) == [i \in 1 .. frame.size |-> frame.from + i - 1]

TakeAnswer ==
    /\ pc = "answer" /\ link.stream # <<>>
    /\ LET frame == Head(link.stream)
           data  == Own(frame) /\ frame.kind = "data"
       IN  \/ data /\ work.probe /\ Goes("top", work, Rest)
           \/ /\ data /\ ~work.probe /\ frame.size = work.size
              /\ Goes("top", [work EXCEPT !.out = @ \o Bytes(frame), !.retry = FALSE], Rest)
           \/ data /\ ~work.probe /\ frame.size # work.size /\ End("failed")
           \/ Own(frame) /\ frame.kind \in Codes /\ Fails(frame.kind, Rest)
           \/ (~Own(frame) \/ frame.kind = "ack") /\ Fails("other", Rest)
    /\ UNCHANGED <<way, audit, cuts, dropped>>

(* Nothing came in time.  The ECU dropped the request, or answers later.    *)
TimeOut ==
    /\ pc = "answer" /\ link.stream = <<>>
    /\ \/ Fails("timeout", [link EXCEPT !.owed = {r \in @ : r.old}])
       \/ /\ link.gaveUp < MaxLate
          /\ Fails("timeout", [link EXCEPT !.owed = Overdue, !.gaveUp = @ + 1])
    /\ UNCHANGED <<way, audit, cuts, dropped>>

-----------------------------------------------------------------------------
(* The program dies.  An append may be cut: the file has part of the line.  *)
Crash ==
    /\ \/ UNCHANGED <<file, torn, cuts>>
       \/ /\ ~torn /\ run > 0 /\ cuts < MaxTorn
          /\ file' = Append(file, Junk) /\ torn' = TRUE /\ cuts' = cuts + 1
    /\ at' = "shown" /\ visible' = FALSE /\ state' = "idle" /\ audited' = FALSE
    /\ result' = <<>> /\ cancel' = FALSE /\ pc' = "none" /\ work' = Fresh /\ link' = Closed
    /\ ended' = IF Len(ended) < run THEN Append(ended, "crashed")
                ELSE IF Unlogged THEN [ended EXCEPT ![run] = "crashed"] ELSE ended
    /\ late' = FALSE /\ way' = Chosen
    /\ UNCHANGED <<run, told, dropped>>

Interface == JoinThread \/ AuditOutcome

Thread == OpenLink \/ LoopTop \/ Send \/ TakeAck \/ TakeAnswer \/ TimeOut

Next ==
    \/ JoinThread \/ AuditOutcome \/ Read \/ CancelRead \/ Dismiss
    \/ HideModal \/ OpenModal
    \/ OpenLink \/ LoopTop \/ Send \/ TakeAck \/ TakeAnswer \/ TimeOut
    \/ EcuAnswers \/ Crash

(* Frames are drawn and the thread runs, its waits bounded by the timeout.  *)
Spec == Init /\ [][Next]_vars /\ WF_vars(Interface) /\ WF_vars(Thread)

-----------------------------------------------------------------------------
Bounded == 0 .. Total - 1          \* addresses of the image
Kinds == {"ack", "data"} \cup Codes
Outcomes == Terminal \cup {"crashed"}

Works == [out : Seq(Bounded), chunk : Floor .. MaxChunk, retry : BOOLEAN,
          halved : BOOLEAN, size : 0 .. MaxChunk, probe : BOOLEAN]

Requests == [from : Bounded, size : 1 .. MaxChunk, old : BOOLEAN]

Frames == [kind : Kinds, from : Bounded, size : 1 .. MaxChunk, old : BOOLEAN]

Links == [stream : Seq(Frames), owed : SUBSET Requests, gaveUp : 0 .. MaxLate,
          late : BOOLEAN]

Entries == [kind : {"started"} \cup Terminal, run : 1 .. MaxRuns]

(* The state has its type: no byte beyond the image is read or kept.        *)
TypeOK ==
    /\ at \in {"shown", "joined", "audited"} /\ visible \in BOOLEAN
    /\ state \in {"idle", "running"} \cup Terminal
    /\ audited \in BOOLEAN /\ cancel \in BOOLEAN /\ run \in 0 .. MaxRuns
    /\ pc \in {"none", "open", "probe", "top", "send", "ack", "answer", "ended"}
    /\ way \in Ways /\ work \in Works /\ link \in Links
    /\ result \in Seq(Bounded)
    /\ Len(work.out) <= Total /\ Len(result) <= Total
    /\ late \in BOOLEAN /\ torn \in BOOLEAN /\ cuts \in 0 .. MaxTorn
    /\ file \in Seq(Entries \cup {Junk}) /\ told \subseteq Entries
    /\ ended \in Seq(Outcomes) /\ dropped \subseteq 0 .. MaxRuns

(* A read that says it is done holds the ECU's bytes, each at its address,  *)
(* and at least half of them.  On an OBDX adapter that is so only when no   *)
(* answer came after its request was given up: one may be taken for the     *)
(* answer to a later chunk.                                                 *)
ImageFaithful ==
    state = "done" /\ (way.adapter = "native" \/ ~late) =>
        /\ \A i \in DOMAIN result : result[i] = i - 1
        /\ 2 * Len(result) >= Total

(* The audit log has no entry twice and an outcome is the one the read had. *)
(* An append cut by a crash costs the entry appended next, and nothing else *)
(* is lost of what was appended.  The outcome of every read the program     *)
(* lived to see is appended, unless the menu put the modal back to its form *)
(* before a frame saw it; the last read's may still be to come.  No read is *)
(* started over the thread of another.                                      *)
AuditTellsTheRead ==
    /\ \A i, j \in DOMAIN file : i # j /\ file[i] # Junk => file[i] # file[j]
    /\ \A entry \in told : entry.kind # "started" => entry.kind = ended[entry.run]
    /\ Cardinality(told \ ToSet(file)) = (IF torn THEN cuts - 1 ELSE cuts)
    /\ \A r \in DOMAIN ended : ended[r] \in Terminal =>
          \/ [kind |-> ended[r], run |-> r] \in told
          \/ r \in dropped
          \/ r = run /\ state = ended[r] /\ ~audited
    /\ visible /\ at = "audited" /\ state = "idle" => pc = "none"

(* audit.hpp: "append() flushes after each write so a crash mid-session     *)
(* loses at most the in-flight entry"; read_rom.cpp, of the outcome entry:  *)
(* "Fires once per Done / Failed / Cancelled transition."  So every entry   *)
(* appended is in the file, and no outcome is left out.  The code keeps     *)
(* neither: an append after a cut one is glued to it, and the menu puts the *)
(* modal back to its form whatever outcome it had.                          *)
AuditLosesNothing == told \subseteq ToSet(file) /\ dropped = {}

(* Every read ends, whatever the ECU answers and when.                      *)
ReadEnds == pc = "open" ~> pc \in {"ended", "none"}
=============================================================================
