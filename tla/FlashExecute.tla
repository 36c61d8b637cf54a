---------------------------- MODULE FlashExecute ----------------------------
(***************************************************************************)
(* st::flash::Flasher::execute: one flash of an ECU, driven over UDS by a   *)
(* worker thread, with the cancel flag another thread may raise, the        *)
(* journal it keeps on disk, a host crash between any two of its steps, and *)
(* the operator's answer to one: run the plan again, or run what            *)
(* plan_resume makes of the plan and the journal.                           *)
(*                                                                          *)
(* Every request/response exchange with the ECU is one step.  UdsClient     *)
(* sends each request once, so an exchange has three outcomes: the ECU did  *)
(* it and its answer arrived; the ECU did it and the answer was lost or     *)
(* late; the ECU did nothing (negative response, or the request was lost).  *)
(* The caller sees the last two alike, as an error.                         *)
(***************************************************************************)
EXTENDS Integers, Sequences

CONSTANTS
    Sectors,         \* the sectors of the ECU's flash
    NoSector,        \* "no sector": no download open, no integrity sector
    Plan,            \* the sectors of FlashPlan::writes, in plan order
    Blocks,          \* TransferData blocks that make up one sector
    CounterMod,      \* block sequence counters are 0 .. CounterMod - 1 (256)
    Options,         \* the option combinations a plan may carry
    Integrity,       \* candidate sectors holding integrity_check_offset
    SharedJournal,   \* TRUE: every run journals to the same path
    MaxRuns          \* bound on the calls to execute

SeqRange(s) == {s[i] : i \in 1 .. Len(s)}

OptionType == [silence : BOOLEAN,     \* silence_bus
               dry : BOOLEAN,         \* dry_run
               verify : BOOLEAN,      \* verify_after_write
               journaled : BOOLEAN,   \* journal_path is not empty
               wellFormed : BOOLEAN,  \* every data.size() = sector.length > 0
               bulk : BOOLEAN,        \* data_format = 0x04: 0xB6, not 0x36
               armed : BOOLEAN]       \* bulk path built in and armed

ASSUME ConstantAssumption ==
    /\ NoSector \notin Sectors
    /\ Plan \in Seq(Sectors)
    /\ \A i, j \in 1 .. Len(Plan) : Plan[i] = Plan[j] => i = j
    /\ Blocks \in Nat \ {0}
    /\ CounterMod \in Nat \ {0, 1}
    /\ Options \subseteq OptionType
    /\ Integrity \subseteq Sectors \cup {NoSector}
    /\ SharedJournal \in BOOLEAN
    /\ MaxRuns \in Nat

VARIABLES
    pc,         \* where the worker stands in execute
    resumeAt,   \* where it goes once the outcome is committed
    opts,       \* the plan's options
    integrity,  \* the sector of integrity_check_offset, or NoSector
    plan,       \* plan.writes of the current call
    todo,       \* the rest of writes_ordered, current sector first
    report,     \* FlashReport
    outcome,    \* SectorOutcome of the current sector
    sent,       \* blocks of the current sector the ECU acknowledged
    counter,    \* the block sequence counter
    error,      \* ExecuteOutcome::error
    cancel,     \* the atomic cancel flag
    journal,    \* the file at journal_path
    audit,      \* what this call appended to the audit log
    runs,       \* calls to execute so far
    ecu,        \* the ECU
    lastPdu,    \* the last request put on the wire
    late        \* erases and blocks sent since cancel was raised

hostVars == <<pc, resumeAt, todo, report, outcome, sent, counter, error, audit>>
jobVars  == <<opts, integrity, plan, runs>>
vars == <<hostVars, jobVars, cancel, journal, ecu, lastPdu, late>>

-----------------------------------------------------------------------------
(* Data.                                                                    *)

NoError   == "none"
Cancelled == "Cancelled"

Blank(s) == [sector |-> s, erased |-> FALSE, downloaded |-> FALSE,
             transferred |-> FALSE, exited |-> FALSE, checked |-> FALSE,
             verified |-> TRUE]

EmptyReport == [entered |-> FALSE, silenced |-> FALSE, restored |-> FALSE,
                sectors |-> <<>>]

NoDownload == [sector |-> NoSector, expect |-> 1, got |-> 0]

NoJournal   == [state |-> "none", entries |-> <<>>]
TornJournal == [state |-> "torn", entries |-> <<>>]

Contents == {"old", "erased", "partial", "spoilt", "garbled", "new"}
Rewritten == {"new", "garbled"}

Stopped == {"idle", "returned", "crashed"}
Running == pc \notin Stopped

(* all_sectors_completed, for one outcome *)
Completed(o) == o.erased /\ o.downloaded /\ o.transferred /\ o.exited /\ o.checked

(* Mutant of Ordered: plan order, whatever the integrity offset.            *)
Unordered(p) == p

(* writes_ordered: the sector that holds the integrity check is rotated to  *)
(* the end of the plan.                                                     *)
Ordered(p) ==
    IF integrity \in SeqRange(p)
    THEN LET k == CHOOSE k \in 1 .. Len(p) : p[k] = integrity
         IN  [i \in 1 .. Len(p) |-> IF i < k THEN p[i]
                                    ELSE IF i < Len(p) THEN p[i + 1] ELSE p[k]]
    ELSE p

(* build_manifest: entries pair the writes of the plan with the outcomes of *)
(* the report by position.                                                  *)
Manifest(p, outcomes) ==
    LET n == IF Len(p) < Len(outcomes) THEN Len(p) ELSE Len(outcomes)
    IN  [i \in 1 .. n |-> [sector |-> p[i],
                           transferred |-> outcomes[i].transferred,
                           verified |-> outcomes[i].verified]]

(* What read_manifest makes of the text of a manifest cut short: the first  *)
(* entries, and of the last of them perhaps not verified, or neither flag,  *)
(* which read as false.  A text cut inside a value or before schema_version *)
(* is refused, there or by plan_resume: TornJournal.                        *)
CutAt(m, n, flags) ==
    [i \in 1 .. n |-> IF i < n THEN m[i]
                      ELSE [m[i] EXCEPT !.transferred = @ /\ flags >= 1,
                                        !.verified = @ /\ flags = 2]]

Cut(m) == {CutAt(m, n, flags) : n \in 0 .. Len(m), flags \in 0 .. 2}

(* plan_resume: refused when the journal cannot be of this plan, else the   *)
(* plan without the sectors the journal calls transferred and verified.     *)
JournalFits(p, entries) ==
    /\ Len(entries) <= Len(p)
    /\ \A i \in 1 .. Len(entries) : entries[i].sector = p[i]

(* Mutant of Done: "or" for "and".                                          *)
DoneOnEither(entries) ==
    {entries[i].sector : i \in {k \in 1 .. Len(entries) :
                                  entries[k].transferred \/ entries[k].verified}}

Done(entries) ==
    {entries[i].sector : i \in {k \in 1 .. Len(entries) :
                                  entries[k].transferred /\ entries[k].verified}}

Remaining(p, entries) ==
    LET kept[i \in 0 .. Len(p)] ==
            IF i = 0 THEN <<>>
            ELSE IF p[i] \in Done(entries) THEN kept[i - 1]
            ELSE Append(kept[i - 1], p[i])
    IN  kept[Len(p)]

-----------------------------------------------------------------------------
(* The ECU.  It answers a request it accepts by doing it; the answer may be *)
(* lost.  Anything else leaves it as it was.                                *)

Answers(accepted, effects) ==
    [ecu : IF accepted THEN effects ELSE {}, ok : BOOLEAN]
        \cup {[ecu |-> ecu, ok |-> FALSE]}

Programming == ecu.session = "programming"

SessionAnswers(s) ==
    Answers(TRUE, {[ecu EXCEPT !.session = s, !.dl = NoDownload]})

CommControlAnswers(mute) ==
    Answers(Programming, {[ecu EXCEPT !.muted = mute]})

EraseAnswers(s) ==
    Answers(Programming /\ ecu.dl = NoDownload,
            {[ecu EXCEPT !.flash[s] = "erased"]})

DownloadAnswers(s) ==
    Answers(Programming /\ ecu.dl = NoDownload,
            {[ecu EXCEPT !.dl = [sector |-> s, expect |-> 1, got |-> 0]]})

(* A block is programmed as sent, or the cells do not take it; a sector with *)
(* every block is "new" or "garbled", one with fewer "partial" or "spoilt". *)
(* 0xB6 names its address and carries no counter.                           *)
Programmed(s, got) ==
    LET clean == ecu.flash[s] \notin {"spoilt", "garbled"}
    IN  IF got = Blocks THEN {"garbled"} \cup (IF clean THEN {"new"} ELSE {})
                        ELSE {"spoilt"} \cup (IF clean THEN {"partial"} ELSE {})

TransferAnswers(c) ==
    LET s   == ecu.dl.sector
        got == ecu.dl.got + 1
    IN  Answers(/\ Programming
                /\ s # NoSector
                /\ got <= Blocks
                /\ opts.bulk \/ c = ecu.dl.expect,
                {[ecu EXCEPT !.flash[s] = content,
                             !.dl = [sector |-> s, got |-> got,
                                     expect |-> (ecu.dl.expect + 1) % CounterMod]] :
                    content \in IF s = NoSector THEN {} ELSE Programmed(s, got)})

TransferExitAnswers ==
    Answers(Programming /\ ecu.dl # NoDownload, {[ecu EXCEPT !.dl = NoDownload]})

CheckAnswers == Answers(Programming, {ecu})

(* Power cycle or session timeout: back to the default session, the         *)
(* download forgotten, the bus unmuted, the flash as it is.                 *)
EcuReset ==
    /\ Programming \/ ecu.muted
    /\ ecu' = [ecu EXCEPT !.session = "default", !.dl = NoDownload, !.muted = FALSE]
    /\ UNCHANGED <<hostVars, jobVars, cancel, journal, lastPdu, late>>

-----------------------------------------------------------------------------
(* Control flow of execute.                                                 *)

Init ==
    /\ pc = "idle" /\ resumeAt = "boundary"
    /\ opts \in Options /\ integrity \in Integrity
    /\ plan = Plan /\ todo = <<>>
    /\ report = EmptyReport /\ outcome = Blank(NoSector)
    /\ sent = 0 /\ counter = 1 /\ error = NoError
    /\ cancel = FALSE /\ journal = NoJournal /\ audit = <<>> /\ runs = 0
    /\ ecu = [session |-> "default", muted |-> FALSE, dl |-> NoDownload,
              flash |-> [s \in Sectors |-> "old"]]
    /\ lastPdu = "none" /\ late = 0

(* is_cancelled, and a mutant that never looks at the flag.                 *)
NeverCancelled == FALSE
IsCancelled == cancel

(* The operator calls execute; a malformed plan is refused before anything  *)
(* is sent.                                                                 *)
Start ==
    /\ pc \in Stopped
    /\ runs < MaxRuns
    /\ runs' = runs + 1
    /\ IF opts.wellFormed
       THEN /\ pc' = "session" /\ error' = NoError
            /\ audit' = <<"FlashStarted">>
       ELSE /\ pc' = "returned" /\ error' = "InvalidArgument"
            /\ audit' = <<"FlashStarted", "FlashFailed">>
    /\ todo' = Ordered(plan)
    /\ report' = EmptyReport /\ outcome' = Blank(NoSector)
    /\ sent' = 0 /\ counter' = 1 /\ resumeAt' = "boundary"
    /\ cancel' = FALSE /\ late' = 0
    /\ journal' = IF SharedJournal THEN journal ELSE NoJournal
    /\ UNCHANGED <<opts, integrity, plan, ecu, lastPdu>>

(* One exchange: the ECU becomes what the answer says.                      *)
Exchange(pdu, answer) ==
    /\ ecu' = answer.ecu
    /\ lastPdu' = pdu
    /\ UNCHANGED <<jobVars, cancel, journal>>

(* Mutant of SectorFailed: go on with the next sector.                      *)
SectorSkipped(o, code) ==
    /\ pc' = "commit" /\ resumeAt' = "boundary"
    /\ outcome' = o
    /\ UNCHANGED <<todo, report, sent, counter, error, audit>>

(* An exchange of a sector's sequence failed: the outcome so far is         *)
(* committed, then execute bails out.                                       *)
SectorFailed(o, code) ==
    /\ pc' = "commit" /\ resumeAt' = "bail"
    /\ outcome' = o /\ error' = code
    /\ UNCHANGED <<todo, report, sent, counter, audit>>

EnterSession ==
    /\ pc = "session"
    /\ \E a \in SessionAnswers("programming") :
         /\ Exchange("programmingSession", a)
         /\ IF a.ok
            THEN /\ report' = [report EXCEPT !.entered = TRUE]
                 /\ pc' = IF opts.silence THEN "silence" ELSE "boundary"
                 /\ UNCHANGED error
            ELSE pc' = "bail" /\ error' = "EcuError" /\ UNCHANGED report
    /\ UNCHANGED <<resumeAt, todo, outcome, sent, counter, audit, late>>

SilenceBus ==
    /\ pc = "silence"
    /\ \E a \in CommControlAnswers(TRUE) :
         /\ Exchange("communicationOff", a)
         /\ IF a.ok
            THEN /\ report' = [report EXCEPT !.silenced = TRUE]
                 /\ pc' = "boundary" /\ UNCHANGED error
            ELSE pc' = "bail" /\ error' = "EcuError" /\ UNCHANGED report
    /\ UNCHANGED <<resumeAt, todo, outcome, sent, counter, audit, late>>

(* Sector boundary of a dry run: an outcome per sector, nothing sent, and   *)
(* the cancel flag not looked at.                                           *)
DrySector ==
    /\ pc = "boundary" /\ todo # <<>> /\ opts.dry
    /\ outcome' = Blank(Head(todo))
    /\ pc' = "commit" /\ resumeAt' = "boundary"
    /\ UNCHANGED <<todo, report, sent, counter, error, audit,
                   jobVars, cancel, journal, ecu, lastPdu, late>>

(* Mutant of BeginSector: dry_run not looked at.                            *)
BeginSectorAnyway ==
    /\ pc = "boundary" /\ todo # <<>>
    /\ ~IsCancelled
    /\ outcome' = Blank(Head(todo))
    /\ sent' = 0 /\ counter' = 1
    /\ pc' = "erase"
    /\ UNCHANGED <<resumeAt, todo, report, error, audit,
                   jobVars, cancel, journal, ecu, lastPdu, late>>

BeginSector ==
    /\ pc = "boundary" /\ todo # <<>> /\ ~opts.dry
    /\ ~IsCancelled
    /\ outcome' = Blank(Head(todo))
    /\ sent' = 0 /\ counter' = 1
    /\ pc' = "erase"
    /\ UNCHANGED <<resumeAt, todo, report, error, audit,
                   jobVars, cancel, journal, ecu, lastPdu, late>>

CancelBetweenSectors ==
    /\ pc = "boundary" /\ todo # <<>> /\ ~opts.dry
    /\ IsCancelled
    /\ error' = Cancelled /\ pc' = "cancelRestore"
    /\ UNCHANGED <<resumeAt, todo, report, outcome, sent, counter, audit,
                   jobVars, cancel, journal, ecu, lastPdu, late>>

Erase ==
    /\ pc = "erase"
    /\ \E a \in EraseAnswers(outcome.sector) :
         /\ Exchange("erase", a)
         /\ IF a.ok
            THEN /\ outcome' = [outcome EXCEPT !.erased = TRUE]
                 /\ pc' = "download"
                 /\ UNCHANGED <<resumeAt, todo, report, sent, counter, error, audit>>
            ELSE SectorFailed(outcome, "EcuError")
    /\ late' = IF cancel THEN late + 1 ELSE late

(* RequestDownload; an answer that leaves no room for a payload is an error *)
(* of its own.                                                              *)
Download ==
    /\ pc = "download"
    /\ \E a \in DownloadAnswers(outcome.sector) :
         /\ Exchange("download", a)
         /\ LET opened == [outcome EXCEPT !.downloaded = TRUE]
            IN  IF a.ok
                THEN \/ /\ outcome' = opened /\ pc' = "block"
                        /\ UNCHANGED <<resumeAt, todo, report, sent, counter,
                                       error, audit>>
                     \/ SectorFailed(opened, "EcuRejected")
                ELSE SectorFailed(outcome, "EcuError")
    /\ UNCHANGED late

(* Top of the TransferData loop.                                            *)
NextBlock ==
    /\ pc = "block"
    /\ \/ /\ sent = Blocks
          /\ outcome' = [outcome EXCEPT !.transferred = TRUE]
          /\ pc' = "exit"
          /\ UNCHANGED <<resumeAt, error>>
       \/ /\ sent < Blocks /\ ~IsCancelled
          /\ opts.bulk => opts.armed
          /\ pc' = "transfer"
          /\ UNCHANGED <<resumeAt, outcome, error>>
    /\ UNCHANGED <<todo, report, sent, counter, audit,
                   jobVars, cancel, journal, ecu, lastPdu, late>>

CancelMidSector ==
    /\ pc = "block" /\ sent < Blocks
    /\ IsCancelled
    /\ error' = Cancelled
    /\ pc' = "commit" /\ resumeAt' = "cancelExit"
    /\ UNCHANGED <<todo, report, outcome, sent, counter, audit,
                   jobVars, cancel, journal, ecu, lastPdu, late>>

BulkRefused ==
    /\ pc = "block" /\ sent < Blocks /\ ~IsCancelled
    /\ opts.bulk /\ ~opts.armed
    /\ SectorFailed(outcome, "PolicyDenied")
    /\ UNCHANGED <<jobVars, cancel, journal, ecu, lastPdu, late>>

(* The 8-bit block sequence counter, and a mutant that does not wrap.       *)
UnboundedCounter(c) == c + 1
NextCounter(c) == (c + 1) % CounterMod

Transfer ==
    /\ pc = "transfer"
    /\ \E a \in TransferAnswers(counter) :
         /\ Exchange("transfer", a)
         /\ IF a.ok
            THEN /\ sent' = sent + 1
                 /\ counter' = IF opts.bulk THEN counter
                               ELSE NextCounter(counter)
                 /\ pc' = "block"
                 /\ UNCHANGED <<resumeAt, todo, report, outcome, error, audit>>
            ELSE SectorFailed(outcome, "EcuError")
    /\ late' = IF cancel THEN late + 1 ELSE late

TransferExit ==
    /\ pc = "exit"
    /\ \E a \in TransferExitAnswers :
         /\ Exchange("transferExit", a)
         /\ IF a.ok
            THEN /\ outcome' = [outcome EXCEPT !.exited = TRUE]
                 /\ pc' = "check"
                 /\ UNCHANGED <<resumeAt, todo, report, sent, counter, error, audit>>
            ELSE SectorFailed(outcome, "EcuError")
    /\ UNCHANGED late

CheckDependencies ==
    /\ pc = "check"
    /\ \E a \in CheckAnswers :
         /\ Exchange("check", a)
         /\ IF a.ok
            THEN /\ outcome' = [outcome EXCEPT !.checked = TRUE]
                 /\ pc' = IF opts.verify THEN "verify" ELSE "commit"
                 /\ resumeAt' = "boundary"
                 /\ UNCHANGED <<todo, report, sent, counter, error, audit>>
            ELSE SectorFailed(outcome, "EcuError")
    /\ UNCHANGED late

(* What a read-back that is no error says of the sector: whether the bytes  *)
(* are the plan's, or FALSE when the read ended short.  The mutant compares *)
(* nothing.                                                                 *)
ReadBackUncompared == {TRUE, FALSE}
ReadBack == {ecu.flash[outcome.sector] = "new", FALSE}

Verify ==
    /\ pc = "verify"
    /\ Exchange("read", [ecu |-> ecu, ok |-> TRUE])
    /\ \/ /\ \E same \in ReadBack :
               outcome' = [outcome EXCEPT !.verified = same]
          /\ pc' = "commit" /\ resumeAt' = "boundary"
          /\ UNCHANGED <<todo, report, sent, counter, error, audit>>
       \/ SectorFailed([outcome EXCEPT !.verified = FALSE], "EcuError")
    /\ UNCHANGED late

(* Back from commit_outcome.                                                *)
Continue ==
    /\ pc' = resumeAt
    /\ IF resumeAt = "boundary"
       THEN /\ todo' = Tail(todo)
            /\ audit' = IF opts.dry THEN audit
                        ELSE Append(audit, "FlashSectorWritten")
       ELSE UNCHANGED <<todo, audit>>

(* commit_outcome: record the outcome, then open the journal for writing,   *)
(* which empties it.  A journal that cannot be opened stops nothing.        *)
CommitOutcome ==
    /\ pc = "commit"
    /\ report' = [report EXCEPT !.sectors = Append(@, outcome)]
    /\ \/ /\ opts.journaled
          /\ journal' = TornJournal /\ pc' = "journal"
          /\ UNCHANGED <<todo, audit>>
       \/ UNCHANGED journal /\ Continue
    /\ UNCHANGED <<resumeAt, outcome, sent, counter, error,
                   jobVars, cancel, ecu, lastPdu, late>>

(* The text of the manifest reaches the file, or a part of it does: the     *)
(* write fails, or the host dies in it (Crash, next).                       *)
WriteJournal ==
    /\ pc = "journal"
    /\ \/ \E m \in Cut(Manifest(plan, report.sectors)) :
             journal' = [state |-> "whole", entries |-> m]
       \/ journal' = TornJournal
    /\ Continue
    /\ UNCHANGED <<resumeAt, report, outcome, sent, counter, error,
                   jobVars, cancel, ecu, lastPdu, late>>

(* cancel_cleanup: close the download, restore the bus, leave the session;  *)
(* each best effort.                                                        *)
CancelExit ==
    /\ pc = "cancelExit"
    /\ \E a \in TransferExitAnswers : Exchange("transferExit", a)
    /\ pc' = "cancelRestore"
    /\ UNCHANGED <<resumeAt, todo, report, outcome, sent, counter, error, audit, late>>

MustRestore == report.silenced /\ ~report.restored

(* Mutant of RestoreBus: the answer is not looked at.                       *)
RestoreBusUnchecked(mandatory) ==
    IF mandatory
    THEN \E a \in CommControlAnswers(FALSE) :
            /\ Exchange("communicationOn", a)
            /\ report' = [report EXCEPT !.restored = TRUE]
    ELSE UNCHANGED <<report, ecu, lastPdu, jobVars, cancel, journal>>

RestoreBus(mandatory) ==
    IF mandatory
    THEN \E a \in CommControlAnswers(FALSE) :
            /\ Exchange("communicationOn", a)
            /\ report' = [report EXCEPT !.restored = @ \/ a.ok]
    ELSE UNCHANGED <<report, ecu, lastPdu, jobVars, cancel, journal>>

CancelRestore ==
    /\ pc = "cancelRestore"
    /\ RestoreBus(MustRestore)
    /\ pc' = "cancelSession"
    /\ UNCHANGED <<resumeAt, todo, outcome, sent, counter, error, audit, late>>

(* Mutant of CancelSession: the cleanup is repeated until it is answered.   *)
CancelSessionRetried ==
    /\ pc = "cancelSession"
    /\ \E a \in SessionAnswers("default") :
         /\ Exchange("defaultSession", a)
         /\ pc' = IF a.ok THEN "bail" ELSE "cancelRestore"
    /\ UNCHANGED <<resumeAt, todo, report, outcome, sent, counter, error, audit, late>>

CancelSession ==
    /\ pc = "cancelSession"
    /\ \E a \in SessionAnswers("default") : Exchange("defaultSession", a)
    /\ pc' = "bail"
    /\ UNCHANGED <<resumeAt, todo, report, outcome, sent, counter, error, audit, late>>

(* The audit entry bail ends with, and a mutant that does not tell a cancel *)
(* from a failure.                                                          *)
AlwaysFailed == "FlashFailed"
TerminalEntry == IF error = Cancelled THEN "FlashCancelled" ELSE "FlashFailed"

(* bail: restore a bus that is still silenced, log, return the report.      *)
Bail ==
    /\ pc = "bail"
    /\ RestoreBus(MustRestore)
    /\ pc' = "returned"
    /\ audit' = Append(audit, TerminalEntry)
    /\ UNCHANGED <<resumeAt, todo, outcome, sent, counter, error, late>>

(* Every sector done: restore the bus and return without error.             *)
Complete ==
    /\ pc = "boundary" /\ todo = <<>>
    /\ RestoreBus(opts.silence)
    /\ pc' = "returned"
    /\ audit' = Append(audit, "FlashCompleted")
    /\ UNCHANGED <<resumeAt, todo, outcome, sent, counter, error, late>>

-----------------------------------------------------------------------------
(* The other actors.                                                        *)

(* The UI thread raises the cancel flag.                                    *)
RaiseCancel ==
    /\ Running /\ ~cancel
    /\ cancel' = TRUE
    /\ UNCHANGED <<hostVars, jobVars, journal, ecu, lastPdu, late>>

(* The locals of a call that is over.                                       *)
Forget ==
    /\ todo' = <<>> /\ report' = EmptyReport /\ outcome' = Blank(NoSector)
    /\ sent' = 0 /\ counter' = 1 /\ resumeAt' = "boundary" /\ error' = NoError
    /\ cancel' = FALSE /\ late' = 0

(* The host dies; only the files and the ECU outlive it.                    *)
Crash ==
    /\ Running
    /\ pc' = "crashed"
    /\ Forget
    /\ UNCHANGED <<audit, jobVars, journal, ecu, lastPdu>>

(* flash-resume: the operator replaces the plan by what plan_resume leaves  *)
(* of it.  Nothing left means no resumed plan is written.                   *)
Resume ==
    /\ pc \in {"returned", "crashed"}
    /\ journal.state = "whole"
    /\ JournalFits(plan, journal.entries)
    /\ Remaining(plan, journal.entries) # <<>>
    /\ plan' = Remaining(plan, journal.entries)
    /\ pc' = "idle"
    /\ Forget
    /\ UNCHANGED <<audit, opts, integrity, runs, journal, ecu, lastPdu>>

Step == \/ EnterSession \/ SilenceBus
        \/ DrySector \/ BeginSector \/ CancelBetweenSectors
        \/ Erase \/ Download \/ NextBlock \/ CancelMidSector \/ BulkRefused
        \/ Transfer \/ TransferExit \/ CheckDependencies \/ Verify
        \/ CommitOutcome \/ WriteJournal
        \/ CancelExit \/ CancelRestore \/ CancelSession
        \/ Bail \/ Complete

Next == Step \/ Start \/ Resume \/ RaiseCancel \/ Crash \/ EcuReset

Spec == Init /\ [][Next]_vars

(* The worker thread is scheduled and every exchange ends, at the latest    *)
(* with a timeout.                                                          *)
FairSpec == Spec /\ WF_vars(Step)
-----------------------------------------------------------------------------
(* Properties.                                                              *)

PcType == Stopped \cup
    {"session", "silence", "boundary", "erase", "download", "block", "transfer",
     "exit", "check", "verify", "commit", "journal",
     "cancelExit", "cancelRestore", "cancelSession", "bail"}

ErrorType == {NoError, Cancelled, "EcuError", "EcuRejected", "PolicyDenied",
              "InvalidArgument"}

PduType == {"none", "programmingSession", "defaultSession", "communicationOff",
            "communicationOn", "erase", "download", "transfer", "transferExit",
            "check", "read"}

AuditType == {"FlashStarted", "FlashSectorWritten", "FlashCompleted",
              "FlashCancelled", "FlashFailed"}

OutcomeType == [sector : Sectors \cup {NoSector}, erased : BOOLEAN,
                downloaded : BOOLEAN, transferred : BOOLEAN, exited : BOOLEAN,
                checked : BOOLEAN, verified : BOOLEAN]

ReportType == [entered : BOOLEAN, silenced : BOOLEAN, restored : BOOLEAN,
               sectors : Seq(OutcomeType)]

EntryType == [sector : Sectors, transferred : BOOLEAN, verified : BOOLEAN]

JournalType == [state : {"none", "torn", "whole"}, entries : Seq(EntryType)]

EcuType == [session : {"default", "programming"}, muted : BOOLEAN,
            dl : [sector : Sectors \cup {NoSector}, expect : Nat, got : Nat],
            flash : [Sectors -> Contents]]

WorkerOK ==
    /\ pc \in PcType /\ resumeAt \in {"boundary", "bail", "cancelExit"}
    /\ error \in ErrorType /\ cancel \in BOOLEAN
    /\ lastPdu \in PduType /\ late \in Nat

JobOK ==
    /\ opts \in OptionType /\ integrity \in Sectors \cup {NoSector}
    /\ plan \in Seq(Sectors) /\ runs \in Nat

LoopOK == todo \in Seq(Sectors) /\ audit \in Seq(AuditType)

RecordOK ==
    /\ report \in ReportType /\ outcome \in OutcomeType
    /\ sent \in 0 .. Blocks /\ counter \in 0 .. CounterMod - 1

(* The types of the variables. *)
TypeOK ==
    /\ WorkerOK /\ JobOK /\ LoopOK /\ RecordOK
    /\ journal \in JournalType /\ ecu \in EcuType

(* What the report says of a sector is true of the ECU: a sector reported   *)
(* transferred has every block programmed, and one that also passed its     *)
(* read-back holds exactly the plan's bytes, whatever exchanges were lost   *)
(* on the way and whenever the ECU was reset.                               *)
ReportIsTrue ==
    \A i \in 1 .. Len(report.sectors) :
        LET o == report.sectors[i] IN
        /\ o.transferred => ecu.flash[o.sector] \in Rewritten
        /\ opts.verify /\ Completed(o) /\ o.verified => ecu.flash[o.sector] = "new"

(* A call that returns without error has an outcome for every sector of the *)
(* plan, and unless it was a dry run every one of them went through all     *)
(* five exchanges.                                                          *)
SuccessIsComplete ==
    pc = "returned" /\ error = NoError =>
        /\ SeqRange(plan) =
               {report.sectors[i].sector : i \in 1 .. Len(report.sectors)}
        /\ opts.dry \/ \A i \in 1 .. Len(report.sectors) : Completed(report.sectors[i])

(* The plan is flashed in its own order: Ordered rotates nothing.           *)
KeepsPlanOrder == \A i \in 1 .. Len(Plan) - 1 : Plan[i] # integrity

(* Whatever crashes and failures lie between them, a chain of runs in which *)
(* each runs what flash-resume left of the one before, and whose last run   *)
(* succeeds, has programmed every sector of the original plan.  Holds when  *)
(* the plan needs no reordering and every run has a journal of its own.     *)
ResumedChainIsComplete ==
    KeepsPlanOrder /\ pc = "returned" /\ error = NoError /\ ~opts.dry =>
        \A s \in SeqRange(Plan) : ecu.flash[s] \in Rewritten

(* The sector with the boot integrity check is the last to be rewritten:    *)
(* when its last block goes in, every other sector of the plan has all its  *)
(* blocks.  What that sector holds until then is not said here.             *)
IntegritySectorLast ==
    [][ecu.flash # ecu'.flash =>
         \A s \in SeqRange(plan) :
            s = integrity /\ ecu.flash[s] \notin Rewritten /\ ecu'.flash[s] \in Rewritten
            => \A t \in SeqRange(plan) \ {s} : ecu.flash[t] \in Rewritten]_vars

(* A dry run never changes the flash, even when it fails. *)
DryRunKeepsFlash == [][opts.dry => ecu'.flash = ecu.flash]_vars

(* A report that says the bus was restored is right: the ECU listens.       *)
RestoredMeansAudible == report.restored => ~ecu.muted

(* Once cancel is raised at most one more request that writes the flash     *)
(* (an erase or a block) goes out: the one already decided on.              *)
CancelIsPrompt == late <= 1

(* When execute returns, its audit trail has one terminal entry, the one    *)
(* that fits the result, and one FlashSectorWritten per finished sector.    *)
AuditTellsResult ==
    pc = "returned" =>
        LET n == Len(audit) IN
        /\ audit[n] = CASE error = NoError   -> "FlashCompleted"
                        [] error = Cancelled -> "FlashCancelled"
                        [] OTHER             -> "FlashFailed"
        /\ \A i \in 2 .. n - 1 : audit[i] = "FlashSectorWritten"
        /\ error = NoError /\ ~opts.dry => n = Len(report.sectors) + 2
        /\ error = Cancelled =>
              n - 2 = Len(SelectSeq(report.sectors, Completed))

(* Every call of execute ends: it returns, or the host dies. *)
ExecuteEnds == Running ~> ~Running

(* The refinement: to a client a flash is a job that rewrites its sectors   *)
(* one at a time and reports success only when all of them are.             *)
Mid == Running /\ ~opts.dry /\ todo # <<>>
         /\ pc \notin {"session", "silence", "boundary"}

Job == INSTANCE FlashJob WITH
    phase   <- IF Running THEN "busy"
               ELSE IF pc = "idle" THEN "rest"
               ELSE IF pc = "returned" /\ error = NoError THEN "done" ELSE "failed",
    pending <- IF Running /\ ~opts.dry THEN SeqRange(todo) ELSE {},
    target  <- IF Mid THEN Head(todo) ELSE NoSector,
    content <- [s \in Sectors |->
                  IF ecu.flash[s] = "old" THEN "old"
                  ELSE IF ecu.flash[s] \in Rewritten THEN "rewritten" ELSE "broken"]

(* execute implements FlashJob. *)
ImplementsFlashJob == Job!Spec
=============================================================================
