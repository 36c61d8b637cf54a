---------------------------- MODULE FlashClaims ----------------------------
(***************************************************************************)
(* What the repository's comments and documents say of Flasher::execute and *)
(* plan_resume, each as a property of FlashExecute.  The code keeps none of *)
(* these: TLC finds a behaviour that breaks each of them.                   *)
(***************************************************************************)
EXTENDS FlashExecute

(* docs/concepts/brick-protection.md: "Each sector is verified byte-for-byte *)
(* before moving on.  A verify failure halts the flow immediately."         *)
(* execute records a mismatch in the outcome and erases the next sector.    *)
VerifyFailureHalts ==
    pc = "erase" => \A i \in 1 .. Len(report.sectors) : report.sectors[i].verified

(* flash.hpp, journal_path: "if the host process dies mid-flash, the journal *)
(* on disk reflects the last successfully-completed sector."  build_manifest *)
(* pairs outcomes with plan.writes by position although they were recorded  *)
(* in writes_ordered order.  (With SharedJournal the journal of an earlier  *)
(* call, in place until the first outcome, breaks this too.)                *)
JournalNamesFlashedSectors ==
    \A s \in Done(journal.entries) : ecu.flash[s] \in Rewritten

(* flash.hpp, plan_resume: "a new plan containing only the sectors that did *)
(* NOT complete successfully."  An outcome starts with verified = true, so a *)
(* sector whose transfer exit or dependency check failed counts as done.    *)
ResumeKeepsUnfinishedSectors ==
    pc = "returned" /\ journal.state = "whole" =>
        \A i \in 1 .. Len(report.sectors) :
            ~Completed(report.sectors[i]) =>
                report.sectors[i].sector \in SeqRange(Remaining(plan, journal.entries))

(* flash.hpp, integrity_check_offset: "The checksum location stays erased   *)
(* (= invalid) until the very end of the flash", "erase the checksum sector *)
(* first".  execute erases that sector in its turn, the last: until then it *)
(* holds the old, valid contents, so a power loss in the middle of the body *)
(* leaves a broken sector beside a check that the body does not touch.      *)
ChecksumInvalidThroughBody ==
    /\ integrity \in SeqRange(plan)
    /\ \E t \in SeqRange(plan) \ {integrity} :
          ecu.flash[t] \in {"erased", "partial", "spoilt"}
    => ecu.flash[integrity] \in {"erased", "partial", "spoilt"}
=============================================================================
