------------------------------ MODULE FlashJob ------------------------------
(***************************************************************************)
(* What Flasher::execute promises its caller, with no wire, no journal and  *)
(* no options: a job has a set of sectors to rewrite, takes them one at a   *)
(* time, damages no sector but the one it is on, leaves that one only when  *)
(* it is rewritten, and is done only when none is left.  It may give up at  *)
(* any time.                                                                *)
(***************************************************************************)
CONSTANTS Sectors, NoSector

VARIABLES
    phase,    \* "rest", "busy", "done" or "failed"
    pending,  \* sectors the job still has to rewrite
    target,   \* the one it is on, or NoSector
    content   \* each sector's content: "old", "broken" or "rewritten"

vars == <<phase, pending, target, content>>

Init ==
    /\ phase = "rest" /\ pending = {} /\ target = NoSector
    /\ content = [s \in Sectors |-> "old"]

Begin ==
    /\ phase # "busy"
    /\ phase' = "busy"
    /\ pending' \in SUBSET Sectors
    /\ UNCHANGED <<target, content>>

(* A job refused before it began, or a finished one put away. *)
Settle ==
    /\ phase # "busy"
    /\ phase' \in {"failed", "rest"}
    /\ UNCHANGED <<pending, target, content>>

Choose ==
    /\ phase = "busy" /\ target = NoSector
    /\ target' \in pending
    /\ UNCHANGED <<phase, pending, content>>

Damage ==
    /\ phase = "busy" /\ target # NoSector
    /\ content' = [content EXCEPT ![target] = "broken"]
    /\ UNCHANGED <<phase, pending, target>>

Rewrite ==
    /\ phase = "busy" /\ target # NoSector
    /\ content[target] = "broken"
    /\ content' = [content EXCEPT ![target] = "rewritten"]
    /\ UNCHANGED <<phase, pending, target>>

Close ==
    /\ phase = "busy" /\ target # NoSector
    /\ content[target] = "rewritten"
    /\ pending' = pending \ {target} /\ target' = NoSector
    /\ UNCHANGED <<phase, content>>

Succeed ==
    /\ phase = "busy" /\ pending = {}
    /\ phase' = "done"
    /\ UNCHANGED <<pending, target, content>>

Abort ==
    /\ phase = "busy"
    /\ phase' = "failed" /\ pending' = {} /\ target' = NoSector
    /\ UNCHANGED content

Next == Begin \/ Settle \/ Choose \/ Damage \/ Rewrite \/ Close \/ Succeed \/ Abort

Spec == Init /\ [][Next]_vars
=============================================================================
