------------------------------- MODULE EtsWire -------------------------------
(***************************************************************************)
(* The wire of st::devices::ets::Client: one stream of requests out, one    *)
(* stream of reply bytes in, the device between them, and the threads that  *)
(* run exchanges over it (send_packet, then receive_packet_body).           *)
(*                                                                         *)
(* A request is tagged with its task, one call of a verb, and a reply with  *)
(* the request it answers; the code has no such tag on the wire and takes   *)
(* whatever comes next.  A reply comes in two parts, the header and the     *)
(* rest, which are two calls of read_exact with a deadline each.            *)
(***************************************************************************)
EXTENDS Naturals, Sequences

CONSTANTS
    Threads,       \* threads that may run an exchange
    Files,         \* paths of the file vault
    NoFile,
    Tasks,         \* one per call of a verb, in order of submission
    NoTask

ASSUME WireAssumption ==
    /\ NoFile \notin Files /\ NoTask \notin Tasks

VARIABLES
    exec,      \* for each thread its task, what is left of it, and where it is
    warm,      \* session_warmed_up_
    result,    \* what each task's caller is told
    out,       \* requests the device has not handled
    in,        \* parts of replies nobody has read
    sending,   \* the reply whose rest the device has still to send, or NoReply
    vault,     \* the device's files
    durable,   \* the files as a power cycle would find them
    armed,     \* the file the last 0x22 named
    greeted,   \* the device has handled 0x28
    up,        \* the device is there
    lapsed,    \* an exchange has ended without reading its own reply
    acked      \* the file contents whose durability a caller was told of

device == <<vault, durable, armed, greeted>>
wireVars == <<exec, warm, result, out, in, sending, device, up, lapsed,
              acked>>
-----------------------------------------------------------------------------
(* Commands and the scripts of the verbs.                                   *)

(* query_state: commands 0x28, 0x04, 0x03, then 0x2e, 0x30, 0x31.           *)
WarmUp == <<"userInfo", "version", "settings", "hardwareType", "vehicleMaker",
            "apMaker">>

(* The mutant leaves out the 0x05 that follows a write or a remove.         *)
ScriptWithoutBarrier(verb) ==
    CASE verb = "queryState" -> WarmUp
      [] verb = "write"   -> <<"putSetup", "putData">>
      [] verb = "remove"  -> <<"remove">>
      [] OTHER            -> <<"remount">>

Script(verb) ==
    CASE verb = "queryState" -> WarmUp
      [] verb = "ls"      -> <<"list">>
      [] verb = "read"    -> <<"readSetup", "readData">>
      [] verb = "write"   -> <<"putSetup", "putData", "remount">>
      [] verb = "remove"  -> <<"remove", "remount">>
      [] verb = "remountUser"  -> <<"remount">>
      [] verb = "capabilities" -> <<"capabilities">>
      [] verb = "barrier" -> <<"remount">>

(* ensure_session_warmup: every verb but query_state and the barrier of the *)
(* disconnect path sends the six probes first, until they were answered     *)
(* once.                                                                    *)
NeedsWarmUp(verb) == verb \notin {"queryState", "barrier"}

Requests(verb) ==
    IF NeedsWarmUp(verb) /\ ~warm THEN WarmUp \o Script(verb) ELSE Script(verb)

VaultCommands == {"list", "readSetup", "readData", "putSetup", "putData", "remove"}
Commands == {WarmUp[i] : i \in DOMAIN WarmUp} \cup VaultCommands
                \cup {"remount", "capabilities"}

(* What the file named by a write or a remove is to hold.                   *)
Intended(verb) == IF verb = "write" THEN "new" ELSE "absent"
-----------------------------------------------------------------------------
NoReply == [task |-> NoTask, cmd |-> "none", file |-> NoFile, ok |-> FALSE]
Resting == [at |-> "idle", task |-> NoTask, verb |-> "none", file |-> NoFile,
            todo |-> <<>>, got |-> NoReply]

WireInit ==
    /\ exec = [t \in Threads |-> Resting]
    /\ warm = FALSE
    /\ result = [k \in Tasks |-> "none"]
    /\ out = <<>> /\ in = <<>> /\ sending = NoReply
    /\ vault = [f \in Files |-> "old"] /\ durable = vault
    /\ armed = NoFile /\ greeted = FALSE
    /\ up = TRUE /\ lapsed = FALSE
    /\ acked = [f \in Files |-> "none"]

(* A verb begins on thread t.                                               *)
Begin(t, task, verb, file) ==
    exec' = [exec EXCEPT ![t] = [at |-> "send", task |-> task, verb |-> verb,
                                 file |-> file, todo |-> Requests(verb),
                                 got |-> NoReply]]

Current(t) == Head(exec[t].todo)

(* The verb returns the failure of one of its exchanges; what its earlier   *)
(* exchanges did stays done.                                                *)
Fail(t) ==
    /\ exec' = [exec EXCEPT ![t] = Resting]
    /\ result' = [result EXCEPT ![exec[t].task] = "failed"]
    /\ UNCHANGED <<warm, acked>>

(* An exchange is over: the next one, or the verb's success.  The warm-up   *)
(* counts when its last probe is answered.                                  *)
Advance(t) ==
    LET rest == Tail(exec[t].todo)
        e == exec[t]
    IN /\ warm' = (warm \/ Current(t) = "apMaker")
       /\ IF rest # <<>>
          THEN /\ exec' = [exec EXCEPT ![t] = [e EXCEPT !.at = "send", !.todo = rest,
                                                        !.got = NoReply]]
               /\ UNCHANGED <<result, acked>>
          ELSE /\ exec' = [exec EXCEPT ![t] = Resting]
               /\ result' = [result EXCEPT ![e.task] = "ok"]
               /\ acked' = IF e.verb \in {"write", "remove"}
                           THEN [acked EXCEPT ![e.file] = Intended(e.verb)]
                           ELSE acked
-----------------------------------------------------------------------------
(* send_packet.  A request that changes a file ends what earlier results    *)
(* said of that file.                                                       *)
Send(t) ==
    /\ exec[t].at = "send"
    /\ \/ /\ ~up
          /\ Fail(t)
          /\ UNCHANGED out
       \/ /\ up
          /\ out' = Append(out, [task |-> exec[t].task, cmd |-> Current(t),
                                 file |-> exec[t].file])
          /\ exec' = [exec EXCEPT ![t].at = "head"]
          /\ acked' = IF Current(t) \in {"putSetup", "remove"}
                      THEN [acked EXCEPT ![exec[t].file] = "none"] ELSE acked
          /\ UNCHANGED <<warm, result>>
    /\ UNCHANGED <<in, sending, device, up, lapsed>>

(* receive_packet_body: the header.                                         *)
ReadHead(t) ==
    /\ exec[t].at = "head" /\ in # <<>> /\ Head(in).part = "head"
    /\ exec' = [exec EXCEPT ![t].at = "rest", ![t].got = Head(in).reply]
    /\ in' = Tail(in)
    /\ UNCHANGED <<warm, result, out, sending, device, up, lapsed, acked>>

(* The rest of a reply whose reader gave up is read as a header and has no  *)
(* sync bytes: a parse error.  Seven bytes are gone, which is a part of the *)
(* rest, all of it, or all of it and the header behind it.                  *)
ReadJunk(t) ==
    /\ exec[t].at = "head" /\ in # <<>> /\ Head(in).part = "rest"
    /\ \E n \in {0, 1, 2} : n <= Len(in) /\ in' = SubSeq(in, n + 1, Len(in))
    /\ lapsed' = TRUE
    /\ Fail(t)
    /\ UNCHANGED <<out, sending, device, up>>

(* The rest: an error frame, or a body the verb does not accept, fails it.  *)
(* Bytes that are not the rest of this header fail the checksum.  The       *)
(* mutant takes an error frame for an answer.                               *)
AcceptsAny(reply) == TRUE
Accepts(reply) == reply.ok

ReadRest(t) ==
    /\ exec[t].at = "rest" /\ in # <<>>
    /\ in' = Tail(in)
    /\ IF Head(in) = [part |-> "rest", reply |-> exec[t].got]
       THEN /\ IF Accepts(Head(in).reply) THEN Advance(t) ELSE Fail(t)
            /\ UNCHANGED lapsed
       ELSE /\ Fail(t)
            /\ lapsed' = TRUE
    /\ UNCHANGED <<out, sending, device, up>>

(* read_exact's deadline passes with no byte to read; what comes later is   *)
(* left to the next exchange.  A device that is gone ends the read too.     *)
GiveUp(t) ==
    /\ exec[t].at \in {"head", "rest"} /\ in = <<>>
    /\ lapsed' = TRUE
    /\ Fail(t)
    /\ UNCHANGED <<out, in, sending, device, up>>

Exchange(t) == Send(t) \/ ReadHead(t) \/ ReadJunk(t) \/ ReadRest(t) \/ GiveUp(t)
-----------------------------------------------------------------------------
(* The device, as the client and its comments use it.                       *)

(* The files after a request is carried out.  Contents reach the flash of   *)
(* the device with the next remount.                                        *)
VaultAfter(req) ==
    CASE req.cmd = "putData" -> [vault EXCEPT ![armed] = "new"]
      [] req.cmd = "remove"  -> [vault EXCEPT ![req.file] = "absent"]
      [] OTHER -> vault

CarryOut(req) ==
    /\ vault' = VaultAfter(req)
    /\ durable' = IF req.cmd = "remount" THEN vault ELSE durable
    /\ armed' = IF req.cmd = "putSetup" THEN req.file ELSE armed
    /\ greeted' = (greeted \/ req.cmd = "userInfo")

CanDo(req) == req.cmd = "putData" => armed # NoFile

Reply(req, ok) == [task |-> req.task, cmd |-> req.cmd, file |-> req.file, ok |-> ok]

(* The oldest request is carried out and answered, refused with an error    *)
(* frame, or answered by silence, carried out or not.                       *)
Handle ==
    /\ up /\ out # <<>> /\ sending = NoReply
    /\ out' = Tail(out)
    /\ LET req == Head(out)
           start(ok) == /\ sending' = Reply(req, ok)
                        /\ in' = Append(in, [part |-> "head", reply |-> Reply(req, ok)])
       IN \/ CanDo(req) /\ CarryOut(req) /\ start(TRUE)
          \/ UNCHANGED device /\ start(FALSE)
          \/ /\ UNCHANGED <<in, sending>>
             /\ \/ CanDo(req) /\ CarryOut(req)
                \/ UNCHANGED device
    /\ UNCHANGED <<exec, warm, result, up, lapsed, acked>>

SendRest ==
    /\ up /\ sending # NoReply
    /\ in' = Append(in, [part |-> "rest", reply |-> sending])
    /\ sending' = NoReply
    /\ UNCHANGED <<exec, warm, result, out, device, up, lapsed, acked>>

(* The device loses power: what no remount made durable is gone, and the    *)
(* channel with it.                                                         *)
PowerCut ==
    /\ up
    /\ up' = FALSE
    /\ vault' = durable /\ armed' = NoFile /\ greeted' = FALSE
    /\ out' = <<>> /\ in' = <<>> /\ sending' = NoReply
    /\ UNCHANGED <<exec, warm, result, durable, lapsed, acked>>

Device == Handle \/ SendRest \/ PowerCut
=============================================================================
