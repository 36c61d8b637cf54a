------------------------------ MODULE EtsClient ------------------------------
(***************************************************************************)
(* st::devices::ets::Client: verbs submitted to a queue, the worker thread  *)
(* that runs them one after the other over the wire (EtsWire), the verbs    *)
(* that run on the caller's own thread, stop tokens and the destructor.     *)
(***************************************************************************)
EXTENDS EtsWire

CONSTANTS
    worker,          \* worker_
    Callers,         \* threads that call verbs
    QueuedVerbs,     \* verbs with an _async form, run by the worker
    DirectVerbs,     \* verbs the caller's thread runs itself
    MaxTasks         \* bound on calls of verbs

ASSUME ClientAssumption ==
    /\ worker \notin Callers /\ Threads = Callers \cup {worker}
    /\ MaxTasks \in Nat /\ Tasks = 1 .. MaxTasks
    /\ QueuedVerbs \subseteq {"ls", "read", "write", "remove"}
    /\ DirectVerbs \subseteq {"queryState", "remountUser", "capabilities", "barrier"}

VARIABLES
    queue,     \* queue_: verbs not begun, oldest first
    calls,     \* calls of verbs so far
    state,     \* where the worker stands in worker_loop
    caller,    \* where each caller stands
    stopping,  \* stop_worker_
    life,      \* "alive", or where the destructor stands
    token      \* the caller's stop_source has been told to stop

vars == <<wireVars, queue, calls, state, caller, stopping, life, token>>

Free == [at |-> "free", task |-> NoTask]

Init ==
    /\ WireInit
    /\ queue = <<>> /\ calls = 0
    /\ state = "test" /\ stopping = FALSE
    /\ caller = [c \in Callers |-> Free]
    /\ life = "alive" /\ token = FALSE

FilesOf(verb) == IF verb \in {"read", "write", "remove"} THEN Files ELSE {NoFile}

(* No caller starts a call once the client is being destroyed.              *)
MayCall(c) == life = "alive" /\ caller[c] = Free /\ calls < MaxTasks
-----------------------------------------------------------------------------
(* enqueue: the task is appended under the lock, then the worker is woken.  *)
(* An _async verb carries the caller's stop token; a plain verb carries     *)
(* none and waits for the future.                                           *)
Enqueue(c) ==
    /\ MayCall(c)
    /\ calls' = calls + 1
    /\ \E verb \in QueuedVerbs, async \in BOOLEAN : \E file \in FilesOf(verb) :
         /\ queue' = Append(queue, [task |-> calls + 1, verb |-> verb,
                                    file |-> file, stoppable |-> async])
         /\ caller' = [caller EXCEPT ![c] = [at   |-> IF async THEN "notify" ELSE "notifyGet",
                                             task |-> calls + 1]]
    /\ result' = [result EXCEPT ![calls + 1] = "pending"]
    /\ UNCHANGED <<exec, warm, out, in, sending, device, up, lapsed,
                   acked, state, stopping, life, token>>

(* notify_one, and a mutant of it that wakes nobody.                        *)
NotWoken == state
Woken == IF state = "asleep" THEN "test" ELSE state

Notify(c) ==
    /\ caller[c].at \in {"notify", "notifyGet"}
    /\ state' = Woken
    /\ caller' = [caller EXCEPT ![c] = IF caller[c].at = "notify" THEN Free
                                       ELSE [caller[c] EXCEPT !.at = "get"]]
    /\ UNCHANGED <<wireVars, queue, calls, stopping, life, token>>

(* future::get returns.                                                     *)
Get(c) ==
    /\ caller[c].at = "get"
    /\ result[caller[c].task] # "pending"
    /\ caller' = [caller EXCEPT ![c] = Free]
    /\ UNCHANGED <<wireVars, queue, calls, state, stopping, life, token>>

RequestStop ==
    /\ ~token /\ token' = TRUE
    /\ UNCHANGED <<wireVars, queue, calls, state, caller, stopping, life>>
-----------------------------------------------------------------------------
(* query_state, remount_user_filesystem, get_capabilities and               *)
(* nand_barrier_best_effort use the channel on the caller's thread.  Their  *)
(* callers make these calls when nothing is queued or running.              *)
AnyTime == TRUE  \* a mutant that does not wait
Quiet ==
    /\ queue = <<>> /\ \A t \in Threads : exec[t] = Resting
    /\ \A c \in Callers : caller[c] = Free
    /\ state # "run"

CallDirect(c) ==
    /\ MayCall(c) /\ Quiet
    /\ calls' = calls + 1
    /\ \E verb \in DirectVerbs : Begin(c, calls + 1, verb, NoFile)
    /\ caller' = [caller EXCEPT ![c] = [at |-> "direct", task |-> calls + 1]]
    /\ result' = [result EXCEPT ![calls + 1] = "pending"]
    /\ UNCHANGED <<warm, out, in, sending, device, up, lapsed, acked,
                   queue, state, stopping, life, token>>

RunDirect(c) ==
    /\ caller[c].at = "direct"
    /\ Exchange(c)
    /\ caller' = IF exec'[c] = Resting THEN [caller EXCEPT ![c] = Free] ELSE caller
    /\ UNCHANGED <<queue, calls, state, stopping, life, token>>
-----------------------------------------------------------------------------
(* worker_loop.                                                             *)

(* Under the lock: return when told to stop and nothing is queued, take the *)
(* oldest task, or sleep until notified.  The mutant never returns.         *)
NeverReturns == FALSE
MayReturn == stopping /\ queue = <<>>

Oldest(q) == <<Head(q), Tail(q)>>

(* The impl checks its stop token before the first request only.            *)
Cancelled(job) == job.stoppable /\ token

WorkerTest ==
    /\ state = "test"
    /\ \/ /\ MayReturn
          /\ state' = "returned"
          /\ UNCHANGED <<exec, result, queue>>
       \/ /\ ~MayReturn /\ queue # <<>>
          /\ LET job == Oldest(queue)[1]
             IN IF Cancelled(job)
                THEN /\ result' = [result EXCEPT ![job.task] = "cancelled"]
                     /\ UNCHANGED <<exec, state>>
                ELSE /\ Begin(worker, job.task, job.verb, job.file)
                     /\ state' = "run"
                     /\ UNCHANGED result
          /\ queue' = Oldest(queue)[2]
       \/ /\ ~MayReturn /\ queue = <<>>
          /\ state' = "asleep"
          /\ UNCHANGED <<exec, result, queue>>
    /\ UNCHANGED <<warm, out, in, sending, device, up, lapsed, acked,
                   calls, caller, stopping, life, token>>

(* Back to the queue when the task is over; the mutant stays.               *)
StaysInTask(over) == "run"
AfterExchange(over) == IF over THEN "test" ELSE "run"

WorkerRun ==
    /\ state = "run"
    /\ Exchange(worker)
    /\ state' = AfterExchange(exec'[worker] = Resting)
    /\ UNCHANGED <<queue, calls, caller, stopping, life, token>>
-----------------------------------------------------------------------------
(* ~Client: no call is under way.  The flag is set under the lock, the      *)
(* worker is woken, and the thread joined.                                  *)
DtorStop ==
    /\ life = "alive" /\ \A c \in Callers : caller[c] = Free
    /\ stopping' = TRUE /\ life' = "notify"
    /\ UNCHANGED <<wireVars, queue, calls, state, caller, token>>

DtorNotify ==
    /\ life = "notify"
    /\ state' = Woken /\ life' = "join"
    /\ UNCHANGED <<wireVars, queue, calls, caller, stopping, token>>

DtorJoin ==
    /\ life = "join" /\ state = "returned"
    /\ life' = "gone"
    /\ UNCHANGED <<wireVars, queue, calls, state, caller, stopping, token>>
-----------------------------------------------------------------------------
ClientUnchanged == UNCHANGED <<queue, calls, state, caller, stopping, life, token>>

Next ==
    \/ \E c \in Callers : Enqueue(c) \/ Notify(c) \/ Get(c) \/ CallDirect(c) \/ RunDirect(c)
    \/ RequestStop
    \/ WorkerTest \/ WorkerRun
    \/ DtorStop \/ DtorNotify \/ DtorJoin
    \/ Handle /\ ClientUnchanged
    \/ SendRest /\ ClientUnchanged
    \/ PowerCut /\ ClientUnchanged

Spec == Init /\ [][Next]_vars

(* Threads are scheduled: the worker, a caller inside a call and the        *)
(* destructor go on when they can.  Nothing is asked of the device, since   *)
(* every read ends at its deadline.                                         *)
FairSpec ==
    /\ Spec
    /\ WF_vars(WorkerTest \/ WorkerRun)
    /\ WF_vars(DtorNotify \/ DtorJoin)
    /\ \A c \in Callers : WF_vars(Notify(c) \/ Get(c) \/ RunDirect(c))
-----------------------------------------------------------------------------
(* Properties.                                                              *)

Verbs == QueuedVerbs \cup DirectVerbs
Ids == Tasks \cup {NoTask}
Paths == Files \cup {NoFile}
Replies == [task : Ids, cmd : Commands \cup {"none"}, file : Paths, ok : BOOLEAN]
Contents == {"old", "new", "absent"}

Execs == [at : {"idle", "send", "head", "rest"}, task : Ids, verb : Verbs \cup {"none"},
          file : Paths, todo : Seq(Commands), got : Replies]
CallerStates == [at : {"free", "notify", "notifyGet", "get", "direct"}, task : Ids]

(* The types of the variables; the worker is in a task when it says so.     *)
TypeOK ==
    /\ state = "run" <=> exec[worker] # Resting
    /\ exec \in [Threads -> Execs]
    /\ caller \in [Callers -> CallerStates]
    /\ result \in [Tasks -> {"none", "pending", "ok", "failed", "cancelled"}]
    /\ out \in Seq([task : Tasks, cmd : Commands, file : Paths])
    /\ in \in Seq([part : {"head", "rest"}, reply : Replies]) /\ sending \in Replies
    /\ vault \in [Files -> Contents] /\ durable \in [Files -> Contents]
    /\ armed \in Paths /\ acked \in [Files -> Contents \cup {"none"}]
    /\ {warm, greeted, up, lapsed, stopping, token} \subseteq BOOLEAN
    /\ queue \in Seq([task : Tasks, verb : QueuedVerbs, file : Paths, stoppable : BOOLEAN])
    /\ calls \in 0 .. MaxTasks /\ state \in {"test", "asleep", "run", "returned"}
    /\ life \in {"alive", "notify", "join", "gone"}

(* The wire does not say which request a reply answers.  As long as no      *)
(* exchange lapsed, every reply is read by the exchange that asked for it.  *)
RepliesFindTheirRequests ==
    ~lapsed => \A t \in Threads :
        exec[t].at = "rest" =>
            exec[t].got.task = exec[t].task /\ exec[t].got.cmd = Current(t)

(* What a write or remove that returned success did to its file survives a  *)
(* power cut, until another request names the file; again as long as no     *)
(* exchange lapsed.                                                         *)
AckedSurvives ==
    ~lapsed => \A f \in Files : acked[f] # "none" => durable[f] = acked[f]

(* Every future resolves, whatever the device does and also when the client *)
(* is destroyed meanwhile; so does every call that waits for one.           *)
FuturesResolve == \A k \in Tasks : result[k] = "pending" ~> result[k] # "pending"

(* The destructor returns. *)
DestructorReturns == life = "notify" ~> life = "gone"
=============================================================================
