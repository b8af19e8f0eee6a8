---------------------------- MODULE TaskLifecycle ----------------------------
(***************************************************************************)
(* Tasks: how a row of the tasks table is created, queued, claimed, run by *)
(* the agents and closed.                                                  *)
(*                                                                         *)
(* Writers of a row: the HTTP handlers (backend/app/routers/tasks.py,      *)
(* alerts.py, portfolio.py), each of which reads a row, checks it and      *)
(* writes it in a later statement; the e-mail auto-draft, which inserts a  *)
(* finished task; and the single task runner (task_runner.py), which pops  *)
(* a task id from the Redis list task_queue and takes the task through     *)
(* claim, agent graph and persist.  The database commits one statement at  *)
(* a time (READ COMMITTED, no row locks are requested), Redis pops are     *)
(* destructive, and the process may restart between any two steps.         *)
(***************************************************************************)
EXTENDS Naturals, Sequences

CONSTANTS
    TaskIds,        \* primary keys the tasks table can hand out
    Alerts,         \* rows of the alerts table, which RMs act on
    Requests,       \* HTTP requests the server serves at one time
    None,           \* no task, no alert
    TitleKinds,     \* the kinds route_intent finds behind the titles in use
    MaxFaults,      \* bound: restarts and failed commits or pushes
    MaxRedeliveries \* bound: ids pushed on task_queue a second time

(* loaders/task_classify.py: the kinds that may run by themselves, and the *)
(* outward ones that may not.                                              *)
AutoEligible == {"research", "news_gather", "swap_candidates", "draft_prep",
                 "analysis"}
ManualOnly   == {"contact_client", "place_order", "send_message",
                 "crm_writeback"}
TaskKinds    == AutoEligible \cup ManualOnly

ASSUME TaskAssumption ==
    /\ None \notin TaskIds \cup Alerts
    /\ TaskIds \cap Alerts = {}
    /\ Alerts \cap {"none", "note", "swap", "email"} = {}
    /\ TitleKinds \subseteq TaskKinds
    /\ MaxFaults \in Nat
    /\ MaxRedeliveries \in Nat

VARIABLES
    \* the database
    status,         \* status[t]: tasks.status, "absent" before INSERT
    mode,           \* mode[t]: tasks.execution_mode
    source,         \* source[t]: tasks.source and tasks.alert_id
    result,         \* result[t]: what tasks.result holds
    alert,          \* alert[a]: alerts.status
    \* Redis
    queue,          \* the list task_queue, oldest id first
    \* the processes
    req,            \* req[r]: what request r has read and has still to write
    rpc,            \* where the task runner is in run_one_task
    rtask,          \* the task it popped
    rkind,          \* the TaskKind route_intent resolved
    rfinal,         \* the graph's final state: "output" or "error"
    rseen,          \* the status its session loaded and writes over
    \* history
    writer,         \* writer[t]: who last wrote tasks.status
    ran,            \* ran[t]: the kinds under which an agent ran for t
    dropped,        \* tasks in the hands of a process when it failed
    faults, redeliveries

dbVars     == <<status, mode, source, result, alert>>
runnerVars == <<rpc, rtask, rkind, rfinal, rseen>>
history    == <<writer, ran, dropped, faults, redeliveries>>
vars       == <<dbVars, queue, req, runnerVars, history>>

-----------------------------------------------------------------------------
TaskStatus  == {"created", "running", "done", "closed"}
AlertStatus == {"open", "acted", "dismissed", "snoozed", "converted"}
PatchStatus == AlertStatus \ {"converted"}

(* The rows alone, as the table of valid transitions sees them.            *)
Table == INSTANCE TaskTable WITH TaskIds <- TaskIds, status <- status

(* What a request keeps between its read and its write.                    *)
Pending(op, obj, seen, new, withResult) ==
    [op |-> op, obj |-> obj, seen |-> seen, new |-> new,
     withResult |-> withResult]

Idle == Pending("idle", None, "none", "none", FALSE)

Request == [op   : {"idle", "enqueue", "transition", "alert", "convert"},
            obj  : TaskIds \cup Alerts \cup {None},
            seen : TaskStatus \cup AlertStatus \cup {"none"},
            new  : TaskStatus \cup AlertStatus \cup {"none"},
            withResult : BOOLEAN]

Init ==
    /\ status = [t \in TaskIds |-> "absent"]
    /\ mode   = [t \in TaskIds |-> "Manual"]
    /\ source = [t \in TaskIds |-> "none"]
    /\ result = [t \in TaskIds |-> "none"]
    /\ alert  = [a \in Alerts |-> "open"]
    /\ queue  = <<>>
    /\ req    = [r \in Requests |-> Idle]
    /\ rpc = "idle" /\ rtask = None /\ rkind = "none"
    /\ rfinal = "none" /\ rseen = "none"
    /\ writer = [t \in TaskIds |-> "none"]
    /\ ran    = [t \in TaskIds |-> {}]
    /\ dropped = {} /\ faults = 0 /\ redeliveries = 0

(* The value a column holds after a session that loaded `seen` assigns     *)
(* `new` and commits: SQLAlchemy writes only columns that changed.         *)
Flushed(seen, new, current) == IF seen = new THEN current ELSE new

(* INSERT INTO tasks.                                                      *)
InsertTask(t, s, m, src, res) ==
    /\ status[t] = "absent"
    /\ status' = [status EXCEPT ![t] = s]
    /\ mode'   = [mode   EXCEPT ![t] = m]
    /\ source' = [source EXCEPT ![t] = src]
    /\ result' = [result EXCEPT ![t] = res]

-----------------------------------------------------------------------------
(* The HTTP handlers.                                                      *)

(* POST /clients/{id}/tasks: the row is committed first and its id pushed  *)
(* on task_queue by a later statement, for Auto tasks only.  "note" stands *)
(* for the two sources the endpoint accepts, note and promise.             *)
CreateTaskUnqueued(r, t, m) ==
    /\ req[r] = Idle
    /\ InsertTask(t, "created", m, "note", "none")
    /\ UNCHANGED <<req, alert, queue, runnerVars, history>>

CreateTask(r, t, m) ==
    /\ req[r] = Idle
    /\ InsertTask(t, "created", m, "note", "none")
    /\ req' = IF m = "Auto"
              THEN [req EXCEPT ![r] = Pending("enqueue", t, "none", "none", FALSE)]
              ELSE req
    /\ UNCHANGED <<alert, queue, runnerVars, history>>

EnqueueTask(r) ==
    /\ req[r].op = "enqueue"
    /\ queue' = Append(queue, req[r].obj)
    /\ req' = [req EXCEPT ![r] = Idle]
    /\ UNCHANGED <<dbVars, runnerVars, history>>

(* POST .../portfolio/swaps/decision: the RM's decision and the proposals  *)
(* it was taken on become the result of a Manual task, in one commit.      *)
DecideSwaps(t) ==
    /\ InsertTask(t, "created", "Manual", "swap", "rm")
    /\ UNCHANGED <<alert, queue, req, runnerVars, history>>

(* An e-mail's prepared answer: the row is inserted finished.              *)
PrepareDraft(t) ==
    /\ InsertTask(t, "done", "Auto", "email", "output")
    /\ UNCHANGED <<alert, queue, req, runnerVars, history>>

(* PATCH .../tasks/{task_id}: load the row and check the requested status  *)
(* against the table, 409 when it is not a successor.                      *)
TransitionRead(r, t, new, withResult) ==
    /\ req[r] = Idle
    /\ status[t] # "absent"
    /\ new \in Table!ValidTransitions[status[t]]
    /\ req' = [req EXCEPT ![r] =
                   Pending("transition", t, status[t], new, withResult)]
    /\ UNCHANGED <<dbVars, queue, runnerVars, history>>

(* ... and commit it, whatever the row has become meanwhile.               *)
TransitionCommit(r) ==
    LET t == req[r].obj
    IN  /\ req[r].op = "transition"
        /\ status' = [status EXCEPT ![t] = req[r].new]
        /\ result' = IF req[r].withResult
                     THEN [result EXCEPT ![t] = "rm"] ELSE result
        /\ writer' = [writer EXCEPT ![t] = "rm"]
        /\ req'    = [req EXCEPT ![r] = Idle]
        /\ UNCHANGED <<mode, source, alert, queue, runnerVars, ran, dropped,
                       faults, redeliveries>>

(* PATCH .../alerts/{alert_id}: any status may be replaced by any of the   *)
(* four the endpoint accepts.                                              *)
AlertRead(r, a, new) ==
    /\ req[r] = Idle
    /\ req' = [req EXCEPT ![r] = Pending("alert", a, alert[a], new, FALSE)]
    /\ UNCHANGED <<dbVars, queue, runnerVars, history>>

AlertCommit(r) ==
    LET a == req[r].obj
    IN  /\ req[r].op = "alert"
        /\ alert' = [alert EXCEPT ![a] = Flushed(req[r].seen, req[r].new, @)]
        /\ req'   = [req EXCEPT ![r] = Idle]
        /\ UNCHANGED <<status, mode, source, result, queue, runnerVars, history>>

(* POST .../alerts/{alert_id}/convert: 409 when the row loaded says        *)
(* converted; otherwise the task and the alert's status, in one commit.    *)
ConvertRead(r, a) ==
    /\ req[r] = Idle
    /\ alert[a] # "converted"
    /\ req' = [req EXCEPT ![r] =
                   Pending("convert", a, alert[a], "converted", FALSE)]
    /\ UNCHANGED <<dbVars, queue, runnerVars, history>>

ConvertCommitStatusOnly(r, t) ==
    /\ req[r].op = "convert"
    /\ status[t] = "absent"
    /\ alert' = [alert EXCEPT ![req[r].obj] = "converted"]
    /\ req'   = [req EXCEPT ![r] = Idle]
    /\ UNCHANGED <<status, mode, source, result, queue, runnerVars, history>>

ConvertCommit(r, t) ==
    /\ req[r].op = "convert"
    /\ InsertTask(t, "created", "Manual", req[r].obj, "none")
    /\ alert' = [alert EXCEPT ![req[r].obj] = "converted"]
    /\ req'   = [req EXCEPT ![r] = Idle]
    /\ UNCHANGED <<queue, runnerVars, history>>

-----------------------------------------------------------------------------
(* The task runner: run_one_task, cut at its awaits.                       *)

(* BRPOP: from here on only the runner's memory holds the id.              *)
RunnerDequeue ==
    /\ rpc = "idle"
    /\ queue # <<>>
    /\ rtask' = Head(queue)
    /\ queue' = Tail(queue)
    /\ rpc' = "popped"
    /\ UNCHANGED <<dbVars, req, rkind, rfinal, rseen, history>>

ClaimableUnlessClosed(t) == status[t] # "closed"

Claimable(t) == status[t] = "created"

(* Load the row; a task somebody already took or closed is skipped.        *)
RunnerLoad ==
    /\ rpc = "popped"
    /\ IF Claimable(rtask)
       THEN rpc' = "claiming" /\ rseen' = status[rtask] /\ UNCHANGED rtask
       ELSE rpc' = "idle" /\ rtask' = None /\ UNCHANGED rseen
    /\ UNCHANGED <<dbVars, queue, req, rkind, rfinal, history>>

RunnerClaim ==
    /\ rpc = "claiming"
    /\ status' = [status EXCEPT ![rtask] = "running"]
    /\ writer' = [writer EXCEPT ![rtask] = "runner"]
    /\ rpc' = "routing" /\ rseen' = "none"
    /\ UNCHANGED <<mode, source, result, alert, queue, req, rtask, rkind,
                   rfinal, ran, dropped, faults, redeliveries>>

AnyKindMayRun(kind) == TRUE

(* assert_auto_eligible: the autonomy boundary.                            *)
MayAutoRun(kind) == kind \in AutoEligible

(* route_intent resolves the task's title to a kind, with the LLM's help:  *)
(* any kind, or "unknown" for an answer that is none or a failed call.     *)
RunnerRoute(kind) ==
    /\ rpc = "routing"
    /\ IF kind # "unknown" /\ MayAutoRun(kind)
       THEN rpc' = "agent" /\ rkind' = kind /\ UNCHANGED rfinal
       ELSE rpc' = "persist" /\ rfinal' = "error" /\ UNCHANGED rkind
    /\ UNCHANGED <<dbVars, queue, req, rtask, rseen, history>>

(* One domain agent runs; its own errors end up in the final state.        *)
RunnerAgent(final) ==
    /\ rpc = "agent"
    /\ ran' = [ran EXCEPT ![rtask] = @ \cup {rkind}]
    /\ rfinal' = final
    /\ rpc' = "persist"
    /\ UNCHANGED <<dbVars, queue, req, rtask, rkind, rseen, writer, dropped,
                   faults, redeliveries>>

RunnerReload ==
    /\ rpc = "persist"
    /\ rseen' = status[rtask]
    /\ rpc' = "persisting"
    /\ UNCHANGED <<dbVars, queue, req, rtask, rkind, rfinal, history>>

OutcomeErrorLeftRunning == IF rfinal = "error" THEN "running" ELSE "done"

(* The status the outcome is filed under.                                  *)
Outcome == IF rfinal = "error" THEN "closed" ELSE "done"

RunnerPersist ==
    /\ rpc = "persisting"
    /\ status' = [status EXCEPT ![rtask] = Flushed(rseen, Outcome, @)]
    /\ result' = [result EXCEPT ![rtask] = rfinal]
    /\ writer' = IF rseen = Outcome THEN writer
                 ELSE [writer EXCEPT ![rtask] = "runner"]
    /\ rpc' = "idle" /\ rtask' = None /\ rkind' = "none"
    /\ rfinal' = "none" /\ rseen' = "none"
    /\ UNCHANGED <<mode, source, alert, queue, req, ran, dropped, faults,
                   redeliveries>>

-----------------------------------------------------------------------------
(* What goes wrong.                                                        *)

RunnerReset == /\ rpc' = "idle" /\ rtask' = None /\ rkind' = "none"
               /\ rfinal' = "none" /\ rseen' = "none"

(* A database error inside run_one_task: _runner_loop logs it and goes on  *)
(* to the next id.                                                         *)
RunnerFault ==
    /\ faults < MaxFaults
    /\ rpc \in {"popped", "claiming", "persist", "persisting"}
    /\ RunnerReset
    /\ dropped' = dropped \cup {rtask}
    /\ faults' = faults + 1
    /\ UNCHANGED <<dbVars, queue, req, writer, ran, redeliveries>>

(* The push after create_task's commit fails: the caller gets a 500.       *)
EnqueueFault(r) ==
    /\ faults < MaxFaults
    /\ req[r].op = "enqueue"
    /\ req' = [req EXCEPT ![r] = Idle]
    /\ dropped' = dropped \cup {req[r].obj}
    /\ faults' = faults + 1
    /\ UNCHANGED <<dbVars, queue, runnerVars, writer, ran, redeliveries>>

(* The process restarts (or a shutdown cancels it): every request and the  *)
(* runner lose what they hold; Postgres and Redis keep what they have.     *)
Restart ==
    /\ faults < MaxFaults
    /\ req' = [r \in Requests |-> Idle]
    /\ RunnerReset
    /\ dropped' = dropped \cup ({rtask} \ {None})
                     \cup {req[r].obj : r \in {q \in Requests :
                                               req[q].op = "enqueue"}}
    /\ faults' = faults + 1
    /\ UNCHANGED <<dbVars, queue, writer, ran, redeliveries>>

(* The id of an Auto task is pushed on the queue again (a replay of the    *)
(* list): the re-delivery run_one_task says it tolerates.                  *)
Redeliver(t) ==
    /\ redeliveries < MaxRedeliveries
    /\ status[t] # "absent" /\ mode[t] = "Auto" /\ source[t] = "note"
    /\ queue' = Append(queue, t)
    /\ redeliveries' = redeliveries + 1
    /\ UNCHANGED <<dbVars, req, runnerVars, writer, ran, dropped, faults>>

-----------------------------------------------------------------------------
RequestStep ==
    \/ \E r \in Requests, t \in TaskIds :
          \/ \E m \in {"Auto", "Manual"} : CreateTask(r, t, m)
          \/ \E new \in TaskStatus, withResult \in BOOLEAN :
                TransitionRead(r, t, new, withResult)
          \/ ConvertCommit(r, t)
    \/ \E r \in Requests, a \in Alerts :
          \/ \E new \in PatchStatus : AlertRead(r, a, new)
          \/ ConvertRead(r, a)
    \/ \E r \in Requests : EnqueueTask(r) \/ TransitionCommit(r) \/ AlertCommit(r)
    \/ \E t \in TaskIds : DecideSwaps(t) \/ PrepareDraft(t)

RunnerStep ==
    \/ RunnerDequeue \/ RunnerLoad \/ RunnerClaim
    \/ \E kind \in TitleKinds \cup {"unknown"} : RunnerRoute(kind)
    \/ \E final \in {"output", "error"} : RunnerAgent(final)
    \/ RunnerReload \/ RunnerPersist

FaultStep ==
    \/ RunnerFault \/ Restart
    \/ \E r \in Requests : EnqueueFault(r)
    \/ \E t \in TaskIds : Redeliver(t)

Next == RequestStep \/ RunnerStep \/ FaultStep

Spec == Init /\ [][Next]_vars

(* The runner is a loop that never sleeps while ids are queued and every   *)
(* await in it is bounded by a timeout; a handler that has started runs to *)
(* its end.  Nothing obliges an RM to send a request.                      *)
FairSpec ==
    /\ Spec
    /\ WF_vars(RunnerStep)
    /\ \A r \in Requests : WF_vars(EnqueueTask(r) \/ TransitionCommit(r))

-----------------------------------------------------------------------------
(* Properties.                                                             *)

TypeOK ==
    /\ status \in [TaskIds -> TaskStatus \cup {"absent"}]
    /\ mode   \in [TaskIds -> {"Auto", "Manual"}]
    /\ source \in [TaskIds -> {"none", "note", "swap", "email"}
                               \cup Alerts]
    /\ result \in [TaskIds -> {"none", "rm", "output", "error"}]
    /\ alert  \in [Alerts -> AlertStatus]
    /\ queue  \in Seq(TaskIds)
    /\ req    \in [Requests -> Request]
    /\ rpc    \in {"idle", "popped", "claiming", "routing", "agent",
                    "persist", "persisting"}
    /\ rtask  \in TaskIds \cup {None}
    /\ rkind  \in TaskKinds \cup {"none"}
    /\ rfinal \in {"none", "output", "error"}
    /\ rseen  \in TaskStatus \cup {"none", "absent"}
    /\ writer \in [TaskIds -> {"none", "rm", "runner"}]
    /\ ran    \in [TaskIds -> SUBSET TaskKinds]
    /\ dropped \in SUBSET TaskIds
    /\ faults \in Nat /\ redeliveries \in Nat

Queued(t) == \E i \in 1..Len(queue) : queue[i] = t

AwaitsPush(t) == \E r \in Requests : req[r].op = "enqueue" /\ req[r].obj = t

(* The autonomy boundary (TK3, G1): whatever the model made of a task's    *)
(* title, and however requests, replays and restarts interleave, an agent  *)
(* ran only for a task an RM asked to run by itself, and only under a kind *)
(* that takes no outward action.                                           *)
AutonomyBoundary ==
    \A t \in TaskIds : ran[t] # {} =>
        mode[t] = "Auto" /\ ran[t] \cap ManualOnly = {}

(* "Idempotent against re-delivery": a task the runner is about to hand to *)
(* an agent has not been through one before, so no task runs twice even    *)
(* when its id is popped twice, an RM patches the row meanwhile or the     *)
(* process restarts.                                                       *)
AgentRunsOnce == rpc \in {"routing", "agent"} => ran[rtask] = {}

(* No Auto task is forgotten by an interleaving: while its row says        *)
(* created, its id is in the queue, or a request is about to push it, or   *)
(* the runner holds it; the only exceptions are the ids a failure caught   *)
(* in a process's hands.                                                   *)
NoSilentLoss ==
    \A t \in TaskIds :
        status[t] = "created" /\ mode[t] = "Auto" /\ t \notin dropped =>
            \/ Queued(t)
            \/ AwaitsPush(t)
            \/ rtask = t /\ rpc \in {"popped", "claiming"}

(* A row that the runner put to running is either the task in its hands or *)
(* one it lost to a failure; it never walks away from a task it claimed.   *)
RunningIsHeld ==
    \A t \in TaskIds :
        status[t] = "running" /\ writer[t] = "runner" /\ t \notin dropped =>
            rtask = t /\ rpc \in {"routing", "agent", "persist", "persisting"}

(* Nothing falls out between the queue, the rows and the runner: an Auto   *)
(* task is waiting where something will take it up, and a running one is   *)
(* in the runner's hands.                                                  *)
NothingFallsOut == NoSilentLoss /\ RunningIsHeld

(* Converting is atomic: a row that says converted has the task it was     *)
(* converted to.                                                           *)
ConvertedHasTask ==
    \A a \in Alerts : alert[a] = "converted" =>
        \E t \in TaskIds : source[t] = a

(* Every Auto task is finished, unless an RM takes its status over: what   *)
(* the queue promises as long as nothing fails.                            *)
AutoTaskFinishes ==
    [](faults = 0) =>
        \A t \in TaskIds :
            (status[t] = "created" /\ mode[t] = "Auto")
                ~> (status[t] \in {"done", "closed"} \/ writer[t] = "rm")

(* Another process wrote row t after this step's process had read it: a    *)
(* PATCH commits on a row that is not the one it checked, the runner       *)
(* claims one that is not the one it loaded, or files an outcome on one an *)
(* RM took over while the agents worked.                                   *)
Overtaken(t) ==
    \/ \E r \in Requests :
          /\ req[r].op = "transition" /\ req[r].obj = t
          /\ req[r].seen # status[t]
          /\ req'[r] = Idle
    \/ rtask = t /\ rpc = "claiming" /\ rseen # status[t]
    \/ rtask = t /\ rpc = "persisting" /\ writer[t] = "rm"

(* The lifecycle table (TK6) against handlers and runner that read a row   *)
(* and write it later: every change of a row is a step of the table,       *)
(* except the overwriting of what another process wrote in between, the    *)
(* only way a row ever leaves the table.                                   *)
TableUnlessOvertaken ==
    [][\E t \in TaskIds :
          /\ Table!Insert(t) \/ Table!Advance(t) \/ Overtaken(t)
          /\ \A u \in TaskIds \ {t} : status'[u] = status[u]]_status
=============================================================================
