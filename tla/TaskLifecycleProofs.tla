------------------------- MODULE TaskLifecycleProofs -------------------------
(* Theorems about TaskLifecycle, for any number of tasks, alerts, requests, *)
(* failures and re-deliveries.                                              *)
EXTENDS TaskLifecycle, TLAPS

(***************************************************************************)
(* The inductive invariant.  TypeOK alone is not inductive: what a commit  *)
(* writes depends on what the handler kept from its read, and what an      *)
(* agent may run for depends on how the id got into the queue.             *)
(***************************************************************************)

(* What an in-flight request holds is what its own read put there.         *)
RequestsInv ==
    \A r \in Requests :
        /\ req[r].op = "enqueue" =>
              /\ req[r].obj \in TaskIds
              /\ mode[req[r].obj] = "Auto" /\ status[req[r].obj] # "absent"
        /\ req[r].op = "transition" =>
              /\ req[r].obj \in TaskIds
              /\ status[req[r].obj] # "absent"
              /\ req[r].new \in TaskStatus \ {"created"}
        /\ req[r].op = "alert" => req[r].obj \in Alerts /\ req[r].new \in PatchStatus
        /\ req[r].op = "convert" => req[r].obj \in Alerts

(* Only ids of Auto tasks ever reach task_queue.                           *)
QueueInv ==
    \A i \in 1..Len(queue) :
        mode[queue[i]] = "Auto" /\ status[queue[i]] # "absent"

RunnerInv ==
    /\ rpc = "idle" => rtask = None
    /\ rpc # "idle" => /\ rtask \in TaskIds
                       /\ mode[rtask] = "Auto" /\ status[rtask] # "absent"
    /\ rpc \in {"routing", "agent", "persist", "persisting"} =>
          status[rtask] # "created"
    /\ rpc = "agent" => rkind \in AutoEligible
    /\ rpc \in {"persist", "persisting"} => rfinal \in {"output", "error"}
    /\ rpc = "persisting" => rseen \in TaskStatus

(* A row still to be claimed has seen no agent, nor has the row in the     *)
(* runner's hands before its agent starts.                                 *)
FreshInv ==
    /\ \A t \in TaskIds : status[t] \in {"absent", "created"} => ran[t] = {}
    /\ rpc \in {"claiming", "routing", "agent"} => ran[rtask] = {}

(* A status other than running while the runner works on the row was put   *)
(* there by an RM, and the runner's second read saw it or came before it.  *)
WriterInv ==
    /\ rpc \in {"routing", "agent", "persist", "persisting"} =>
          status[rtask] = "running" \/ writer[rtask] = "rm"
    /\ rpc = "persisting" => rseen = "running" \/ writer[rtask] = "rm"

(* A task that came from an alert has a row.                               *)
SourceInv ==
    \A t \in TaskIds : source[t] \in Alerts => status[t] # "absent"

IInv == /\ TypeOK /\ RequestsInv /\ QueueInv /\ RunnerInv /\ FreshInv
        /\ AutonomyBoundary

LossInv == NoSilentLoss /\ WriterInv /\ RunningIsHeld

ConvertInv == SourceInv /\ ConvertedHasTask

-----------------------------------------------------------------------------
LEMMA KindsDisjoint ==
    AutoEligible \cap ManualOnly = {} /\ AutoEligible \subseteq TaskKinds
  BY DEF AutoEligible, ManualOnly, TaskKinds

(* How a pending request reads back.                                       *)
LEMMA PendingFacts ==
    ASSUME NEW op \in {"idle", "enqueue", "transition", "alert", "convert"},
           NEW obj \in TaskIds \cup Alerts \cup {None},
           NEW seen \in TaskStatus \cup AlertStatus \cup {"none"},
           NEW new \in TaskStatus \cup AlertStatus \cup {"none"},
           NEW withResult \in BOOLEAN
    PROVE  LET q == Pending(op, obj, seen, new, withResult)
           IN  /\ q \in Request
               /\ q.op = op /\ q.obj = obj /\ q.seen = seen /\ q.new = new
  BY DEF Pending, Request

LEMMA IdleFacts == Idle \in Request /\ Idle.op = "idle" /\ Idle.obj = None
  BY DEF Idle, Pending, Request

(* Every row of the lifecycle table leads forward.                         *)
LEMMA TableFacts ==
    ASSUME NEW s \in TaskStatus, NEW n \in Table!ValidTransitions[s]
    PROVE  n \in TaskStatus \ {"created"}
  BY DEF Table!ValidTransitions, Table!TaskStatus, TaskStatus

LEMMA InitIInv == Init => IInv
  BY IdleFacts, TaskAssumption
     DEF Init, IInv, TypeOK, RequestsInv, QueueInv, RunnerInv, FreshInv,
         AutonomyBoundary, TaskStatus, AlertStatus

(* An id stays in the queue until it is popped, and in the hands of the    *)
(* request that is to push it until that request moves.                    *)
LEMMA QueueGrows ==
    ASSUME queue \in Seq(TaskIds), NEW u \in TaskIds, queue' = Append(queue, u)
    PROVE  Queued(u)' /\ \A t \in TaskIds : Queued(t) => Queued(t)'
<1>1. /\ Len(queue') = Len(queue) + 1 /\ Len(queue) \in Nat
      /\ queue'[Len(queue) + 1] = u
      /\ \A i \in 1..Len(queue) : queue'[i] = queue[i]
  OBVIOUS
<1>. QED  BY <1>1 DEF Queued

LEMMA QueueShrinks ==
    ASSUME queue \in Seq(TaskIds), queue # <<>>, queue' = Tail(queue)
    PROVE  \A t \in TaskIds : Queued(t) => t = Head(queue) \/ Queued(t)'
<1>1. /\ Len(queue') = Len(queue) - 1 /\ Len(queue) \in Nat \ {0}
      /\ \A i \in 1..(Len(queue) - 1) : queue'[i] = queue[i + 1]
      /\ Head(queue) = queue[1]
  OBVIOUS
<1>2. ASSUME NEW t \in TaskIds, NEW i \in 1..Len(queue), queue[i] = t, i # 1
      PROVE  Queued(t)'
  <2>1. i - 1 \in 1..Len(queue') /\ queue'[i - 1] = t
    BY <1>1, <1>2
  <2>. QED  BY <2>1 DEF Queued
<1>. QED  BY <1>1, <1>2 DEF Queued

LEMMA QueueKept ==
    ASSUME queue' = queue  PROVE  \A t \in TaskIds : Queued(t)' <=> Queued(t)
  BY DEF Queued

LEMMA PushSame ==
    ASSUME req' = req  PROVE  \A t \in TaskIds : AwaitsPush(t)' <=> AwaitsPush(t)
  BY DEF AwaitsPush

LEMMA PushKept ==
    ASSUME NEW r \in Requests, req[r].op # "enqueue",
           \A s \in Requests \ {r} : req'[s] = req[s]
    PROVE  \A t \in TaskIds : AwaitsPush(t) => AwaitsPush(t)'
  BY DEF AwaitsPush

(* Each step preserves the invariant, one action at a time.                 *)
LEMMA StepIInv ==
    ASSUME IInv, Next
    PROVE  IInv'
<1>1. ASSUME NEW r \in Requests, NEW t \in TaskIds, NEW m \in {"Auto", "Manual"},
             CreateTask(r, t, m)
      PROVE  IInv'
  <2>1. TypeOK'
    BY IInv, <1>1
       DEF IInv, TypeOK, Request, TaskStatus, AlertStatus, Pending,
           CreateTask, InsertTask, runnerVars, history
  <2>2. RequestsInv'
    BY IInv, <1>1
       DEF IInv, TypeOK, RequestsInv, Pending, CreateTask, InsertTask
  <2>3. QueueInv'
    BY IInv, <1>1 DEF IInv, TypeOK, QueueInv, CreateTask, InsertTask
  <2>4. RunnerInv'
    BY IInv, <1>1
       DEF IInv, TypeOK, RunnerInv, CreateTask, InsertTask, runnerVars
  <2>5. FreshInv'
    BY IInv, <1>1
       DEF IInv, TypeOK, RunnerInv, FreshInv, CreateTask, InsertTask,
           runnerVars, history
  <2>6. AutonomyBoundary'
    BY IInv, <1>1
       DEF IInv, TypeOK, AutonomyBoundary, FreshInv, CreateTask, InsertTask,
           history
  <2>. QED  BY <2>1, <2>2, <2>3, <2>4, <2>5, <2>6 DEF IInv
<1>2. ASSUME NEW r \in Requests, EnqueueTask(r)
      PROVE  IInv'
  <2>1. TypeOK'
    BY IInv, <1>2, IdleFacts
       DEF IInv, TypeOK, RequestsInv, EnqueueTask, dbVars, runnerVars, history
  <2>2. RequestsInv'
    BY IInv, <1>2, IdleFacts
       DEF IInv, TypeOK, RequestsInv, EnqueueTask, dbVars
  <2>3. QueueInv'
    BY IInv, <1>2 DEF IInv, TypeOK, QueueInv, RequestsInv, EnqueueTask, dbVars
  <2>4. RunnerInv' /\ FreshInv' /\ AutonomyBoundary'
    BY IInv, <1>2
       DEF IInv, RunnerInv, FreshInv, AutonomyBoundary, EnqueueTask, dbVars,
           runnerVars, history
  <2>. QED  BY <2>1, <2>2, <2>3, <2>4 DEF IInv
<1>3. ASSUME NEW t \in TaskIds, DecideSwaps(t)
      PROVE  IInv'
  <2>1. TypeOK'
    BY IInv, <1>3
       DEF IInv, TypeOK, TaskStatus, DecideSwaps, InsertTask, runnerVars,
           history
  <2>2. RequestsInv'
    BY IInv, <1>3 DEF IInv, TypeOK, RequestsInv, DecideSwaps, InsertTask
  <2>3. QueueInv'
    BY IInv, <1>3 DEF IInv, TypeOK, QueueInv, DecideSwaps, InsertTask
  <2>4. RunnerInv'
    BY IInv, <1>3
       DEF IInv, TypeOK, RunnerInv, DecideSwaps, InsertTask, runnerVars
  <2>5. FreshInv'
    BY IInv, <1>3
       DEF IInv, TypeOK, RunnerInv, FreshInv, DecideSwaps, InsertTask,
           runnerVars, history
  <2>6. AutonomyBoundary'
    BY IInv, <1>3
       DEF IInv, TypeOK, AutonomyBoundary, FreshInv, DecideSwaps, InsertTask,
           history
  <2>. QED  BY <2>1, <2>2, <2>3, <2>4, <2>5, <2>6 DEF IInv
<1>4. ASSUME NEW t \in TaskIds, PrepareDraft(t)
      PROVE  IInv'
  <2>1. TypeOK'
    BY IInv, <1>4
       DEF IInv, TypeOK, TaskStatus, PrepareDraft, InsertTask, runnerVars,
           history
  <2>2. RequestsInv'
    BY IInv, <1>4 DEF IInv, TypeOK, RequestsInv, PrepareDraft, InsertTask
  <2>3. QueueInv'
    BY IInv, <1>4 DEF IInv, TypeOK, QueueInv, PrepareDraft, InsertTask
  <2>4. RunnerInv'
    BY IInv, <1>4
       DEF IInv, TypeOK, RunnerInv, PrepareDraft, InsertTask, runnerVars
  <2>5. FreshInv'
    BY IInv, <1>4
       DEF IInv, TypeOK, RunnerInv, FreshInv, PrepareDraft, InsertTask,
           runnerVars, history
  <2>6. AutonomyBoundary'
    BY IInv, <1>4
       DEF IInv, TypeOK, AutonomyBoundary, FreshInv, PrepareDraft, InsertTask,
           history
  <2>. QED  BY <2>1, <2>2, <2>3, <2>4, <2>5, <2>6 DEF IInv
<1>5. ASSUME NEW r \in Requests, NEW t \in TaskIds, NEW new \in TaskStatus,
             NEW withResult \in BOOLEAN, TransitionRead(r, t, new, withResult)
      PROVE  IInv'
  <2>1. TypeOK'
    BY IInv, <1>5
       DEF IInv, TypeOK, Request, Pending, TransitionRead, dbVars, runnerVars,
           history
  <2>2. RequestsInv'
    BY IInv, <1>5, TableFacts
       DEF IInv, TypeOK, RequestsInv, Pending, TransitionRead, dbVars
  <2>3. QueueInv' /\ RunnerInv' /\ FreshInv' /\ AutonomyBoundary'
    BY IInv, <1>5
       DEF IInv, QueueInv, RunnerInv, FreshInv, AutonomyBoundary,
           TransitionRead, dbVars, runnerVars, history
  <2>. QED  BY <2>1, <2>2, <2>3 DEF IInv
<1>6. ASSUME NEW r \in Requests, TransitionCommit(r)
      PROVE  IInv'
  <2>1. TypeOK'
    BY IInv, <1>6, IdleFacts
       DEF IInv, TypeOK, RequestsInv, TaskStatus, TransitionCommit, runnerVars
  <2>2. RequestsInv'
    BY IInv, <1>6, IdleFacts
       DEF IInv, TypeOK, RequestsInv, TaskStatus, TransitionCommit
  <2>3. QueueInv'
    BY IInv, <1>6
       DEF IInv, TypeOK, QueueInv, RequestsInv, TaskStatus, TransitionCommit
  <2>4. RunnerInv'
    BY IInv, <1>6
       DEF IInv, TypeOK, RunnerInv, RequestsInv, TaskStatus, TransitionCommit,
           runnerVars
  <2>5. FreshInv'
    BY IInv, <1>6
       DEF IInv, TypeOK, RunnerInv, FreshInv, RequestsInv, TaskStatus,
           TransitionCommit, runnerVars
  <2>6. AutonomyBoundary'
    BY IInv, <1>6 DEF IInv, AutonomyBoundary, TransitionCommit
  <2>. QED  BY <2>1, <2>2, <2>3, <2>4, <2>5, <2>6 DEF IInv
<1>7. ASSUME NEW r \in Requests, NEW a \in Alerts, NEW new \in PatchStatus,
             AlertRead(r, a, new)
      PROVE  IInv'
  <2>1. TypeOK'
    BY IInv, <1>7
       DEF IInv, TypeOK, Request, Pending, AlertStatus, PatchStatus,
           AlertRead, dbVars, runnerVars, history
  <2>2. RequestsInv'
    BY IInv, <1>7 DEF IInv, TypeOK, RequestsInv, Pending, AlertRead, dbVars
  <2>3. QueueInv' /\ RunnerInv' /\ FreshInv' /\ AutonomyBoundary'
    BY IInv, <1>7
       DEF IInv, QueueInv, RunnerInv, FreshInv, AutonomyBoundary, AlertRead,
           dbVars, runnerVars, history
  <2>. QED  BY <2>1, <2>2, <2>3 DEF IInv
<1>8. ASSUME NEW r \in Requests, AlertCommit(r)
      PROVE  IInv'
  <2>1. TypeOK'
    BY IInv, <1>8, IdleFacts
       DEF IInv, TypeOK, RequestsInv, AlertStatus, PatchStatus, Flushed,
           AlertCommit, runnerVars, history
  <2>2. RequestsInv'
    BY IInv, <1>8, IdleFacts
       DEF IInv, TypeOK, RequestsInv, Flushed, AlertCommit
  <2>3. QueueInv' /\ RunnerInv' /\ FreshInv' /\ AutonomyBoundary'
    BY IInv, <1>8
       DEF IInv, QueueInv, RunnerInv, FreshInv, AutonomyBoundary, AlertCommit,
           runnerVars, history
  <2>. QED  BY <2>1, <2>2, <2>3 DEF IInv
<1>9. ASSUME NEW r \in Requests, NEW a \in Alerts, ConvertRead(r, a)
      PROVE  IInv'
  <2>1. TypeOK'
    BY IInv, <1>9
       DEF IInv, TypeOK, Request, Pending, AlertStatus, ConvertRead, dbVars,
           runnerVars, history
  <2>2. RequestsInv'
    BY IInv, <1>9 DEF IInv, TypeOK, RequestsInv, Pending, ConvertRead, dbVars
  <2>3. QueueInv' /\ RunnerInv' /\ FreshInv' /\ AutonomyBoundary'
    BY IInv, <1>9
       DEF IInv, QueueInv, RunnerInv, FreshInv, AutonomyBoundary, ConvertRead,
           dbVars, runnerVars, history
  <2>. QED  BY <2>1, <2>2, <2>3 DEF IInv
<1>10. ASSUME NEW r \in Requests, NEW t \in TaskIds, ConvertCommit(r, t)
      PROVE  IInv'
  <2>1. TypeOK'
    BY IInv, <1>10, IdleFacts
       DEF IInv, TypeOK, RequestsInv, TaskStatus, AlertStatus, ConvertCommit,
           InsertTask, runnerVars, history
  <2>2. RequestsInv'
    BY IInv, <1>10, IdleFacts
       DEF IInv, TypeOK, RequestsInv, ConvertCommit, InsertTask
  <2>3. QueueInv'
    BY IInv, <1>10 DEF IInv, TypeOK, QueueInv, ConvertCommit, InsertTask
  <2>4. RunnerInv'
    BY IInv, <1>10
       DEF IInv, TypeOK, RunnerInv, ConvertCommit, InsertTask, runnerVars
  <2>5. FreshInv'
    BY IInv, <1>10
       DEF IInv, TypeOK, RunnerInv, FreshInv, ConvertCommit, InsertTask,
           runnerVars, history
  <2>6. AutonomyBoundary'
    BY IInv, <1>10
       DEF IInv, TypeOK, AutonomyBoundary, FreshInv, ConvertCommit,
           InsertTask, history
  <2>. QED  BY <2>1, <2>2, <2>3, <2>4, <2>5, <2>6 DEF IInv
<1>11. ASSUME RunnerDequeue
      PROVE  IInv'
  <2>1. TypeOK'
    BY IInv, <1>11 DEF IInv, TypeOK, RunnerDequeue, dbVars, history
  <2>2. QueueInv'
    BY IInv, <1>11 DEF IInv, TypeOK, QueueInv, RunnerDequeue, dbVars
  <2>3. RunnerInv'
    BY IInv, <1>11
       DEF IInv, TypeOK, RunnerInv, QueueInv, RunnerDequeue, dbVars
  <2>4. FreshInv'
    BY IInv, <1>11
       DEF IInv, TypeOK, RunnerInv, FreshInv, RunnerDequeue, dbVars, history
  <2>5. RequestsInv' /\ AutonomyBoundary'
    BY IInv, <1>11
       DEF IInv, RequestsInv, AutonomyBoundary, RunnerDequeue, dbVars, history
  <2>. QED  BY <2>1, <2>2, <2>3, <2>4, <2>5 DEF IInv
<1>12. ASSUME RunnerLoad
      PROVE  IInv'
  <2>1. TypeOK'
    BY IInv, <1>12 DEF IInv, TypeOK, RunnerInv, Claimable, RunnerLoad, dbVars, history
  <2>2. RunnerInv'
    BY IInv, <1>12 DEF IInv, TypeOK, RunnerInv, Claimable, RunnerLoad, dbVars
  <2>3. FreshInv'
    BY IInv, <1>12
       DEF IInv, TypeOK, RunnerInv, FreshInv, Claimable, RunnerLoad, dbVars,
           history
  <2>4. RequestsInv' /\ QueueInv' /\ AutonomyBoundary'
    BY IInv, <1>12
       DEF IInv, RequestsInv, QueueInv, AutonomyBoundary, RunnerLoad, dbVars,
           history
  <2>. QED  BY <2>1, <2>2, <2>3, <2>4 DEF IInv
<1>13. ASSUME RunnerClaim
      PROVE  IInv'
  <2>1. TypeOK'
    BY IInv, <1>13 DEF IInv, TypeOK, TaskStatus, RunnerInv, RunnerClaim
  <2>2. RequestsInv'
    BY IInv, <1>13
       DEF IInv, TypeOK, RequestsInv, RunnerInv, TaskStatus, RunnerClaim
  <2>3. QueueInv'
    BY IInv, <1>13
       DEF IInv, TypeOK, QueueInv, RunnerInv, TaskStatus, RunnerClaim
  <2>4. RunnerInv'
    BY IInv, <1>13 DEF IInv, TypeOK, RunnerInv, TaskStatus, RunnerClaim
  <2>5. FreshInv'
    BY IInv, <1>13
       DEF IInv, TypeOK, RunnerInv, FreshInv, TaskStatus, RunnerClaim
  <2>6. AutonomyBoundary'
    BY IInv, <1>13 DEF IInv, AutonomyBoundary, RunnerClaim
  <2>. QED  BY <2>1, <2>2, <2>3, <2>4, <2>5, <2>6 DEF IInv
<1>14. ASSUME NEW kind \in TitleKinds \cup {"unknown"}, RunnerRoute(kind)
      PROVE  IInv'
  <2>1. TypeOK'
    BY IInv, <1>14, TaskAssumption
       DEF IInv, TypeOK, RunnerInv, RunnerRoute, dbVars, history
  <2>2. RunnerInv'
    BY IInv, <1>14
       DEF IInv, TypeOK, RunnerInv, MayAutoRun, RunnerRoute, dbVars
  <2>3. FreshInv'
    BY IInv, <1>14
       DEF IInv, TypeOK, RunnerInv, FreshInv, RunnerRoute, dbVars, history
  <2>4. RequestsInv' /\ QueueInv' /\ AutonomyBoundary'
    BY IInv, <1>14
       DEF IInv, RequestsInv, QueueInv, AutonomyBoundary, RunnerRoute, dbVars,
           history
  <2>. QED  BY <2>1, <2>2, <2>3, <2>4 DEF IInv
<1>15. ASSUME NEW final \in {"output", "error"}, RunnerAgent(final)
      PROVE  IInv'
  <2>1. TypeOK'
    BY IInv, <1>15, KindsDisjoint
       DEF IInv, TypeOK, RunnerInv, RunnerAgent, dbVars
  <2>2. RunnerInv'
    BY IInv, <1>15 DEF IInv, TypeOK, RunnerInv, RunnerAgent, dbVars
  <2>3. FreshInv'
    BY IInv, <1>15 DEF IInv, TypeOK, RunnerInv, FreshInv, RunnerAgent, dbVars
  <2>4. AutonomyBoundary'
    BY IInv, <1>15, KindsDisjoint
       DEF IInv, TypeOK, AutonomyBoundary, RunnerInv, RunnerAgent, dbVars
  <2>5. RequestsInv' /\ QueueInv'
    BY IInv, <1>15 DEF IInv, RequestsInv, QueueInv, RunnerAgent, dbVars
  <2>. QED  BY <2>1, <2>2, <2>3, <2>4, <2>5 DEF IInv
<1>16. ASSUME RunnerReload
      PROVE  IInv'
  <2>1. TypeOK'
    BY IInv, <1>16 DEF IInv, TypeOK, RunnerInv, RunnerReload, dbVars, history
  <2>2. RunnerInv'
    BY IInv, <1>16 DEF IInv, TypeOK, RunnerInv, RunnerReload, dbVars
  <2>3. FreshInv'
    BY IInv, <1>16
       DEF IInv, TypeOK, RunnerInv, FreshInv, RunnerReload, dbVars, history
  <2>4. RequestsInv' /\ QueueInv' /\ AutonomyBoundary'
    BY IInv, <1>16
       DEF IInv, RequestsInv, QueueInv, AutonomyBoundary, RunnerReload,
           dbVars, history
  <2>. QED  BY <2>1, <2>2, <2>3, <2>4 DEF IInv
<1>17. ASSUME RunnerPersist
      PROVE  IInv'
  <2>1. TypeOK'
    BY IInv, <1>17
       DEF IInv, TypeOK, RunnerInv, TaskStatus, Outcome, Flushed,
           RunnerPersist
  <2>2. RequestsInv'
    BY IInv, <1>17
       DEF IInv, TypeOK, RequestsInv, RunnerInv, TaskStatus, Outcome, Flushed,
           RunnerPersist
  <2>3. QueueInv'
    BY IInv, <1>17
       DEF IInv, TypeOK, QueueInv, RunnerInv, TaskStatus, Outcome, Flushed,
           RunnerPersist
  <2>4. RunnerInv'
    BY IInv, <1>17
       DEF IInv, TypeOK, RunnerInv, TaskStatus, Outcome, Flushed,
           RunnerPersist
  <2>5. FreshInv'
    BY IInv, <1>17
       DEF IInv, TypeOK, RunnerInv, FreshInv, TaskStatus, Outcome, Flushed,
           RunnerPersist
  <2>6. AutonomyBoundary'
    BY IInv, <1>17 DEF IInv, AutonomyBoundary, RunnerPersist
  <2>. QED  BY <2>1, <2>2, <2>3, <2>4, <2>5, <2>6 DEF IInv
<1>18. ASSUME RunnerFault
      PROVE  IInv'
  <2>1. TypeOK'
    BY IInv, <1>18
       DEF IInv, TypeOK, RunnerReset, RunnerInv, RunnerFault, dbVars
  <2>2. RunnerInv'
    BY IInv, <1>18
       DEF IInv, TypeOK, RunnerInv, RunnerReset, RunnerFault, dbVars
  <2>3. FreshInv'
    BY IInv, <1>18
       DEF IInv, TypeOK, RunnerInv, FreshInv, RunnerReset, RunnerFault, dbVars
  <2>4. RequestsInv' /\ QueueInv' /\ AutonomyBoundary'
    BY IInv, <1>18
       DEF IInv, RequestsInv, QueueInv, AutonomyBoundary, RunnerFault, dbVars
  <2>. QED  BY <2>1, <2>2, <2>3, <2>4 DEF IInv
<1>19. ASSUME NEW r \in Requests, EnqueueFault(r)
      PROVE  IInv'
  <2>1. TypeOK'
    BY IInv, <1>19, IdleFacts
       DEF IInv, TypeOK, RequestsInv, EnqueueFault, dbVars, runnerVars
  <2>2. RequestsInv'
    BY IInv, <1>19, IdleFacts
       DEF IInv, TypeOK, RequestsInv, EnqueueFault, dbVars
  <2>3. QueueInv' /\ RunnerInv' /\ FreshInv' /\ AutonomyBoundary'
    BY IInv, <1>19
       DEF IInv, QueueInv, RunnerInv, FreshInv, AutonomyBoundary,
           EnqueueFault, dbVars, runnerVars
  <2>. QED  BY <2>1, <2>2, <2>3 DEF IInv
<1>20. ASSUME Restart
      PROVE  IInv'
  <2>1. TypeOK'
    BY IInv, <1>20, IdleFacts
       DEF IInv, TypeOK, RunnerReset, RequestsInv, Restart, dbVars
  <2>2. RequestsInv'
    BY IInv, <1>20, IdleFacts DEF IInv, TypeOK, RequestsInv, Restart, dbVars
  <2>3. RunnerInv'
    BY IInv, <1>20 DEF IInv, TypeOK, RunnerInv, RunnerReset, Restart, dbVars
  <2>4. FreshInv'
    BY IInv, <1>20
       DEF IInv, TypeOK, RunnerInv, FreshInv, RunnerReset, Restart, dbVars
  <2>5. QueueInv' /\ AutonomyBoundary'
    BY IInv, <1>20 DEF IInv, QueueInv, AutonomyBoundary, Restart, dbVars
  <2>. QED  BY <2>1, <2>2, <2>3, <2>4, <2>5 DEF IInv
<1>21. ASSUME NEW t \in TaskIds, Redeliver(t)
      PROVE  IInv'
  <2>1. TypeOK'
    BY IInv, <1>21 DEF IInv, TypeOK, Redeliver, dbVars, runnerVars
  <2>2. QueueInv'
    BY IInv, <1>21 DEF IInv, TypeOK, QueueInv, Redeliver, dbVars
  <2>3. RequestsInv' /\ RunnerInv' /\ FreshInv' /\ AutonomyBoundary'
    BY IInv, <1>21
       DEF IInv, RequestsInv, RunnerInv, FreshInv, AutonomyBoundary,
           Redeliver, dbVars, runnerVars, history
  <2>. QED  BY <2>1, <2>2, <2>3 DEF IInv
<1>. QED  BY <1>1, <1>2, <1>3, <1>4, <1>5, <1>6, <1>7, <1>8, <1>9, <1>10,
             <1>11, <1>12,
   <1>13, <1>14, <1>15, <1>16, <1>17, <1>18, <1>19, <1>20, <1>21
   DEF Next, RequestStep, RunnerStep, FaultStep

(* So does each step preserve who holds the work.                           *)
LEMMA StepLoss ==
    ASSUME IInv, LossInv, Next
    PROVE  LossInv'
<1>1. ASSUME NEW r \in Requests, NEW t \in TaskIds, NEW m \in {"Auto", "Manual"},
             CreateTask(r, t, m)
      PROVE  LossInv'
  <2>1. NoSilentLoss'
    BY IInv, LossInv, <1>1, PushKept, QueueKept, IdleFacts
       DEF IInv, LossInv, TypeOK, NoSilentLoss, Pending, AwaitsPush,
           CreateTask, InsertTask, runnerVars, history
  <2>2. WriterInv'
    BY IInv, LossInv, <1>1
       DEF IInv, LossInv, TypeOK, WriterInv, CreateTask, InsertTask,
           runnerVars, history
  <2>3. RunningIsHeld'
    BY IInv, LossInv, <1>1
       DEF IInv, LossInv, TypeOK, RunningIsHeld, CreateTask, InsertTask,
           runnerVars, history
  <2>. QED  BY <2>1, <2>2, <2>3 DEF LossInv
<1>2. ASSUME NEW r \in Requests, EnqueueTask(r)
      PROVE  LossInv'
  <2>1. NoSilentLoss'
    BY IInv, LossInv, <1>2, QueueGrows, IdleFacts
       DEF IInv, LossInv, TypeOK, NoSilentLoss, RequestsInv, AwaitsPush,
           EnqueueTask, dbVars, runnerVars, history
  <2>2. WriterInv' /\ RunningIsHeld'
    BY IInv, LossInv, <1>2
       DEF IInv, LossInv, WriterInv, RunningIsHeld, EnqueueTask, dbVars,
           runnerVars, history
  <2>. QED  BY <2>1, <2>2 DEF LossInv
<1>3. ASSUME NEW t \in TaskIds, DecideSwaps(t)
      PROVE  LossInv'
  <2>1. NoSilentLoss'
    BY IInv, LossInv, <1>3, QueueKept, PushSame
       DEF IInv, LossInv, TypeOK, NoSilentLoss, DecideSwaps, InsertTask,
           runnerVars, history
  <2>2. WriterInv'
    BY IInv, LossInv, <1>3
       DEF IInv, LossInv, TypeOK, WriterInv, DecideSwaps, InsertTask,
           runnerVars, history
  <2>3. RunningIsHeld'
    BY IInv, LossInv, <1>3
       DEF IInv, LossInv, TypeOK, RunningIsHeld, DecideSwaps, InsertTask,
           runnerVars, history
  <2>. QED  BY <2>1, <2>2, <2>3 DEF LossInv
<1>4. ASSUME NEW t \in TaskIds, PrepareDraft(t)
      PROVE  LossInv'
  <2>1. NoSilentLoss'
    BY IInv, LossInv, <1>4, QueueKept, PushSame
       DEF IInv, LossInv, TypeOK, NoSilentLoss, PrepareDraft, InsertTask,
           runnerVars, history
  <2>2. WriterInv'
    BY IInv, LossInv, <1>4
       DEF IInv, LossInv, TypeOK, WriterInv, PrepareDraft, InsertTask,
           runnerVars, history
  <2>3. RunningIsHeld'
    BY IInv, LossInv, <1>4
       DEF IInv, LossInv, TypeOK, RunningIsHeld, PrepareDraft, InsertTask,
           runnerVars, history
  <2>. QED  BY <2>1, <2>2, <2>3 DEF LossInv
<1>5. ASSUME NEW r \in Requests, NEW t \in TaskIds, NEW new \in TaskStatus,
             NEW withResult \in BOOLEAN, TransitionRead(r, t, new, withResult)
      PROVE  LossInv'
  <2>1. NoSilentLoss'
    BY IInv, LossInv, <1>5, PushKept, QueueKept, IdleFacts
       DEF IInv, LossInv, TypeOK, NoSilentLoss, TransitionRead, dbVars,
           runnerVars, history
  <2>2. WriterInv' /\ RunningIsHeld'
    BY IInv, LossInv, <1>5
       DEF IInv, LossInv, WriterInv, RunningIsHeld, TransitionRead, dbVars,
           runnerVars, history
  <2>. QED  BY <2>1, <2>2 DEF LossInv
<1>6. ASSUME NEW r \in Requests, TransitionCommit(r)
      PROVE  LossInv'
  <2>1. NoSilentLoss'
    BY IInv, LossInv, <1>6, PushKept, QueueKept, IdleFacts
       DEF IInv, LossInv, TypeOK, NoSilentLoss, RequestsInv, TaskStatus,
           TransitionCommit, runnerVars
  <2>2. WriterInv'
    BY IInv, LossInv, <1>6
       DEF IInv, LossInv, TypeOK, WriterInv, RequestsInv, TaskStatus,
           TransitionCommit, runnerVars
  <2>3. RunningIsHeld'
    BY IInv, LossInv, <1>6
       DEF IInv, LossInv, TypeOK, RunningIsHeld, RequestsInv, TaskStatus,
           TransitionCommit, runnerVars
  <2>. QED  BY <2>1, <2>2, <2>3 DEF LossInv
<1>7. ASSUME NEW r \in Requests, NEW a \in Alerts, NEW new \in PatchStatus,
             AlertRead(r, a, new)
      PROVE  LossInv'
  <2>1. NoSilentLoss'
    BY IInv, LossInv, <1>7, PushKept, QueueKept, IdleFacts
       DEF IInv, LossInv, TypeOK, NoSilentLoss, AlertRead, dbVars, runnerVars,
           history
  <2>2. WriterInv' /\ RunningIsHeld'
    BY IInv, LossInv, <1>7
       DEF IInv, LossInv, WriterInv, RunningIsHeld, AlertRead, dbVars,
           runnerVars, history
  <2>. QED  BY <2>1, <2>2 DEF LossInv
<1>8. ASSUME NEW r \in Requests, AlertCommit(r)
      PROVE  LossInv'
  <2>1. NoSilentLoss'
    BY IInv, LossInv, <1>8, PushKept, QueueKept, IdleFacts
       DEF IInv, LossInv, TypeOK, NoSilentLoss, AlertCommit, runnerVars,
           history
  <2>2. WriterInv' /\ RunningIsHeld'
    BY IInv, LossInv, <1>8
       DEF IInv, LossInv, WriterInv, RunningIsHeld, AlertCommit, runnerVars,
           history
  <2>. QED  BY <2>1, <2>2 DEF LossInv
<1>9. ASSUME NEW r \in Requests, NEW a \in Alerts, ConvertRead(r, a)
      PROVE  LossInv'
  <2>1. NoSilentLoss'
    BY IInv, LossInv, <1>9, PushKept, QueueKept, IdleFacts
       DEF IInv, LossInv, TypeOK, NoSilentLoss, ConvertRead, dbVars,
           runnerVars, history
  <2>2. WriterInv' /\ RunningIsHeld'
    BY IInv, LossInv, <1>9
       DEF IInv, LossInv, WriterInv, RunningIsHeld, ConvertRead, dbVars,
           runnerVars, history
  <2>. QED  BY <2>1, <2>2 DEF LossInv
<1>10. ASSUME NEW r \in Requests, NEW t \in TaskIds, ConvertCommit(r, t)
      PROVE  LossInv'
  <2>1. NoSilentLoss'
    BY IInv, LossInv, <1>10, PushKept, QueueKept, IdleFacts
       DEF IInv, LossInv, TypeOK, NoSilentLoss, ConvertCommit, InsertTask,
           runnerVars, history
  <2>2. WriterInv'
    BY IInv, LossInv, <1>10
       DEF IInv, LossInv, TypeOK, WriterInv, ConvertCommit, InsertTask,
           runnerVars, history
  <2>3. RunningIsHeld'
    BY IInv, LossInv, <1>10
       DEF IInv, LossInv, TypeOK, RunningIsHeld, ConvertCommit, InsertTask,
           runnerVars, history
  <2>. QED  BY <2>1, <2>2, <2>3 DEF LossInv
<1>11. ASSUME RunnerDequeue
      PROVE  LossInv'
  <2>1. NoSilentLoss'
    BY IInv, LossInv, <1>11, QueueShrinks, PushSame
       DEF IInv, LossInv, TypeOK, NoSilentLoss, RunnerInv, RunnerDequeue,
           dbVars, history
  <2>2. WriterInv'
    BY IInv, LossInv, <1>11
       DEF IInv, LossInv, TypeOK, WriterInv, RunnerDequeue, dbVars, history
  <2>3. RunningIsHeld'
    BY IInv, LossInv, <1>11
       DEF IInv, LossInv, TypeOK, RunningIsHeld, RunnerDequeue, dbVars,
           history
  <2>. QED  BY <2>1, <2>2, <2>3 DEF LossInv
<1>12. ASSUME RunnerLoad
      PROVE  LossInv'
  <2>1. NoSilentLoss'
    BY IInv, LossInv, <1>12, QueueKept, PushSame
       DEF IInv, LossInv, TypeOK, NoSilentLoss, Claimable, RunnerInv,
           RunnerLoad, dbVars, history
  <2>2. WriterInv'
    BY IInv, LossInv, <1>12
       DEF IInv, LossInv, TypeOK, WriterInv, Claimable, RunnerLoad, dbVars,
           history
  <2>3. RunningIsHeld'
    BY IInv, LossInv, <1>12
       DEF IInv, LossInv, TypeOK, RunningIsHeld, Claimable, RunnerInv,
           RunnerLoad, dbVars, history
  <2>. QED  BY <2>1, <2>2, <2>3 DEF LossInv
<1>13. ASSUME RunnerClaim
      PROVE  LossInv'
  <2>1. NoSilentLoss'
    BY IInv, LossInv, <1>13, QueueKept, PushSame
       DEF IInv, LossInv, TypeOK, NoSilentLoss, RunnerInv, TaskStatus,
           RunnerClaim
  <2>2. WriterInv'
    BY IInv, LossInv, <1>13
       DEF IInv, LossInv, TypeOK, WriterInv, RunnerInv, TaskStatus,
           RunnerClaim
  <2>3. RunningIsHeld'
    BY IInv, LossInv, <1>13
       DEF IInv, LossInv, TypeOK, RunningIsHeld, RunnerInv, TaskStatus,
           RunnerClaim
  <2>. QED  BY <2>1, <2>2, <2>3 DEF LossInv
<1>14. ASSUME NEW kind \in TitleKinds \cup {"unknown"}, RunnerRoute(kind)
      PROVE  LossInv'
  <2>1. NoSilentLoss'
    BY IInv, LossInv, <1>14, QueueKept, PushSame
       DEF IInv, LossInv, TypeOK, NoSilentLoss, RunnerRoute, dbVars, history
  <2>2. WriterInv'
    BY IInv, LossInv, <1>14
       DEF IInv, LossInv, TypeOK, WriterInv, RunnerRoute, dbVars, history
  <2>3. RunningIsHeld'
    BY IInv, LossInv, <1>14
       DEF IInv, LossInv, TypeOK, RunningIsHeld, RunnerRoute, dbVars, history
  <2>. QED  BY <2>1, <2>2, <2>3 DEF LossInv
<1>15. ASSUME NEW final \in {"output", "error"}, RunnerAgent(final)
      PROVE  LossInv'
  <2>1. NoSilentLoss'
    BY IInv, LossInv, <1>15, QueueKept, PushSame
       DEF IInv, LossInv, TypeOK, NoSilentLoss, RunnerAgent, dbVars
  <2>2. WriterInv'
    BY IInv, LossInv, <1>15
       DEF IInv, LossInv, TypeOK, WriterInv, RunnerAgent, dbVars
  <2>3. RunningIsHeld'
    BY IInv, LossInv, <1>15
       DEF IInv, LossInv, TypeOK, RunningIsHeld, RunnerAgent, dbVars
  <2>. QED  BY <2>1, <2>2, <2>3 DEF LossInv
<1>16. ASSUME RunnerReload
      PROVE  LossInv'
  <2>1. NoSilentLoss'
    BY IInv, LossInv, <1>16, QueueKept, PushSame
       DEF IInv, LossInv, TypeOK, NoSilentLoss, RunnerReload, dbVars, history
  <2>2. WriterInv'
    BY IInv, LossInv, <1>16
       DEF IInv, LossInv, TypeOK, WriterInv, RunnerInv, RunnerReload, dbVars,
           history
  <2>3. RunningIsHeld'
    BY IInv, LossInv, <1>16
       DEF IInv, LossInv, TypeOK, RunningIsHeld, RunnerReload, dbVars, history
  <2>. QED  BY <2>1, <2>2, <2>3 DEF LossInv
<1>17. ASSUME RunnerPersist
      PROVE  LossInv'
  <2>1. NoSilentLoss'
    BY IInv, LossInv, <1>17, QueueKept, PushSame
       DEF IInv, LossInv, TypeOK, NoSilentLoss, RunnerInv, TaskStatus,
           Outcome, Flushed, RunnerPersist
  <2>2. WriterInv'
    BY IInv, LossInv, <1>17
       DEF IInv, LossInv, TypeOK, WriterInv, RunnerInv, TaskStatus, Outcome,
           Flushed, RunnerPersist
  <2>3. RunningIsHeld'
    BY IInv, LossInv, <1>17
       DEF IInv, LossInv, TypeOK, RunningIsHeld, RunnerInv, WriterInv,
           TaskStatus, Outcome, Flushed, RunnerPersist
  <2>. QED  BY <2>1, <2>2, <2>3 DEF LossInv
<1>18. ASSUME RunnerFault
      PROVE  LossInv'
  <2>1. NoSilentLoss'
    BY IInv, LossInv, <1>18, QueueKept, PushSame
       DEF IInv, LossInv, TypeOK, NoSilentLoss, RunnerReset, RunnerInv,
           RunnerFault, dbVars
  <2>2. WriterInv'
    BY IInv, LossInv, <1>18
       DEF IInv, LossInv, TypeOK, WriterInv, RunnerReset, RunnerFault, dbVars
  <2>3. RunningIsHeld'
    BY IInv, LossInv, <1>18
       DEF IInv, LossInv, TypeOK, RunningIsHeld, RunnerReset, RunnerInv,
           RunnerFault, dbVars
  <2>. QED  BY <2>1, <2>2, <2>3 DEF LossInv
<1>19. ASSUME NEW r \in Requests, EnqueueFault(r)
      PROVE  LossInv'
  <2>1. NoSilentLoss'
    BY IInv, LossInv, <1>19, QueueKept, IdleFacts
       DEF IInv, LossInv, TypeOK, NoSilentLoss, AwaitsPush, EnqueueFault,
           dbVars, runnerVars
  <2>2. RunningIsHeld'
    BY IInv, LossInv, <1>19
       DEF IInv, LossInv, TypeOK, RunningIsHeld, EnqueueFault, dbVars,
           runnerVars
  <2>3. WriterInv'
    BY IInv, LossInv, <1>19
       DEF IInv, LossInv, WriterInv, EnqueueFault, dbVars, runnerVars
  <2>. QED  BY <2>1, <2>2, <2>3 DEF LossInv
<1>20. ASSUME Restart
      PROVE  LossInv'
  <2>1. NoSilentLoss'
    BY IInv, LossInv, <1>20, TaskAssumption, QueueKept
       DEF IInv, LossInv, TypeOK, NoSilentLoss, RunnerReset, RunnerInv,
           AwaitsPush, Restart, dbVars
  <2>2. WriterInv'
    BY IInv, LossInv, <1>20
       DEF IInv, LossInv, TypeOK, WriterInv, RunnerReset, Restart, dbVars
  <2>3. RunningIsHeld'
    BY IInv, LossInv, <1>20, TaskAssumption
       DEF IInv, LossInv, TypeOK, RunningIsHeld, RunnerReset, RunnerInv,
           TaskStatus, Restart, dbVars
  <2>. QED  BY <2>1, <2>2, <2>3 DEF LossInv
<1>21. ASSUME NEW t \in TaskIds, Redeliver(t)
      PROVE  LossInv'
  <2>1. NoSilentLoss'
    BY IInv, LossInv, <1>21, QueueGrows, PushSame
       DEF IInv, LossInv, TypeOK, NoSilentLoss, Redeliver, dbVars, runnerVars
  <2>2. WriterInv' /\ RunningIsHeld'
    BY IInv, LossInv, <1>21
       DEF IInv, LossInv, WriterInv, RunningIsHeld, Redeliver, dbVars,
           runnerVars, history
  <2>. QED  BY <2>1, <2>2 DEF LossInv
<1>. QED  BY <1>1, <1>2, <1>3, <1>4, <1>5, <1>6, <1>7, <1>8, <1>9, <1>10,
             <1>11, <1>12,
   <1>13, <1>14, <1>15, <1>16, <1>17, <1>18, <1>19, <1>20, <1>21
   DEF Next, RequestStep, RunnerStep, FaultStep

(* ... and that a converted alert has its task.                             *)
LEMMA StepConvert ==
    ASSUME IInv, ConvertInv, Next
    PROVE  ConvertInv'
<1>1. ASSUME NEW r \in Requests, NEW t \in TaskIds, NEW m \in {"Auto", "Manual"},
             CreateTask(r, t, m)
      PROVE  ConvertInv'
  <2>1. SourceInv'
    BY IInv, ConvertInv, <1>1
       DEF IInv, ConvertInv, TypeOK, SourceInv, TaskStatus, CreateTask,
           InsertTask
  <2>2. ConvertedHasTask'
    BY IInv, ConvertInv, <1>1
       DEF IInv, ConvertInv, TypeOK, ConvertedHasTask, SourceInv, TaskStatus,
           CreateTask, InsertTask
  <2>. QED  BY <2>1, <2>2 DEF ConvertInv
<1>2. ASSUME NEW r \in Requests, EnqueueTask(r)
      PROVE  ConvertInv'
  <2>1. SourceInv' /\ ConvertedHasTask'
    BY IInv, ConvertInv, <1>2
       DEF IInv, ConvertInv, SourceInv, ConvertedHasTask, EnqueueTask, dbVars
  <2>. QED  BY <2>1 DEF ConvertInv
<1>3. ASSUME NEW t \in TaskIds, DecideSwaps(t)
      PROVE  ConvertInv'
  <2>1. SourceInv'
    BY IInv, ConvertInv, <1>3
       DEF IInv, ConvertInv, TypeOK, SourceInv, TaskStatus, DecideSwaps,
           InsertTask
  <2>2. ConvertedHasTask'
    BY IInv, ConvertInv, <1>3
       DEF IInv, ConvertInv, TypeOK, ConvertedHasTask, SourceInv, TaskStatus,
           DecideSwaps, InsertTask
  <2>. QED  BY <2>1, <2>2 DEF ConvertInv
<1>4. ASSUME NEW t \in TaskIds, PrepareDraft(t)
      PROVE  ConvertInv'
  <2>1. SourceInv'
    BY IInv, ConvertInv, <1>4
       DEF IInv, ConvertInv, TypeOK, SourceInv, TaskStatus, PrepareDraft,
           InsertTask
  <2>2. ConvertedHasTask'
    BY IInv, ConvertInv, <1>4
       DEF IInv, ConvertInv, TypeOK, ConvertedHasTask, SourceInv, TaskStatus,
           PrepareDraft, InsertTask
  <2>. QED  BY <2>1, <2>2 DEF ConvertInv
<1>5. ASSUME NEW r \in Requests, NEW t \in TaskIds, NEW new \in TaskStatus,
             NEW withResult \in BOOLEAN, TransitionRead(r, t, new, withResult)
      PROVE  ConvertInv'
  <2>1. SourceInv' /\ ConvertedHasTask'
    BY IInv, ConvertInv, <1>5
       DEF IInv, ConvertInv, SourceInv, ConvertedHasTask, TransitionRead,
           dbVars
  <2>. QED  BY <2>1 DEF ConvertInv
<1>6. ASSUME NEW r \in Requests, TransitionCommit(r)
      PROVE  ConvertInv'
  <2>1. SourceInv'
    BY IInv, ConvertInv, <1>6
       DEF IInv, ConvertInv, TypeOK, SourceInv, RequestsInv, TaskStatus,
           TransitionCommit
  <2>2. ConvertedHasTask'
    BY IInv, ConvertInv, <1>6
       DEF IInv, ConvertInv, ConvertedHasTask, TransitionCommit
  <2>. QED  BY <2>1, <2>2 DEF ConvertInv
<1>7. ASSUME NEW r \in Requests, NEW a \in Alerts, NEW new \in PatchStatus,
             AlertRead(r, a, new)
      PROVE  ConvertInv'
  <2>1. SourceInv' /\ ConvertedHasTask'
    BY IInv, ConvertInv, <1>7
       DEF IInv, ConvertInv, SourceInv, ConvertedHasTask, AlertRead, dbVars
  <2>. QED  BY <2>1 DEF ConvertInv
<1>8. ASSUME NEW r \in Requests, AlertCommit(r)
      PROVE  ConvertInv'
  <2>1. ConvertedHasTask'
    BY IInv, ConvertInv, <1>8
       DEF IInv, ConvertInv, TypeOK, ConvertedHasTask, RequestsInv,
           PatchStatus, AlertStatus, Flushed, AlertCommit
  <2>2. SourceInv'
    BY IInv, ConvertInv, <1>8 DEF IInv, ConvertInv, SourceInv, AlertCommit
  <2>. QED  BY <2>1, <2>2 DEF ConvertInv
<1>9. ASSUME NEW r \in Requests, NEW a \in Alerts, ConvertRead(r, a)
      PROVE  ConvertInv'
  <2>1. SourceInv' /\ ConvertedHasTask'
    BY IInv, ConvertInv, <1>9
       DEF IInv, ConvertInv, SourceInv, ConvertedHasTask, ConvertRead, dbVars
  <2>. QED  BY <2>1 DEF ConvertInv
<1>10. ASSUME NEW r \in Requests, NEW t \in TaskIds, ConvertCommit(r, t)
      PROVE  ConvertInv'
  <2>1. SourceInv'
    BY IInv, ConvertInv, <1>10
       DEF IInv, ConvertInv, TypeOK, SourceInv, RequestsInv, ConvertCommit,
           InsertTask
  <2>2. ConvertedHasTask'
    BY IInv, ConvertInv, <1>10
       DEF IInv, ConvertInv, TypeOK, ConvertedHasTask, RequestsInv, SourceInv,
           ConvertCommit, InsertTask
  <2>. QED  BY <2>1, <2>2 DEF ConvertInv
<1>11. ASSUME RunnerDequeue
      PROVE  ConvertInv'
  <2>1. SourceInv' /\ ConvertedHasTask'
    BY IInv, ConvertInv, <1>11
       DEF IInv, ConvertInv, SourceInv, ConvertedHasTask, RunnerDequeue,
           dbVars
  <2>. QED  BY <2>1 DEF ConvertInv
<1>12. ASSUME RunnerLoad
      PROVE  ConvertInv'
  <2>1. SourceInv' /\ ConvertedHasTask'
    BY IInv, ConvertInv, <1>12
       DEF IInv, ConvertInv, SourceInv, ConvertedHasTask, RunnerLoad, dbVars
  <2>. QED  BY <2>1 DEF ConvertInv
<1>13. ASSUME RunnerClaim
      PROVE  ConvertInv'
  <2>1. SourceInv'
    BY IInv, ConvertInv, <1>13
       DEF IInv, ConvertInv, TypeOK, SourceInv, RunnerInv, TaskStatus,
           RunnerClaim
  <2>2. ConvertedHasTask'
    BY IInv, ConvertInv, <1>13
       DEF IInv, ConvertInv, ConvertedHasTask, RunnerClaim
  <2>. QED  BY <2>1, <2>2 DEF ConvertInv
<1>14. ASSUME NEW kind \in TitleKinds \cup {"unknown"}, RunnerRoute(kind)
      PROVE  ConvertInv'
  <2>1. SourceInv' /\ ConvertedHasTask'
    BY IInv, ConvertInv, <1>14
       DEF IInv, ConvertInv, SourceInv, ConvertedHasTask, RunnerRoute, dbVars
  <2>. QED  BY <2>1 DEF ConvertInv
<1>15. ASSUME NEW final \in {"output", "error"}, RunnerAgent(final)
      PROVE  ConvertInv'
  <2>1. SourceInv' /\ ConvertedHasTask'
    BY IInv, ConvertInv, <1>15
       DEF IInv, ConvertInv, SourceInv, ConvertedHasTask, RunnerAgent, dbVars
  <2>. QED  BY <2>1 DEF ConvertInv
<1>16. ASSUME RunnerReload
      PROVE  ConvertInv'
  <2>1. SourceInv' /\ ConvertedHasTask'
    BY IInv, ConvertInv, <1>16
       DEF IInv, ConvertInv, SourceInv, ConvertedHasTask, RunnerReload, dbVars
  <2>. QED  BY <2>1 DEF ConvertInv
<1>17. ASSUME RunnerPersist
      PROVE  ConvertInv'
  <2>1. SourceInv'
    BY IInv, ConvertInv, <1>17
       DEF IInv, ConvertInv, TypeOK, SourceInv, RunnerInv, TaskStatus,
           Outcome, Flushed, RunnerPersist
  <2>2. ConvertedHasTask'
    BY IInv, ConvertInv, <1>17
       DEF IInv, ConvertInv, ConvertedHasTask, RunnerPersist
  <2>. QED  BY <2>1, <2>2 DEF ConvertInv
<1>18. ASSUME RunnerFault
      PROVE  ConvertInv'
  <2>1. SourceInv' /\ ConvertedHasTask'
    BY IInv, ConvertInv, <1>18
       DEF IInv, ConvertInv, SourceInv, ConvertedHasTask, RunnerFault, dbVars
  <2>. QED  BY <2>1 DEF ConvertInv
<1>19. ASSUME NEW r \in Requests, EnqueueFault(r)
      PROVE  ConvertInv'
  <2>1. SourceInv' /\ ConvertedHasTask'
    BY IInv, ConvertInv, <1>19
       DEF IInv, ConvertInv, SourceInv, ConvertedHasTask, EnqueueFault, dbVars
  <2>. QED  BY <2>1 DEF ConvertInv
<1>20. ASSUME Restart
      PROVE  ConvertInv'
  <2>1. SourceInv' /\ ConvertedHasTask'
    BY IInv, ConvertInv, <1>20
       DEF IInv, ConvertInv, SourceInv, ConvertedHasTask, Restart, dbVars
  <2>. QED  BY <2>1 DEF ConvertInv
<1>21. ASSUME NEW t \in TaskIds, Redeliver(t)
      PROVE  ConvertInv'
  <2>1. SourceInv' /\ ConvertedHasTask'
    BY IInv, ConvertInv, <1>21
       DEF IInv, ConvertInv, SourceInv, ConvertedHasTask, Redeliver, dbVars
  <2>. QED  BY <2>1 DEF ConvertInv
<1>. QED  BY <1>1, <1>2, <1>3, <1>4, <1>5, <1>6, <1>7, <1>8, <1>9, <1>10,
             <1>11, <1>12,
   <1>13, <1>14, <1>15, <1>16, <1>17, <1>18, <1>19, <1>20, <1>21
   DEF Next, RequestStep, RunnerStep, FaultStep

LEMMA StutterAll == UNCHANGED vars /\ IInv /\ LossInv /\ ConvertInv
                        => IInv' /\ LossInv' /\ ConvertInv'
  BY DEF vars, dbVars, runnerVars, history, IInv, TypeOK, RequestsInv, QueueInv,
         RunnerInv, FreshInv, AutonomyBoundary, LossInv, NoSilentLoss, WriterInv,
         RunningIsHeld, ConvertInv, SourceInv, ConvertedHasTask, Queued, AwaitsPush

LEMMA InitRest == Init => LossInv /\ ConvertInv
  BY TaskAssumption
     DEF Init, LossInv, NoSilentLoss, WriterInv, RunningIsHeld, ConvertInv,
         SourceInv, ConvertedHasTask, AlertStatus

LEMMA Invariant == Spec => [](IInv /\ LossInv /\ ConvertInv)
<1>1. Init => IInv /\ LossInv /\ ConvertInv
  BY InitIInv, InitRest
<1>2. IInv /\ LossInv /\ ConvertInv /\ [Next]_vars
          => IInv' /\ LossInv' /\ ConvertInv'
  BY StepIInv, StepLoss, StepConvert, StutterAll
<1>. QED  BY <1>1, <1>2, PTL DEF Spec

(* Every reachable state is well typed.                                    *)
THEOREM TypeCorrect == Spec => []TypeOK
<1>1. IInv => TypeOK
  BY DEF IInv
<1>. QED  BY <1>1, Invariant, PTL

(* No agent runs for a task an RM keeps for himself, and none runs under a *)
(* kind that acts outside the bank's own desk (requirement TK3).           *)
THEOREM AutonomyTheorem == Spec => []AutonomyBoundary
<1>1. IInv => AutonomyBoundary
  BY DEF IInv
<1>. QED  BY <1>1, Invariant, PTL

(* No interleaving, replay or restart makes an agent run a task twice.     *)
THEOREM RunsOnceTheorem == Spec => []AgentRunsOnce
<1>1. IInv => AgentRunsOnce
  BY DEF IInv, FreshInv, AgentRunsOnce
<1>. QED  BY <1>1, Invariant, PTL

(* Only a failure can make the system forget an Auto task it accepted.     *)
THEOREM NoLossTheorem == Spec => []NoSilentLoss
<1>1. LossInv => NoSilentLoss
  BY DEF LossInv
<1>. QED  BY <1>1, Invariant, PTL

(* Only a failure can make the runner abandon a task it claimed.           *)
THEOREM HeldTheorem == Spec => []RunningIsHeld
<1>1. LossInv => RunningIsHeld
  BY DEF LossInv
<1>. QED  BY <1>1, Invariant, PTL

(* A converted alert has its task, however many RMs work on it.            *)
THEOREM ConvertTheorem == Spec => []ConvertedHasTask
<1>1. ConvertInv => ConvertedHasTask
  BY DEF ConvertInv
<1>. QED  BY <1>1, Invariant, PTL

-----------------------------------------------------------------------------
(***************************************************************************)
(* The lifecycle table.  A writer's new status succeeds the one it read,   *)
(* so a commit is a row of TK6's table or overwrites a later write.        *)
(***************************************************************************)
ReadsInv ==
    /\ \A r \in Requests : req[r].op = "transition" =>
          req[r].new \in Table!ValidTransitions[req[r].seen]
    /\ rpc = "claiming" => rseen = "created"

LEMMA StepReads ==
    ASSUME IInv, ReadsInv, Next
    PROVE  ReadsInv'
<1>1. ASSUME NEW r \in Requests, NEW t \in TaskIds, NEW m \in {"Auto", "Manual"},
             CreateTask(r, t, m)
      PROVE  ReadsInv'
  BY IInv, ReadsInv, <1>1, IdleFacts
     DEF ReadsInv, IInv, TypeOK, RequestsInv, RunnerInv,
         TaskStatus, dbVars, runnerVars, CreateTask, InsertTask, Pending
<1>2. ASSUME NEW r \in Requests, EnqueueTask(r)
      PROVE  ReadsInv'
  BY IInv, ReadsInv, <1>2, IdleFacts
     DEF ReadsInv, IInv, TypeOK, RequestsInv, RunnerInv,
         TaskStatus, dbVars, runnerVars, EnqueueTask
<1>3. ASSUME NEW t \in TaskIds, DecideSwaps(t)
      PROVE  ReadsInv'
  BY IInv, ReadsInv, <1>3, IdleFacts
     DEF ReadsInv, IInv, TypeOK, RequestsInv, RunnerInv,
         TaskStatus, dbVars, runnerVars, DecideSwaps, InsertTask
<1>4. ASSUME NEW t \in TaskIds, PrepareDraft(t)
      PROVE  ReadsInv'
  BY IInv, ReadsInv, <1>4, IdleFacts
     DEF ReadsInv, IInv, TypeOK, RequestsInv, RunnerInv,
         TaskStatus, dbVars, runnerVars, PrepareDraft, InsertTask
<1>5. ASSUME NEW r \in Requests, NEW t \in TaskIds, NEW new \in TaskStatus,
             NEW withResult \in BOOLEAN, TransitionRead(r, t, new, withResult)
      PROVE  ReadsInv'
  BY IInv, ReadsInv, <1>5, IdleFacts
     DEF ReadsInv, IInv, TypeOK, RequestsInv, RunnerInv,
         TaskStatus, dbVars, runnerVars, TransitionRead, Pending
<1>6. ASSUME NEW r \in Requests, TransitionCommit(r)
      PROVE  ReadsInv'
  BY IInv, ReadsInv, <1>6, IdleFacts
     DEF ReadsInv, IInv, TypeOK, RequestsInv, RunnerInv,
         TaskStatus, dbVars, runnerVars, TransitionCommit
<1>7. ASSUME NEW r \in Requests, NEW a \in Alerts, NEW new \in PatchStatus,
             AlertRead(r, a, new)
      PROVE  ReadsInv'
  BY IInv, ReadsInv, <1>7, IdleFacts
     DEF ReadsInv, IInv, TypeOK, RequestsInv, RunnerInv,
         TaskStatus, dbVars, runnerVars, AlertRead, Pending
<1>8. ASSUME NEW r \in Requests, AlertCommit(r)
      PROVE  ReadsInv'
  BY IInv, ReadsInv, <1>8, IdleFacts
     DEF ReadsInv, IInv, TypeOK, RequestsInv, RunnerInv,
         TaskStatus, dbVars, runnerVars, AlertCommit
<1>9. ASSUME NEW r \in Requests, NEW a \in Alerts, ConvertRead(r, a)
      PROVE  ReadsInv'
  BY IInv, ReadsInv, <1>9, IdleFacts
     DEF ReadsInv, IInv, TypeOK, RequestsInv, RunnerInv,
         TaskStatus, dbVars, runnerVars, ConvertRead, Pending
<1>10. ASSUME NEW r \in Requests, NEW t \in TaskIds, ConvertCommit(r, t)
      PROVE  ReadsInv'
  BY IInv, ReadsInv, <1>10, IdleFacts
     DEF ReadsInv, IInv, TypeOK, RequestsInv, RunnerInv,
         TaskStatus, dbVars, runnerVars, ConvertCommit, InsertTask
<1>11. ASSUME RunnerDequeue
      PROVE  ReadsInv'
  BY IInv, ReadsInv, <1>11, IdleFacts
     DEF ReadsInv, IInv, TypeOK, RequestsInv, RunnerInv,
         TaskStatus, dbVars, runnerVars, RunnerDequeue
<1>12. ASSUME RunnerLoad
      PROVE  ReadsInv'
  BY IInv, ReadsInv, <1>12, IdleFacts
     DEF ReadsInv, IInv, TypeOK, RequestsInv, RunnerInv,
         TaskStatus, dbVars, runnerVars, RunnerLoad, Claimable
<1>13. ASSUME RunnerClaim
      PROVE  ReadsInv'
  BY IInv, ReadsInv, <1>13, IdleFacts
     DEF ReadsInv, IInv, TypeOK, RequestsInv, RunnerInv,
         TaskStatus, dbVars, runnerVars, RunnerClaim
<1>14. ASSUME NEW kind \in TitleKinds \cup {"unknown"}, RunnerRoute(kind)
      PROVE  ReadsInv'
  BY IInv, ReadsInv, <1>14, IdleFacts
     DEF ReadsInv, IInv, TypeOK, RequestsInv, RunnerInv,
         TaskStatus, dbVars, runnerVars, RunnerRoute
<1>15. ASSUME NEW final \in {"output", "error"}, RunnerAgent(final)
      PROVE  ReadsInv'
  BY IInv, ReadsInv, <1>15, IdleFacts
     DEF ReadsInv, IInv, TypeOK, RequestsInv, RunnerInv,
         TaskStatus, dbVars, runnerVars, RunnerAgent
<1>16. ASSUME RunnerReload
      PROVE  ReadsInv'
  BY IInv, ReadsInv, <1>16, IdleFacts
     DEF ReadsInv, IInv, TypeOK, RequestsInv, RunnerInv,
         TaskStatus, dbVars, runnerVars, RunnerReload
<1>17. ASSUME RunnerPersist
      PROVE  ReadsInv'
  BY IInv, ReadsInv, <1>17, IdleFacts
     DEF ReadsInv, IInv, TypeOK, RequestsInv, RunnerInv,
         TaskStatus, dbVars, runnerVars, RunnerPersist, Outcome, Flushed
<1>18. ASSUME RunnerFault
      PROVE  ReadsInv'
  BY IInv, ReadsInv, <1>18, IdleFacts
     DEF ReadsInv, IInv, TypeOK, RequestsInv, RunnerInv,
         TaskStatus, dbVars, runnerVars, RunnerFault, RunnerReset
<1>19. ASSUME NEW r \in Requests, EnqueueFault(r)
      PROVE  ReadsInv'
  BY IInv, ReadsInv, <1>19, IdleFacts
     DEF ReadsInv, IInv, TypeOK, RequestsInv, RunnerInv,
         TaskStatus, dbVars, runnerVars, EnqueueFault
<1>20. ASSUME Restart
      PROVE  ReadsInv'
  BY IInv, ReadsInv, <1>20, IdleFacts
     DEF ReadsInv, IInv, TypeOK, RequestsInv, RunnerInv,
         TaskStatus, dbVars, runnerVars, Restart, RunnerReset
<1>21. ASSUME NEW t \in TaskIds, Redeliver(t)
      PROVE  ReadsInv'
  BY IInv, ReadsInv, <1>21, IdleFacts
     DEF ReadsInv, IInv, TypeOK, RequestsInv, RunnerInv,
         TaskStatus, dbVars, runnerVars, Redeliver
<1>. QED  BY <1>1, <1>2, <1>3, <1>4, <1>5, <1>6, <1>7, <1>8, <1>9, <1>10,
             <1>11, <1>12,
   <1>13, <1>14, <1>15, <1>16, <1>17, <1>18, <1>19, <1>20, <1>21
   DEF Next, RequestStep, RunnerStep, FaultStep
(* Every commit is a step of the table, or overwrites a later write.       *)
LEMMA StepTable ==
    ASSUME IInv, LossInv, ReadsInv, Next
    PROVE  \/ UNCHANGED status
           \/ \E t \in TaskIds :
                 /\ Table!Insert(t) \/ Table!Advance(t) \/ Overtaken(t)
                 /\ \A u \in TaskIds \ {t} : status'[u] = status[u]
<1>. DEFINE Row(t) == /\ Table!Insert(t) \/ Table!Advance(t) \/ Overtaken(t)
                      /\ \A u \in TaskIds \ {t} : status'[u] = status[u]
<1>1. ASSUME NEW t \in TaskIds, NEW s \in {"created", "done"},
             status[t] = "absent", status' = [status EXCEPT ![t] = s]
      PROVE  Row(t)
  BY <1>1 DEF Table!Insert, IInv, TypeOK
<1>2. ASSUME NEW t \in TaskIds, status[t] # "absent",
             NEW s \in Table!ValidTransitions[status[t]],
             status' = [status EXCEPT ![t] = s]
      PROVE  Row(t)
  BY <1>2 DEF Table!Advance, IInv, TypeOK
<1>3. ASSUME NEW t \in TaskIds, NEW s, Overtaken(t),
             status' = [status EXCEPT ![t] = s]
      PROVE  Row(t)
  BY <1>3 DEF IInv, TypeOK
<1>. DEFINE Inserts == \E t \in TaskIds :
                           \/ DecideSwaps(t) \/ PrepareDraft(t)
                           \/ \E r \in Requests : ConvertCommit(r, t)
                           \/ \E r \in Requests, m \in {"Auto", "Manual"} :
                                 CreateTask(r, t, m)
<1>. HIDE DEF Row
<1>4. CASE Inserts
  BY <1>1, <1>4 DEF CreateTask, ConvertCommit, DecideSwaps, PrepareDraft, InsertTask, Row
<1>5. ASSUME NEW r \in Requests, TransitionCommit(r)
      PROVE  \E t \in TaskIds : Row(t)
  <2>. DEFINE t == req[r].obj
  <2>1. /\ t \in TaskIds /\ status[t] # "absent"
        /\ status' = [status EXCEPT ![t] = req[r].new]
    BY <1>5 DEF TransitionCommit, IInv, RequestsInv
  <2>2. CASE req[r].seen = status[t]
    <3>1. req[r].new \in Table!ValidTransitions[status[t]]
      BY <1>5, <2>2 DEF TransitionCommit, ReadsInv
    <3>. QED  BY <1>2, <2>1, <3>1
  <2>3. CASE req[r].seen # status[t]
    <3>1. req'[r] = Idle
      BY <1>5 DEF TransitionCommit, IInv, TypeOK
    <3>2. Overtaken(t)
      BY <1>5, <2>3, <3>1 DEF Overtaken, TransitionCommit
    <3>. QED  BY <1>3, <2>1, <3>2
  <2>. QED  BY <2>2, <2>3
<1>6. CASE RunnerClaim
  <2>1. /\ rtask \in TaskIds /\ status[rtask] # "absent"
        /\ status' = [status EXCEPT ![rtask] = "running"]
    BY <1>6 DEF RunnerClaim, IInv, RunnerInv
  <2>2. CASE status[rtask] = "created"
    <3>1. "running" \in Table!ValidTransitions[status[rtask]]
      BY <2>2 DEF Table!ValidTransitions, Table!TaskStatus
    <3>. QED  BY <1>2, <2>1, <3>1 DEF Row
  <2>3. CASE status[rtask] # "created"
    <3>1. Overtaken(rtask)
      BY <1>6, <2>3 DEF Overtaken, RunnerClaim, ReadsInv
    <3>. QED  BY <1>3, <2>1, <3>1
  <2>. QED  BY <2>2, <2>3
<1>7. CASE RunnerPersist
  <2>1. rtask \in TaskIds /\ Outcome \in {"done", "closed"}
    BY <1>7 DEF RunnerPersist, IInv, RunnerInv, Outcome
  <2>2. \/ UNCHANGED status
        \/ status' = [status EXCEPT ![rtask] = Outcome]
    BY <1>7, <2>1 DEF RunnerPersist, Flushed, IInv, TypeOK
  <2>3. status[rtask] = "running" \/ writer[rtask] = "rm"
    BY <1>7 DEF RunnerPersist, LossInv, WriterInv
  <2>4. CASE status[rtask] = "running"
    <3>1. Outcome \in Table!ValidTransitions[status[rtask]]
      BY <2>1, <2>4 DEF Table!ValidTransitions, Table!TaskStatus
    <3>. QED  BY <1>2, <2>1, <2>2, <2>4, <3>1 DEF Row
  <2>5. CASE writer[rtask] = "rm"
    <3>1. Overtaken(rtask)
      BY <1>7, <2>5 DEF Overtaken, RunnerPersist
    <3>. QED  BY <1>3, <2>1, <2>2, <3>1 DEF Row
  <2>. QED  BY <2>3, <2>4, <2>5
<1>8. CASE ~ (Inserts \/ (\E r \in Requests : TransitionCommit(r))
                 \/ RunnerClaim \/ RunnerPersist)
  <2>1. CASE RequestStep
    BY <1>8, <2>1
       DEF RequestStep, TransitionRead, AlertRead, ConvertRead, EnqueueTask,
           AlertCommit, dbVars
  <2>2. CASE RunnerStep
    BY <1>8, <2>2
       DEF RunnerStep, RunnerDequeue, RunnerLoad, RunnerRoute, RunnerAgent,
           RunnerReload, dbVars
  <2>3. CASE FaultStep
    BY <2>3 DEF FaultStep, RunnerFault, Restart, EnqueueFault, Redeliver, dbVars
  <2>. QED  BY <2>1, <2>2, <2>3 DEF Next
<1>. QED  BY <1>4, <1>5, <1>6, <1>7, <1>8 DEF Row

(* A row leaves TK6's table only where a writer overwrites what another    *)
(* process wrote after its own read, for any number of RMs patching any    *)
(* task, under failures and re-deliveries alike.                           *)
THEOREM TableTheorem == Spec => TableUnlessOvertaken
<1>1. Init => ReadsInv
  BY IdleFacts DEF Init, ReadsInv
<1>2. IInv /\ ReadsInv /\ [Next]_vars => ReadsInv'
  <2>1. CASE Next
    BY <2>1, StepReads
  <2>2. CASE UNCHANGED vars
    BY <2>2 DEF vars, dbVars, runnerVars, ReadsInv
  <2>. QED  BY <2>1, <2>2
<1>. DEFINE RowStep == \E t \in TaskIds :
                         /\ Table!Insert(t) \/ Table!Advance(t) \/ Overtaken(t)
                         /\ \A u \in TaskIds \ {t} : status'[u] = status[u]
<1>3. IInv /\ LossInv /\ ReadsInv /\ [Next]_vars => [RowStep]_status
  BY StepTable DEF vars, dbVars
<1>4. Spec => [](IInv /\ LossInv)
  BY Invariant, PTL
<1>. HIDE DEF RowStep
<1>5. Spec => [][RowStep]_status
  BY <1>1, <1>2, <1>3, <1>4, PTL DEF Spec
<1>. QED  BY <1>5 DEF TableUnlessOvertaken, RowStep

(* Nothing falls out between the rows, the queue and the runner, but what  *)
(* a failure caught in a process's hands.                                  *)
THEOREM FallsOutTheorem == Spec => []NothingFallsOut
<1>. QED  BY NoLossTheorem, HeldTheorem, PTL DEF NothingFallsOut
=============================================================================
