----------------------------- MODULE EmailIntake -----------------------------
(***************************************************************************)
(* From the RM's mailbox to prepared answers (loaders/email_ingest.py,     *)
(* email_autodraft.py, email_reply.py, and the rows demo_email.py writes   *)
(* for a pitch).  A cycle fetches the mailbox, reduces each thread to one  *)
(* message, has the model classify it, and drafts an answer to what it has *)
(* not seen before.  The refresh loop and the admin API both run cycles,   *)
(* and nothing keeps them apart; what was seen is a set in Redis.          *)
(*                                                                         *)
(* Mails are numbered in the order they are received.                      *)
(***************************************************************************)
EXTENDS LlmBudget, SequencesExt

CONSTANTS NumMails,      \* mails the mailbox gets
          EarlyMails,    \* those it has when the process starts
          Thread,        \* Thread[m]: the conversation of a mail
          Inbound,       \* mails the mailbox's owner did not send
          Entities,      \* what a mail may be about: [kind, reach], the
                         \* clients it reaches; {}: nobody the book knows
          PerCycle       \* email_autodraft_max_per_cycle

Mails == 1..NumMails
Demo  == 0

ASSUME MailAssumption ==
    /\ NumMails \in Nat /\ EarlyMails \in 0..NumMails /\ Inbound \subseteq Mails
    /\ PerCycle \in Nat

VARIABLES received,      \* the mailbox holds mails 1..received
          seen,          \* ms_graph:autodrafted
          drafts,        \* rows of message_drafts: [id, mail, client, text]
          tasks,         \* rows of tasks, DONE: [mail, client, draft]
          marker,        \* demo:divorce:artifacts: a draft id, 0 if unset
          mjob,          \* mjob[c]: what a cycle holds
          excused        \* history: mails marked as seen that nothing can be
                         \* drafted for, or whose drafting failed

mailVars == <<received, seen, drafts, tasks, marker, mjob, excused>>

Doing(op, todo, drafted, id) ==
    [op |-> op, todo |-> todo, drafted |-> drafted, plan |-> "nothing",
     client |-> {}, id |-> id, saw |-> {}]

Idle == Doing("idle", <<>>, 0, 0)

Does(c, job) == mjob' = [mjob EXCEPT ![c] = job]

MailInit ==
    /\ received = EarlyMails /\ seen = {} /\ drafts = {} /\ tasks = {} /\ marker = 0
    /\ mjob = [c \in Callers |-> Idle] /\ excused = {}

Receive ==
    /\ received < NumMails /\ Begun
    /\ received' = received + 1
    /\ UNCHANGED <<seen, drafts, tasks, marker, mjob, excused>>
    /\ UNCHANGED budgetVars

-----------------------------------------------------------------------------
(* A cycle.                                                                *)

(* _pick_thread_representative: the latest message that came in, even if   *)
(* the RM has answered it since; else the latest.                          *)
Representative(ms) ==
    IF ms \cap Inbound # {} THEN Max(ms \cap Inbound) ELSE Max(ms)

OfThread(t) == {m \in 1..received : Thread[m] = t}

(* One per thread, the thread of the newest message first.                 *)
Representatives ==
    LET threads == {Thread[m] : m \in 1..received}
        order == SetToSortSeq(threads, LAMBDA t, u :
                                 Max(OfThread(t)) > Max(OfThread(u)))
    IN  [i \in DOMAIN order |-> Representative(OfThread(order[i]))]

(* On to the next message, or to the rebuild of the radar.                 *)
GoOn(c, todo, drafted) ==
    IF todo = <<>> THEN Does(c, Idle) /\ Turns(c, Free)
    ELSE /\ Does(c, Doing("classify", todo, drafted, 0))
         /\ Turns(c, Calling)

Skip(c) == GoOn(c, Tail(mjob[c].todo), mjob[c].drafted)

Fetch(c) ==
    /\ call[c] = Free /\ received > 0 /\ Begun
    /\ GoOn(c, Representatives, 0)
    /\ UNCHANGED <<received, seen, drafts, tasks, marker, excused>>

Current(c) == Head(mjob[c].todo)

(* The signals of an entity, one per client it reaches; a reply goes to the*)
(* first client that wrote, an advice to the first holder.                 *)
Reached(reading, kind) ==
    UNION {e.reach : e \in {x \in reading : x.kind = kind}}

Answers(reading) ==
    IF Reached(reading, "client") # {}
    THEN {<<"reply", {x}>> : x \in Reached(reading, "client")}
    ELSE IF Reached(reading, "instrument") # {}
    THEN {<<"sheet", {x}>> : x \in Reached(reading, "instrument")}
    ELSE {<<"nothing", {}>>}

(* One message the model fails on is skipped, and stays unseen.            *)
ClassifyFails(c) ==
    /\ mjob[c].op = "classify" /\ call[c].at = "failed"
    /\ Skip(c)
    /\ UNCHANGED <<received, seen, drafts, tasks, marker, excused, ops>>

Wanted(c) == Current(c) \in Inbound /\ mjob[c].drafted < PerCycle

Plan(c, answer) ==
    /\ Does(c, [mjob[c] EXCEPT !.op = "mark", !.plan = answer[1],
                               !.client = answer[2]])
    /\ Turns(c, Running)

(* Mail of the RM's own, and mail beyond the cycle's cap, only signals.    *)
Classified(c, reading) ==
    /\ mjob[c].op = "classify" /\ call[c].at = "ok"
    /\ IF Wanted(c) THEN \E answer \in Answers(reading) : Plan(c, answer)
       ELSE Skip(c)
    /\ UNCHANGED <<received, seen, drafts, tasks, marker, excused, ops>>

MarkUnread(c, step) ==
    /\ mjob[c].op = "mark" /\ mjob[c].plan = step
    /\ seen' = seen \cup {Current(c)}
    /\ IF step = "nothing" THEN Skip(c) /\ excused' = excused \cup {Current(c)}
       ELSE /\ Does(c, [mjob[c] EXCEPT !.op = step])
            /\ Turns(c, IF step = "reply" THEN Calling ELSE Running)
            /\ UNCHANGED excused
    /\ UNCHANGED <<received, drafts, tasks, marker, ops>>

(* _already_drafted: SADD marks the message, and tells who was first.      *)
Mark(c, step) ==
    /\ mjob[c].op = "mark" /\ mjob[c].plan = step
    /\ seen' = seen \cup {Current(c)}
    /\ IF Current(c) \in seen THEN Skip(c) /\ UNCHANGED excused
       ELSE IF step = "nothing"
       THEN Skip(c) /\ excused' = excused \cup {Current(c)}
       ELSE /\ Does(c, [mjob[c] EXCEPT !.op = step])
            /\ Turns(c, IF step = "reply" THEN Calling ELSE Running)
            /\ UNCHANGED excused
    /\ UNCHANGED <<received, drafts, tasks, marker, ops>>

(* What goes wrong in drafting is logged: the message stays marked.        *)
DraftFails(c) ==
    /\ \/ mjob[c].op \in {"reply", "render"} /\ call[c].at = "failed"
       \/ mjob[c].op = "sheet"
    /\ Skip(c)
    /\ excused' = excused \cup {Current(c)}
    /\ UNCHANGED <<received, seen, drafts, tasks, marker, ops>>

FreshId == 1 + Max({marker} \cup {d.id : d \in drafts} \cup
                   {t.draft : t \in tasks} \cup {mjob[c].id : c \in Callers})

Row(c, id, text) == [id |-> id, mail |-> Current(c), client |-> mjob[c].client,
                     text |-> text]

TaskFor(c, id) == [mail |-> Current(c), client |-> mjob[c].client,
                   draft |-> id]

Drafted(c) == GoOn(c, Tail(mjob[c].todo), mjob[c].drafted + 1)

(* draft_email_reply: the draft and its task in one commit.                *)
Reply(c) ==
    /\ mjob[c].op = "reply" /\ call[c].at = "ok"
    /\ drafts' = drafts \cup {Row(c, FreshId, TRUE)}
    /\ tasks' = tasks \cup {TaskFor(c, FreshId)}
    /\ Drafted(c)
    /\ UNCHANGED <<received, seen, marker, excused, ops>>

(* The advice: a fact sheet, committed; its text, committed; the task.     *)
Sheet(c) ==
    /\ mjob[c].op = "sheet"
    /\ drafts' = drafts \cup {Row(c, FreshId, FALSE)}
    /\ Does(c, [mjob[c] EXCEPT !.op = "render", !.id = FreshId])
    /\ Turns(c, Calling)
    /\ UNCHANGED <<received, seen, tasks, marker, excused, ops>>

Render(c) ==
    /\ mjob[c].op = "render" /\ call[c].at = "ok"
    /\ drafts' = {IF d.id = mjob[c].id THEN [d EXCEPT !.text = TRUE] ELSE d
                     : d \in drafts}
    /\ Does(c, [mjob[c] EXCEPT !.op = "task"])
    /\ Turns(c, Running)
    /\ UNCHANGED <<received, seen, tasks, marker, excused, ops>>

FileTask(c) ==
    /\ mjob[c].op = "task"
    /\ tasks' = tasks \cup {TaskFor(c, mjob[c].id)}
    /\ Drafted(c)
    /\ UNCHANGED <<received, seen, drafts, marker, excused, ops>>

-----------------------------------------------------------------------------
(* The demo rows.                                                          *)

(* What the marker names is used again, if it is still there.              *)
EnsureRead(c) ==
    /\ call[c] = Free /\ Begun
    /\ LET there == /\ \E d \in drafts : d.id = marker
                    /\ \E t \in tasks : t.draft = marker
       IN  ~there /\ Does(c, Doing("create", <<Demo>>, 0, 0))
    /\ Turns(c, Running)
    /\ UNCHANGED <<received, seen, drafts, tasks, marker, excused>>

(* The marker is set before the rows are committed.                        *)
EnsureMark(c) ==
    /\ mjob[c].op = "create"
    /\ marker' = FreshId
    /\ Does(c, [mjob[c] EXCEPT !.op = "pin", !.id = FreshId])
    /\ UNCHANGED <<received, seen, drafts, tasks, excused, ops>>
    /\ UNCHANGED call

EnsureCommit(c) ==
    /\ mjob[c].op = "pin"
    /\ drafts' = drafts \cup {Row(c, mjob[c].id, TRUE)}
    /\ tasks' = tasks \cup {TaskFor(c, mjob[c].id)}
    /\ Does(c, Idle) /\ Turns(c, Free)
    /\ UNCHANGED <<received, seen, marker, excused, ops>>

(* reset_demo: the marker is read, the task and then the draft it names    *)
(* looked up, the marker deleted; the commit deletes the rows that were    *)
(* there when they were looked up.                                         *)
ResetRead(c) ==
    /\ call[c] = Free /\ marker # 0 /\ Begun
    /\ LET task == \E t \in tasks : t.draft = marker
       IN  Does(c, [Doing("unpin", <<Demo>>, 0, marker) EXCEPT
                      !.saw = IF task THEN {"task"} ELSE {}])
    /\ Turns(c, Running)
    /\ UNCHANGED <<received, seen, drafts, tasks, marker, excused>>

ResetUnmark(c) ==
    /\ mjob[c].op = "unpin"
    /\ LET draft == \E d \in drafts : d.id = mjob[c].id
       IN  Does(c, [mjob[c] EXCEPT !.op = "drop",
                      !.saw = @ \cup IF draft THEN {"draft"} ELSE {}])
    /\ marker' = 0
    /\ UNCHANGED <<received, seen, drafts, tasks, excused, ops>>
    /\ UNCHANGED call

ResetCommit(c) ==
    /\ mjob[c].op = "drop"
    /\ drafts' = {d \in drafts : d.id = mjob[c].id => "draft" \notin mjob[c].saw}
    /\ tasks' = {t \in tasks : t.draft = mjob[c].id => "task" \notin mjob[c].saw}
    /\ Does(c, Idle) /\ Turns(c, Free)
    /\ UNCHANGED <<received, seen, marker, excused, ops>>

-----------------------------------------------------------------------------
InHands(c) ==
    IF mjob[c].op \in {"reply", "sheet", "render", "task"} THEN {Current(c)}
    ELSE {}

(* A commit or the cancellation of the loop ends a cycle: the transaction  *)
(* rolls back, what Redis was told stays.                                  *)
CycleFails(c) ==
    /\ mjob[c] # Idle
    /\ Does(c, Idle) /\ Turns(c, Free)
    /\ excused' = excused \cup InHands(c)
    /\ UNCHANGED <<received, seen, drafts, tasks, marker, ops>>

MailsEnd ==
    /\ mjob' = [c \in Callers |-> Idle]
    /\ excused' = excused \cup UNION {InHands(c) : c \in Callers}
    /\ UNCHANGED <<received, seen, drafts, tasks, marker>>

CycleStep(c) ==
    \/ Fetch(c) \/ ClassifyFails(c) \/ DraftFails(c)
    \/ \E reading \in SUBSET Entities : Classified(c, reading)
    \/ \E step \in {"reply", "sheet", "nothing"} : Mark(c, step)
    \/ Reply(c) \/ Sheet(c) \/ Render(c) \/ FileTask(c)

DemoStep(c) ==
    \/ EnsureRead(c) \/ EnsureMark(c) \/ EnsureCommit(c)
    \/ ResetRead(c) \/ ResetUnmark(c) \/ ResetCommit(c)

MailNext ==
    \/ Receive
    \/ MeterSame /\ \E c \in Callers :
                       CycleStep(c) \/ DemoStep(c) \/ CycleFails(c)

-----------------------------------------------------------------------------
(* A message gets one prepared answer at most, whichever cycles overlap,   *)
(* fail or are repeated; and a task the RM is shown names a draft that is  *)
(* there, has its text, and is for the same message and client: no reset of*)
(* the demo takes it.  (A reset may see only one of two demo rows that are *)
(* committed meanwhile.)                                                   *)
OneAnswerEach ==
    /\ \A s, t \in tasks : s.mail = t.mail /\ s.mail # Demo => s = t
    /\ \A t \in tasks : t.mail # Demo => \E d \in drafts :
          d.id = t.draft /\ d.text /\ d.mail = t.mail /\ d.client = t.client

(* A message that counts as seen was answered, is being answered, or gave  *)
(* no client to answer, unless its drafting failed: neither the cap of a   *)
(* cycle nor another cycle makes the RM miss one.                          *)
NothingMissed ==
    \A m \in seen :
        \/ \E t \in tasks : t.mail = m
        \/ \E c \in Callers : m \in InHands(c)
        \/ m \in excused

(* Every message is answered once: none twice, none not at all.            *)
EachAnsweredOnce == OneAnswerEach /\ NothingMissed
=============================================================================
