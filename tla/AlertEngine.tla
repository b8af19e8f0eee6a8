----------------------------- MODULE AlertEngine -----------------------------
(***************************************************************************)
(* How rows of the alerts table come and go.                               *)
(*                                                                         *)
(* Three generators write it (backend/app/loaders/alerts.py, drift.py and  *)
(* price_watch.py).  Each goes client by client: in one transaction it     *)
(* deletes the client's rows of its own classes and inserts a row for each *)
(* signal it finds, unless the signal's cooldown (alert_noise.py, a Redis  *)
(* key that lives 24 hours) is on; after the commit it records the         *)
(* cooldowns of what it inserted.  alerts.py and drift.py delete rows of   *)
(* every status, price_watch.py only the open ones.                        *)
(*                                                                         *)
(* Generators are started by admin requests and by the price loop, and     *)
(* nothing keeps two of them apart; RMs change statuses meanwhile          *)
(* (backend/app/routers/alerts.py).  The database is PostgreSQL under READ *)
(* COMMITTED: a DELETE takes the rows its statement saw, waits for the     *)
(* transactions that hold one of them, and looks at their status again.    *)
(***************************************************************************)
EXTENDS Integers, FiniteSets

CONSTANTS
    Runs,           \* generator calls that may be under way at once
    Clients,
    Items,          \* what a generator finds a signal in: a position, a
                    \* promise, a news item, a strategy line
    Keys,           \* cooldown keys: client, alert class and dedup key
    KeyOf,          \* the key of an item
    ClientOf,       \* the client of a key
    GenOf,          \* the generator that owns a key's alert class
    Decisions,      \* bound: the statuses RMs set
    NumBatches,     \* bound: commits whose rows are in the table together
    MaxErrors       \* bound: failures of Redis, the database, the process

Batches    == 1..NumBatches
Generators == {"alerts", "drift", "price"}
Statuses   == {"open", "acted", "dismissed", "snoozed", "converted"}

ASSUME AlertAssumption ==
    /\ KeyOf \in [Items -> Keys]
    /\ ClientOf \in [Keys -> Clients]
    /\ GenOf \in [Keys -> Generators]
    /\ Decisions \subseteq Statuses
    /\ NumBatches \in Nat /\ MaxErrors \in Nat
    /\ "none" \notin Clients

(* A row is named by the commit that wrote it and the item it is for.      *)
Rows == Batches \X Items
RowKey(row) == KeyOf[row[2]]

ItemsOf(g, c) == {i \in Items : GenOf[KeyOf[i]] = g /\ ClientOf[KeyOf[i]] = c}

VARIABLES
    live,           \* items that show their signal now
    \* the database
    status,         \* status[row]: alerts.status, "none" if no such row
    \* Redis
    cool,           \* keys whose cooldown is on
    \* a generator call
    pc,             \* idle, client, delete, check, record
    gen,            \* which generator it is
    todo,           \* clients still to do
    cl,             \* the client it is at
    doomed,         \* rows its DELETE saw, then those it deleted
    items,          \* items of the client still to look at
    emitted,        \* items it inserts a row for
    owed,           \* keys whose cooldown it has still to record
    \* history
    fired,          \* fired[k]: calls that committed a row for k whose
                    \* cooldown has not expired since
    missed,         \* keys whose cooldown was not recorded or not read
    disturbed,      \* alerts.py calls that share their client with another
    overlapped,     \* clients where such a call was the last to commit
    errors

runVars == <<pc, gen, todo, cl, doomed, items, emitted, owed>>
sharing == <<disturbed, overlapped>>
history == <<fired, missed, sharing, errors>>
vars == <<live, status, cool, runVars, history>>

Init ==
    /\ live \in SUBSET Items
    /\ status = [row \in Rows |-> "none"]
    /\ cool = {}
    /\ pc = [r \in Runs |-> "idle"]
    /\ gen = [r \in Runs |-> "none"]
    /\ todo = [r \in Runs |-> {}]
    /\ cl = [r \in Runs |-> "none"]
    /\ doomed = [r \in Runs |-> {}]
    /\ items = [r \in Runs |-> {}]
    /\ emitted = [r \in Runs |-> {}]
    /\ owed = [r \in Runs |-> {}]
    /\ fired = [k \in Keys |-> {}]
    /\ missed = {} /\ disturbed = {} /\ overlapped = {}
    /\ errors = 0

-----------------------------------------------------------------------------
(* The world: holdings, news, promises and prices change; time passes.     *)

Appear(i) ==
    /\ i \notin live
    /\ live' = live \cup {i}
    /\ UNCHANGED <<status, cool, runVars, history>>

Vanish(i) ==
    /\ i \in live
    /\ live' = live \ {i}
    /\ UNCHANGED <<status, cool, runVars, history>>

(* A cooldown without a time to live.                                      *)
ExpireNever(k) ==
    /\ k \in cool /\ k \notin cool
    /\ UNCHANGED vars

(* The 24 hours are over.  What was committed and is still to be recorded  *)
(* counts for the next window.                                             *)
Expire(k) ==
    /\ k \in cool
    /\ cool' = cool \ {k}
    /\ fired' = [fired EXCEPT ![k] = {r \in Runs : k \in owed[r]}]
    /\ missed' = missed \ {k}
    /\ UNCHANGED <<live, status, runVars, sharing, errors>>

-----------------------------------------------------------------------------
(* A generator call.                                                       *)

(* For every client: no caller uses the generators' client_id parameter.   *)
Start(r, g) ==
    /\ pc[r] = "idle"
    /\ pc' = [pc EXCEPT ![r] = "client"]
    /\ gen' = [gen EXCEPT ![r] = g]
    /\ todo' = [todo EXCEPT ![r] = Clients]
    /\ UNCHANGED <<live, status, cool, cl, doomed, items, emitted, owed,
                   history>>

Present == {row \in Rows : status[row] # "none"}
InTransaction(r) == pc[r] \in {"delete", "check"}
Held == UNION {doomed[s] : s \in {r \in Runs : pc[r] = "check"}}

(* A batch number nobody remembers may be used again: ids are fresh.       *)
Free(b) == \A i \in Items : status[<<b, i>>] = "none"
                            /\ \A s \in Runs : <<b, i>> \notin doomed[s]

Room == Cardinality({b \in Batches : Free(b)})
           > Cardinality({s \in Runs : InTransaction(s)})

(* The rows a generator deletes before it starts again.                    *)
Wipes(g, row) == g \in {"alerts", "drift"} \/ status[row] = "open"

Doomed(g, c) == {row \in Present : /\ GenOf[RowKey(row)] = g
                                   /\ ClientOf[RowKey(row)] = c
                                   /\ Wipes(g, row)}

(* The other calls of alerts.py in a transaction on this client.           *)
Rivals(r, c) ==
    {s \in Runs \ {r} : /\ gen[r] = "alerts" /\ gen[s] = "alerts"
                        /\ InTransaction(s) /\ cl[s] = c}

(* The next client: its DELETE is sent and sees the rows committed by now. *)
BeginClient(r, c) ==
    /\ pc[r] = "client" /\ c \in todo[r]
    /\ Room
    /\ pc' = [pc EXCEPT ![r] = "delete"]
    /\ todo' = [todo EXCEPT ![r] = @ \ {c}]
    /\ cl' = [cl EXCEPT ![r] = c]
    /\ doomed' = [doomed EXCEPT ![r] = Doomed(gen[r], c)]
    /\ disturbed' = IF Rivals(r, c) = {} THEN disturbed
                    ELSE disturbed \cup Rivals(r, c) \cup {r}
    /\ UNCHANGED <<live, status, cool, gen, items, emitted, owed, fired,
                   missed, overlapped, errors>>

DeleteUnchecked(r) ==
    /\ pc[r] = "delete"
    /\ doomed[r] \cap Held = {}
    /\ pc' = [pc EXCEPT ![r] = "check"]
    /\ items' = [items EXCEPT ![r] = ItemsOf(gen[r], cl[r])]
    /\ UNCHANGED <<live, status, cool, gen, todo, cl, doomed, emitted, owed,
                   history>>

(* The DELETE ends: no transaction holds a row of it any more, and a row   *)
(* that is gone or that no longer matches is left alone.                   *)
DeleteRows(r) ==
    /\ pc[r] = "delete"
    /\ doomed[r] \cap Held = {}
    /\ pc' = [pc EXCEPT ![r] = "check"]
    /\ doomed' = [doomed EXCEPT ![r] = @ \cap Doomed(gen[r], cl[r])]
    /\ items' = [items EXCEPT ![r] = ItemsOf(gen[r], cl[r])]
    /\ UNCHANGED <<live, status, cool, gen, todo, cl, emitted, owed, history>>

(* The helpers of alerts.py keep the keys they emitted in this call and    *)
(* leave a second item of the same key; those of drift.py and              *)
(* price_watch.py do not.                                                  *)
Seen(r, k) == gen[r] = "alerts" /\ \E j \in emitted[r] : KeyOf[j] = k

(* One item: no signal, already emitted, or should_suppress says so.       *)
SkipItem(r, i) ==
    /\ pc[r] = "check" /\ i \in items[r]
    /\ i \notin live \/ Seen(r, KeyOf[i]) \/ KeyOf[i] \in cool
    /\ items' = [items EXCEPT ![r] = @ \ {i}]
    /\ UNCHANGED <<live, status, cool, pc, gen, todo, cl, doomed, emitted,
                   owed, history>>

EmitUnseen(r, i) ==
    /\ pc[r] = "check" /\ i \in items[r]
    /\ i \in live /\ KeyOf[i] \notin cool
    /\ items' = [items EXCEPT ![r] = @ \ {i}]
    /\ emitted' = [emitted EXCEPT ![r] = @ \cup {i}]
    /\ UNCHANGED <<live, status, cool, pc, gen, todo, cl, doomed, owed,
                   history>>

EmitUnsuppressed(r, i) ==
    /\ pc[r] = "check" /\ i \in items[r]
    /\ i \in live /\ ~Seen(r, KeyOf[i])
    /\ items' = [items EXCEPT ![r] = @ \ {i}]
    /\ emitted' = [emitted EXCEPT ![r] = @ \cup {i}]
    /\ UNCHANGED <<live, status, cool, pc, gen, todo, cl, doomed, owed,
                   history>>

EmitItem(r, i) ==
    /\ pc[r] = "check" /\ i \in items[r]
    /\ i \in live /\ ~Seen(r, KeyOf[i]) /\ KeyOf[i] \notin cool
    /\ items' = [items EXCEPT ![r] = @ \ {i}]
    /\ emitted' = [emitted EXCEPT ![r] = @ \cup {i}]
    /\ UNCHANGED <<live, status, cool, pc, gen, todo, cl, doomed, owed,
                   history>>

(* Redis is away: should_suppress fails open and the alert goes out.       *)
EmitBlind(r, i) ==
    /\ pc[r] = "check" /\ i \in items[r]
    /\ i \in live /\ ~Seen(r, KeyOf[i]) /\ KeyOf[i] \in cool
    /\ errors < MaxErrors
    /\ items' = [items EXCEPT ![r] = @ \ {i}]
    /\ emitted' = [emitted EXCEPT ![r] = @ \cup {i}]
    /\ missed' = missed \cup {KeyOf[i]}
    /\ errors' = errors + 1
    /\ UNCHANGED <<live, status, cool, pc, gen, todo, cl, doomed, owed, fired,
                   sharing>>

EmittedKeys(r) == {KeyOf[i] : i \in emitted[r]}

Written(r, b) ==
    [row \in Rows |-> IF row \in {b} \X emitted[r] THEN "open"
                      ELSE IF row \in doomed[r] THEN "none" ELSE status[row]]

(* The client's transaction commits: old rows out, new rows in, at once.   *)
CommitClient(r, b) ==
    /\ pc[r] = "check" /\ items[r] = {}
    /\ Free(b)
    /\ status' = Written(r, b)
    /\ fired' = [k \in Keys |-> IF k \in EmittedKeys(r) THEN fired[k] \cup {r}
                                ELSE fired[k]]
    /\ pc' = [pc EXCEPT ![r] = "record"]
    /\ owed' = [owed EXCEPT ![r] = EmittedKeys(r)]
    /\ doomed' = [doomed EXCEPT ![r] = {}]
    /\ emitted' = [emitted EXCEPT ![r] = {}]
    /\ disturbed' = disturbed \ {r}
    /\ overlapped' = CASE gen[r] # "alerts" -> overlapped
                       [] r \in disturbed   -> overlapped \cup {cl[r]}
                       [] OTHER             -> overlapped \ {cl[r]}
    /\ UNCHANGED <<live, cool, gen, todo, cl, items, missed, errors>>

(* record_cooldown, a key at a time.                                       *)
RecordCooldown(r, k) ==
    /\ pc[r] = "record" /\ k \in owed[r]
    /\ cool' = cool \cup {k}
    /\ owed' = [owed EXCEPT ![r] = @ \ {k}]
    /\ UNCHANGED <<live, status, pc, gen, todo, cl, doomed, items, emitted,
                   history>>

(* Redis is away: the failed write is logged and forgotten.                *)
RecordFails(r, k) ==
    /\ pc[r] = "record" /\ k \in owed[r]
    /\ errors < MaxErrors
    /\ owed' = [owed EXCEPT ![r] = @ \ {k}]
    /\ missed' = missed \cup {k}
    /\ errors' = errors + 1
    /\ UNCHANGED <<live, status, cool, pc, gen, todo, cl, doomed, items,
                   emitted, fired, sharing>>

NextClient(r) ==
    /\ pc[r] = "record" /\ owed[r] = {}
    /\ pc' = [pc EXCEPT ![r] = "client"]
    /\ cl' = [cl EXCEPT ![r] = "none"]
    /\ UNCHANGED <<live, status, cool, gen, todo, doomed, items, emitted, owed,
                   history>>

Finish(r) ==
    /\ pc[r] = "client" /\ todo[r] = {}
    /\ pc' = [pc EXCEPT ![r] = "idle"]
    /\ gen' = [gen EXCEPT ![r] = "none"]
    /\ UNCHANGED <<live, status, cool, todo, cl, doomed, items, emitted,
                   owed, history>>

(* An exception or a restart: the open transaction is rolled back, the     *)
(* clients still to do are not done, cooldowns not recorded yet are lost.  *)
Abort(r) ==
    /\ pc[r] # "idle"
    /\ errors < MaxErrors
    /\ errors' = errors + 1
    /\ missed' = missed \cup owed[r]
    /\ pc' = [pc EXCEPT ![r] = "idle"]
    /\ gen' = [gen EXCEPT ![r] = "none"]
    /\ todo' = [todo EXCEPT ![r] = {}]
    /\ cl' = [cl EXCEPT ![r] = "none"]
    /\ doomed' = [doomed EXCEPT ![r] = {}]
    /\ items' = [items EXCEPT ![r] = {}]
    /\ emitted' = [emitted EXCEPT ![r] = {}]
    /\ owed' = [owed EXCEPT ![r] = {}]
    /\ disturbed' = disturbed \ {r}
    /\ UNCHANGED <<live, status, cool, fired, overlapped>>

-----------------------------------------------------------------------------
(* RMs.  A request that meets a row an open transaction deletes waits for  *)
(* it; a row that is gone is a 404 or a 500, which changes nothing.        *)

(* PATCH: any status but converted, over any status.                       *)
Transition(row, s) ==
    /\ row \in Present \ Held
    /\ s \in Decisions \ {"converted"}
    /\ status' = [status EXCEPT ![row] = s]
    /\ UNCHANGED <<live, cool, runVars, history>>

(* POST convert: 409 if it is converted already.                           *)
Convert(row) ==
    /\ row \in Present \ Held
    /\ status[row] # "converted" /\ "converted" \in Decisions
    /\ status' = [status EXCEPT ![row] = "converted"]
    /\ UNCHANGED <<live, cool, runVars, history>>

-----------------------------------------------------------------------------
World == \/ \E i \in Items : Appear(i) \/ Vanish(i)
         \/ \E k \in Keys : Expire(k)

Generate(r) ==
    \/ \E c \in Clients : BeginClient(r, c)
    \/ DeleteRows(r)
    \/ \E i \in Items : SkipItem(r, i) \/ EmitItem(r, i)
    \/ \E b \in Batches : CommitClient(r, b)
    \/ \E k \in Keys : RecordCooldown(r, k)
    \/ NextClient(r)
    \/ Finish(r)

Fault(r) ==
    \/ \E i \in Items : EmitBlind(r, i)
    \/ \E k \in Keys : RecordFails(r, k)
    \/ Abort(r)

Call(r) == \E g \in {GenOf[k] : k \in Keys} : Start(r, g)

Rm == \E row \in Rows : (\E s \in Statuses : Transition(row, s)) \/ Convert(row)

Next == World \/ Rm \/ \E r \in Runs : Call(r) \/ Generate(r) \/ Fault(r)

Spec == Init /\ [][Next]_vars

(* The price loop calls its generator again and again, a call under way    *)
(* goes on, and a key with a time to live expires.  Nobody has to send an  *)
(* admin request.  The loop is strongly fair: it does not wait for one of  *)
(* Runs to be free, which is a bound of the model.                         *)
PriceLoop(r) == Start(r, "price")

FairSpec ==
    /\ Spec
    /\ \A r \in Runs : WF_vars(Generate(r)) /\ SF_vars(PriceLoop(r))
    /\ \A k \in Keys : WF_vars(Expire(k))

-----------------------------------------------------------------------------
TypeOK ==
    /\ live \subseteq Items
    /\ status \in [Rows -> Statuses \cup {"none"}]
    /\ cool \subseteq Keys
    /\ pc \in [Runs -> {"idle", "client", "delete", "check", "record"}]
    /\ gen \in [Runs -> Generators \cup {"none"}]
    /\ todo \in [Runs -> SUBSET Clients]
    /\ cl \in [Runs -> Clients \cup {"none"}]
    /\ doomed \in [Runs -> SUBSET Rows]
    /\ items \in [Runs -> SUBSET Items]
    /\ emitted \in [Runs -> SUBSET Items]
    /\ owed \in [Runs -> SUBSET Keys]
    /\ fired \in [Keys -> SUBSET Runs]
    /\ missed \subseteq Keys
    /\ disturbed \subseteq Runs
    /\ overlapped \subseteq Clients
    /\ errors \in 0..MaxErrors

(* A key silences its signal only if an alert for it was committed and the *)
(* 24 hours since are not over: "a rolled-back alert must not leave a      *)
(* cooldown key that silences the next legitimate emission"                *)
(* (alert_noise.py, record_cooldown).                                      *)
CooldownEarned == \A k \in cool : fired[k] # {}

(* Noise control: a call never emits a signal it has already committed in  *)
(* this cooldown window, unless a failure kept the cooldown from being     *)
(* written or read.  Calls that overlap may each emit it once, no more.    *)
OncePerWindow ==
    \A r \in Runs : \A k \in EmittedKeys(r) : r \notin fired[k] \/ k \in missed

(* The cooldown neither silences what was never alerted nor lets a signal  *)
(* through twice: what is on in Redis and what was committed agree.        *)
CooldownSound == CooldownEarned /\ OncePerWindow

(* alerts.py leaves two rows for a key only where two of its calls were in *)
(* a transaction on one client at once, and the next call that has the     *)
(* client to itself mends that: whatever failed, was dismissed, reopened   *)
(* or expired in between, and whatever the other generators do meanwhile.  *)
OneRowPerKey ==
    \A x, y \in Present :
        RowKey(x) = RowKey(y) /\ GenOf[RowKey(x)] = "alerts"
            => x = y \/ ClientOf[RowKey(x)] \in overlapped

(* Whatever an RM has decided on a price alert stays: a scan that overlaps *)
(* the decision neither removes nor reopens the row.                       *)
DecisionKept ==
    [][\A row \in Present :
          status[row] # "open" /\ GenOf[RowKey(row)] = "price"
             => status'[row] = status[row] \/ Rm]_vars

(* A maturity or price signal that stays is alerted in the end, the        *)
(* cooldown notwithstanding.                                               *)
HasRow(k) == \E row \in Present : RowKey(row) = k
SignalSurfaces ==
    \A i \in Items : GenOf[KeyOf[i]] = "price"
        => (i \in live ~> HasRow(KeyOf[i]) \/ i \notin live)

=============================================================================
