----------------------------- MODULE AlertProofs -----------------------------
(* Theorems about the alerts: about the generator calls (AlertEngine), for  *)
(* any clients, items, keys and number of overlapping calls; about a pass   *)
(* over one client (AlertRules), for any articles, holdings, profile and    *)
(* cooldowns; and about the price scan (PriceWatch), for any clients,       *)
(* holdings, closes and threshold.                                          *)
EXTENDS AlertEngine, AlertRules, PriceWatch, TLAPS

-----------------------------------------------------------------------------
(***************************************************************************)
(* The generator calls: the inductive invariant.                           *)
(***************************************************************************)

(* What a call holds goes with where it is.                                *)
PhaseInv ==
    \A r \in Runs :
        /\ pc[r] # "idle" => gen[r] \in Generators
        /\ pc[r] \in {"delete", "check"} => cl[r] \in Clients
        /\ pc[r] \notin {"delete", "check"} => doomed[r] = {}
        /\ pc[r] # "check" => items[r] = {} /\ emitted[r] = {}
        /\ pc[r] # "record" => owed[r] = {}
        /\ items[r] \cup emitted[r] \subseteq ItemsOf(gen[r], cl[r])

(* A call that committed a row for a key is about to record its cooldown,  *)
(* or the cooldown is on, or a failure is to blame.                        *)
WindowInv ==
    /\ \A r \in Runs : \A k \in owed[r] : r \in fired[k]
    /\ \A k \in Keys : \A r \in fired[k] :
          k \in owed[r] \/ k \in cool \/ k \in missed
    /\ \A k \in cool : fired[k] # {}
    /\ \A r \in Runs : \A k \in EmittedKeys(r) : r \notin fired[k] \/ k \in missed

(* The rows a transaction has deleted match its DELETE, and no other       *)
(* transaction has deleted them.                                           *)
HeldInv ==
    \A r \in Runs : pc[r] = "check" =>
        /\ \A row \in doomed[r] : GenOf[RowKey(row)] = gen[r] /\ Wipes(gen[r], row)
        /\ \A s \in Runs : s # r /\ pc[s] = "check" => doomed[r] \cap doomed[s] = {}

(* A call of alerts.py that has its client to itself has every row of it   *)
(* in its DELETE, and any such call emits one item of a key.               *)
AloneInv ==
    /\ OneRowPerKey
    /\ \A r \in Runs \ disturbed : gen[r] = "alerts" /\ InTransaction(r) =>
          /\ Rivals(r, cl[r]) = {}
          /\ \A row \in Present :
                GenOf[RowKey(row)] = "alerts" /\ ClientOf[RowKey(row)] = cl[r]
                   => row \in doomed[r]
    /\ \A r \in Runs : gen[r] = "alerts" =>
          \A i, j \in emitted[r] : KeyOf[i] = KeyOf[j] => i = j

-----------------------------------------------------------------------------
(* A call is the Start of a generator.                                     *)
LEMMA PriceCall ==
    ASSUME NEW r \in Runs, Call(r)
    PROVE  \E g \in Generators : Start(r, g)
<1>1. \A k \in Keys : GenOf[k] \in Generators
  BY AlertAssumption
<1>. QED  BY <1>1 DEF Call

(* Each step preserves the types.                                        *)
LEMMA StepType ==
    ASSUME TypeOK, PhaseInv, Next
    PROVE  TypeOK'
<1>1. ASSUME NEW i \in Items, Appear(i)
      PROVE  TypeOK'
  BY <1>1, AlertAssumption DEF Appear, TypeOK, PhaseInv, runVars, history,
       sharing
<1>2. ASSUME NEW i \in Items, Vanish(i)
      PROVE  TypeOK'
  BY <1>2, AlertAssumption DEF Vanish, TypeOK, PhaseInv, runVars, history,
       sharing
<1>3. ASSUME NEW k \in Keys, Expire(k)
      PROVE  TypeOK'
  BY <1>3, AlertAssumption DEF Expire, TypeOK, PhaseInv, runVars, history,
       sharing
<1>4. ASSUME NEW r \in Runs, NEW g \in Generators, Start(r, g)
      PROVE  TypeOK'
  BY <1>4, AlertAssumption DEF Start, TypeOK, PhaseInv, runVars, history,
       sharing
<1>5. ASSUME NEW r \in Runs, NEW c \in Clients, BeginClient(r, c)
      PROVE  TypeOK'
  BY <1>5, AlertAssumption DEF BeginClient, Doomed, Present, Rivals, TypeOK,
       PhaseInv, runVars, history, sharing
<1>6. ASSUME NEW r \in Runs, DeleteRows(r)
      PROVE  TypeOK'
  BY <1>6, AlertAssumption DEF DeleteRows, ItemsOf, TypeOK, PhaseInv, runVars,
       history, sharing
<1>7. ASSUME NEW r \in Runs, NEW i \in Items, SkipItem(r, i)
      PROVE  TypeOK'
  BY <1>7, AlertAssumption DEF SkipItem, TypeOK, PhaseInv, runVars, history,
       sharing
<1>8. ASSUME NEW r \in Runs, NEW i \in Items, EmitItem(r, i)
      PROVE  TypeOK'
  BY <1>8, AlertAssumption DEF EmitItem, TypeOK, PhaseInv, runVars, history,
       sharing
<1>9. ASSUME NEW r \in Runs, NEW i \in Items, EmitBlind(r, i)
      PROVE  TypeOK'
  BY <1>9, AlertAssumption DEF EmitBlind, TypeOK, PhaseInv, runVars, history,
       sharing
<1>10. ASSUME NEW r \in Runs, NEW b \in Batches, CommitClient(r, b)
      PROVE  TypeOK'
  <2>1. EmittedKeys(r) \subseteq Keys
    BY <1>10, AlertAssumption DEF TypeOK, EmittedKeys
  <2>2. status' \in [Rows -> Statuses \cup {"none"}]
    BY <1>10 DEF CommitClient, Written, TypeOK, Statuses
  <2>3. fired' \in [Keys -> SUBSET Runs]
    BY <1>10 DEF CommitClient, TypeOK
  <2>4. owed' \in [Runs -> SUBSET Keys]
    BY <1>10, <2>1 DEF CommitClient, TypeOK
  <2>5. cl[r] \in Clients
    BY <1>10 DEF CommitClient, PhaseInv
  <2>6. disturbed' \subseteq Runs /\ overlapped' \subseteq Clients
    BY <1>10, <2>5 DEF CommitClient, TypeOK
  <2>. QED
    BY <1>10, <2>2, <2>3, <2>4, <2>6 DEF CommitClient, TypeOK
<1>11. ASSUME NEW r \in Runs, NEW k \in Keys, RecordCooldown(r, k)
      PROVE  TypeOK'
  BY <1>11, AlertAssumption DEF RecordCooldown, TypeOK, PhaseInv, runVars,
       history, sharing
<1>12. ASSUME NEW r \in Runs, NEW k \in Keys, RecordFails(r, k)
      PROVE  TypeOK'
  BY <1>12, AlertAssumption DEF RecordFails, TypeOK, PhaseInv, runVars,
       history, sharing
<1>13. ASSUME NEW r \in Runs, NextClient(r)
      PROVE  TypeOK'
  BY <1>13, AlertAssumption DEF NextClient, TypeOK, PhaseInv, runVars, history,
       sharing
<1>14. ASSUME NEW r \in Runs, Finish(r)
      PROVE  TypeOK'
  BY <1>14, AlertAssumption DEF Finish, TypeOK, PhaseInv, runVars, history,
       sharing
<1>15. ASSUME NEW r \in Runs, Abort(r)
      PROVE  TypeOK'
  BY <1>15, AlertAssumption DEF Abort, TypeOK, PhaseInv, runVars, history,
       sharing
<1>16. ASSUME NEW row \in Rows, NEW s \in Statuses, Transition(row, s)
      PROVE  TypeOK'
  BY <1>16, AlertAssumption DEF Transition, TypeOK, PhaseInv, runVars, history,
       sharing
<1>17. ASSUME NEW row \in Rows, Convert(row)
      PROVE  TypeOK'
  BY <1>17, AlertAssumption DEF Convert, TypeOK, PhaseInv, runVars, history,
       sharing
<1>. QED
  BY <1>1, <1>2, <1>3, <1>4, <1>5, <1>6, <1>7, <1>8, <1>9, <1>10, <1>11,
     <1>12, <1>13, <1>14, <1>15, <1>16, <1>17, PriceCall
     DEF Next, World, Generate, Fault, Rm

(* ... what a call holds goes with where it is.                           *)
LEMMA StepPhase ==
    ASSUME TypeOK, PhaseInv, Next
    PROVE  PhaseInv'
<1>1. ASSUME NEW i \in Items, Appear(i)
      PROVE  PhaseInv'
  BY <1>1, AlertAssumption DEF Appear, TypeOK, PhaseInv, ItemsOf, runVars,
       history, sharing
<1>2. ASSUME NEW i \in Items, Vanish(i)
      PROVE  PhaseInv'
  BY <1>2, AlertAssumption DEF Vanish, TypeOK, PhaseInv, ItemsOf, runVars,
       history, sharing
<1>3. ASSUME NEW k \in Keys, Expire(k)
      PROVE  PhaseInv'
  BY <1>3, AlertAssumption DEF Expire, TypeOK, PhaseInv, ItemsOf, runVars,
       history, sharing
<1>4. ASSUME NEW r \in Runs, NEW g \in Generators, Start(r, g)
      PROVE  PhaseInv'
  BY <1>4, AlertAssumption DEF Start, TypeOK, PhaseInv, ItemsOf, runVars,
       history, sharing
<1>5. ASSUME NEW r \in Runs, NEW c \in Clients, BeginClient(r, c)
      PROVE  PhaseInv'
  BY <1>5, AlertAssumption DEF BeginClient, Doomed, Present, TypeOK, PhaseInv,
       ItemsOf, runVars, history, sharing
<1>6. ASSUME NEW r \in Runs, DeleteRows(r)
      PROVE  PhaseInv'
  BY <1>6, AlertAssumption DEF DeleteRows, Doomed, Present, TypeOK, PhaseInv,
       ItemsOf, runVars, history, sharing
<1>7. ASSUME NEW r \in Runs, NEW i \in Items, SkipItem(r, i)
      PROVE  PhaseInv'
  BY <1>7, AlertAssumption DEF SkipItem, TypeOK, PhaseInv, ItemsOf, runVars,
       history, sharing
<1>8. ASSUME NEW r \in Runs, NEW i \in Items, EmitItem(r, i)
      PROVE  PhaseInv'
  BY <1>8, AlertAssumption DEF EmitItem, TypeOK, PhaseInv, ItemsOf, runVars,
       history, sharing
<1>9. ASSUME NEW r \in Runs, NEW i \in Items, EmitBlind(r, i)
      PROVE  PhaseInv'
  BY <1>9, AlertAssumption DEF EmitBlind, TypeOK, PhaseInv, ItemsOf, runVars,
       history, sharing
<1>10. ASSUME NEW r \in Runs, NEW b \in Batches, CommitClient(r, b)
      PROVE  PhaseInv'
  BY <1>10, AlertAssumption DEF CommitClient, Written, EmittedKeys, TypeOK,
       PhaseInv, ItemsOf, runVars, history, sharing
<1>11. ASSUME NEW r \in Runs, NEW k \in Keys, RecordCooldown(r, k)
      PROVE  PhaseInv'
  BY <1>11, AlertAssumption DEF RecordCooldown, TypeOK, PhaseInv, ItemsOf,
       runVars, history, sharing
<1>12. ASSUME NEW r \in Runs, NEW k \in Keys, RecordFails(r, k)
      PROVE  PhaseInv'
  BY <1>12, AlertAssumption DEF RecordFails, TypeOK, PhaseInv, ItemsOf,
       runVars, history, sharing
<1>13. ASSUME NEW r \in Runs, NextClient(r)
      PROVE  PhaseInv'
  BY <1>13, AlertAssumption DEF NextClient, TypeOK, PhaseInv, ItemsOf, runVars,
       history, sharing
<1>14. ASSUME NEW r \in Runs, Finish(r)
      PROVE  PhaseInv'
  BY <1>14, AlertAssumption DEF Finish, TypeOK, PhaseInv, ItemsOf, runVars,
       history, sharing
<1>15. ASSUME NEW r \in Runs, Abort(r)
      PROVE  PhaseInv'
  BY <1>15, AlertAssumption DEF Abort, TypeOK, PhaseInv, ItemsOf, runVars,
       history, sharing
<1>16. ASSUME NEW row \in Rows, NEW s \in Statuses, Transition(row, s)
      PROVE  PhaseInv'
  BY <1>16, AlertAssumption DEF Transition, TypeOK, PhaseInv, ItemsOf, runVars,
       history, sharing
<1>17. ASSUME NEW row \in Rows, Convert(row)
      PROVE  PhaseInv'
  BY <1>17, AlertAssumption DEF Convert, TypeOK, PhaseInv, ItemsOf, runVars,
       history, sharing
<1>. QED
  BY <1>1, <1>2, <1>3, <1>4, <1>5, <1>6, <1>7, <1>8, <1>9, <1>10, <1>11,
     <1>12, <1>13, <1>14, <1>15, <1>16, <1>17, PriceCall
     DEF Next, World, Generate, Fault, Rm

(* ... the cooldowns: what a call committed in this window is being        *)
(* recorded, recorded, or missed.                                          *)
LEMMA StepWindow ==
    ASSUME TypeOK, PhaseInv, WindowInv, Next
    PROVE  WindowInv'
<1>1. ASSUME NEW i \in Items, Appear(i)
      PROVE  WindowInv'
  BY <1>1, AlertAssumption DEF Appear, TypeOK, PhaseInv, WindowInv,
       EmittedKeys, runVars, history, sharing
<1>2. ASSUME NEW i \in Items, Vanish(i)
      PROVE  WindowInv'
  BY <1>2, AlertAssumption DEF Vanish, TypeOK, PhaseInv, WindowInv,
       EmittedKeys, runVars, history, sharing
<1>3. ASSUME NEW k \in Keys, Expire(k)
      PROVE  WindowInv'
  BY <1>3, AlertAssumption DEF Expire, TypeOK, PhaseInv, WindowInv,
       EmittedKeys, runVars, history, sharing
<1>4. ASSUME NEW r \in Runs, NEW g \in Generators, Start(r, g)
      PROVE  WindowInv'
  BY <1>4, AlertAssumption DEF Start, TypeOK, PhaseInv, WindowInv, EmittedKeys,
       runVars, history, sharing
<1>5. ASSUME NEW r \in Runs, NEW c \in Clients, BeginClient(r, c)
      PROVE  WindowInv'
  BY <1>5, AlertAssumption DEF BeginClient, TypeOK, PhaseInv, WindowInv,
       EmittedKeys, runVars, history, sharing
<1>6. ASSUME NEW r \in Runs, DeleteRows(r)
      PROVE  WindowInv'
  BY <1>6, AlertAssumption DEF DeleteRows, TypeOK, PhaseInv, WindowInv,
       EmittedKeys, runVars, history, sharing
<1>7. ASSUME NEW r \in Runs, NEW i \in Items, SkipItem(r, i)
      PROVE  WindowInv'
  BY <1>7, AlertAssumption DEF SkipItem, TypeOK, PhaseInv, WindowInv,
       EmittedKeys, runVars, history, sharing
<1>8. ASSUME NEW r \in Runs, NEW i \in Items, EmitItem(r, i)
      PROVE  WindowInv'
  BY <1>8, AlertAssumption DEF EmitItem, TypeOK, PhaseInv, WindowInv,
       EmittedKeys, runVars, history, sharing
<1>9. ASSUME NEW r \in Runs, NEW i \in Items, EmitBlind(r, i)
      PROVE  WindowInv'
  BY <1>9, AlertAssumption DEF EmitBlind, TypeOK, PhaseInv, WindowInv,
       EmittedKeys, runVars, history, sharing
<1>10. ASSUME NEW r \in Runs, NEW b \in Batches, CommitClient(r, b)
      PROVE  WindowInv'
  BY <1>10, AlertAssumption DEF CommitClient, Written, TypeOK, PhaseInv,
       WindowInv, EmittedKeys, runVars, history, sharing
<1>11. ASSUME NEW r \in Runs, NEW k \in Keys, RecordCooldown(r, k)
      PROVE  WindowInv'
  BY <1>11, AlertAssumption DEF RecordCooldown, TypeOK, PhaseInv, WindowInv,
       EmittedKeys, runVars, history, sharing
<1>12. ASSUME NEW r \in Runs, NEW k \in Keys, RecordFails(r, k)
      PROVE  WindowInv'
  BY <1>12, AlertAssumption DEF RecordFails, TypeOK, PhaseInv, WindowInv,
       EmittedKeys, runVars, history, sharing
<1>13. ASSUME NEW r \in Runs, NextClient(r)
      PROVE  WindowInv'
  BY <1>13, AlertAssumption DEF NextClient, TypeOK, PhaseInv, WindowInv,
       EmittedKeys, runVars, history, sharing
<1>14. ASSUME NEW r \in Runs, Finish(r)
      PROVE  WindowInv'
  BY <1>14, AlertAssumption DEF Finish, TypeOK, PhaseInv, WindowInv,
       EmittedKeys, runVars, history, sharing
<1>15. ASSUME NEW r \in Runs, Abort(r)
      PROVE  WindowInv'
  BY <1>15, AlertAssumption DEF Abort, TypeOK, PhaseInv, WindowInv,
       EmittedKeys, runVars, history, sharing
<1>16. ASSUME NEW row \in Rows, NEW s \in Statuses, Transition(row, s)
      PROVE  WindowInv'
  BY <1>16, AlertAssumption DEF Transition, TypeOK, PhaseInv, WindowInv,
       EmittedKeys, runVars, history, sharing
<1>17. ASSUME NEW row \in Rows, Convert(row)
      PROVE  WindowInv'
  BY <1>17, AlertAssumption DEF Convert, TypeOK, PhaseInv, WindowInv,
       EmittedKeys, runVars, history, sharing
<1>. QED
  BY <1>1, <1>2, <1>3, <1>4, <1>5, <1>6, <1>7, <1>8, <1>9, <1>10, <1>11,
     <1>12, <1>13, <1>14, <1>15, <1>16, <1>17, PriceCall
     DEF Next, World, Generate, Fault, Rm

(* ... the rows a transaction deletes: they match, and nobody else deletes *)
(* or changes them.                                                        *)
LEMMA StepHeld ==
    ASSUME TypeOK, PhaseInv, HeldInv, Next
    PROVE  HeldInv'
<1>1. ASSUME NEW i \in Items, Appear(i)
      PROVE  HeldInv'
  BY <1>1, AlertAssumption DEF Appear, TypeOK, PhaseInv, HeldInv, Wipes,
       RowKey, runVars, history, sharing
<1>2. ASSUME NEW i \in Items, Vanish(i)
      PROVE  HeldInv'
  BY <1>2, AlertAssumption DEF Vanish, TypeOK, PhaseInv, HeldInv, Wipes,
       RowKey, runVars, history, sharing
<1>3. ASSUME NEW k \in Keys, Expire(k)
      PROVE  HeldInv'
  BY <1>3, AlertAssumption DEF Expire, TypeOK, PhaseInv, HeldInv, Wipes,
       RowKey, runVars, history, sharing
<1>4. ASSUME NEW r \in Runs, NEW g \in Generators, Start(r, g)
      PROVE  HeldInv'
  BY <1>4, AlertAssumption DEF Start, TypeOK, PhaseInv, HeldInv, Wipes, RowKey,
       runVars, history, sharing
<1>5. ASSUME NEW r \in Runs, NEW c \in Clients, BeginClient(r, c)
      PROVE  HeldInv'
  BY <1>5, AlertAssumption DEF BeginClient, TypeOK, PhaseInv, HeldInv, Wipes,
       RowKey, runVars, history, sharing
<1>6. ASSUME NEW r \in Runs, DeleteRows(r)
      PROVE  HeldInv'
  BY <1>6, AlertAssumption DEF DeleteRows, Held, Doomed, Present, TypeOK,
       PhaseInv, HeldInv, Wipes, RowKey, runVars, history, sharing
<1>7. ASSUME NEW r \in Runs, NEW i \in Items, SkipItem(r, i)
      PROVE  HeldInv'
  BY <1>7, AlertAssumption DEF SkipItem, TypeOK, PhaseInv, HeldInv, Wipes,
       RowKey, runVars, history, sharing
<1>8. ASSUME NEW r \in Runs, NEW i \in Items, EmitItem(r, i)
      PROVE  HeldInv'
  BY <1>8, AlertAssumption DEF EmitItem, TypeOK, PhaseInv, HeldInv, Wipes,
       RowKey, runVars, history, sharing
<1>9. ASSUME NEW r \in Runs, NEW i \in Items, EmitBlind(r, i)
      PROVE  HeldInv'
  BY <1>9, AlertAssumption DEF EmitBlind, TypeOK, PhaseInv, HeldInv, Wipes,
       RowKey, runVars, history, sharing
<1>10. ASSUME NEW r \in Runs, NEW b \in Batches, CommitClient(r, b)
      PROVE  HeldInv'
  BY <1>10, AlertAssumption DEF CommitClient, Written, Free, Rows, TypeOK,
       PhaseInv, HeldInv, Wipes, RowKey, runVars, history, sharing
<1>11. ASSUME NEW r \in Runs, NEW k \in Keys, RecordCooldown(r, k)
      PROVE  HeldInv'
  BY <1>11, AlertAssumption DEF RecordCooldown, TypeOK, PhaseInv, HeldInv,
       Wipes, RowKey, runVars, history, sharing
<1>12. ASSUME NEW r \in Runs, NEW k \in Keys, RecordFails(r, k)
      PROVE  HeldInv'
  BY <1>12, AlertAssumption DEF RecordFails, TypeOK, PhaseInv, HeldInv, Wipes,
       RowKey, runVars, history, sharing
<1>13. ASSUME NEW r \in Runs, NextClient(r)
      PROVE  HeldInv'
  BY <1>13, AlertAssumption DEF NextClient, TypeOK, PhaseInv, HeldInv, Wipes,
       RowKey, runVars, history, sharing
<1>14. ASSUME NEW r \in Runs, Finish(r)
      PROVE  HeldInv'
  BY <1>14, AlertAssumption DEF Finish, TypeOK, PhaseInv, HeldInv, Wipes,
       RowKey, runVars, history, sharing
<1>15. ASSUME NEW r \in Runs, Abort(r)
      PROVE  HeldInv'
  BY <1>15, AlertAssumption DEF Abort, TypeOK, PhaseInv, HeldInv, Wipes,
       RowKey, runVars, history, sharing
<1>16. ASSUME NEW row \in Rows, NEW s \in Statuses, Transition(row, s)
      PROVE  HeldInv'
  BY <1>16, AlertAssumption DEF Transition, Held, TypeOK, PhaseInv, HeldInv,
       Wipes, RowKey, runVars, history, sharing
<1>17. ASSUME NEW row \in Rows, Convert(row)
      PROVE  HeldInv'
  BY <1>17, AlertAssumption DEF Convert, Held, TypeOK, PhaseInv, HeldInv,
       Wipes, RowKey, runVars, history, sharing
<1>. QED
  BY <1>1, <1>2, <1>3, <1>4, <1>5, <1>6, <1>7, <1>8, <1>9, <1>10, <1>11,
     <1>12, <1>13, <1>14, <1>15, <1>16, <1>17, PriceCall
     DEF Next, World, Generate, Fault, Rm

(* ... and the rows of alerts.py.                                          *)
LEMMA StepAlone ==
    ASSUME TypeOK, PhaseInv, HeldInv, AloneInv, Next
    PROVE  AloneInv'
<1>1. ASSUME NEW i \in Items, Appear(i)
      PROVE  AloneInv'
  BY <1>1, AlertAssumption DEF Appear, TypeOK, PhaseInv, AloneInv,
       InTransaction, Rivals, OneRowPerKey, Present, RowKey, runVars, history,
       sharing
<1>2. ASSUME NEW i \in Items, Vanish(i)
      PROVE  AloneInv'
  BY <1>2, AlertAssumption DEF Vanish, TypeOK, PhaseInv, AloneInv,
       InTransaction, Rivals, OneRowPerKey, Present, RowKey, runVars, history,
       sharing
<1>3. ASSUME NEW k \in Keys, Expire(k)
      PROVE  AloneInv'
  BY <1>3, AlertAssumption DEF Expire, TypeOK, PhaseInv, AloneInv,
       InTransaction, Rivals, OneRowPerKey, Present, RowKey, runVars, history,
       sharing
<1>4. ASSUME NEW r \in Runs, NEW g \in Generators, Start(r, g)
      PROVE  AloneInv'
  BY <1>4, AlertAssumption DEF Start, TypeOK, PhaseInv, AloneInv,
       InTransaction, Rivals, OneRowPerKey, Present, RowKey, runVars, history,
       sharing
<1>5. ASSUME NEW r \in Runs, NEW c \in Clients, BeginClient(r, c)
      PROVE  AloneInv'
  BY <1>5, AlertAssumption DEF BeginClient, Doomed, Wipes, TypeOK, PhaseInv,
       AloneInv, InTransaction, Rivals, OneRowPerKey, Present, RowKey, runVars,
       history, sharing
<1>6. ASSUME NEW r \in Runs, DeleteRows(r)
      PROVE  AloneInv'
  BY <1>6, AlertAssumption DEF DeleteRows, Doomed, Wipes, TypeOK, PhaseInv,
       AloneInv, InTransaction, Rivals, OneRowPerKey, Present, RowKey, runVars,
       history, sharing
<1>7. ASSUME NEW r \in Runs, NEW i \in Items, SkipItem(r, i)
      PROVE  AloneInv'
  BY <1>7, AlertAssumption DEF SkipItem, TypeOK, PhaseInv, AloneInv,
       InTransaction, Rivals, OneRowPerKey, Present, RowKey, runVars, history,
       sharing
<1>8. ASSUME NEW r \in Runs, NEW i \in Items, EmitItem(r, i)
      PROVE  AloneInv'
  BY <1>8, AlertAssumption DEF EmitItem, Seen, TypeOK, PhaseInv, AloneInv,
       InTransaction, Rivals, OneRowPerKey, Present, RowKey, runVars, history,
       sharing
<1>9. ASSUME NEW r \in Runs, NEW i \in Items, EmitBlind(r, i)
      PROVE  AloneInv'
  BY <1>9, AlertAssumption DEF EmitBlind, Seen, TypeOK, PhaseInv, AloneInv,
       InTransaction, Rivals, OneRowPerKey, Present, RowKey, runVars, history,
       sharing
<1>10. ASSUME NEW r \in Runs, NEW b \in Batches, CommitClient(r, b)
      PROVE  AloneInv'
  BY <1>10, AlertAssumption DEF CommitClient, Written, Free, Rows, ItemsOf,
       TypeOK, PhaseInv, AloneInv, InTransaction, Rivals, OneRowPerKey,
       Present, RowKey, runVars, history, sharing
<1>11. ASSUME NEW r \in Runs, NEW k \in Keys, RecordCooldown(r, k)
      PROVE  AloneInv'
  BY <1>11, AlertAssumption DEF RecordCooldown, TypeOK, PhaseInv, AloneInv,
       InTransaction, Rivals, OneRowPerKey, Present, RowKey, runVars, history,
       sharing
<1>12. ASSUME NEW r \in Runs, NEW k \in Keys, RecordFails(r, k)
      PROVE  AloneInv'
  BY <1>12, AlertAssumption DEF RecordFails, TypeOK, PhaseInv, AloneInv,
       InTransaction, Rivals, OneRowPerKey, Present, RowKey, runVars, history,
       sharing
<1>13. ASSUME NEW r \in Runs, NextClient(r)
      PROVE  AloneInv'
  BY <1>13, AlertAssumption DEF NextClient, TypeOK, PhaseInv, AloneInv,
       InTransaction, Rivals, OneRowPerKey, Present, RowKey, runVars, history,
       sharing
<1>14. ASSUME NEW r \in Runs, Finish(r)
      PROVE  AloneInv'
  BY <1>14, AlertAssumption DEF Finish, TypeOK, PhaseInv, AloneInv,
       InTransaction, Rivals, OneRowPerKey, Present, RowKey, runVars, history,
       sharing
<1>15. ASSUME NEW r \in Runs, Abort(r)
      PROVE  AloneInv'
  BY <1>15, AlertAssumption DEF Abort, TypeOK, PhaseInv, AloneInv,
       InTransaction, Rivals, OneRowPerKey, Present, RowKey, runVars, history,
       sharing
<1>16. ASSUME NEW row \in Rows, NEW s \in Statuses, Transition(row, s)
      PROVE  AloneInv'
  BY <1>16, AlertAssumption DEF Transition, TypeOK, PhaseInv, AloneInv,
       InTransaction, Rivals, OneRowPerKey, Present, RowKey, runVars, history,
       sharing
<1>17. ASSUME NEW row \in Rows, Convert(row)
      PROVE  AloneInv'
  BY <1>17, AlertAssumption DEF Convert, TypeOK, PhaseInv, AloneInv,
       InTransaction, Rivals, OneRowPerKey, Present, RowKey, runVars, history,
       sharing
<1>. QED
  BY <1>1, <1>2, <1>3, <1>4, <1>5, <1>6, <1>7, <1>8, <1>9, <1>10, <1>11,
     <1>12, <1>13, <1>14, <1>15, <1>16, <1>17, PriceCall
     DEF Next, World, Generate, Fault, Rm

-----------------------------------------------------------------------------
IInv == TypeOK /\ PhaseInv /\ WindowInv /\ HeldInv

LEMMA InitIInv == Init => IInv
  BY AlertAssumption
     DEF Init, IInv, TypeOK, PhaseInv, WindowInv, HeldInv, EmittedKeys

LEMMA StutterIInv ==
    ASSUME IInv, UNCHANGED vars  PROVE  IInv'
  BY DEF IInv, TypeOK, PhaseInv, WindowInv, HeldInv, EmittedKeys, Wipes, vars,
         runVars, history, sharing

LEMMA Inductive == Spec => []IInv
<1>1. IInv /\ Next => IInv'
  BY StepType, StepPhase, StepWindow, StepHeld DEF IInv
<1>2. IInv /\ [Next]_vars => IInv'
  BY <1>1, StutterIInv
<1>. QED  BY InitIInv, <1>2, PTL DEF Spec

(* Every reachable state is well typed: statuses, cooldowns and what a     *)
(* generator call holds are what the code can produce.                     *)
THEOREM TypeCorrect == Spec => []TypeOK
<1>1. IInv => TypeOK
  BY DEF IInv
<1>. QED  BY Inductive, <1>1, PTL

(* Whatever fails and however calls overlap, a cooldown that is on was     *)
(* earned by a committed alert in the window it silences.                  *)
THEOREM EarnedTheorem == Spec => []CooldownEarned
<1>1. IInv => CooldownEarned
  BY DEF IInv, WindowInv, CooldownEarned
<1>. QED  BY Inductive, <1>1, PTL

(* A generator call does not emit again, within the window, a signal it    *)
(* has committed, unless Redis or the process failed.                      *)
THEOREM OncePerWindowTheorem == Spec => []OncePerWindow
<1>1. IInv => OncePerWindow
  BY DEF IInv, WindowInv, OncePerWindow
<1>. QED  BY Inductive, <1>1, PTL

LEMMA DecisionStep ==
    ASSUME IInv, [Next]_vars, NEW row \in Present,
           status[row] # "open", GenOf[RowKey(row)] = "price"
    PROVE  status'[row] = status[row] \/ Rm
<1>1. ASSUME NEW r \in Runs, NEW b \in Batches, CommitClient(r, b)
      PROVE  status'[row] = status[row]
  <2>1. row \in Rows /\ status[row] # "none"
    BY DEF Present
  <2>2. row \notin doomed[r]
    BY <1>1 DEF CommitClient, IInv, HeldInv, Wipes
  <2>3. row \notin {b} \X emitted[r]
    BY <1>1, <2>1 DEF CommitClient, Free, IInv, TypeOK
  <2>. QED  BY <1>1, <2>1, <2>2, <2>3 DEF CommitClient, Written
<1>2. \/ status' = status \/ Rm
      \/ \E r \in Runs, b \in Batches : CommitClient(r, b)
  BY DEF Next, World, Generate, Fault, Call, Appear, Vanish, Expire, Start,
         BeginClient, DeleteRows, SkipItem, EmitItem, EmitBlind, RecordCooldown,
         RecordFails, NextClient, Finish, Abort, vars
<1>. QED  BY <1>1, <1>2

(* A scan never removes or reopens a price alert an RM has decided on,     *)
(* however the two overlap.                                                *)
THEOREM DecisionTheorem == Spec => DecisionKept
<1>1. IInv /\ [Next]_vars =>
        [\A row \in Present :
            status[row] # "open" /\ GenOf[RowKey(row)] = "price"
               => status'[row] = status[row] \/ Rm]_vars
  BY DecisionStep
<1>. QED  BY Inductive, <1>1, PTL DEF Spec, DecisionKept

(* However many calls overlap, two rows for a key of alerts.py mean that   *)
(* two of its calls shared the client and none had it to itself since.     *)
THEOREM OneRowTheorem == Spec => []OneRowPerKey
<1>1. Init => AloneInv
  BY DEF Init, AloneInv, InTransaction, OneRowPerKey, Present
<1>2. AloneInv /\ UNCHANGED vars => AloneInv'
  BY DEF AloneInv, OneRowPerKey, Present, Rivals, InTransaction, vars,
       runVars, history, sharing
<1>3. IInv /\ AloneInv /\ [Next]_vars => AloneInv'
  BY StepAlone, <1>2 DEF IInv
<1>4. AloneInv => OneRowPerKey
  BY DEF AloneInv
<1>. QED  BY Inductive, <1>1, <1>3, <1>4, PTL DEF Spec

(* The cooldown and the commits agree, however many calls overlap.         *)
THEOREM CooldownTheorem == Spec => []CooldownSound
<1>. QED  BY EarnedTheorem, OncePerWindowTheorem, PTL DEF CooldownSound


-----------------------------------------------------------------------------
(***************************************************************************)
(* The pass over a client.                                                 *)
(***************************************************************************)

Helpers == {"news", "conflict", "values", "quiet", "promise", "guardrail",
            "drift", "sell"}

StageInv ==
    /\ stage \in Helpers \cup {"rank", "done"} /\ item \in Nat
    /\ Len(feed) \in Nat /\ DOMAIN feed = 1..Len(feed)

(* A trade alert on a story has the trade key, a reach-out the other one:  *)
(* who finds a key taken finds the alert it would have raised.             *)
KeyInv ==
    \A a \in alerts :
        a.class = "news_impact" =>
            /\ a.key[2] = "trade" => a.action = "Trade"
            /\ a.key[2] = "reach" => a.action = "ReachOut"

(* Some rows have the trade and the reach-out of an article, or a cooldown *)
(* is on, or the article does not call for both.                           *)
Paired(it, rows, cooling) ==
    /\ it.impact \in {"threat", "opportunity"} /\ it.own /\ it.care
    /\ <<"news_impact", TradeKey(it)>> \notin cooling
    /\ <<"news_impact", ReachKey(it)>> \notin cooling
    => \A action \in {"Trade", "ReachOut"} :
          \E a \in rows : /\ a.class = "news_impact"
                          /\ a.action = action
                          /\ a.key[1] = it.cluster

(* Every article the pass has gone by is dealt with.                       *)
NewsInv ==
    \A n \in DOMAIN feed :
        (stage # "news" \/ n < item) => Paired(feed[n], alerts, cooled)

RulesInv == StageInv /\ KeyInv /\ NewsInv

-----------------------------------------------------------------------------
(* The four alerts an article may raise.                                   *)
LEMMA NewsRaised ==
    ASSUME stage = "news", NEW a \in Raised
    PROVE  LET it == feed[item]
           IN  \/ a.class = "panic"
                  /\ a = Alert("panic", "ReachOut",
                               IF it.sentiment <= -80 THEN "Critical" ELSE "Attention",
                               <<it.cluster>>, -it.sentiment)
               \/ a.class = "news_impact" /\ a.key[2] = "trade"
                  /\ a = Alert("news_impact", "Trade", "Attention", TradeKey(it), 80)
               \/ a.class = "news_impact" /\ a.key[2] = "reach"
                  /\ a = Alert("news_impact", "ReachOut", "Attention", ReachKey(it), 75)
               \/ a.class = "good_news"
                  /\ a = Alert("good_news", "ReachOut", "FYI", <<it.cluster>>, 70)
<1>. DEFINE it == feed[item]
<1>1. a \in NewsAlerts
  BY DEF Raised
<1>2. \/ a = Alert("panic", "ReachOut",
                   IF it.sentiment <= -80 THEN "Critical" ELSE "Attention",
                   <<it.cluster>>, -it.sentiment)
      \/ a = Alert("news_impact", "Trade", "Attention", TradeKey(it), 80)
      \/ a = Alert("news_impact", "ReachOut", "Attention", ReachKey(it), 75)
      \/ a = Alert("good_news", "ReachOut", "FYI", <<it.cluster>>, 70)
  BY <1>1 DEF NewsAlerts, When
<1>3. \A class, action, severity, key, confidence :
         /\ Alert(class, action, severity, key, confidence).class = class
         /\ Alert(class, action, severity, key, confidence).key = key
  BY DEF Alert
<1>4. TradeKey(it)[2] = "trade" /\ ReachKey(it)[2] = "reach"
  BY DEF TradeKey, ReachKey
<1>. QED  BY <1>2, <1>3, <1>4

(* No other helper raises an alert of the class news_impact.               *)
LEMMA OtherRaised ==
    ASSUME stage \in Helpers, stage # "news", NEW a \in Raised
    PROVE  a.class # "news_impact"
<1>1. \A class, action, severity, key, confidence :
         Alert(class, action, severity, key, confidence).class = class
  BY DEF Alert
<1>2. CASE stage = "conflict"
  BY <1>1, <1>2 DEF Raised, ConflictAlerts, When
<1>3. CASE stage = "values"
  <2>1. a = Alert("values_drift", "Acknowledge", "FYI", <<"portfolio">>, 80)
    BY <1>3 DEF Raised, ValuesAlerts, When
  <2>. QED  BY <1>1, <2>1
<1>4. CASE stage = "quiet"
  BY <1>1, <1>4 DEF Raised, QuietAlerts, When
<1>5. CASE stage = "promise"
  <2>1. a = Alert("overdue_promise", "ReachOut", "Attention",
                  <<profile.promises[item].head>>, 70)
    BY <1>5 DEF Raised, PromiseAlerts, When
  <2>. QED  BY <1>1, <2>1
<1>6. CASE stage = "guardrail"
  BY <1>1, <1>6 DEF Raised, GuardrailAlerts, When
<1>7. CASE stage = "drift"
  BY <1>1, <1>7 DEF Raised, DriftAlerts, When
<1>8. CASE stage = "sell"
  BY <1>1, <1>8 DEF Raised, SellAlerts, When
<1>. QED  BY <1>2, <1>3, <1>4, <1>5, <1>6, <1>7, <1>8 DEF Helpers

(* A news alert has the action its key stands for.                         *)
LEMMA RaisedKeys ==
    ASSUME stage \in Helpers, NEW a \in Raised, a.class = "news_impact"
    PROVE  /\ a.key[2] = "trade" => a.action = "Trade"
           /\ a.key[2] = "reach" => a.action = "ReachOut"
<1>1. stage = "news"
  BY OtherRaised
<1>2. \A class, action, severity, key, confidence :
         Alert(class, action, severity, key, confidence).action = action
  BY DEF Alert
<1>. QED  BY <1>1, <1>2, NewsRaised

(* The next helper; the news come first and only once.                     *)
LEMMA AfterOf ==
    ASSUME stage \in Helpers
    PROVE  After(stage) \in (Helpers \cup {"rank"}) \ {"news"}
<1>. DEFINE n == CHOOSE k \in DOMAIN Stages : Stages[k] = stage
<1>1. DOMAIN Stages = 1..10
  BY DEF Stages
<1>2. \E k \in 1..8 : Stages[k] = stage
  BY DEF Stages, Helpers
<1>3. n \in DOMAIN Stages /\ Stages[n] = stage
  BY <1>1, <1>2
<1>4. Stages[9] = "rank" /\ Stages[10] = "done"
  BY DEF Stages
<1>5. n \in 1..8
  BY <1>1, <1>3, <1>4 DEF Helpers
<1>6. After(stage) = Stages[n + 1]
  BY DEF After
<1>. HIDE DEF n
<1>7. n + 1 \in 2..9
  BY <1>5
<1>8. \A k \in 2..9 : Stages[k] \in (Helpers \cup {"rank"}) \ {"news"}
  BY DEF Stages, Helpers
<1>. QED  BY <1>6, <1>7, <1>8

LEMMA ExaminePaired ==
    ASSUME RulesInv, Examine, stage = "news"
    PROVE  Paired(feed[item], alerts', cooled)
<1>. DEFINE it == feed[item]
<1>1. alerts' = alerts \cup {a \in Raised : ~Known(a) /\ ~Suppressed(a)}
      /\ UNCHANGED <<feed, cooled>>
  BY DEF Examine, input
<1>. SUFFICES ASSUME /\ it.impact \in {"threat", "opportunity"} /\ it.own /\ it.care
                     /\ <<"news_impact", TradeKey(it)>> \notin cooled
                     /\ <<"news_impact", ReachKey(it)>> \notin cooled
              PROVE  \A action \in {"Trade", "ReachOut"} :
                        \E a \in alerts' : /\ a.class = "news_impact"
                                           /\ a.action = action
                                           /\ a.key[1] = it.cluster
  BY DEF Paired
<1>2. ASSUME NEW x \in Raised, x.class = "news_impact", x.key[1] = it.cluster,
             <<x.class, x.key>> \notin cooled
      PROVE  \E a \in alerts' : a.class = "news_impact" /\ a.key = x.key
  <2>1. CASE Known(x)
    BY <1>1, <1>2, <2>1 DEF Known
  <2>2. CASE ~Known(x)
    BY <1>1, <1>2, <2>2 DEF Suppressed
  <2>. QED  BY <2>1, <2>2
<1>. DEFINE trade == Alert("news_impact", "Trade", "Attention", TradeKey(it), 80)
            reach == Alert("news_impact", "ReachOut", "Attention", ReachKey(it), 75)
<1>3. trade \in Raised /\ reach \in Raised
  BY DEF Raised, NewsAlerts, When
<1>4. /\ trade.class = "news_impact" /\ trade.key = TradeKey(it)
      /\ reach.class = "news_impact" /\ reach.key = ReachKey(it)
      /\ TradeKey(it)[1] = it.cluster /\ TradeKey(it)[2] = "trade"
      /\ ReachKey(it)[1] = it.cluster /\ ReachKey(it)[2] = "reach"
  BY DEF Alert, TradeKey, ReachKey
<1>5. KeyInv'
  BY <1>1, RaisedKeys DEF RulesInv, KeyInv, Helpers
<1>6. \E a \in alerts' : a.class = "news_impact" /\ a.key = TradeKey(it)
  <2>. HIDE DEF trade, reach, it
  <2>. QED  BY <1>2, <1>3, <1>4
<1>7. \E a \in alerts' : a.class = "news_impact" /\ a.key = ReachKey(it)
  <2>. HIDE DEF trade, reach, it
  <2>. QED  BY <1>2, <1>3, <1>4
<1>. HIDE DEF trade, reach, it
<1>. QED  BY <1>4, <1>5, <1>6, <1>7 DEF KeyInv

LEMMA ExamineInv ==
    ASSUME RulesInv, Examine
    PROVE  RulesInv'
<1>1. /\ stage \in Helpers /\ item' = item + 1 /\ UNCHANGED <<feed, cooled, stage>>
      /\ alerts' = alerts \cup {a \in Raised : ~Known(a) /\ ~Suppressed(a)}
  BY DEF Examine, input, RulesInv, StageInv
<1>2. StageInv'
  BY <1>1 DEF RulesInv, StageInv
<1>3. KeyInv'
  BY <1>1, RaisedKeys DEF RulesInv, KeyInv
<1>4. ASSUME NEW it, Paired(it, alerts, cooled)
      PROVE  Paired(it, alerts', cooled)
  BY <1>1, <1>4 DEF Paired
<1>5. NewsInv'
  <2>. SUFFICES ASSUME NEW n \in DOMAIN feed, stage # "news" \/ n < item + 1
                PROVE  Paired(feed[n], alerts', cooled)
    BY <1>1 DEF NewsInv
  <2>1. CASE stage # "news" \/ n < item
    BY <1>4, <2>1 DEF RulesInv, NewsInv
  <2>2. CASE stage = "news" /\ n = item
    BY <2>2, ExaminePaired
  <2>. QED  BY <2>1, <2>2 DEF RulesInv, StageInv
<1>. QED  BY <1>2, <1>3, <1>5 DEF RulesInv

LEMMA RulesKept ==
    ASSUME RulesInv, UNCHANGED <<feed, cooled, alerts>>, StageInv',
           stage' = "news" => stage = "news" /\ item' = item,
           stage = "news" /\ stage' # "news" => item > Len(feed)
    PROVE  RulesInv'
<1>2. NewsInv'
  BY DEF RulesInv, StageInv, NewsInv
<1>3. KeyInv'
  BY DEF RulesInv, KeyInv
<1>. QED  BY <1>2, <1>3 DEF RulesInv

LEMMA RulesStep ==
    ASSUME RulesInv, [RulesNext]_rulesVars
    PROVE  RulesInv'
<1>1. CASE Examine
  BY <1>1, ExamineInv
<1>2. CASE NextHelper
  <2>1. /\ stage \in Helpers /\ stage' = After(stage) /\ item' = 1
        /\ item > Length /\ UNCHANGED <<feed, cooled, alerts>>
    BY <1>2 DEF NextHelper, input, RulesInv, StageInv
  <2>2. stage' \in (Helpers \cup {"rank"}) \ {"news"}
    BY <2>1, AfterOf
  <2>3. StageInv'
    BY <2>1, <2>2 DEF RulesInv, StageInv
  <2>4. stage = "news" => item > Len(feed)
    BY <2>1 DEF Length
  <2>. QED  BY <2>1, <2>2, <2>3, <2>4, RulesKept
<1>3. CASE Rank
  BY <1>3, RulesKept DEF Rank, input, RulesInv, StageInv
<1>4. CASE UNCHANGED rulesVars
  BY <1>4, RulesKept DEF rulesVars, input, RulesInv, StageInv
<1>. QED  BY <1>1, <1>2, <1>3, <1>4 DEF RulesNext

LEMMA RulesInductive == RulesSpec => []RulesInv
<1>1. ASSUME RulesInit
      PROVE  RulesInv
  <2>1. PICK s \in Situations : feed = s.feed
    BY <1>1 DEF RulesInit
  <2>2. Len(feed) \in Nat /\ DOMAIN feed = 1..Len(feed)
    BY <2>1, RulesAssumption
  <2>3. StageInv /\ alerts = {} /\ stage = "news" /\ item = 1
    BY <1>1, <2>2 DEF RulesInit, StageInv, Helpers
  <2>. QED  BY <2>3 DEF RulesInv, StageInv, KeyInv, NewsInv
<1>2. RulesInv /\ [RulesNext]_rulesVars => RulesInv'
  BY RulesStep
<1>. QED  BY <1>1, <1>2, PTL DEF RulesSpec

(* One event, two alerts: the trade and the reach-out of a story both      *)
(* reach the RM, whatever other articles of the story raised before.       *)
THEOREM PairTheorem == RulesSpec => []PairSurvives
<1>1. RulesInv => PairSurvives
  BY DEF RulesInv, NewsInv, PairSurvives, Paired, Articles
<1>. QED  BY RulesInductive, <1>1, PTL

-----------------------------------------------------------------------------
(* What a pass raises, and how it is scored.                               *)
RowOK(a) == /\ a.class \in Classes /\ a.severity \in Severities
            /\ a.action \in Actions /\ a.confidence \in 0..100

LEMMA Percents == \A n \in {70, 75, 80, 90, 100} : n \in 0..100
OBVIOUS

LEMMA AlertOK ==
    ASSUME NEW class \in Classes, NEW action \in Actions,
           NEW severity \in Severities, NEW key, NEW confidence \in 0..100
    PROVE  RowOK(Alert(class, action, severity, key, confidence))
BY DEF RowOK, Alert

LEMMA ClassesAre ==
    Classes = {"dna_conflict", "panic", "quiet_client", "drift_breach",
               "news_impact", "overdue_promise", "stale_sell",
               "behavioural_guardrail", "values_drift", "good_news"}
BY DEF Classes, ClassWeight

LEMMA RaisedOK ==
    ASSUME RulesTypeOK, StageInv, stage \in Helpers, item <= Length,
           NEW a \in Raised
    PROVE  RowOK(a)
<1>. USE ClassesAre DEF Severities, Actions
<1>1. CASE stage = "news"
  <2>1. feed[item].sentiment \in -100..100
    <3>1. item \in DOMAIN feed
      BY <1>1 DEF Length, RulesTypeOK, StageInv
    <3>. QED  BY <3>1, RulesAssumption DEF RulesTypeOK
  <2>2. PICK it : it = feed[item]
    OBVIOUS
  <2>3. /\ it.sentiment \in -100..100
        /\ \/ it.sentiment <= -50
              /\ \E severity \in {"Critical", "Attention"} :
                    a = Alert("panic", "ReachOut", severity, <<it.cluster>>,
                              -it.sentiment)
           \/ a = Alert("news_impact", "Trade", "Attention", TradeKey(it), 80)
           \/ a = Alert("news_impact", "ReachOut", "Attention", ReachKey(it), 75)
           \/ a = Alert("good_news", "ReachOut", "FYI", <<it.cluster>>, 70)
    BY <1>1, <2>1, <2>2 DEF Raised, NewsAlerts, When
  <2>4. CASE it.sentiment <= -50 /\ \E severity \in {"Critical", "Attention"} :
                a = Alert("panic", "ReachOut", severity, <<it.cluster>>,
                          -it.sentiment)
    <3>1. -it.sentiment \in 0..100
      BY <2>3, <2>4
    <3>. QED  BY <2>4, <3>1, AlertOK
  <2>. QED  BY <2>3, <2>4, AlertOK, Percents
<1>2. CASE stage = "conflict"
  BY <1>2, AlertOK, Percents DEF Raised, ConflictAlerts, When
<1>3. CASE stage = "values"
  <2>1. a = Alert("values_drift", "Acknowledge", "FYI", <<"portfolio">>, 80)
    BY <1>3 DEF Raised, ValuesAlerts, When
  <2>. QED  BY <2>1, AlertOK, Percents
<1>4. CASE stage = "quiet"
  <2>1. \E severity \in {"Critical", "Attention"} :
           a = Alert("quiet_client", "ReachOut", severity, <<"contact">>, 100)
    BY <1>4 DEF Raised, QuietAlerts, When
  <2>. QED  BY <2>1, AlertOK, Percents
<1>5. CASE stage = "promise"
  <2>1. \E key : a = Alert("overdue_promise", "ReachOut", "Attention", key, 70)
    BY <1>5 DEF Raised, PromiseAlerts, When
  <2>. QED  BY <2>1, AlertOK, Percents
<1>6. CASE stage = "guardrail"
  BY <1>6, AlertOK, Percents DEF Raised, GuardrailAlerts, When
<1>7. CASE stage = "drift"
  <2>1. \E severity \in {"Critical", "Attention"} : \E key :
           a = Alert("drift_breach", "Trade", severity, key, 100)
    BY <1>7 DEF Raised, DriftAlerts, When
  <2>. QED  BY <2>1, AlertOK, Percents
<1>8. CASE stage = "sell"
  <2>1. \E severity \in {"Critical", "Attention"} : \E key :
           a = Alert("stale_sell", "Trade", severity, key, 100)
    BY <1>8 DEF Raised, SellAlerts, When
  <2>. QED  BY <2>1, AlertOK, Percents
<1>. QED  BY <1>1, <1>2, <1>3, <1>4, <1>5, <1>6, <1>7, <1>8 DEF Helpers

LEMMA RankScoreOK ==
    ASSUME NEW a, RowOK(a)
    PROVE  RankScore(a) \in Nat
<1>1. ClassWeight[a.class] \in Nat
  BY DEF RowOK, Classes, ClassWeight
<1>2. Base(a.severity) \in Nat
  BY DEF Base, SeverityBase
<1>3. Emotional(a) \in Nat
  BY DEF Emotional
<1>4. a.confidence \in Nat
  BY DEF RowOK
<1>. QED  BY <1>1, <1>2, <1>3, <1>4 DEF RankScore

(* Situations are never changed; every alert has a known class, severity   *)
(* and action; and what is ranked has a score.                             *)
THEOREM RulesTypeTheorem == RulesSpec => []RulesTypeOK
<1>1. RulesInit => RulesTypeOK
  <2>. SUFFICES ASSUME RulesInit PROVE RulesTypeOK
    OBVIOUS
  <2>1. stage = Stages[1] /\ 1 \in DOMAIN Stages
    BY DEF RulesInit, Stages
  <2>. QED  BY <2>1 DEF RulesInit, RulesTypeOK
<1>2. ASSUME RulesTypeOK, RulesInv, [RulesNext]_rulesVars
      PROVE  RulesTypeOK'
  <2>1. StageInv /\ StageInv'
    BY <1>2, RulesStep DEF RulesInv
  <2>2. \A x \in Helpers \cup {"rank", "done"} :
           x \in {Stages[n] : n \in DOMAIN Stages}
    BY DEF Helpers, Stages
  <2>3. CASE Examine
    <3>1. \A a \in Raised : RowOK(a)
      BY <1>2, <2>1, <2>3, RaisedOK DEF Examine, StageInv
    <3>. QED  BY <1>2, <2>1, <2>3, <3>1 DEF Examine, RulesTypeOK, RowOK, input
  <2>4. CASE NextHelper
    <3>1. stage' # "done" /\ stage' \in {Stages[n] : n \in DOMAIN Stages}
      <4>1. stage \in Helpers /\ stage' = After(stage)
        BY <2>1, <2>4 DEF NextHelper, StageInv
      <4>2. stage' \in Helpers \cup {"rank"} /\ "done" \notin Helpers
        BY <4>1, AfterOf DEF Helpers
      <4>. QED  BY <2>2, <4>2
    <3>. QED  BY <1>2, <2>4, <3>1 DEF NextHelper, RulesTypeOK, input
  <2>5. CASE Rank
    <3>1. \A a \in alerts : RankScore(a) \in Nat
      BY <1>2, RankScoreOK DEF RulesTypeOK, RowOK
    <3>2. stage' = "done" /\ score' \in [alerts' -> Nat]
      BY <2>5, <3>1 DEF Rank
    <3>3. stage' \in {Stages[n] : n \in DOMAIN Stages}
      BY <2>2, <3>2
    <3>. QED  BY <1>2, <2>5, <3>2, <3>3 DEF Rank, RulesTypeOK, input
  <2>6. CASE UNCHANGED rulesVars
    BY <1>2, <2>6 DEF rulesVars, input, RulesTypeOK
  <2>. QED  BY <1>2, <2>3, <2>4, <2>5, <2>6 DEF RulesNext
<1>. QED  BY <1>1, <1>2, RulesInductive, PTL DEF RulesSpec

-----------------------------------------------------------------------------
(***************************************************************************)
(* The price scan.                                                         *)
(***************************************************************************)

At(s, phases) == phase[s] \in phases

(* The types of the price scan.                                            *)
PriceTyped ==
    /\ PriceTypeOK
    /\ \A s \in Scans :
          /\ At(s, {"read", "write", "judge"}) => Listing(s) \in Listings
          /\ phase[s] # "idle" => Client(s) \in DOMAIN Holdings

(* The listing of a position that is there.                                *)
LEMMA ListingOf ==
    ASSUME NEW s \in Scans, ci[s] \in DOMAIN Order, pi[s] \in Nat \ {0},
           pi[s] <= Len(Holdings[Client(s)])
    PROVE  Listing(s) \in Listings
<1>1. Client(s) \in DOMAIN Holdings
  BY PriceAssumption DEF Client
<1>2. Holdings[Client(s)] \in Seq(Listings)
  BY <1>1, PriceAssumption
<1>3. pi[s] \in 1..Len(Holdings[Client(s)])
  BY <1>2
<1>. QED  BY <1>2, <1>3 DEF Listing

LEMMA ObservationOK ==
    /\ Nothing \in Observation
    /\ \A v \in Levels, n \in 0..MaxTicks : [close |-> v, tick |-> n] \in Observation
    /\ \A o \in Observation : o.close \in Levels \cup {0} /\ o.tick \in 0..MaxTicks
BY PriceAssumption DEF Nothing, Observation

(* A scan that stays at its position, or moves on to the next one of the   *)
(* client.                                                                 *)
LEMMA PriceTypedPlaces ==
    ASSUME PriceTyped, PriceTypeOK', NEW t \in Scans, ci' = ci,
           \A s \in Scans \ {t} : phase'[s] = phase[s] /\ pi'[s] = pi[s],
           \/ pi'[t] = pi[t] /\ phase[t] # "idle"
              /\ (At(t, {"read", "write", "judge"})' => Listing(t) \in Listings)
           \/ phase[t] # "idle" /\ phase'[t] = "fetch"
           \/ phase'[t] \in {"idle", "record"} /\ phase[t] # "idle"
    PROVE  PriceTyped'
<1>. SUFFICES ASSUME NEW s \in Scans
              PROVE  /\ At(s, {"read", "write", "judge"})' => Listing(s)' \in Listings
                     /\ phase'[s] # "idle" => Client(s)' \in DOMAIN Holdings
  BY DEF PriceTyped
<1>1. Client(s)' = Client(s)
  BY DEF Client
<1>2. CASE s # t
  <2>1. phase'[s] = phase[s] /\ Listing(s)' = Listing(s)
    BY <1>1, <1>2 DEF Listing
  <2>. QED  BY <1>1, <2>1 DEF PriceTyped, At
<1>3. CASE s = t
  <2>1. pi'[s] = pi[s] => Listing(s)' = Listing(s)
    BY <1>1 DEF Listing
  <2>. QED  BY <1>1, <1>3, <2>1 DEF PriceTyped, At
<1>. QED  BY <1>2, <1>3

LEMMA PriceTypedStart ==
    ASSUME PriceTyped, NEW t \in Scans, StartScan(t)
    PROVE  PriceTyped'
<1>1. 1 \in DOMAIN Order
  BY PriceAssumption DEF StartScan
<1>2. PriceTypeOK'
  BY <1>1 DEF PriceTyped, PriceTypeOK, StartScan, market, priceHistory
<1>3. ASSUME NEW s \in Scans
      PROVE  /\ At(s, {"read", "write", "judge"})' => Listing(s)' \in Listings
             /\ phase'[s] # "idle" => Client(s)' \in DOMAIN Holdings
  <2>1. CASE s = t
    <3>1. phase'[s] = "fetch" /\ ci'[s] = 1
      BY <2>1 DEF PriceTyped, PriceTypeOK, StartScan
    <3>. QED  BY <1>1, <3>1, PriceAssumption DEF At, Client
  <2>2. CASE s # t
    <3>1. phase'[s] = phase[s] /\ ci'[s] = ci[s] /\ pi'[s] = pi[s]
      BY <2>2 DEF PriceTyped, PriceTypeOK, StartScan
    <3>2. Client(s)' = Client(s) /\ Listing(s)' = Listing(s)
      BY <3>1 DEF Client, Listing
    <3>. QED  BY <3>1, <3>2 DEF PriceTyped, At
  <2>. QED  BY <2>1, <2>2
<1>. QED  BY <1>2, <1>3 DEF PriceTyped

LEMMA PriceTypedFetch ==
    ASSUME PriceTyped, NEW t \in Scans, Fetch(t)
    PROVE  PriceTyped'
<1>1. Listing(t) \in Listings
  BY ListingOf DEF Fetch, PriceTyped, PriceTypeOK
<1>2. [close |-> close[Listing(t)], tick |-> tick] \in Observation
  BY <1>1, ObservationOK DEF PriceTyped, PriceTypeOK
<1>3. PriceTypeOK'
  BY <1>2 DEF PriceTyped, PriceTypeOK, Fetch, market, priceHistory
<1>. QED  BY <1>1, <1>3, PriceTypedPlaces DEF PriceTyped, PriceTypeOK, Fetch

LEMMA PriceTypedRead ==
    ASSUME PriceTyped, NEW t \in Scans, ReadBase(t)
    PROVE  PriceTyped'
<1>1. Listing(t) \in Listings
  BY DEF ReadBase, PriceTyped, At
<1>2. base[Listing(t)] \in Observation
  BY <1>1 DEF PriceTyped, PriceTypeOK
<1>3. [close |-> opening[Listing(t)], tick |-> 0] \in Observation
  <2>1. opening[Listing(t)] \in Levels /\ 0 \in 0..MaxTicks
    BY <1>1, PriceAssumption DEF PriceTyped, PriceTypeOK
  <2>. QED  BY <2>1, ObservationOK
<1>4. PriceTypeOK'
  BY <1>2, <1>3 DEF PriceTyped, PriceTypeOK, ReadBase, Baseline, market,
                   priceHistory
<1>. QED  BY <1>1, <1>4, PriceTypedPlaces DEF PriceTyped, PriceTypeOK, ReadBase

LEMMA PriceTypedWrite ==
    ASSUME PriceTyped, NEW t \in Scans, WriteBase(t)
    PROVE  PriceTyped'
<1>1. Listing(t) \in Listings
  BY DEF WriteBase, PriceTyped, At
<1>2. snap[t] \in Observation
  BY DEF PriceTyped, PriceTypeOK
<1>3. Overtakes(t) \subseteq Listings \X Observation
  BY <1>1 DEF Overtakes, PriceTyped, PriceTypeOK
<1>4. PriceTypeOK'
  BY <1>1, <1>2, <1>3 DEF PriceTyped, PriceTypeOK, WriteBase, market
<1>. QED  BY <1>1, <1>4, PriceTypedPlaces DEF PriceTyped, PriceTypeOK, WriteBase

LEMMA PriceTypedJudge ==
    ASSUME PriceTyped, NEW t \in Scans,
           JudgeQuiet(t) \/ JudgeSilenced(t) \/ JudgeMove(t)
    PROVE  PriceTyped'
<1>1. Listing(t) \in Listings /\ Client(t) \in DOMAIN Holdings
  BY DEF JudgeQuiet, JudgeSilenced, JudgeMove, PriceTyped, At
<1>2. snap[t] \in Observation /\ prev[t] \in Observation
  BY DEF PriceTyped, PriceTypeOK
<1>3. Move(t) \in Report
  BY <1>1, <1>2 DEF Move, Report
<1>4. /\ moves' \in [Scans -> SUBSET Report]
      /\ jumps' \cup hushed' \cup lapped' \subseteq Listings \X Observation
  BY <1>1, <1>2, <1>3
     DEF PriceTyped, PriceTypeOK, JudgeQuiet, JudgeSilenced, JudgeMove,
         priceHistory
<1>5. /\ pi' = [pi EXCEPT ![t] = @ + 1]
      /\ phase' = [phase EXCEPT ![t] = "fetch"] /\ phase[t] = "judge"
      /\ UNCHANGED <<market, base, muted, reported, ci, snap, prev, faults>>
  BY DEF JudgeQuiet, JudgeSilenced, JudgeMove, Advance, priceHistory
<1>6. PriceTypeOK'
  BY <1>4, <1>5 DEF PriceTyped, PriceTypeOK, market
<1>. QED  BY <1>5, <1>6, PriceTypedPlaces DEF PriceTyped, PriceTypeOK

LEMMA PriceTypedSkip ==
    ASSUME PriceTyped, NEW t \in Scans,
           FetchFails(t) \/ Commit(t) \/ AbortScan(t)
    PROVE  PriceTyped'
<1>1. CASE FetchFails(t)
  <2>1. PriceTypeOK'
    BY <1>1, PriceAssumption
       DEF PriceTyped, PriceTypeOK, FetchFails, market
  <2>. QED  BY <1>1, <2>1, PriceTypedPlaces DEF PriceTyped, PriceTypeOK, FetchFails
<1>2. CASE Commit(t)
  <2>1. PriceTypeOK'
    BY <1>2 DEF PriceTyped, PriceTypeOK, Commit, market, priceHistory
  <2>. QED  BY <1>2, <2>1, PriceTypedPlaces DEF PriceTyped, PriceTypeOK, Commit
<1>3. CASE AbortScan(t)
  <2>1. PriceTypeOK'
    BY <1>3, PriceAssumption
       DEF PriceTyped, PriceTypeOK, AbortScan, market
  <2>. QED  BY <1>3, <2>1, PriceTypedPlaces DEF PriceTyped, PriceTypeOK, AbortScan
<1>. QED  BY <1>1, <1>2, <1>3

LEMMA PriceTypedRecord ==
    ASSUME PriceTyped, NEW t \in Scans, Record(t)
    PROVE  PriceTyped'
<1>1. ci[t] \in DOMAIN Order /\ DOMAIN Order = 1..Len(Order) /\ Len(Order) \in Nat
  BY PriceAssumption DEF Record, PriceTyped, PriceTypeOK
<1>2. muted' \subseteq (DOMAIN Holdings) \X Listings
  <2>1. \A m \in moves[t] : m.client \in DOMAIN Holdings /\ m.listing \in Listings
    BY DEF PriceTyped, PriceTypeOK, Report
  <2>. QED  BY <2>1 DEF Record, PriceTyped, PriceTypeOK
<1>3. CASE ci[t] < Len(Order)
  <2>1. /\ ci' = [ci EXCEPT ![t] = @ + 1] /\ pi' = [pi EXCEPT ![t] = 1]
        /\ phase' = [phase EXCEPT ![t] = "fetch"]
        /\ moves' = [moves EXCEPT ![t] = {}]
        /\ UNCHANGED <<market, base, reported, snap, prev, priceHistory>>
    BY <1>3 DEF Record
  <2>2. ci[t] + 1 \in DOMAIN Order
    BY <1>1, <1>3
  <2>3. PriceTypeOK'
    BY <1>2, <2>1, <2>2 DEF PriceTyped, PriceTypeOK, market, priceHistory
  <2>4. ASSUME NEW s \in Scans
        PROVE  /\ At(s, {"read", "write", "judge"})' => Listing(s)' \in Listings
               /\ phase'[s] # "idle" => Client(s)' \in DOMAIN Holdings
    <3>1. CASE s = t
      <4>1. phase'[s] = "fetch" /\ ci'[s] = ci[t] + 1
        BY <2>1, <3>1 DEF PriceTyped, PriceTypeOK
      <4>. QED  BY <2>2, <4>1, PriceAssumption DEF At, Client
    <3>2. CASE s # t
      <4>1. phase'[s] = phase[s] /\ ci'[s] = ci[s] /\ pi'[s] = pi[s]
        BY <2>1, <3>2 DEF PriceTyped, PriceTypeOK
      <4>2. Client(s)' = Client(s) /\ Listing(s)' = Listing(s)
        BY <4>1 DEF Client, Listing
      <4>. QED  BY <4>1, <4>2 DEF PriceTyped, At
    <3>. QED  BY <3>1, <3>2
  <2>. QED  BY <2>3, <2>4 DEF PriceTyped
<1>4. CASE ~(ci[t] < Len(Order))
  <2>1. /\ phase' = [phase EXCEPT ![t] = "idle"] /\ UNCHANGED <<ci, pi>>
        /\ moves' = [moves EXCEPT ![t] = {}] /\ phase[t] = "record"
        /\ UNCHANGED <<market, base, reported, snap, prev, priceHistory>>
    BY <1>4 DEF Record
  <2>2. PriceTypeOK'
    BY <1>2, <2>1 DEF PriceTyped, PriceTypeOK, market, priceHistory
  <2>. QED  BY <2>1, <2>2, PriceTypedPlaces DEF PriceTyped, PriceTypeOK
<1>. QED  BY <1>3, <1>4

LEMMA PriceTypedMarket ==
    ASSUME PriceTyped,
           \/ \E l \in Listings, v \in Levels : Trade(l, v)
           \/ \E c \in DOMAIN Holdings, l \in Listings : Unmute(<<c, l>>)
           \/ UNCHANGED priceVars
    PROVE  PriceTyped'
<1>1. PriceTypeOK' /\ UNCHANGED scanVars
  <2>1. CASE \E l \in Listings, v \in Levels : Trade(l, v)
    BY <2>1, PriceAssumption
       DEF PriceTyped, PriceTypeOK, Trade, scanVars, priceHistory
  <2>2. CASE \E c \in DOMAIN Holdings, l \in Listings : Unmute(<<c, l>>)
    BY <2>2 DEF PriceTyped, PriceTypeOK, Unmute, scanVars, market, priceHistory
  <2>3. CASE UNCHANGED priceVars
    BY <2>3 DEF PriceTyped, PriceTypeOK, priceVars, scanVars, market, priceHistory
  <2>. QED  BY <2>1, <2>2, <2>3
<1>. QED  BY <1>1 DEF PriceTyped, scanVars, At, Listing, Client

LEMMA PriceTypedTheorem == PriceSpec => []PriceTyped
<1>1. PriceInit => PriceTyped
  BY PriceAssumption, ObservationOK DEF PriceInit, PriceTyped, PriceTypeOK, At
<1>2. PriceTyped /\ [PriceNext]_priceVars => PriceTyped'
  BY PriceTypedStart, PriceTypedFetch, PriceTypedRead, PriceTypedWrite,
     PriceTypedJudge, PriceTypedSkip, PriceTypedRecord, PriceTypedMarket
     DEF PriceNext, Scan
<1>. QED  BY <1>1, <1>2, PTL DEF PriceSpec

(* What is on record names a client that holds, a listing, and two         *)
(* observations of the market; a scan that is under way is at a client.    *)
THEOREM PriceTypeTheorem == PriceSpec => []PriceTypeOK
<1>1. PriceTyped => PriceTypeOK
  BY DEF PriceTyped
<1>. QED  BY <1>1, PriceTypedTheorem, PTL

-----------------------------------------------------------------------------
(* What the scans have seen, however many of them overlap.  The baseline a *)
(* scan holds is the one it replaces and not newer than its snapshot, or   *)
(* another scan has lapped it.                                             *)
Lapped(l, o) == <<l, o>> \in lapped

InOrder(s) ==
    /\ snap[s].tick <= tick
    /\ phase[s] = "read" =>
          base[Listing(s)].tick <= snap[s].tick \/ Lapped(Listing(s), snap[s])
    /\ phase[s] \in {"write", "judge"} =>
          prev[s].tick <= snap[s].tick \/ Lapped(Listing(s), snap[s])
    /\ phase[s] = "write" =>
          prev[s] = Baseline(Listing(s)) \/ Lapped(Listing(s), snap[s])
    /\ phase[s] = "record" => moves[s] \subseteq reported
    /\ \A m \in moves[s] : m.from.tick <= m.to.tick \/ Lapped(m.listing, m.to)

Tells(m, j) == m.listing = j[1] /\ m.to = j[2]

(* A jump is silenced, reported, lapped, or in the hands of a scan that    *)
(* will see it as one.                                                     *)
InHand(s, j) ==
    \/ \E m \in moves[s] : Tells(m, j)
    \/ phase[s] = "judge" /\ Jumped(s) /\ j = <<Listing(s), snap[s]>>

JumpInv ==
    faults = 0 =>
        \A j \in jumps \ (hushed \cup lapped) :
            (\E m \in reported : Tells(m, j)) \/ \E s \in Scans : InHand(s, j)

PriceInv ==
    /\ \A l \in Listings : base[l].tick <= tick
    /\ \A s \in Scans : InOrder(s)
    /\ RealMove
    /\ JumpInv

-----------------------------------------------------------------------------
(* A step of one scan leaves the others where they are.                    *)
LEMMA Bystander ==
    ASSUME PriceTyped, NEW t \in Scans, Scan(t), NEW s \in Scans, s # t
    PROVE  /\ phase'[s] = phase[s] /\ ci'[s] = ci[s] /\ pi'[s] = pi[s]
           /\ snap'[s] = snap[s] /\ prev'[s] = prev[s] /\ moves'[s] = moves[s]
<1>1. CASE StartScan(t) \/ Fetch(t) \/ FetchFails(t) \/ ReadBase(t) \/ WriteBase(t)
  BY <1>1 DEF StartScan, Fetch, FetchFails, ReadBase, WriteBase, PriceTyped,
              PriceTypeOK
<1>2. CASE JudgeQuiet(t) \/ JudgeSilenced(t) \/ JudgeMove(t)
  BY <1>2 DEF JudgeQuiet, JudgeSilenced, JudgeMove, Advance, PriceTyped,
              PriceTypeOK
<1>3. CASE Commit(t) \/ Record(t) \/ AbortScan(t)
  BY <1>3 DEF Commit, Record, AbortScan, PriceTyped, PriceTypeOK
<1>. QED  BY <1>1, <1>2, <1>3 DEF Scan

(* ... and takes nothing back.                                             *)
LEMMA Onward ==
    ASSUME PriceTyped, NEW t \in Scans, Scan(t)
    PROVE  /\ UNCHANGED market
           /\ reported \subseteq reported' /\ hushed \subseteq hushed'
           /\ lapped \subseteq lapped'
           /\ faults' = 0 => faults = 0
<1>1. CASE StartScan(t) \/ Fetch(t) \/ FetchFails(t) \/ ReadBase(t) \/ WriteBase(t)
  BY <1>1 DEF StartScan, Fetch, FetchFails, ReadBase, WriteBase, PriceTyped,
              PriceTypeOK, priceHistory
<1>2. CASE JudgeQuiet(t) \/ JudgeSilenced(t) \/ JudgeMove(t)
  BY <1>2 DEF JudgeQuiet, JudgeSilenced, JudgeMove, priceHistory
<1>3. CASE Commit(t) \/ Record(t) \/ AbortScan(t)
  BY <1>3 DEF Commit, Record, AbortScan, PriceTyped, PriceTypeOK, priceHistory
<1>. QED  BY <1>1, <1>2, <1>3 DEF Scan

LEMMA Elsewhere ==
    ASSUME PriceTyped, NEW t \in Scans, Scan(t), NEW s \in Scans, s # t
    PROVE  /\ Listing(s)' = Listing(s) /\ Jumped(s)' = Jumped(s)
           /\ \A j : InHand(s, j)' <=> InHand(s, j)
BY Bystander DEF Listing, Client, Jumped, InHand

LEMMA OrderElsewhere ==
    ASSUME PriceTyped, NEW t \in Scans, Scan(t), UNCHANGED base,
           NEW s \in Scans, s # t, InOrder(s)
    PROVE  InOrder(s)'
<1>1. Baseline(Listing(s))' = Baseline(Listing(s))
  BY Elsewhere, Onward DEF Baseline, market
<1>2. \A l, o : Lapped(l, o) => Lapped(l, o)'
  BY Onward DEF Lapped
<1>3. tick' = tick
  BY Onward DEF market
<1>. QED  BY <1>1, <1>2, <1>3, Bystander, Elsewhere, Onward DEF InOrder

(* A jump that was accounted for still is.                                 *)
LEMMA JumpKept ==
    ASSUME PriceTyped, JumpInv, NEW t \in Scans, Scan(t),
           \A j \in jumps' : \/ j \in jumps
                             \/ j \in lapped' \/ InHand(t, j)',
           \A j \in jumps : InHand(t, j) => \/ faults' # 0 \/ j \in hushed'
                                            \/ InHand(t, j)'
                                            \/ \E m \in reported' : Tells(m, j)
    PROVE  JumpInv'
<1>. SUFFICES ASSUME faults' = 0, NEW j \in jumps', j \notin hushed' \cup lapped'
              PROVE  (\E m \in reported' : Tells(m, j)) \/ \E s \in Scans : InHand(s, j)'
  BY DEF JumpInv, Tells
<1>1. faults = 0 /\ j \notin hushed \cup lapped
  BY Onward
<1>2. CASE j \notin jumps
  BY <1>2
<1>3. CASE j \in jumps
  <2>1. (\E m \in reported : Tells(m, j)) \/ \E s \in Scans : InHand(s, j)
    BY <1>1, <1>3 DEF JumpInv
  <2>2. ASSUME NEW s \in Scans, InHand(s, j)
        PROVE  (\E m \in reported' : Tells(m, j)) \/ InHand(s, j)'
    BY <1>3, <2>2, Elsewhere
  <2>. QED  BY <2>1, <2>2, Onward
<1>. QED  BY <1>2, <1>3

(* What a step that neither reads a baseline nor writes one has to show.   *)
LEMMA InvKept ==
    ASSUME PriceTyped, PriceInv, NEW t \in Scans, Scan(t), UNCHANGED base,
           InOrder(t)', RealMove', JumpInv'
    PROVE  PriceInv'
<1>1. \A s \in Scans : InOrder(s)'
  BY OrderElsewhere DEF PriceInv
<1>2. tick' = tick
  BY Onward DEF market
<1>. QED  BY <1>1, <1>2 DEF PriceInv

LEMMA StartInv ==
    ASSUME PriceTyped, PriceInv, NEW t \in Scans,
           StartScan(t) \/ FetchFails(t) \/ AbortScan(t)
    PROVE  PriceInv'
<1>1. /\ Scan(t) /\ UNCHANGED <<base, reported, snap, jumps, lapped>>
      /\ phase'[t] \in {"fetch", "idle"}
      /\ moves'[t] = moves[t] \/ (faults' # 0 /\ moves'[t] = {})
  BY DEF Scan, StartScan, FetchFails, AbortScan, PriceTyped, PriceTypeOK,
         priceHistory
<1>2. tick' = tick
  BY <1>1, Onward DEF market
<1>3. InOrder(t)' /\ RealMove'
  BY <1>1, <1>2 DEF PriceInv, InOrder, RealMove, Lapped
<1>4. phase[t] # "judge" \/ faults' # 0
  BY DEF StartScan, FetchFails, AbortScan, PriceTyped, PriceTypeOK
<1>5. JumpInv'
  BY <1>1, <1>4, JumpKept DEF PriceInv, InHand
<1>. QED  BY <1>1, <1>3, <1>5, InvKept

LEMMA FetchInv ==
    ASSUME PriceTyped, PriceInv, NEW t \in Scans, Fetch(t)
    PROVE  PriceInv'
<1>1. /\ Scan(t) /\ UNCHANGED <<base, reported, moves, jumps, lapped, ci, pi>>
      /\ phase[t] = "fetch" /\ phase'[t] = "read"
      /\ snap'[t].tick = tick /\ tick' = tick
  BY DEF Scan, Fetch, market, priceHistory, PriceTyped, PriceTypeOK
<1>2. Listing(t) \in Listings /\ Listing(t)' = Listing(t)
  BY <1>1, ListingOf DEF Fetch, PriceTyped, PriceTypeOK, Listing, Client
<1>3. tick \in Nat
  BY PriceAssumption DEF PriceTyped, PriceTypeOK
<1>4. base'[Listing(t)'].tick <= snap'[t].tick /\ snap'[t].tick <= tick'
  BY <1>1, <1>2, <1>3 DEF PriceInv
<1>5. InOrder(t)'
  BY <1>1, <1>4 DEF PriceInv, InOrder, Lapped
<1>6. RealMove'
  BY <1>1 DEF PriceInv, RealMove
<1>7. JumpInv'
  BY <1>1, JumpKept DEF PriceInv, InHand
<1>. QED  BY <1>1, <1>5, <1>6, <1>7, InvKept

LEMMA ReadInv ==
    ASSUME PriceTyped, PriceInv, NEW t \in Scans, ReadBase(t)
    PROVE  PriceInv'
<1>1. /\ Scan(t) /\ phase[t] = "read" /\ phase'[t] = "write"
      /\ UNCHANGED <<base, opening, reported, moves, jumps, lapped, ci, pi, snap,
                     tick>>
      /\ prev'[t] = Baseline(Listing(t))
  BY DEF Scan, ReadBase, market, priceHistory, PriceTyped, PriceTypeOK
<1>2. Listing(t) \in Listings /\ Listing(t)' = Listing(t)
  BY <1>1 DEF PriceTyped, At, Listing, Client
<1>3. Baseline(Listing(t))' = Baseline(Listing(t))
  BY <1>1, <1>2 DEF Baseline
<1>4. snap[t].tick \in Nat
  BY PriceAssumption, ObservationOK DEF PriceTyped, PriceTypeOK
<1>5. prev'[t].tick <= snap[t].tick \/ Lapped(Listing(t), snap[t])
  BY <1>1, <1>4 DEF PriceInv, InOrder, Baseline
<1>6. InOrder(t)' /\ RealMove'
  BY <1>1, <1>2, <1>3, <1>5 DEF PriceInv, InOrder, RealMove, Lapped
<1>7. JumpInv'
  BY <1>1, JumpKept DEF PriceInv, InHand
<1>. QED  BY <1>1, <1>6, <1>7, InvKept

(* The scan that writes laps every other one that holds a snapshot of the  *)
(* listing and has not written yet.                                        *)
LEMMA WriteInv ==
    ASSUME PriceTyped, PriceInv, NEW t \in Scans, WriteBase(t)
    PROVE  PriceInv'
<1>1. /\ Scan(t) /\ phase[t] = "write" /\ phase'[t] = "judge"
      /\ base' = [base EXCEPT ![Listing(t)] = snap[t]]
      /\ lapped' = lapped \cup Overtakes(t)
      /\ UNCHANGED <<tick, opening, reported, ci, pi, snap, prev, moves, hushed,
                     faults>>
  BY DEF Scan, WriteBase, market, PriceTyped, PriceTypeOK
<1>2. /\ Listing(t) \in Listings /\ Listing(t)' = Listing(t)
      /\ Jumped(t)' = Jumped(t)
  BY <1>1 DEF PriceTyped, At, Listing, Client, Jumped
<1>3. \A l, o : Lapped(l, o) => Lapped(l, o)'
  BY <1>1 DEF Lapped
<1>4. \A l \in Listings : base'[l].tick <= tick'
  BY <1>1, <1>2 DEF PriceInv, InOrder, PriceTyped, PriceTypeOK
<1>5. InOrder(t)'
  BY <1>1, <1>2, <1>3 DEF PriceInv, InOrder
<1>6. ASSUME NEW s \in Scans, s # t
      PROVE  InOrder(s)'
  <2>1. /\ phase'[s] = phase[s] /\ Listing(s)' = Listing(s) /\ InOrder(s)
        /\ snap'[s] = snap[s] /\ prev'[s] = prev[s] /\ moves'[s] = moves[s]
    BY <1>1, <1>6, Bystander, Elsewhere DEF PriceInv
  <2>2. CASE phase[s] \in {"read", "write"} /\ Listing(s) = Listing(t)
    <3>1. Lapped(Listing(s), snap[s])'
      BY <1>1, <1>6, <2>1, <2>2 DEF Overtakes, Lapped
    <3>. QED  BY <1>1, <1>3, <2>1, <3>1 DEF InOrder
  <2>3. CASE phase[s] \in {"read", "write"} /\ Listing(s) # Listing(t)
    <3>1. Listing(s) \in Listings
      BY <2>3 DEF PriceTyped, At
    <3>2. /\ base'[Listing(s)'] = base[Listing(s)]
          /\ Baseline(Listing(s))' = Baseline(Listing(s))
      BY <1>1, <2>1, <2>3, <3>1 DEF Baseline, PriceTyped, PriceTypeOK
    <3>. QED  BY <1>1, <1>3, <2>1, <3>2 DEF InOrder
  <2>4. CASE phase[s] \notin {"read", "write"}
    BY <1>1, <1>3, <2>1, <2>4 DEF InOrder
  <2>. QED  BY <2>2, <2>3, <2>4
<1>7. RealMove'
  BY <1>1 DEF PriceInv, RealMove
<1>8. ASSUME NEW j \in jumps', j \notin jumps
      PROVE  j \in lapped' \/ InHand(t, j)'
  <2>1. /\ j = <<Listing(t), snap[t]>> /\ base[Listing(t)] # Nothing
        /\ Beyond(base[Listing(t)].close, snap[t].close)
    BY <1>8 DEF WriteBase
  <2>2. CASE Lapped(Listing(t), snap[t])
    BY <1>1, <2>1, <2>2 DEF Lapped
  <2>3. CASE ~Lapped(Listing(t), snap[t])
    <3>1. prev[t] = base[Listing(t)]
      BY <1>1, <2>1, <2>3 DEF PriceInv, InOrder, Baseline
    <3>2. Jumped(t)
      BY <2>1, <3>1 DEF Jumped
    <3>. QED  BY <1>1, <1>2, <2>1, <3>2 DEF InHand
  <2>. QED  BY <2>2, <2>3
<1>9. JumpInv'
  BY <1>1, <1>8, JumpKept DEF PriceInv, InHand
<1>. QED  BY <1>4, <1>5, <1>6, <1>7, <1>9 DEF PriceInv

LEMMA JudgeInv ==
    ASSUME PriceTyped, PriceInv, NEW t \in Scans,
           JudgeQuiet(t) \/ JudgeSilenced(t) \/ JudgeMove(t)
    PROVE  PriceInv'
<1>1. /\ Scan(t) /\ phase[t] = "judge" /\ phase'[t] = "fetch"
      /\ UNCHANGED <<tick, base, reported, snap, jumps, lapped>>
  BY DEF Scan, JudgeQuiet, JudgeSilenced, JudgeMove, Advance, market,
         priceHistory, PriceTyped, PriceTypeOK
<1>2. /\ moves'[t] \in {moves[t], moves[t] \cup {Move(t)}}
      /\ Jumped(t) => \/ moves'[t] = moves[t] \cup {Move(t)}
                      \/ <<Listing(t), snap[t]>> \in hushed'
  BY DEF JudgeQuiet, JudgeSilenced, JudgeMove, PriceTyped, PriceTypeOK
<1>3. /\ Move(t).listing = Listing(t) /\ Move(t).to = snap[t]
      /\ Move(t).from = prev[t]
  BY DEF Move
<1>4. InOrder(t)' /\ RealMove'
  BY <1>1, <1>2, <1>3 DEF PriceInv, InOrder, RealMove, Lapped
<1>5. ASSUME NEW j \in jumps, InHand(t, j)
      PROVE  j \in hushed' \/ InHand(t, j)'
  BY <1>2, <1>3, <1>5 DEF InHand, Tells
<1>6. JumpInv'
  BY <1>1, <1>5, JumpKept DEF PriceInv
<1>. QED  BY <1>1, <1>4, <1>6, InvKept

LEMMA EndInv ==
    ASSUME PriceTyped, PriceInv, NEW t \in Scans, Commit(t) \/ Record(t)
    PROVE  PriceInv'
<1>1. /\ Scan(t) /\ UNCHANGED <<tick, base, snap, jumps, lapped>>
      /\ \/ /\ phase[t] = "fetch" /\ phase'[t] = "record"
            /\ moves'[t] = moves[t] /\ reported' = reported \cup moves[t]
         \/ /\ phase[t] = "record" /\ phase'[t] \in {"fetch", "idle"}
            /\ moves'[t] = {} /\ reported' = reported
  BY DEF Scan, Commit, Record, market, priceHistory, PriceTyped, PriceTypeOK
<1>2. InOrder(t)' /\ RealMove'
  BY <1>1 DEF PriceInv, InOrder, RealMove, Lapped
<1>3. ASSUME NEW j \in jumps, InHand(t, j)
      PROVE  \E m \in reported' : Tells(m, j)
  BY <1>1, <1>3 DEF PriceInv, InOrder, InHand
<1>4. JumpInv'
  BY <1>1, <1>3, JumpKept DEF PriceInv
<1>. QED  BY <1>1, <1>2, <1>4, InvKept

(* Steps outside of the scans.                                             *)
LEMMA MarketInv ==
    ASSUME PriceTyped, PriceInv,
           UNCHANGED <<base, opening, reported, scanVars, priceHistory>>,
           tick' \in {tick, tick + 1}
    PROVE  PriceInv'
<1>1. tick \in Nat /\ tick' >= tick
  BY PriceAssumption DEF PriceTyped, PriceTypeOK
<1>2. \A l \in Listings : base[l].tick \in Nat
  BY PriceAssumption, ObservationOK DEF PriceTyped, PriceTypeOK
<1>3. \A s \in Scans : snap[s].tick \in Nat
  BY PriceAssumption, ObservationOK DEF PriceTyped, PriceTypeOK
<1>4. \A l \in Listings : base'[l].tick <= tick'
  BY <1>1, <1>2 DEF PriceInv
<1>5. ASSUME NEW s \in Scans
      PROVE  InOrder(s)'
  <2>1. snap'[s].tick <= tick'
    BY <1>1, <1>3 DEF PriceInv, InOrder, scanVars
  <2>2. Listing(s)' = Listing(s) /\ Baseline(Listing(s))' = Baseline(Listing(s))
    BY DEF Listing, Client, Baseline, scanVars
  <2>. QED
    BY <2>1, <2>2 DEF PriceInv, InOrder, Lapped, scanVars, priceHistory
<1>6. RealMove' /\ JumpInv'
  BY DEF PriceInv, RealMove, JumpInv, InHand, Tells, Listing, Client, Jumped,
         scanVars, priceHistory
<1>. QED  BY <1>4, <1>5, <1>6 DEF PriceInv

LEMMA PriceStep ==
    ASSUME PriceTyped, PriceInv, [PriceNext]_priceVars
    PROVE  PriceInv'
<1>1. ASSUME NEW l \in Listings, NEW v \in Levels, Trade(l, v)
      PROVE  PriceInv'
  BY <1>1, MarketInv DEF Trade
<1>2. ASSUME NEW k, Unmute(k)
      PROVE  PriceInv'
  BY <1>2, MarketInv DEF Unmute, market
<1>3. ASSUME NEW t \in Scans, Scan(t)
      PROVE  PriceInv'
  BY <1>3, StartInv, FetchInv, ReadInv, WriteInv, JudgeInv, EndInv DEF Scan
<1>4. CASE UNCHANGED priceVars
  BY <1>4, MarketInv DEF priceVars, market
<1>. QED  BY <1>1, <1>2, <1>3, <1>4 DEF PriceNext

(* However many scans overlap, an alert reports a move that happened, and  *)
(* no jump that replaced a baseline goes unreported, unless another scan   *)
(* replaced the baseline under the one that tells it, a scan was cut       *)
(* short, a cooldown was on or the position had no ISIN.                   *)
THEOREM PricesTheorem == PriceSpec => []PricesTold
<1>1. PriceInit => PriceInv
  BY PriceAssumption
     DEF PriceInit, PriceInv, InOrder, RealMove, JumpInv, Nothing
<1>2. PriceTyped /\ PriceInv /\ [PriceNext]_priceVars => PriceInv'
  BY PriceStep
<1>3. PriceInv => PricesTold
  BY DEF PriceInv, JumpInv, InHand, Tells, JumpReported, PricesTold
<1>. QED  BY PriceTypedTheorem, <1>1, <1>2, <1>3, PTL DEF PriceSpec
=============================================================================
