----------------------------- MODULE IntakeProofs -----------------------------
(***************************************************************************)
(* Mailbox cycles, demo rows and news scans over one budget, for any       *)
(* number of callers, mails, clients and articles.                         *)
(***************************************************************************)
EXTENDS Intake, SetSums, SequenceTheorems

-----------------------------------------------------------------------------
(* The day's spending, for any number of callers, any cap and any number   *)
(* of attempts.                                                            *)

USE DEF At, Free, Running, Calling, Answered

(* The callers whose request passed the check and is not charged yet.      *)
Asked == {c \in Callers : call[c].at = "asked"}

(* Every request under way may still cost MostTokens; a caller that is to  *)
(* be checked has a request left.                                          *)
Reserved ==
    spent + MostTokens * Cardinality(Asked)
        <= Cap - 1 + MostTokens * Cardinality(Callers)

WarnedOnce == warned = IF spent >= WarnAt THEN 1 ELSE 0

HasLeft == \A c \in Callers : call[c].at = "check" => call[c].left > 0

BudgetInv == BudgetTypeOK /\ HasLeft /\ WarnedOnce /\ Reserved

-----------------------------------------------------------------------------
LEMMA OneMore ==
    ASSUME NEW m \in Nat, NEW n \in Nat, n > 0
    PROVE  m * n = m * (n - 1) + m
<1>1. PICK k \in Nat : n = k + 1
  <2>1. n - 1 \in Nat /\ n = (n - 1) + 1
    OBVIOUS
  <2>. QED  BY <2>1
<1>2. m * (k + 1) = m * k + m
  OBVIOUS
<1>. QED  BY <1>1, <1>2

(* Any set of callers counts for at most all of them.                      *)
LEMMA Counted ==
    ASSUME BudgetAssumption, NEW S \in SUBSET Callers
    PROVE  /\ IsFiniteSet(S)
           /\ Cardinality(S) \in Nat /\ Cardinality(Callers) \in Nat
           /\ MostTokens * Cardinality(S) \in Nat
           /\ MostTokens * Cardinality(Callers) \in Nat
           /\ MostTokens * Cardinality(S) <= MostTokens * Cardinality(Callers)
<1>1. IsFiniteSet(S) /\ Cardinality(S) <= Cardinality(Callers)
  BY FS_Subset DEF BudgetAssumption
<1>2. Cardinality(S) \in Nat /\ Cardinality(Callers) \in Nat
  BY <1>1, FS_CardinalityType DEF BudgetAssumption
<1>3. MostTokens \in Nat
  BY DEF BudgetAssumption
<1>4. MostTokens * Cardinality(S) \in Nat /\ MostTokens * Cardinality(Callers) \in Nat
  BY <1>2, <1>3
<1>. QED  BY <1>1, <1>2, <1>3, <1>4, Monotone

(* A step that charges nothing and lets nobody through the check.          *)
LEMMA NoMoreAsked ==
    ASSUME BudgetAssumption, BudgetInv, spent' \in 0..spent, Asked' \subseteq Asked
    PROVE  Reserved'
<1>1. Asked \in SUBSET Callers /\ Asked' \in SUBSET Callers
  BY DEF Asked
<1>2. Cardinality(Asked') <= Cardinality(Asked)
  BY <1>1, Counted, FS_Subset
<1>3. /\ Cardinality(Asked) \in Nat /\ Cardinality(Asked') \in Nat
      /\ MostTokens * Cardinality(Asked) \in Nat
      /\ MostTokens * Cardinality(Asked') \in Nat
      /\ MostTokens * Cardinality(Callers) \in Nat
  BY <1>1, Counted
<1>4. MostTokens * Cardinality(Asked') <= MostTokens * Cardinality(Asked)
  BY <1>2, <1>3, Monotone DEF BudgetAssumption
<1>5. spent \in Nat /\ Cap \in Nat
  BY DEF BudgetInv, BudgetTypeOK, BudgetAssumption
<1>. QED  BY <1>3, <1>4, <1>5 DEF BudgetInv, Reserved

-----------------------------------------------------------------------------
LEMMA InitHolds == ASSUME BudgetAssumption PROVE BudgetInit => BudgetInv
<1>. SUFFICES ASSUME BudgetInit PROVE BudgetInv
  OBVIOUS
<1>1. BudgetTypeOK /\ HasLeft /\ WarnedOnce
  BY DEF BudgetInit, BudgetTypeOK, HasLeft, WarnedOnce, BudgetAssumption
<1>2. Asked = {}
  BY DEF BudgetInit, Asked
<1>3. Reserved
  BY <1>2, Counted, FS_EmptySet DEF BudgetInit, Reserved, BudgetAssumption
<1>. QED  BY <1>1, <1>3 DEF BudgetInv

LEMMA CheckHolds ==
    ASSUME BudgetAssumption, BudgetInv, NEW c \in Callers, Check(c)
    PROVE  BudgetInv'
<1>1. BudgetTypeOK' /\ HasLeft' /\ WarnedOnce'
  BY DEF BudgetInv, BudgetTypeOK, HasLeft, WarnedOnce, Check, Turns,
         BudgetAssumption
<1>2. CASE spent >= Cap
  <2>1. Asked' \subseteq Asked
    BY <1>2 DEF BudgetInv, BudgetTypeOK, Check, Turns, Asked
  <2>2. spent' \in 0..spent
    BY DEF BudgetInv, BudgetTypeOK, Check
  <2>. QED  BY <1>1, <2>1, <2>2, NoMoreAsked DEF BudgetInv
<1>3. CASE spent < Cap
  <2>1. Asked' \in SUBSET Callers
    BY DEF Asked
  <2>2. Reserved'
    BY <1>3, <2>1, Counted
    DEF Check, Reserved, BudgetInv, BudgetTypeOK, BudgetAssumption
  <2>. QED  BY <1>1, <2>2 DEF BudgetInv
<1>. QED  BY <1>2, <1>3 DEF BudgetInv, BudgetTypeOK, BudgetAssumption

LEMMA AnswerHolds ==
    ASSUME BudgetAssumption, BudgetInv, NEW c \in Callers,
           NEW tokens \in Usage, NEW parses \in BOOLEAN,
           Answer(c, tokens, parses)
    PROVE  BudgetInv'
<1>1. tokens \in Nat /\ tokens <= MostTokens
  BY DEF BudgetAssumption
<1>2. BudgetTypeOK'
  BY <1>1 DEF BudgetInv, BudgetTypeOK, Answer, Record, Warns, Retry, Turns
<1>3. HasLeft'
  BY DEF BudgetInv, BudgetTypeOK, HasLeft, Answer, Retry, Turns
<1>4. WarnedOnce'
  BY <1>1 DEF BudgetInv, BudgetTypeOK, WarnedOnce, Answer, Record, Warns,
              BudgetAssumption
<1>5. c \in Asked /\ Asked' = Asked \ {c}
  BY DEF BudgetInv, BudgetTypeOK, Answer, Retry, Turns, Asked
<1>6. Asked \in SUBSET Callers /\ Asked' \in SUBSET Callers
  BY DEF Asked
<1>7. Cardinality(Asked') = Cardinality(Asked) - 1
  BY <1>5, <1>6, Counted, FS_RemoveElement
<1>8. /\ Cardinality(Asked) \in Nat /\ Cardinality(Asked') \in Nat
      /\ MostTokens * Cardinality(Asked') \in Nat
      /\ MostTokens * Cardinality(Callers) \in Nat
  BY <1>6, Counted
<1>9. MostTokens * Cardinality(Asked)
          = MostTokens * Cardinality(Asked') + MostTokens
  BY <1>7, <1>8, OneMore DEF BudgetAssumption
<1>10. Reserved'
  BY <1>1, <1>8, <1>9
  DEF BudgetInv, BudgetTypeOK, Reserved, Answer, Record, BudgetAssumption
<1>. QED  BY <1>2, <1>3, <1>4, <1>10 DEF BudgetInv

(* The other steps: an error, midnight, a restart, a caller on its own.    *)
LEMMA OthersHold ==
    ASSUME BudgetAssumption, BudgetInv,
           \/ \E c \in Callers : ProviderFails(c)
           \/ Midnight
           \/ MeterSame /\ CallsEnd
           \/ MeterSame /\ \E c \in Callers, s \in {Free, Running, Calling} :
                               Caller(c, s)
           \/ UNCHANGED budgetVars
    PROVE  BudgetInv'
<1>1. CASE \E c \in Callers : ProviderFails(c)
  <2>1. BudgetTypeOK' /\ HasLeft' /\ WarnedOnce'
    BY <1>1 DEF BudgetInv, BudgetTypeOK, HasLeft, WarnedOnce, ProviderFails, Turns
  <2>2. Asked' \subseteq Asked /\ spent' \in 0..spent
    BY <1>1 DEF BudgetInv, BudgetTypeOK, ProviderFails, Turns, Asked
  <2>. QED  BY <2>1, <2>2, NoMoreAsked DEF BudgetInv
<1>2. CASE Midnight
  <2>1. BudgetTypeOK' /\ HasLeft' /\ WarnedOnce'
    BY <1>2 DEF BudgetInv, BudgetTypeOK, HasLeft, WarnedOnce, Midnight,
                BudgetAssumption
  <2>2. Asked' \subseteq Asked /\ spent' \in 0..spent
    BY <1>2 DEF BudgetInv, BudgetTypeOK, Midnight, Asked
  <2>. QED  BY <2>1, <2>2, NoMoreAsked DEF BudgetInv
<1>3. CASE MeterSame /\ CallsEnd
  <2>1. BudgetTypeOK' /\ HasLeft' /\ WarnedOnce'
    BY <1>3 DEF BudgetInv, BudgetTypeOK, HasLeft, WarnedOnce, CallsEnd, MeterSame
  <2>2. Asked' \subseteq Asked /\ spent' \in 0..spent
    BY <1>3 DEF BudgetInv, BudgetTypeOK, CallsEnd, MeterSame, Asked
  <2>. QED  BY <2>1, <2>2, NoMoreAsked DEF BudgetInv
<1>4. CASE MeterSame /\ \E c \in Callers, s \in {Free, Running, Calling} :
                            Caller(c, s)
  <2>1. BudgetTypeOK' /\ HasLeft' /\ WarnedOnce'
    BY <1>4 DEF BudgetInv, BudgetTypeOK, HasLeft, WarnedOnce, Caller, MeterSame,
                Turns, BudgetAssumption
  <2>2. Asked' \subseteq Asked /\ spent' \in 0..spent
    BY <1>4 DEF BudgetInv, BudgetTypeOK, Caller, MeterSame, Turns, Asked
  <2>. QED  BY <2>1, <2>2, NoMoreAsked DEF BudgetInv
<1>5. CASE UNCHANGED budgetVars
  BY <1>5 DEF BudgetInv, BudgetTypeOK, HasLeft, WarnedOnce, Reserved, Asked,
              budgetVars
<1>. QED  BY <1>1, <1>2, <1>3, <1>4, <1>5

-----------------------------------------------------------------------------
(* The cap bounds a day's spending, and the warning is logged exactly when *)
(* it should be, however many callers ask at once and retry.               *)
THEOREM BudgetTheorem == BudgetSpec => []BudgetHolds
<1>1. BudgetInit => BudgetInv
  BY InitHolds, BudgetAssumption
<1>2. BudgetInv /\ [BudgetNext]_budgetVars => BudgetInv'
  <2>. SUFFICES ASSUME BudgetInv, [BudgetNext]_budgetVars PROVE BudgetInv'
    OBVIOUS
  <2>1. CASE \E c \in Callers : Check(c)
    BY <2>1, CheckHolds, BudgetAssumption
  <2>2. CASE \E c \in Callers, tokens \in Usage, parses \in BOOLEAN :
                Answer(c, tokens, parses)
    BY <2>2, AnswerHolds, BudgetAssumption
  <2>. QED
    BY <2>1, <2>2, OthersHold, BudgetAssumption DEF BudgetNext, CallStep
<1>3. BudgetInv => BudgetHolds
  <2>. SUFFICES ASSUME BudgetInv PROVE BudgetHolds
    OBVIOUS
  <2>1. Asked \in SUBSET Callers
    BY DEF Asked
  <2>. QED
    BY <2>1, Counted, BudgetAssumption
    DEF BudgetInv, BudgetTypeOK, BudgetHolds, Reserved, WarnedOnce,
        BudgetAssumption
<1>. QED  BY <1>1, <1>2, <1>3, PTL DEF BudgetSpec

-----------------------------------------------------------------------------
(* The budget.  What a cycle or a scan does to its call is what the budget *)
(* lets a caller do.                                                       *)

LEMMA MailCalls == MailNext => [BudgetNext]_budgetVars
<1>. SUFFICES ASSUME MailNext PROVE [BudgetNext]_budgetVars
  OBVIOUS
<1>1. CASE Receive
  BY <1>1 DEF Receive
<1>2. ASSUME NEW c \in Callers, MeterSame,
             CycleStep(c) \/ DemoStep(c) \/ CycleFails(c)
      PROVE  [BudgetNext]_budgetVars
  <2>1. ASSUME \/ UNCHANGED call
               \/ \E s \in {Free, Running, Calling} : Turns(c, s)
        PROVE  [BudgetNext]_budgetVars
    BY <1>2, <2>1 DEF BudgetNext, Caller, budgetVars, MeterSame
  <2>2. ASSUME NEW todo, NEW drafted, GoOn(c, todo, drafted)
        PROVE  \E s \in {Free, Running, Calling} : Turns(c, s)
    BY <2>2 DEF GoOn
  <2>3. CASE CycleStep(c)
    <3>1. CASE Fetch(c) \/ ClassifyFails(c) \/ DraftFails(c) \/ Reply(c)
               \/ FileTask(c)
      BY <2>1, <2>2, <3>1
      DEF Fetch, ClassifyFails, DraftFails, Reply, FileTask, Skip, Drafted
    <3>2. ASSUME NEW reading \in SUBSET Entities, Classified(c, reading)
          PROVE  [BudgetNext]_budgetVars
      BY <2>1, <2>2, <3>2 DEF Classified, Plan, Skip
    <3>3. ASSUME NEW step \in {"reply", "sheet", "nothing"}, Mark(c, step)
          PROVE  [BudgetNext]_budgetVars
      BY <2>1, <2>2, <3>3 DEF Mark, Skip
    <3>4. CASE Sheet(c) \/ Render(c)
      BY <2>1, <3>4 DEF Sheet, Render
    <3>. QED  BY <2>3, <3>1, <3>2, <3>3, <3>4 DEF CycleStep
  <2>4. CASE DemoStep(c) \/ CycleFails(c)
    BY <2>1, <2>4 DEF DemoStep, EnsureRead, EnsureMark, EnsureCommit,
                      ResetRead, ResetUnmark, ResetCommit, CycleFails
  <2>. QED  BY <1>2, <2>3, <2>4
<1>. QED  BY <1>1, <1>2 DEF MailNext

LEMMA ScanCalls == ScanNext => [BudgetNext]_budgetVars
<1>. SUFFICES ASSUME ScanNext PROVE [BudgetNext]_budgetVars
  OBVIOUS
<1>1. ASSUME UNCHANGED call PROVE [BudgetNext]_budgetVars
  BY <1>1 DEF ScanNext, MeterSame, budgetVars
<1>2. ASSUME NEW w \in Callers, NEW s \in {Free, Running, Calling}, Turns(w, s)
      PROVE  [BudgetNext]_budgetVars
  BY <1>2 DEF ScanNext, BudgetNext, Caller
<1>3. ASSUME NEW w \in Callers, ScanStep(w) PROVE [BudgetNext]_budgetVars
  <2>1. CASE \/ \E c \in Clients : \/ WatchRead(w, c)
                                   \/ \E found \in SUBSET Articles :
                                         ScanRead(w, c, found)
             \/ WatchCommit(w) \/ FilterFails(w) \/ RowsCommit(w)
    BY <1>2, <2>1 DEF WatchRead, ScanRead, WatchCommit, FilterFails, RowsCommit,
                      Rests
  <2>2. CASE \E keep \in SUBSET Range(sjob[w].todo) :
                \E again \in SUBSET keep : Filtered(w, keep, again)
    BY <1>2, <2>2 DEF Filtered
  <2>3. CASE GateDrops(w) \/ EmbeddingsFail(w) \/ TakeUnjudged(w)
             \/ AskVerdict(w) \/ VerdictFails(w)
             \/ \E about \in BOOLEAN : Verdict(w, about)
    BY <1>1, <1>2, <2>3 DEF GateDrops, EmbeddingsFail, TakeUnjudged, AskVerdict,
                            VerdictFails, Verdict, Passes
  <2>. QED  BY <1>3, <2>1, <2>2, <2>3 DEF ScanStep
<1>4. ASSUME NEW w \in Callers, SeedStep(w) \/ ScanFails(w)
      PROVE  [BudgetNext]_budgetVars
  BY <1>2, <1>4 DEF SeedStep, SeedRead, SeedCommit, FanRead, FanCommit,
                    ScanFails, Rests
<1>5. ASSUME NEW c \in Clients, NEW b \in Books, BookChanges(c, b)
      PROVE  [BudgetNext]_budgetVars
  BY <1>1, <1>5 DEF BookChanges
<1>. QED  BY <1>3, <1>4, <1>5 DEF ScanNext

LEMMA StepIsBudget == [Next]_vars => [BudgetNext]_budgetVars
<1>. SUFFICES ASSUME [Next]_vars PROVE [BudgetNext]_budgetVars
  OBVIOUS
<1>1. CASE CallStep
  BY <1>1 DEF BudgetNext
<1>2. CASE Restart
  BY <1>2 DEF Restart, BudgetNext
<1>3. CASE UNCHANGED vars
  BY <1>3 DEF vars
<1>. QED  BY <1>1, <1>2, <1>3, MailCalls, ScanCalls DEF Next

(* Mailbox, demo and scans spend as the budget's own specification allows. *)
THEOREM BudgetRefinement == Spec => SpendsAsBudgeted
<1>1. Init => Budget!BudgetInit
  BY DEF Init, BudgetInit, Budget!BudgetInit, Free, Budget!Free, At, Budget!At
<1>2. BudgetNext => Budget!BudgetNext
  BY DEF BudgetNext, CallStep, Check, ProviderFails, Answer, Record, Retry,
         Warns, Turns, Midnight, CallsEnd, MeterSame, Caller, Free, Running,
         Calling, At,
         Budget!BudgetNext, Budget!CallStep, Budget!Check,
         Budget!ProviderFails, Budget!Answer, Budget!Record, Budget!Retry,
         Budget!Warns, Budget!Turns, Budget!Midnight, Budget!CallsEnd,
         Budget!MeterSame, Budget!Caller, Budget!Free, Budget!Running,
         Budget!Calling, Budget!At
<1>3. UNCHANGED budgetVars => UNCHANGED Budget!budgetVars
  BY DEF budgetVars, Budget!budgetVars
<1>4. [Next]_vars => [Budget!BudgetNext]_(Budget!budgetVars)
  BY <1>2, <1>3, StepIsBudget
<1>. QED  BY <1>1, <1>4, PTL DEF Spec, SpendsAsBudgeted, Budget!BudgetSpec

(* The cap bounds a day's spending of the whole process.                   *)
THEOREM SpendingTheorem == Spec => []BudgetHolds
<1>1. Init => BudgetInit
  BY DEF Init
<1>2. Spec => BudgetSpec
  BY <1>1, StepIsBudget, PTL DEF Spec, BudgetSpec
<1>. QED  BY <1>2, BudgetTheorem, PTL

-----------------------------------------------------------------------------
(* Matching.                                                               *)

LEMMA OwnGrows ==
    ASSUME NEW l, NEW m, NEW a, l.held \subseteq m.held,
           l.themes \subseteq m.themes
    PROVE  Own(l, a) \subseteq Own(m, a)
<1>1. Certain(l, a) \subseteq Certain(m, a) /\ Care(l, a) \subseteq Care(m, a)
  BY DEF Certain, Care
<1>. QED  BY <1>1 DEF Own

(* More in a client's book never costs it a match.                         *)
THEOREM GrowsTheorem == Spec => MatchGrows
<1>1. [Next]_vars =>
        [\A c \in {x \in Clients : watch'[x] # watch[x]}, a \in Articles :
            /\ watch[c].held \subseteq watch'[c].held
            /\ watch[c].themes \subseteq watch'[c].themes
            => Own(watch[c], a) \subseteq Own(watch'[c], a)]_watch
  BY OwnGrows
<1>. QED  BY <1>1, PTL DEF Spec, MatchGrows

-----------------------------------------------------------------------------
(* A caller does one thing: who is free has no mail and no scan in work,   *)
(* who scans has no mail.                                                  *)
Shaped(w) ==
    /\ w \in [op : {w.op}, todo : {w.todo}, drafted : {w.drafted},
              plan : {w.plan}, client : {w.client}, id : {w.id},
              saw : {w.saw}]
    /\ w.op = "idle" => w = Idle

BusyInv ==
    /\ call = [c \in Callers |-> call[c]]
    /\ sjob = [c \in Callers |-> sjob[c]]
    /\ mjob = [c \in Callers |-> mjob[c]]
    /\ \A c \in Callers :
          /\ Shaped(mjob[c])
          /\ call[c] = Free => mjob[c].op = "idle" /\ sjob[c] = AtRest
          /\ sjob[c] # AtRest => mjob[c].op = "idle"

(* A mail in hand is marked, inbound, and not answered yet, and no other   *)
(* caller has it in hand.                                                  *)
Hands == {"reply", "sheet", "render", "task"}

HandsInv ==
    /\ seen \subseteq Inbound
    /\ \A c \in Callers :
          /\ mjob[c].op \in Hands \cup {"mark"} => Current(c) \in Inbound
          /\ mjob[c].op \in {"create", "pin", "unpin", "drop"} => Current(c) = Demo
          /\ mjob[c].op \in Hands =>
                Current(c) \in seen /\ \A t \in tasks : t.mail # Current(c)
    /\ \A c, e \in Callers :
          /\ mjob[c].op \in Hands /\ mjob[e].op \in Hands
          /\ Current(c) = Current(e)
          => c = e
    /\ \A t \in tasks : t.mail \in seen \cup {Demo}

(* The ids the demo may delete are those of its own rows.                  *)
IdsInv ==
    /\ \E n \in Nat : /\ marker \in 0..n
                      /\ \A d \in drafts : d.id \in 0..n
                      /\ \A c \in Callers : mjob[c].id \in 0..n
                      /\ \A s \in tasks : s.draft \in 0..n
    /\ \A c \in Callers : mjob[c].op \in {"render", "task"} =>
          /\ mjob[c].id \notin {0, marker}
          /\ \A e \in Callers : mjob[e].op \in {"pin", "unpin", "drop"} =>
                mjob[e].id # mjob[c].id
    /\ \A c \in Callers : mjob[c].op = "pin" => mjob[c].id # 0
    /\ \A t \in tasks :
          /\ t.draft # 0
          /\ t.draft = marker => t.mail = Demo
          /\ \A c \in Callers :
                mjob[c].op \in {"pin", "unpin", "drop"} /\ mjob[c].id = t.draft
                => t.mail = Demo

(* The advice in hand has its draft.                                       *)
RowsInv ==
    /\ \A d \in drafts : d \in [id : {d.id}, mail : {d.mail},
                                client : {d.client}, text : {d.text}]
    /\ \A c \in Callers : mjob[c].op \in {"render", "task"} =>
          \E d \in drafts :
             /\ d.id = mjob[c].id /\ d.mail = Current(c)
             /\ d.client = mjob[c].client
             /\ mjob[c].op = "task" => d.text

MailInv == BusyInv /\ HandsInv /\ IdsInv /\ RowsInv /\ EachAnsweredOnce

LEMMA FreshIs ==
    ASSUME IdsInv
    PROVE  /\ FreshId \in Nat \ {0, marker}
           /\ \A d \in drafts : d.id # FreshId
           /\ \A c \in Callers : mjob[c].id # FreshId
           /\ \A s \in tasks : s.draft # FreshId
           /\ \E n \in Nat : /\ marker \in 0..n /\ FreshId \in 0..n
                             /\ \A d \in drafts : d.id \in 0..n
                             /\ \A c \in Callers : mjob[c].id \in 0..n
                             /\ \A s \in tasks : s.draft \in 0..n
<1> DEFINE S == {marker} \cup {d.id : d \in drafts}
                  \cup {s.draft : s \in tasks} \cup {mjob[c].id : c \in Callers}
<1> HIDE DEF S
<1>1. PICK n \in Nat : /\ marker \in 0..n
                       /\ \A d \in drafts : d.id \in 0..n
                       /\ \A c \in Callers : mjob[c].id \in 0..n
                       /\ \A s \in tasks : s.draft \in 0..n
  BY DEF IdsInv
<1>2. S \subseteq 0..n /\ marker \in S
  BY <1>1 DEF S
<1>3. Max(S) \in S /\ \A y \in S : Max(S) >= y
  BY <1>2, Highest
<1>4. FreshId = 1 + Max(S)
  BY DEF FreshId, S
<1>5. Max(S) \in 0..n
  BY <1>2, <1>3
<1>6. FreshId \in 1..(n + 1) /\ \A y \in S : y \in 0..n /\ y # FreshId
  BY <1>2, <1>3, <1>4, <1>5
<1>7. \A y \in S : y \in 0..(n + 1)
  BY <1>6
<1>8. /\ \A d \in drafts : d.id \in S
      /\ \A c \in Callers : mjob[c].id \in S
      /\ \A s \in tasks : s.draft \in S
  BY DEF S
<1>9. n + 1 \in Nat /\ FreshId \in 0..(n + 1)
  BY <1>6
<1>10. /\ FreshId \in Nat \ {0, marker}
       /\ \A d \in drafts : d.id # FreshId
       /\ \A c \in Callers : mjob[c].id # FreshId
       /\ \A s \in tasks : s.draft # FreshId
  BY <1>2, <1>6, <1>8
<1>11. /\ marker \in 0..(n + 1) /\ FreshId \in 0..(n + 1)
       /\ \A d \in drafts : d.id \in 0..(n + 1)
       /\ \A c \in Callers : mjob[c].id \in 0..(n + 1)
       /\ \A s \in tasks : s.draft \in 0..(n + 1)
  BY <1>2, <1>7, <1>8, <1>9
<1>. QED  BY <1>9, <1>10, <1>11

(* A step of one caller: what it has now is w, and the others stay.        *)
Moves(c, w) ==
    /\ Does(c, w) /\ Shaped(w)
    /\ sjob[c] = AtRest /\ UNCHANGED sjob
    /\ call' = [e \in Callers |-> call'[e]]
    /\ \A e \in Callers : e # c => call'[e] = call[e]
    /\ call'[c] = Free => w.op = "idle"

LEMMA Moved ==
    ASSUME BusyInv, NEW c \in Callers, NEW w, Moves(c, w)
    PROVE  /\ BusyInv'
           /\ mjob'[c] = w
           /\ (Current(c))' = Head(w.todo)
           /\ \A e \in Callers : e # c =>
                 /\ mjob'[e] = mjob[e]
                 /\ (Current(e))' = Current(e)
                 /\ (InHands(e))' = InHands(e)
<1>1. /\ mjob' = [e \in Callers |-> mjob'[e]]
      /\ mjob'[c] = w
      /\ \A e \in Callers : e # c => mjob'[e] = mjob[e]
  BY DEF BusyInv, Moves, Does
<1>2. \A e \in Callers : e # c => /\ (Current(e))' = Current(e)
                                 /\ (InHands(e))' = InHands(e)
  BY <1>1 DEF Current, InHands
<1>3. BusyInv'
  BY <1>1 DEF BusyInv, Moves, Shaped
<1>. QED  BY <1>1, <1>2, <1>3 DEF Current

LEMMA TurnsMoves ==
    ASSUME BusyInv, NEW c \in Callers, NEW s, NEW w, Turns(c, s), Does(c, w),
           Shaped(w), s = Free => w.op = "idle", sjob[c] = AtRest,
           UNCHANGED sjob
    PROVE  Moves(c, w)
  BY DEF BusyInv, Turns, Moves

LEMMA States == Free # Running /\ Free # Calling
  BY DEF Free, Running, Calling, At

LEMMA DoingShaped ==
    ASSUME NEW op, op # "idle", NEW todo, NEW drafted, NEW id
    PROVE  /\ Shaped(Doing(op, todo, drafted, id))
           /\ Doing(op, todo, drafted, id).op = op
           /\ Doing(op, todo, drafted, id).todo = todo
           /\ Doing(op, todo, drafted, id).id = id
           /\ Doing(op, todo, drafted, id).saw = {}
  BY DEF Shaped, Doing

LEMMA IdleShaped == Shaped(Idle) /\ Idle.op = "idle" /\ Idle.id = 0
  BY DEF Shaped, Idle, Doing

(* A caller that goes on with nothing in its hands.                        *)
Empty(w) ==
    \/ w.op \in {"idle", "classify"}
    \/ w.op = "create" /\ Head(w.todo) = Demo
    \/ w.op = "mark" /\ Head(w.todo) \in Inbound

Leaves(c) ==
    \E w : Moves(c, w) /\ Empty(w) /\ w.id \in {0, mjob[c].id}

LetsGo(c) ==
    /\ Leaves(c)
    /\ UNCHANGED <<drafts, tasks, marker>>
    /\ seen \subseteq seen' /\ seen' \subseteq Inbound
    /\ seen' \ seen \subseteq excused'
    /\ excused \cup InHands(c) \subseteq excused'

LEMMA GoesOn ==
    ASSUME BusyInv, NEW c \in Callers, NEW todo, NEW drafted,
           GoOn(c, todo, drafted), sjob[c] = AtRest, UNCHANGED sjob
    PROVE  \E w : Moves(c, w) /\ w.op \in {"idle", "classify"} /\ w.id = 0
<1>1. CASE todo = <<>>
  <2>1. Does(c, Idle) /\ Turns(c, Free)
    BY <1>1 DEF GoOn
  <2>2. Moves(c, Idle)
    BY <2>1, IdleShaped, TurnsMoves
  <2>. QED  BY <2>2, IdleShaped
<1>2. CASE todo # <<>>
  <2> DEFINE w == Doing("classify", todo, drafted, 0)
  <2>1. Does(c, w) /\ Turns(c, Calling)
    BY <1>2 DEF GoOn
  <2>2. Shaped(w) /\ w.op = "classify" /\ w.id = 0
    BY DoingShaped
  <2>3. Moves(c, w)
    BY <2>1, <2>2, States, TurnsMoves
  <2>. QED  BY <2>2, <2>3
<1>. QED  BY <1>1, <1>2

LEMMA Ending ==
    ASSUME BusyInv, NEW c \in Callers, Does(c, Idle), Turns(c, Free),
           sjob[c] = AtRest, UNCHANGED sjob
    PROVE  Moves(c, Idle) /\ Idle.op = "idle" /\ Idle.id = 0
  BY TurnsMoves, IdleShaped

LEMMA Going ==
    ASSUME MailInv, NEW c \in Callers, LetsGo(c)
    PROVE  MailInv'
<1>1. PICK w : Moves(c, w) /\ Empty(w) /\ w.id \in {0, mjob[c].id}
  BY DEF LetsGo, Leaves
<1>2. /\ BusyInv' /\ mjob'[c] = w /\ (Current(c))' = Head(w.todo)
      /\ \A e \in Callers : e # c => /\ mjob'[e] = mjob[e]
                                     /\ (Current(e))' = Current(e)
                                     /\ (InHands(e))' = InHands(e)
  BY <1>1, Moved DEF MailInv
<1>3. /\ w.op \notin Hands \cup {"pin", "unpin", "drop"}
      /\ w.op = "create" => Head(w.todo) = Demo
      /\ w.op = "mark" => Head(w.todo) \in Inbound
  BY <1>1 DEF Empty, Hands
<1>4. HandsInv'
  BY <1>2, <1>3 DEF MailInv, HandsInv, LetsGo
<1>5. IdsInv'
  BY <1>1, <1>2, <1>3 DEF MailInv, IdsInv, LetsGo, Hands
<1>6. RowsInv'
  BY <1>2, <1>3 DEF MailInv, RowsInv, LetsGo, Hands
<1>7. OneAnswerEach'
  BY DEF MailInv, EachAnsweredOnce, OneAnswerEach, LetsGo
<1>8. NothingMissed'
  BY <1>2 DEF MailInv, EachAnsweredOnce, NothingMissed, LetsGo
<1>. QED  BY <1>2, <1>4, <1>5, <1>6, <1>7, <1>8 DEF MailInv, EachAnsweredOnce

(* A mail is taken in hand by the cycle that marks it first.               *)
Takes(c) ==
    \E w : /\ Moves(c, w) /\ w.op \in {"reply", "sheet"}
           /\ Head(w.todo) = Current(c) /\ w.id = mjob[c].id
           /\ Current(c) \in Inbound \ seen
           /\ seen' = seen \cup {Current(c)}
           /\ UNCHANGED <<drafts, tasks, marker, excused>>

LEMMA Taking ==
    ASSUME MailInv, NEW c \in Callers, Takes(c)
    PROVE  MailInv'
<1>1. PICK w : /\ Moves(c, w) /\ w.op \in {"reply", "sheet"}
               /\ Head(w.todo) = Current(c) /\ w.id = mjob[c].id
  BY DEF Takes
<1>2. /\ BusyInv' /\ mjob'[c] = w /\ (Current(c))' = Current(c)
      /\ \A e \in Callers : e # c => /\ mjob'[e] = mjob[e]
                                     /\ (Current(e))' = Current(e)
                                     /\ (InHands(e))' = InHands(e)
  BY <1>1, Moved DEF MailInv
<1>3. /\ Current(c) \in Inbound \ seen /\ Current(c) # Demo
      /\ seen' = seen \cup {Current(c)}
      /\ UNCHANGED <<drafts, tasks, marker, excused>>
  BY MailAssumption DEF Takes, Demo, Mails
<1>4. \A t \in tasks : t.mail # Current(c)
  BY <1>3 DEF MailInv, HandsInv
<1>5. HandsInv'
  BY <1>1, <1>2, <1>3, <1>4 DEF MailInv, HandsInv, Hands
<1>6. IdsInv'
  BY <1>1, <1>2, <1>3 DEF MailInv, IdsInv
<1>7. RowsInv'
  BY <1>1, <1>2, <1>3 DEF MailInv, RowsInv
<1>8. OneAnswerEach'
  BY <1>3 DEF MailInv, EachAnsweredOnce, OneAnswerEach
<1>9. (InHands(c))' = {Current(c)}
  BY <1>1, <1>2 DEF InHands
<1>10. NothingMissed'
  <2>1. ASSUME NEW m \in seen
        PROVE  \/ \E t \in tasks' : t.mail = m
               \/ \E e \in Callers : m \in (InHands(e))'
               \/ m \in excused'
    BY <1>2, <1>3, <1>9 DEF MailInv, EachAnsweredOnce, NothingMissed, HandsInv,
                            InHands, Hands
  <2>. QED  BY <1>3, <1>9, <2>1 DEF NothingMissed
<1>. QED  BY <1>2, <1>5, <1>6, <1>7, <1>8, <1>10 DEF MailInv, EachAnsweredOnce

(* A mail in hand is answered: its draft is there and complete when its    *)
(* task is written.                                                        *)
Gives(c) ==
    \E w, t :
       /\ Moves(c, w) /\ w.op \in {"idle", "classify"} /\ w.id = 0
       /\ tasks' = tasks \cup {t} /\ t.mail = Current(c)
       /\ \E d \in drafts' : /\ d.id = t.draft /\ d.text
                             /\ d.mail = t.mail /\ d.client = t.client
       /\ drafts \subseteq drafts'
       /\ \A d \in drafts' \ drafts :
             /\ d \in [id : {d.id}, mail : {d.mail}, client : {d.client},
                       text : {d.text}]
             /\ d.id = FreshId
       /\ t.draft \notin {0, marker}
       /\ \A e \in Callers :
             mjob[e].op \in {"pin", "unpin", "drop"} => mjob[e].id # t.draft
       /\ UNCHANGED <<seen, marker, excused>>

LEMMA Giving ==
    ASSUME MailInv, NEW c \in Callers, mjob[c].op \in Hands, Gives(c)
    PROVE  MailInv'
<1>1. PICK w, t :
         /\ Moves(c, w) /\ w.op \in {"idle", "classify"} /\ w.id = 0
         /\ tasks' = tasks \cup {t} /\ t.mail = Current(c)
         /\ \E d \in drafts' : /\ d.id = t.draft /\ d.text
                               /\ d.mail = t.mail /\ d.client = t.client
         /\ drafts \subseteq drafts'
         /\ \A d \in drafts' \ drafts :
               /\ d \in [id : {d.id}, mail : {d.mail}, client : {d.client},
                         text : {d.text}]
               /\ d.id = FreshId
         /\ t.draft \notin {0, marker}
         /\ \A e \in Callers :
               mjob[e].op \in {"pin", "unpin", "drop"} => mjob[e].id # t.draft
         /\ UNCHANGED <<seen, marker, excused>>
  BY DEF Gives
<1>2. /\ BusyInv' /\ mjob'[c] = w
      /\ \A e \in Callers : e # c => /\ mjob'[e] = mjob[e]
                                     /\ (Current(e))' = Current(e)
                                     /\ (InHands(e))' = InHands(e)
  BY <1>1, Moved DEF MailInv
<1>3. \A s \in tasks : s.mail # Current(c)
  BY DEF MailInv, HandsInv
<1>4. \A e \in Callers :
         e # c /\ mjob[e].op \in Hands => Current(e) # Current(c)
  BY DEF MailInv, HandsInv
<1>5. HandsInv'
  BY <1>1, <1>2, <1>4 DEF MailInv, HandsInv, Hands
<1>6. IdsInv'
  <2>1. PICK n \in Nat : /\ marker \in 0..n /\ FreshId \in 0..n
                         /\ \A d \in drafts : d.id \in 0..n
                         /\ \A e \in Callers : mjob[e].id \in 0..n
                         /\ \A s \in tasks : s.draft \in 0..n
    BY FreshIs DEF MailInv
  <2>2. /\ marker' \in 0..n
        /\ \A d \in drafts' : d.id \in 0..n
        /\ \A e \in Callers : mjob'[e].id \in 0..n
        /\ \A s \in tasks' : s.draft \in 0..n
    BY <1>1, <1>2, <2>1
  <2>. QED  BY <1>1, <1>2, <2>2 DEF MailInv, IdsInv
<1>7. RowsInv'
  BY <1>1, <1>2 DEF MailInv, RowsInv
<1>8. OneAnswerEach'
  BY <1>1, <1>3 DEF MailInv, EachAnsweredOnce, OneAnswerEach
<1>9. NothingMissed'
  BY <1>1, <1>2 DEF MailInv, EachAnsweredOnce, NothingMissed, InHands
<1>. QED  BY <1>2, <1>5, <1>6, <1>7, <1>8, <1>9 DEF MailInv, EachAnsweredOnce

LEMMA ReplyKeeps ==
    ASSUME MailInv, NEW c \in Callers, Reply(c), UNCHANGED sjob
    PROVE  MailInv'
<1>1. mjob[c].op \in Hands /\ sjob[c] = AtRest
  BY DEF Reply, Hands, MailInv, BusyInv
<1>2. PICK w : Moves(c, w) /\ w.op \in {"idle", "classify"} /\ w.id = 0
  BY <1>1, GoesOn DEF Reply, Drafted, MailInv
<1> DEFINE d == Row(c, FreshId, TRUE)
           t == TaskFor(c, FreshId)
<1>3. /\ d \in [id : {d.id}, mail : {d.mail}, client : {d.client},
                text : {d.text}]
      /\ d.id = FreshId /\ d.text /\ d.mail = Current(c)
      /\ d.client = mjob[c].client
      /\ t.mail = Current(c) /\ t.client = mjob[c].client /\ t.draft = FreshId
  BY DEF Row, TaskFor
<1>4. /\ FreshId \notin {0, marker}
      /\ \A e \in Callers : mjob[e].id # FreshId
  BY FreshIs DEF MailInv
<1>5. /\ tasks' = tasks \cup {t} /\ drafts' = drafts \cup {d}
      /\ UNCHANGED <<seen, marker, excused>>
  BY DEF Reply
<1> HIDE DEF d, t
<1>6. Gives(c)
  BY <1>2, <1>3, <1>4, <1>5 DEF Gives
<1>. QED  BY <1>1, <1>6, Giving

LEMMA FileTaskKeeps ==
    ASSUME MailInv, NEW c \in Callers, FileTask(c), UNCHANGED sjob
    PROVE  MailInv'
<1>1. mjob[c].op \in Hands /\ mjob[c].op = "task" /\ sjob[c] = AtRest
  BY DEF FileTask, Hands, MailInv, BusyInv
<1>2. PICK w : Moves(c, w) /\ w.op \in {"idle", "classify"} /\ w.id = 0
  BY <1>1, GoesOn DEF FileTask, Drafted, MailInv
<1> DEFINE t == TaskFor(c, mjob[c].id)
<1>3. /\ t.mail = Current(c) /\ t.client = mjob[c].client
      /\ t.draft = mjob[c].id
  BY DEF TaskFor
<1>4. PICK d \in drafts : /\ d.id = mjob[c].id /\ d.mail = Current(c)
                          /\ d.client = mjob[c].client /\ d.text
  BY <1>1 DEF MailInv, RowsInv
<1>5. /\ tasks' = tasks \cup {t}
      /\ UNCHANGED <<drafts, seen, marker, excused>>
  BY DEF FileTask
<1>6. /\ mjob[c].id \notin {0, marker}
      /\ \A e \in Callers :
            mjob[e].op \in {"pin", "unpin", "drop"} => mjob[e].id # mjob[c].id
  BY <1>1 DEF MailInv, IdsInv
<1> HIDE DEF t
<1>7. Gives(c)
  BY <1>2, <1>3, <1>4, <1>5, <1>6 DEF Gives
<1>. QED  BY <1>1, <1>7, Giving

LEMMA SheetKeeps ==
    ASSUME MailInv, NEW c \in Callers, Sheet(c), UNCHANGED sjob
    PROVE  MailInv'
<1> DEFINE w == [mjob[c] EXCEPT !.op = "render", !.id = FreshId]
           d == Row(c, FreshId, FALSE)
<1>0. /\ mjob[c].op = "sheet" /\ sjob[c] = AtRest /\ Shaped(mjob[c])
      /\ Does(c, w) /\ Turns(c, Calling) /\ drafts' = drafts \cup {d}
      /\ UNCHANGED <<seen, tasks, marker, excused>>
  BY DEF Sheet, MailInv, BusyInv, Shaped
<1>1. /\ Shaped(w) /\ w.op = "render" /\ w.id = FreshId
      /\ w.todo = mjob[c].todo /\ w.client = mjob[c].client
  BY <1>0 DEF Shaped
<1>3. /\ d \in [id : {d.id}, mail : {d.mail}, client : {d.client},
                text : {d.text}]
      /\ d.id = FreshId /\ d.mail = Current(c) /\ d.client = mjob[c].client
  BY DEF Row
<1> HIDE DEF w, d
<1>4. Moves(c, w) /\ Head(w.todo) = Current(c)
  BY <1>0, <1>1, States, TurnsMoves DEF MailInv, Current
<1>2. /\ BusyInv' /\ mjob'[c] = w /\ (Current(c))' = Current(c)
      /\ \A e \in Callers : e # c => /\ mjob'[e] = mjob[e]
                                     /\ (Current(e))' = Current(e)
                                     /\ (InHands(e))' = InHands(e)
  BY <1>4, Moved DEF MailInv
<1>5. /\ FreshId \in Nat \ {0, marker}
      /\ \A f \in drafts : f.id # FreshId
      /\ \A e \in Callers : mjob[e].id # FreshId
      /\ \E n \in Nat : /\ marker \in 0..n /\ FreshId \in 0..n
                        /\ \A f \in drafts : f.id \in 0..n
                        /\ \A e \in Callers : mjob[e].id \in 0..n
                        /\ \A s \in tasks : s.draft \in 0..n
  BY FreshIs DEF MailInv
<1>6. HandsInv'
  BY <1>0, <1>1, <1>2 DEF MailInv, HandsInv, Hands
<1>7. IdsInv'
  <2>1. PICK n \in Nat : /\ marker \in 0..n /\ FreshId \in 0..n
                         /\ \A f \in drafts : f.id \in 0..n
                         /\ \A e \in Callers : mjob[e].id \in 0..n
                         /\ \A s \in tasks : s.draft \in 0..n
    BY <1>5
  <2>2. /\ marker' \in 0..n
        /\ \A f \in drafts' : f.id \in 0..n
        /\ \A e \in Callers : mjob'[e].id \in 0..n
        /\ \A s \in tasks' : s.draft \in 0..n
    BY <1>0, <1>1, <1>2, <1>3, <2>1
  <2>. QED  BY <1>0, <1>1, <1>2, <1>5, <2>2 DEF MailInv, IdsInv
<1>8. RowsInv'
  BY <1>0, <1>1, <1>2, <1>3 DEF MailInv, RowsInv
<1>9. OneAnswerEach'
  BY <1>0 DEF MailInv, EachAnsweredOnce, OneAnswerEach
<1>10. (InHands(c))' = InHands(c)
  BY <1>0, <1>1, <1>2 DEF InHands
<1>11. NothingMissed'
  BY <1>0, <1>2, <1>10 DEF MailInv, EachAnsweredOnce, NothingMissed
<1>. QED  BY <1>2, <1>6, <1>7, <1>8, <1>9, <1>11 DEF MailInv, EachAnsweredOnce

LEMMA RenderKeeps ==
    ASSUME MailInv, NEW c \in Callers, Render(c), UNCHANGED sjob
    PROVE  MailInv'
<1> DEFINE w == [mjob[c] EXCEPT !.op = "task"]
           Texted(d) == IF d.id = mjob[c].id THEN [d EXCEPT !.text = TRUE]
                        ELSE d
<1>0. /\ mjob[c].op = "render" /\ sjob[c] = AtRest /\ Shaped(mjob[c])
      /\ Does(c, w) /\ Turns(c, Running)
      /\ drafts' = {Texted(d) : d \in drafts}
      /\ UNCHANGED <<seen, tasks, marker, excused>>
  BY DEF Render, MailInv, BusyInv, Shaped
<1>1. /\ Shaped(w) /\ w.op = "task" /\ w.id = mjob[c].id
      /\ w.todo = mjob[c].todo /\ w.client = mjob[c].client
  BY <1>0 DEF Shaped
<1>3. ASSUME NEW d \in drafts
      PROVE  LET f == Texted(d)
             IN  /\ f \in [id : {f.id}, mail : {f.mail}, client : {f.client},
                           text : {f.text}]
                 /\ f.id = d.id /\ f.mail = d.mail /\ f.client = d.client
                 /\ d.text => f.text
                 /\ d.id = mjob[c].id => f.text
  BY DEF MailInv, RowsInv
<1> HIDE DEF w, Texted
<1>4. Moves(c, w) /\ Head(w.todo) = Current(c)
  BY <1>0, <1>1, States, TurnsMoves DEF MailInv, Current
<1>2. /\ BusyInv' /\ mjob'[c] = w /\ (Current(c))' = Current(c)
      /\ \A e \in Callers : e # c => /\ mjob'[e] = mjob[e]
                                     /\ (Current(e))' = Current(e)
                                     /\ (InHands(e))' = InHands(e)
  BY <1>4, Moved DEF MailInv
<1>5. \A d \in drafts : \E f \in drafts' :
         /\ f.id = d.id /\ f.mail = d.mail /\ f.client = d.client
         /\ d.text => f.text
         /\ d.id = mjob[c].id => f.text
  BY <1>0, <1>3
<1>6. \A f \in drafts' :
         /\ f \in [id : {f.id}, mail : {f.mail}, client : {f.client},
                   text : {f.text}]
         /\ \E d \in drafts : f.id = d.id
  BY <1>0, <1>3
<1>7. HandsInv'
  BY <1>0, <1>1, <1>2 DEF MailInv, HandsInv, Hands
<1>8. IdsInv'
  BY <1>0, <1>1, <1>2, <1>6 DEF MailInv, IdsInv
<1>9. RowsInv'
  <2>1. ASSUME NEW e \in Callers, mjob'[e].op \in {"render", "task"}
        PROVE  \E f \in drafts' :
                  /\ f.id = mjob'[e].id /\ f.mail = (Current(e))'
                  /\ f.client = mjob'[e].client
                  /\ mjob'[e].op = "task" => f.text
    BY <1>0, <1>1, <1>2, <1>5, <2>1 DEF MailInv, RowsInv
  <2>. QED  BY <1>6, <2>1 DEF RowsInv
<1>10. OneAnswerEach'
  BY <1>0, <1>5 DEF MailInv, EachAnsweredOnce, OneAnswerEach
<1>11. (InHands(c))' = InHands(c)
  BY <1>0, <1>1, <1>2 DEF InHands
<1>12. NothingMissed'
  BY <1>0, <1>2, <1>11 DEF MailInv, EachAnsweredOnce, NothingMissed
<1>. QED  BY <1>2, <1>7, <1>8, <1>9, <1>10, <1>12 DEF MailInv, EachAnsweredOnce

(* The demo.                                                               *)
LEMMA EnsureMarkKeeps ==
    ASSUME MailInv, NEW c \in Callers, EnsureMark(c), UNCHANGED sjob
    PROVE  MailInv'
<1> DEFINE w == [mjob[c] EXCEPT !.op = "pin", !.id = FreshId]
<1>0. /\ mjob[c].op = "create" /\ sjob[c] = AtRest /\ Shaped(mjob[c])
      /\ Does(c, w) /\ call[c] # Free /\ marker' = FreshId
      /\ call = [e \in Callers |-> call[e]]
      /\ UNCHANGED <<seen, tasks, drafts, excused, call>>
  BY DEF EnsureMark, MailInv, BusyInv, Shaped
<1>1. /\ Shaped(w) /\ w.op = "pin" /\ w.id = FreshId
      /\ w.todo = mjob[c].todo
  BY <1>0 DEF Shaped
<1> HIDE DEF w
<1>4. Moves(c, w) /\ Head(w.todo) = Current(c)
  BY <1>0, <1>1 DEF Moves, Current
<1>2. /\ BusyInv' /\ mjob'[c] = w /\ (Current(c))' = Current(c)
      /\ \A e \in Callers : e # c => /\ mjob'[e] = mjob[e]
                                     /\ (Current(e))' = Current(e)
                                     /\ (InHands(e))' = InHands(e)
  BY <1>4, Moved DEF MailInv
<1>5. /\ FreshId \in Nat \ {0, marker}
      /\ \A f \in drafts : f.id # FreshId
      /\ \A e \in Callers : mjob[e].id # FreshId
      /\ \E n \in Nat : /\ marker \in 0..n /\ FreshId \in 0..n
                        /\ \A f \in drafts : f.id \in 0..n
                        /\ \A e \in Callers : mjob[e].id \in 0..n
                        /\ \A s \in tasks : s.draft \in 0..n
  BY FreshIs DEF MailInv
<1>6. \A t \in tasks : t.draft # FreshId
  BY FreshIs DEF MailInv
<1>7. HandsInv'
  BY <1>0, <1>1, <1>2 DEF MailInv, HandsInv, Hands
<1>8. IdsInv'
  BY <1>0, <1>1, <1>2, <1>5, <1>6 DEF MailInv, IdsInv
<1>9. RowsInv'
  BY <1>0, <1>1, <1>2 DEF MailInv, RowsInv
<1>10. OneAnswerEach'
  BY <1>0 DEF MailInv, EachAnsweredOnce, OneAnswerEach
<1>11. NothingMissed'
  BY <1>0, <1>2 DEF MailInv, EachAnsweredOnce, NothingMissed, InHands
<1>. QED  BY <1>2, <1>7, <1>8, <1>9, <1>10, <1>11 DEF MailInv, EachAnsweredOnce

LEMMA EnsureCommitKeeps ==
    ASSUME MailInv, NEW c \in Callers, EnsureCommit(c), UNCHANGED sjob
    PROVE  MailInv'
<1> DEFINE d == Row(c, mjob[c].id, TRUE)
           t == TaskFor(c, mjob[c].id)
<1>0. /\ mjob[c].op = "pin" /\ sjob[c] = AtRest
      /\ Does(c, Idle) /\ Turns(c, Free)
      /\ drafts' = drafts \cup {d} /\ tasks' = tasks \cup {t}
      /\ UNCHANGED <<seen, marker, excused>>
  BY DEF EnsureCommit, MailInv, BusyInv
<1>1. Moves(c, Idle) /\ Idle.op = "idle" /\ Idle.id = 0
  BY <1>0, Ending DEF MailInv
<1>2. /\ BusyInv' /\ mjob'[c] = Idle
      /\ \A e \in Callers : e # c => /\ mjob'[e] = mjob[e]
                                     /\ (Current(e))' = Current(e)
                                     /\ (InHands(e))' = InHands(e)
  BY <1>1, Moved DEF MailInv
<1>3. /\ d \in [id : {d.id}, mail : {d.mail}, client : {d.client},
                text : {d.text}]
      /\ d.id = mjob[c].id /\ d.text /\ d.mail = Current(c)
      /\ d.client = mjob[c].client
      /\ t.mail = Current(c) /\ t.client = mjob[c].client
      /\ t.draft = mjob[c].id
  BY DEF Row, TaskFor
<1>4. Current(c) = Demo /\ Demo \notin Inbound
  BY <1>0, MailAssumption DEF MailInv, HandsInv, Demo, Mails
<1>5. mjob[c].id # 0
  BY <1>0 DEF MailInv, IdsInv
<1> HIDE DEF d, t
<1>7. HandsInv'
  BY <1>0, <1>1, <1>2, <1>3, <1>4 DEF MailInv, HandsInv, Hands
<1>8. IdsInv'
  BY <1>0, <1>1, <1>2, <1>3, <1>4, <1>5 DEF MailInv, IdsInv
<1>9. RowsInv'
  BY <1>0, <1>1, <1>2, <1>3 DEF MailInv, RowsInv
<1>10. OneAnswerEach'
  BY <1>0, <1>3, <1>4 DEF MailInv, EachAnsweredOnce, OneAnswerEach
<1>11. NothingMissed'
  BY <1>0, <1>2 DEF MailInv, EachAnsweredOnce, NothingMissed, InHands
<1>. QED  BY <1>2, <1>7, <1>8, <1>9, <1>10, <1>11 DEF MailInv, EachAnsweredOnce

LEMMA ResetReadKeeps ==
    ASSUME MailInv, NEW c \in Callers, ResetRead(c), UNCHANGED sjob
    PROVE  MailInv'
<1> DEFINE v == Doing("unpin", <<Demo>>, 0, marker)
           saw == IF \E t \in tasks : t.draft = marker THEN {"task"} ELSE {}
           w == [v EXCEPT !.saw = saw]
<1>0. /\ mjob[c].op = "idle" /\ sjob[c] = AtRest
      /\ Does(c, w) /\ Turns(c, Running)
      /\ UNCHANGED <<seen, tasks, drafts, marker, excused>>
  BY DEF ResetRead, MailInv, BusyInv
<1>1. /\ Shaped(w) /\ w.op = "unpin" /\ w.id = marker /\ Head(w.todo) = Demo
  <2>1. /\ Shaped(v) /\ v.op = "unpin" /\ v.id = marker /\ Head(v.todo) = Demo
    BY DoingShaped, Head(<<Demo>>) = Demo
  <2> HIDE DEF v, saw
  <2>. QED  BY <2>1 DEF Shaped
<1> HIDE DEF v, saw, w
<1>4. Moves(c, w)
  BY <1>0, <1>1, States, TurnsMoves DEF MailInv
<1>2. /\ BusyInv' /\ mjob'[c] = w /\ (Current(c))' = Demo
      /\ \A e \in Callers : e # c => /\ mjob'[e] = mjob[e]
                                     /\ (Current(e))' = Current(e)
                                     /\ (InHands(e))' = InHands(e)
  BY <1>1, <1>4, Moved DEF MailInv
<1>7. HandsInv'
  BY <1>0, <1>1, <1>2 DEF MailInv, HandsInv, Hands
<1>8. IdsInv'
  BY <1>0, <1>1, <1>2 DEF MailInv, IdsInv
<1>9. RowsInv'
  BY <1>0, <1>1, <1>2 DEF MailInv, RowsInv
<1>10. OneAnswerEach'
  BY <1>0 DEF MailInv, EachAnsweredOnce, OneAnswerEach
<1>11. NothingMissed'
  BY <1>0, <1>2 DEF MailInv, EachAnsweredOnce, NothingMissed, InHands
<1>. QED  BY <1>2, <1>7, <1>8, <1>9, <1>10, <1>11 DEF MailInv, EachAnsweredOnce

LEMMA ResetUnmarkKeeps ==
    ASSUME MailInv, NEW c \in Callers, ResetUnmark(c), UNCHANGED sjob
    PROVE  MailInv'
<1> DEFINE saw == mjob[c].saw \cup (IF \E d \in drafts : d.id = mjob[c].id
                                    THEN {"draft"} ELSE {})
           w == [mjob[c] EXCEPT !.op = "drop", !.saw = saw]
<1>0. /\ mjob[c].op = "unpin" /\ sjob[c] = AtRest /\ Shaped(mjob[c])
      /\ Does(c, w) /\ call[c] # Free /\ marker' = 0
      /\ call = [e \in Callers |-> call[e]]
      /\ UNCHANGED <<seen, tasks, drafts, excused, call>>
  BY DEF ResetUnmark, MailInv, BusyInv, Shaped
<1> HIDE DEF saw
<1>1. /\ Shaped(w) /\ w.op = "drop" /\ w.id = mjob[c].id
      /\ w.todo = mjob[c].todo
  BY <1>0 DEF Shaped
<1> HIDE DEF w
<1>4. Moves(c, w) /\ Head(w.todo) = Current(c)
  BY <1>0, <1>1 DEF Moves, Current
<1>2. /\ BusyInv' /\ mjob'[c] = w /\ (Current(c))' = Current(c)
      /\ \A e \in Callers : e # c => /\ mjob'[e] = mjob[e]
                                     /\ (Current(e))' = Current(e)
                                     /\ (InHands(e))' = InHands(e)
  BY <1>4, Moved DEF MailInv
<1>7. HandsInv'
  BY <1>0, <1>1, <1>2 DEF MailInv, HandsInv, Hands
<1>8. IdsInv'
  BY <1>0, <1>1, <1>2 DEF MailInv, IdsInv
<1>9. RowsInv'
  BY <1>0, <1>1, <1>2 DEF MailInv, RowsInv
<1>10. OneAnswerEach'
  BY <1>0 DEF MailInv, EachAnsweredOnce, OneAnswerEach
<1>11. NothingMissed'
  BY <1>0, <1>2 DEF MailInv, EachAnsweredOnce, NothingMissed, InHands
<1>. QED  BY <1>2, <1>7, <1>8, <1>9, <1>10, <1>11 DEF MailInv, EachAnsweredOnce

LEMMA ResetCommitKeeps ==
    ASSUME MailInv, NEW c \in Callers, ResetCommit(c), UNCHANGED sjob
    PROVE  MailInv'
<1>0. /\ mjob[c].op = "drop" /\ sjob[c] = AtRest
      /\ Does(c, Idle) /\ Turns(c, Free)
      /\ drafts' \subseteq drafts /\ tasks' \subseteq tasks
      /\ \A d \in drafts : d.id # mjob[c].id => d \in drafts'
      /\ \A t \in tasks : t.draft # mjob[c].id => t \in tasks'
      /\ UNCHANGED <<seen, marker, excused>>
  BY DEF ResetCommit, MailInv, BusyInv
<1>1. Moves(c, Idle) /\ Idle.op = "idle" /\ Idle.id = 0
  BY <1>0, Ending DEF MailInv
<1>2. /\ BusyInv' /\ mjob'[c] = Idle
      /\ \A e \in Callers : e # c => /\ mjob'[e] = mjob[e]
                                     /\ (Current(e))' = Current(e)
                                     /\ (InHands(e))' = InHands(e)
  BY <1>1, Moved DEF MailInv
<1>3. /\ \A t \in tasks : t.draft = mjob[c].id => t.mail = Demo
      /\ \A e \in Callers : mjob[e].op \in {"render", "task"} =>
            mjob[e].id # mjob[c].id
  BY <1>0 DEF MailInv, IdsInv
<1>4. Demo \notin seen
  BY MailAssumption DEF MailInv, HandsInv, Demo, Mails
<1>7. HandsInv'
  BY <1>0, <1>1, <1>2 DEF MailInv, HandsInv, Hands
<1>8. IdsInv'
  BY <1>0, <1>1, <1>2 DEF MailInv, IdsInv
<1>9. RowsInv'
  BY <1>0, <1>1, <1>2, <1>3 DEF MailInv, RowsInv
<1>10. OneAnswerEach'
  BY <1>0, <1>3 DEF MailInv, EachAnsweredOnce, OneAnswerEach
<1>11. NothingMissed'
  BY <1>0, <1>2, <1>3, <1>4 DEF MailInv, EachAnsweredOnce, NothingMissed,
                                InHands
<1>. QED  BY <1>2, <1>7, <1>8, <1>9, <1>10, <1>11 DEF MailInv, EachAnsweredOnce

(* Fetching, skipping, marking what needs no draft, failing.               *)
LEMMA Quiet ==
    ASSUME MailInv, NEW c \in Callers, UNCHANGED sjob,
           \/ Fetch(c) \/ ClassifyFails(c) \/ DraftFails(c)
           \/ \E reading \in SUBSET Entities : Classified(c, reading)
           \/ EnsureRead(c) \/ CycleFails(c)
    PROVE  MailInv'
<1>1. BusyInv /\ seen \subseteq Inbound
  BY DEF MailInv, HandsInv
<1>2. ASSUME NEW todo, NEW drafted, GoOn(c, todo, drafted), sjob[c] = AtRest
      PROVE  Leaves(c)
  BY <1>1, <1>2, GoesOn DEF Leaves, Empty
<1>3. CASE Fetch(c) \/ ClassifyFails(c)
  <2>1. /\ sjob[c] = AtRest /\ InHands(c) = {}
        /\ UNCHANGED <<drafts, tasks, marker, seen, excused>>
    BY <1>1, <1>3 DEF Fetch, ClassifyFails, BusyInv, InHands
  <2>2. Leaves(c)
    BY <1>2, <1>3, <2>1 DEF Fetch, ClassifyFails, Skip
  <2>3. LetsGo(c)
    BY <1>1, <2>1, <2>2 DEF LetsGo
  <2>. QED  BY <2>3, Going
<1>4. CASE DraftFails(c)
  <2>1. /\ sjob[c] = AtRest /\ InHands(c) \subseteq {Current(c)}
        /\ excused' = excused \cup {Current(c)}
        /\ UNCHANGED <<drafts, tasks, marker, seen>>
    BY <1>1, <1>4 DEF DraftFails, BusyInv, InHands
  <2>2. Leaves(c)
    BY <1>2, <1>4, <2>1 DEF DraftFails, Skip
  <2>3. LetsGo(c)
    BY <1>1, <2>1, <2>2 DEF LetsGo
  <2>. QED  BY <2>3, Going
<1>5. ASSUME NEW reading \in SUBSET Entities, Classified(c, reading)
      PROVE  MailInv'
  <2>1. /\ sjob[c] = AtRest /\ InHands(c) = {} /\ Shaped(mjob[c])
        /\ UNCHANGED <<drafts, tasks, marker, seen, excused>>
    BY <1>1, <1>5 DEF Classified, BusyInv, InHands, Shaped
  <2>2. ASSUME ~Wanted(c) PROVE Leaves(c)
    <3>1. Skip(c)
      BY <1>5, <2>2 DEF Classified
    <3>. QED  BY <1>2, <2>1, <3>1 DEF Skip
  <2>3. ASSUME Wanted(c), NEW answer, Plan(c, answer) PROVE Leaves(c)
    <3> DEFINE w == [mjob[c] EXCEPT !.op = "mark", !.plan = answer[1],
                                    !.client = answer[2]]
    <3>1. /\ Shaped(w) /\ w.op = "mark" /\ w.todo = mjob[c].todo
          /\ w.id = mjob[c].id
      BY <2>1 DEF Shaped
    <3>2. Does(c, w) /\ Turns(c, Running) /\ Current(c) \in Inbound
      BY <2>3 DEF Plan, Wanted
    <3> HIDE DEF w
    <3>3. Moves(c, w)
      BY <1>1, <2>1, <3>1, <3>2, States, TurnsMoves
    <3>4. Empty(w)
      BY <3>1, <3>2 DEF Empty, Current
    <3>. QED  BY <3>1, <3>3, <3>4 DEF Leaves
  <2>4. ASSUME Wanted(c) PROVE Leaves(c)
    <3>1. \E answer \in Answers(reading) : Plan(c, answer)
      BY <1>5, <2>4 DEF Classified
    <3>. QED  BY <2>3, <2>4, <3>1
  <2>5. Leaves(c)
    BY <2>2, <2>4
  <2>6. LetsGo(c)
    BY <1>1, <2>1, <2>5 DEF LetsGo
  <2>. QED  BY <2>6, Going
<1>6. CASE EnsureRead(c)
  <2> DEFINE w == Doing("create", <<Demo>>, 0, 0)
  <2>1. /\ sjob[c] = AtRest /\ InHands(c) = {}
        /\ Does(c, w) /\ Turns(c, Running)
        /\ UNCHANGED <<drafts, tasks, marker, seen, excused>>
    BY <1>1, <1>6 DEF EnsureRead, BusyInv, InHands
  <2>2. Shaped(w) /\ w.op = "create" /\ w.id = 0 /\ Head(w.todo) = Demo
    BY DoingShaped, Head(<<Demo>>) = Demo
  <2> HIDE DEF w
  <2>3. Moves(c, w)
    BY <1>1, <2>1, <2>2, States, TurnsMoves
  <2>4. LetsGo(c)
    BY <1>1, <2>1, <2>2, <2>3 DEF LetsGo, Leaves, Empty
  <2>. QED  BY <2>4, Going
<1>7. CASE CycleFails(c)
  <2>1. sjob[c] = AtRest
    BY <1>1, <1>7 DEF CycleFails, BusyInv, Shaped
  <2>2. Moves(c, Idle) /\ Idle.op = "idle" /\ Idle.id = 0
    BY <1>1, <1>7, <2>1, Ending DEF CycleFails
  <2>3. LetsGo(c)
    BY <1>1, <1>7, <2>2 DEF CycleFails, LetsGo, Leaves, Empty
  <2>. QED  BY <2>3, Going
<1>. QED  BY <1>3, <1>4, <1>5, <1>6, <1>7

LEMMA MarkKeeps ==
    ASSUME MailInv, NEW c \in Callers,
           NEW step \in {"reply", "sheet", "nothing"}, Mark(c, step), UNCHANGED sjob
    PROVE  MailInv'
<1>1. /\ BusyInv /\ seen \subseteq Inbound /\ Current(c) \in Inbound
      /\ sjob[c] = AtRest /\ InHands(c) = {} /\ Shaped(mjob[c])
      /\ seen' = seen \cup {Current(c)}
      /\ UNCHANGED <<drafts, tasks, marker>>
  BY DEF MailInv, HandsInv, Mark, BusyInv, Shaped, Idle, Doing, InHands
<1>2. ASSUME Skip(c) PROVE Leaves(c)
  BY <1>1, <1>2, GoesOn DEF Leaves, Empty, Skip
<1>3. CASE Current(c) \in seen
  <2>1. Skip(c) /\ UNCHANGED excused
    BY <1>3 DEF Mark
  <2>. QED  BY <1>1, <1>2, <1>3, <2>1, Going DEF LetsGo
<1>4. CASE Current(c) \notin seen /\ step = "nothing"
  <2>1. Skip(c) /\ excused' = excused \cup {Current(c)}
    BY <1>4 DEF Mark
  <2>. QED  BY <1>1, <1>2, <2>1, Going DEF LetsGo
<1>5. CASE Current(c) \notin seen /\ step # "nothing"
  <2> DEFINE w == [mjob[c] EXCEPT !.op = step]
             s == IF step = "reply" THEN Calling ELSE Running
  <2>1. Does(c, w) /\ Turns(c, s) /\ UNCHANGED excused
    BY <1>5 DEF Mark
  <2>2. /\ Shaped(w) /\ w.op = step /\ w.op # "idle" /\ w.todo = mjob[c].todo
        /\ w.id = mjob[c].id /\ s # Free
    BY <1>1, <1>5, States DEF Shaped
  <2> HIDE DEF w, s
  <2>3. Moves(c, w)
    BY <1>1, <2>1, <2>2, TurnsMoves
  <2>4. Takes(c)
    BY <1>1, <1>5, <2>1, <2>2, <2>3 DEF Takes, Current
  <2>. QED  BY <2>4, Taking
<1>. QED  BY <1>3, <1>4, <1>5

LEMMA EndsKeep ==
    ASSUME MailInv, MailsEnd, CallsEnd, sjob' = [w \in Callers |-> AtRest]
    PROVE  MailInv'
<1>1. /\ \A c \in Callers : mjob'[c] = Idle /\ call'[c] = Free
                           /\ sjob'[c] = AtRest
      /\ UNCHANGED <<seen, drafts, tasks, marker>>
      /\ excused' = excused \cup UNION {InHands(c) : c \in Callers}
  BY DEF MailsEnd, CallsEnd
<1>2. BusyInv'
  BY <1>1, IdleShaped DEF BusyInv, MailsEnd, CallsEnd, Shaped
<1>3. HandsInv'
  BY <1>1, IdleShaped DEF MailInv, HandsInv, Hands
<1>4. IdsInv'
  BY <1>1, IdleShaped DEF MailInv, IdsInv
<1>5. RowsInv'
  BY <1>1, IdleShaped DEF MailInv, RowsInv
<1>6. OneAnswerEach'
  BY <1>1 DEF MailInv, EachAnsweredOnce, OneAnswerEach
<1>7. NothingMissed'
  BY <1>1 DEF MailInv, EachAnsweredOnce, NothingMissed
<1>. QED  BY <1>2, <1>3, <1>4, <1>5, <1>6, <1>7 DEF MailInv, EachAnsweredOnce

LEMMA MailsStay ==
    ASSUME MailInv, BusyInv', UNCHANGED <<seen, drafts, tasks, marker, mjob,
                                          excused>>
    PROVE  MailInv'
<1>1. /\ \A c \in Callers : (Current(c))' = Current(c)
      /\ \A c \in Callers : (InHands(c))' = InHands(c)
  BY DEF Current, InHands
<1>2. HandsInv' /\ RowsInv'
  BY <1>1 DEF MailInv, HandsInv, RowsInv
<1>3. IdsInv'
  BY DEF MailInv, IdsInv
<1>4. OneAnswerEach' /\ NothingMissed'
  BY <1>1 DEF MailInv, EachAnsweredOnce, OneAnswerEach, NothingMissed
<1>. QED  BY <1>2, <1>3, <1>4 DEF MailInv, EachAnsweredOnce

(* A scan takes a free caller, and frees it when it has nothing left.      *)
LEMMA ScanBusy ==
    ASSUME BusyInv, NEW w \in Callers, UNCHANGED mjob,
           call[w] = Free \/ sjob[w] # AtRest,
           \/ UNCHANGED sjob \/ \E job : Works(w, job),
           \/ \E s : Turns(w, s) /\ (s = Free => sjob'[w] = AtRest)
           \/ UNCHANGED call /\ sjob[w] # AtRest
    PROVE  BusyInv'
<1>1. mjob[w].op = "idle" /\ mjob[w] = Idle
  BY DEF BusyInv, Shaped
<1>2. /\ sjob' = [e \in Callers |-> sjob'[e]]
      /\ \A e \in Callers : e # w => sjob'[e] = sjob[e]
  BY DEF BusyInv, Works
<1>3. /\ call' = [e \in Callers |-> call'[e]]
      /\ \A e \in Callers : e # w => call'[e] = call[e]
  BY DEF BusyInv, Turns
<1>4. call'[w] = Free => sjob'[w] = AtRest
  BY DEF BusyInv, Turns
<1>. QED  BY <1>1, <1>2, <1>3, <1>4 DEF BusyInv, Shaped

LEMMA ScansBusy ==
    ASSUME BusyInv, ScanNext, UNCHANGED mailVars
    PROVE  BusyInv'
<1>1. UNCHANGED mjob
  BY DEF mailVars
<1>2. AtRest.op = "idle"
  BY DEF AtRest, Busy
<1>3. ASSUME NEW w \in Callers, ScanFails(w) \/ SeedStep(w) PROVE BusyInv'
  <2>1. call[w] = Free \/ sjob[w] # AtRest
    BY <1>2, <1>3
    DEF ScanFails, SeedStep, SeedRead, SeedCommit, FanRead, FanCommit
  <2>2. \E job : Works(w, job)
    BY <1>3
    DEF ScanFails, SeedStep, SeedRead, SeedCommit, FanRead, FanCommit, Rests
  <2>3. CASE ScanFails(w) \/ SeedCommit(w) \/ FanCommit(w)
    <3>1. Works(w, AtRest) /\ Turns(w, Free)
      BY <2>3 DEF ScanFails, SeedCommit, FanCommit, Rests
    <3>2. sjob'[w] = AtRest
      BY <3>1 DEF BusyInv, Works
    <3>. QED  BY <1>1, <2>1, <3>1, <3>2, ScanBusy
  <2>4. CASE \/ \E found \in SUBSET Stories : SeedRead(w, found)
             \/ FanRead(w)
    <3>1. Turns(w, Running)
      BY <2>4 DEF SeedRead, FanRead
    <3>. QED  BY <1>1, <2>1, <2>2, <3>1, States, ScanBusy
  <2>. QED  BY <1>3, <2>3, <2>4 DEF SeedStep
<1>4. ASSUME NEW w \in Callers, ScanStep(w) PROVE BusyInv'
  <2>1. ASSUME WatchCommit(w) \/ FilterFails(w) \/ RowsCommit(w)
        PROVE  BusyInv'
    <3>1. sjob[w] # AtRest /\ Works(w, AtRest) /\ Turns(w, Free)
      BY <1>2, <2>1 DEF WatchCommit, FilterFails, RowsCommit, Rests
    <3>2. sjob'[w] = AtRest
      BY <3>1 DEF BusyInv, Works
    <3>. QED  BY <1>1, <3>1, <3>2, ScanBusy
  <2>2. ASSUME NEW s \in {Running, Calling}, Turns(w, s),
               call[w] = Free \/ sjob[w] # AtRest,
               UNCHANGED sjob \/ \E job : Works(w, job)
        PROVE  BusyInv'
    BY <1>1, <2>2, States, ScanBusy
  <2>3. ASSUME NEW c \in Clients, WatchRead(w, c) PROVE BusyInv'
    BY <2>2, <2>3 DEF WatchRead
  <2>4. ASSUME NEW c \in Clients, NEW found, ScanRead(w, c, found)
        PROVE  BusyInv'
    BY <2>2, <2>4 DEF ScanRead
  <2>5. ASSUME NEW keep, NEW again, Filtered(w, keep, again) PROVE BusyInv'
    <3>1. /\ sjob[w] # AtRest /\ Turns(w, Running)
          /\ \E job : Works(w, job)
      BY <1>2, <2>5 DEF Filtered
    <3>. QED  BY <2>2, <3>1
  <2>6. ASSUME \/ GateDrops(w) \/ TakeUnjudged(w) \/ VerdictFails(w)
               \/ \E about \in BOOLEAN : Verdict(w, about)
        PROVE  BusyInv'
    <3>1. /\ sjob[w] # AtRest
          /\ \E out, about, failed : Passes(w, out, about, failed)
      BY <1>2, <2>6 DEF GateDrops, TakeUnjudged, VerdictFails, Verdict, Judging
    <3>2. Turns(w, Running) /\ \E job : Works(w, job)
      BY <3>1 DEF Passes
    <3>. QED  BY <2>2, <3>1, <3>2
  <2>7. CASE EmbeddingsFail(w)
    BY <1>1, <1>2, <2>7, ScanBusy DEF EmbeddingsFail, Judging
  <2>8. CASE AskVerdict(w)
    <3>1. sjob[w] # AtRest /\ Turns(w, Calling) /\ UNCHANGED sjob
      BY <1>2, <2>8 DEF AskVerdict, Judging, scanVars
    <3>. QED  BY <2>2, <3>1
  <2>. QED  BY <1>4, <2>1, <2>3, <2>4, <2>5, <2>6, <2>7, <2>8 DEF ScanStep
<1>5. ASSUME NEW c \in Clients, NEW b \in Books, BookChanges(c, b)
      PROVE  BusyInv'
  BY <1>1, <1>5 DEF BookChanges, BusyInv
<1>. QED  BY <1>3, <1>4, <1>5 DEF ScanNext

LEMMA CallsBusy ==
    ASSUME BusyInv, CallStep, UNCHANGED <<mjob, sjob>>
    PROVE  BusyInv'
<1>1. \A s : s # "free" => \A n : At(s, n) # Free
  BY DEF At, Free
<1>2. ASSUME NEW c \in Callers, NEW s, Turns(c, s), s # Free, call[c] # Free
      PROVE  BusyInv'
  BY <1>2 DEF BusyInv, Turns
<1>3. Free.at = "free"
  BY DEF Free, At
<1>4. ASSUME NEW c \in Callers, Check(c) PROVE BusyInv'
  <2>1. call[c] # Free
    BY <1>3, <1>4 DEF Check
  <2>2. \E s : Turns(c, s) /\ s # Free
    BY <1>1, <1>4 DEF Check
  <2>. QED  BY <1>2, <2>1, <2>2
<1>5. ASSUME NEW c \in Callers, ProviderFails(c) PROVE BusyInv'
  BY <1>1, <1>2, <1>3, <1>5 DEF ProviderFails
<1>6. ASSUME NEW c \in Callers, NEW tokens, NEW parses \in BOOLEAN,
             Answer(c, tokens, parses)
      PROVE  BusyInv'
  <2>1. call[c] # Free
    BY <1>3, <1>6 DEF Answer
  <2>2. Retry(c) # Free
    BY <1>1 DEF Retry
  <2>3. \E s : Turns(c, s) /\ s # Free
    BY <1>1, <1>6, <2>2 DEF Answer
  <2>. QED  BY <1>2, <2>1, <2>3
<1>7. CASE Midnight
  BY <1>7 DEF Midnight, BusyInv
<1>. QED  BY <1>4, <1>5, <1>6, <1>7 DEF CallStep

LEMMA MailsKeep ==
    ASSUME MailInv, MailNext, UNCHANGED scanVars
    PROVE  MailInv'
<1>1. UNCHANGED sjob
  BY DEF scanVars
<1>2. CASE Receive
  <2>1. UNCHANGED <<seen, drafts, tasks, marker, mjob, excused, call>>
    BY <1>2 DEF Receive, budgetVars
  <2>2. BusyInv'
    BY <1>1, <2>1 DEF MailInv, BusyInv
  <2>. QED  BY <2>1, <2>2, MailsStay
<1>3. ASSUME NEW c \in Callers, CycleStep(c) \/ DemoStep(c) \/ CycleFails(c)
      PROVE  MailInv'
  <2>1. CASE \/ Fetch(c) \/ ClassifyFails(c) \/ DraftFails(c)
             \/ \E reading \in SUBSET Entities : Classified(c, reading)
             \/ EnsureRead(c) \/ CycleFails(c)
    BY <1>1, <2>1, Quiet
  <2>2. CASE \E step \in {"reply", "sheet", "nothing"} : Mark(c, step)
    BY <1>1, <2>2, MarkKeeps
  <2>3. CASE Reply(c) \/ Sheet(c) \/ Render(c) \/ FileTask(c)
    BY <1>1, <2>3, ReplyKeeps, SheetKeeps, RenderKeeps, FileTaskKeeps
  <2>4. CASE EnsureMark(c) \/ EnsureCommit(c) \/ ResetRead(c)
             \/ ResetUnmark(c) \/ ResetCommit(c)
    BY <1>1, <2>4, EnsureMarkKeeps, EnsureCommitKeeps, ResetReadKeeps,
       ResetUnmarkKeeps, ResetCommitKeeps
  <2>. QED  BY <1>3, <2>1, <2>2, <2>3, <2>4 DEF CycleStep, DemoStep
<1>. QED  BY <1>2, <1>3 DEF MailNext

(* Two cycles, a demo and a scan over each other: a mail is answered once, *)
(* or known to be one nothing could be drafted for.                        *)
THEOREM AnsweredTheorem == Spec => []EachAnsweredOnce
<1>1. Init => MailInv
  <2>. SUFFICES ASSUME Init PROVE MailInv
    OBVIOUS
  <2>1. /\ call = [c \in Callers |-> Free] /\ sjob = [c \in Callers |-> AtRest]
        /\ mjob = [c \in Callers |-> Idle] /\ marker = 0
        /\ seen = {} /\ drafts = {} /\ tasks = {}
    BY DEF Init, BudgetInit, ScanInit, MailInit
  <2>2. BusyInv
    BY <2>1, IdleShaped DEF BusyInv
  <2>3. HandsInv
    BY <2>1, IdleShaped DEF HandsInv, Hands
  <2>4. IdsInv
    <3>1. 0 \in Nat /\ 0 \in 0..0
      OBVIOUS
    <3>2. marker = 0 /\ \A c \in Callers : mjob[c].op = "idle" /\ mjob[c].id = 0
      BY <2>1, IdleShaped
    <3>. QED  BY <2>1, <3>1, <3>2 DEF IdsInv
  <2>5. RowsInv
    BY <2>1, IdleShaped DEF RowsInv
  <2>6. EachAnsweredOnce
    BY <2>1 DEF EachAnsweredOnce, OneAnswerEach, NothingMissed
  <2>. QED  BY <2>2, <2>3, <2>4, <2>5, <2>6 DEF MailInv
<1>2. MailInv /\ [Next]_vars => MailInv'
  <2>. SUFFICES ASSUME MailInv, [Next]_vars PROVE MailInv'
    OBVIOUS
  <2>1. ASSUME UNCHANGED mailVars, BusyInv' PROVE MailInv'
    BY <2>1, MailsStay DEF mailVars
  <2>2. CASE CallStep /\ UNCHANGED <<ops, mailVars, scanVars>>
    <3>1. UNCHANGED <<mjob, sjob>> /\ BusyInv
      BY <2>2 DEF mailVars, scanVars, MailInv
    <3>2. BusyInv'
      BY <2>2, <3>1, CallsBusy
    <3>. QED  BY <2>1, <2>2, <3>2
  <2>3. CASE MailNext /\ UNCHANGED scanVars
    BY <2>3, MailsKeep
  <2>4. CASE ScanNext /\ UNCHANGED mailVars
    BY <2>1, <2>4, ScansBusy DEF MailInv
  <2>5. CASE Restart
    BY <2>5, EndsKeep DEF Restart, ScansEnd
  <2>6. CASE UNCHANGED vars
    <3>1. UNCHANGED mailVars /\ UNCHANGED <<mjob, sjob, call>>
      BY <2>6 DEF vars, mailVars, scanVars, budgetVars
    <3>2. BusyInv'
      BY <3>1 DEF MailInv, BusyInv
    <3>. QED  BY <2>1, <3>1, <3>2
  <2>. QED  BY <2>2, <2>3, <2>4, <2>5, <2>6 DEF Next
<1>3. MailInv => EachAnsweredOnce
  BY DEF MailInv
<1>. QED  BY <1>1, <1>2, <1>3, PTL DEF Spec

-----------------------------------------------------------------------------
(***************************************************************************)
(* The rows of the news scan.                                              *)
(***************************************************************************)

(* A finite set as a sequence: each element once.                          *)
LEMMA SetAsSeq ==
    ASSUME NEW S, IsFiniteSet(S)
    PROVE  /\ SetToSeq(S) \in Seq(S) /\ Range(SetToSeq(S)) = S
           /\ IsInjective(SetToSeq(S))
<1>. DEFINE n == Cardinality(S)
<1>1. n \in Nat /\ \E f : f \in Bijection(1..n, S)
  BY FS_CardinalityType, FS_CountingElements DEF ExistsBijection
<1>2. \E f \in [1..n -> S] : IsInjective(f)
  BY <1>1 DEF Bijection, Injection
<1>3. SetToSeq(S) \in [1..n -> S] /\ IsInjective(SetToSeq(S))
  BY <1>2 DEF SetToSeq
<1>4. SetToSeq(S) \in Seq(S)
  BY <1>1, <1>3
<1>5. Range(SetToSeq(S)) = S
  <2>1. SetToSeq(S) \in Injection(1..n, S)
    BY <1>3 DEF Injection
  <2>2. IsFiniteSet(1..n) /\ Cardinality(1..n) = n
    BY <1>1, FS_Interval
  <2>3. SetToSeq(S) \in Surjection(1..n, S)
    BY <1>1, <2>1, <2>2, FS_Injection
  <2>. QED  BY <1>3, <2>3 DEF Surjection, Range
<1>. QED  BY <1>3, <1>4, <1>5

-----------------------------------------------------------------------------
Found == Articles \cup Stories

Holdings == [Clients -> SUBSET Securities]

NewsRow == [uri : Found, clients : SUBSET Clients, impact : {"none", "impact"},
            watch : Lists \cup {NoWatch}, told : Holdings, seeded : BOOLEAN]

(* What a worker holds: the articles it has yet to look at and the rows it *)
(* has made, of what the filter kept and with the verdicts they have.      *)
RowJudged(row, job) ==
    /\ ~row.seeded /\ row.clients = job.clients /\ row.uri \in job.kept
    /\ Shortlisted(row.watch, row.uri) =>
          row.uri \in IF row.impact = "none" THEN job.failed ELSE job.about

IsJob(job) ==
    job = [f \in {"op", "clients", "watch", "todo", "out", "told", "kept",
                   "about", "failed"} |-> job[f]]

JobOK(job) ==
    /\ IsJob(job)
    /\ job.clients \subseteq Clients /\ job.watch \in Lists \cup {NoWatch}
    /\ job.told \in Holdings /\ job.out \in Seq(NewsRow)
    /\ job.op # "fan" => job.todo \in Seq(Found)
    /\ job.op # "impact" => job.out = <<>>
    /\ job.op \in {"filter", "impact"} => job.clients # {}
    /\ job.op = "impact" =>
          /\ \A i \in DOMAIN job.todo : job.todo[i] \in job.kept
          /\ \A i \in DOMAIN job.out : RowJudged(job.out[i], job)

JobsInv ==
    /\ book \in [Clients -> Lists] /\ watch \in [Clients -> Lists \cup {NoWatch}]
    /\ rows \in Seq(NewsRow)
    /\ sjob = [w \in Callers |-> sjob[w]]
    /\ \A w \in Callers : JobOK(sjob[w])

(* An article is in one place once, unless it was found twice: in the      *)
(* hands of a worker, of another, or in a row.                             *)
InHand(job) == {job.todo[i] : i \in DOMAIN job.todo}
                  \cup {job.out[i].uri : i \in DOMAIN job.out}

Writes(job) == job.op \in {"impact", "seed"}

Once(job, twice) ==
    /\ \A i, j \in DOMAIN job.todo :
          job.todo[i] = job.todo[j] /\ job.todo[i] \notin twice => i = j
    /\ \A i, j \in DOMAIN job.out :
          job.out[i].uri = job.out[j].uri /\ job.out[i].uri \notin twice => i = j
    /\ \A i \in DOMAIN job.todo, j \in DOMAIN job.out :
          job.todo[i] = job.out[j].uri => job.todo[i] \in twice

NotIn(table, job, twice) ==
    \A i \in DOMAIN table : table[i].uri \in InHand(job) => table[i].uri \in twice

Unique(table, twice) ==
    \A i, j \in DOMAIN table :
        table[i].uri = table[j].uri /\ table[i].uri \notin twice => i = j

OnceInv ==
    /\ \A w \in Callers : Writes(sjob[w]) =>
          /\ Once(sjob[w], crossed) /\ NotIn(rows, sjob[w], crossed)
          /\ \A v \in Callers : Writes(sjob[v]) /\ v # w =>
                InHand(sjob[w]) \cap InHand(sjob[v]) \subseteq crossed
    /\ Unique(rows, crossed)

NewsInv == JobsInv /\ OnceInv

-----------------------------------------------------------------------------
(* A worker takes on a job; the rows stay.                                 *)
LEMMA JobKeeps ==
    ASSUME NewsInv, NEW w \in Callers, NEW job, Works(w, job), JobOK(job),
           book' \in [Clients -> Lists], watch' \in [Clients -> Lists \cup {NoWatch}],
           rows' = rows, crossed \subseteq crossed',
           Writes(job) =>
              /\ Once(job, crossed') /\ NotIn(rows, job, crossed')
              /\ \A v \in Callers \ {w} : Writes(sjob[v]) =>
                    InHand(job) \cap InHand(sjob[v]) \subseteq crossed'
    PROVE  NewsInv'
<1>1. /\ sjob' = [v \in Callers |-> sjob'[v]] /\ sjob'[w] = job
      /\ \A v \in Callers \ {w} : sjob'[v] = sjob[v]
  BY DEF NewsInv, JobsInv, Works
<1>2. JobsInv'
  <2>1. \A v \in Callers : JobOK(sjob'[v])
    BY <1>1 DEF NewsInv, JobsInv
  <2>. QED  BY <1>1, <2>1 DEF NewsInv, JobsInv
<1>3. \A v \in Callers \ {w} : Writes(sjob[v]) =>
         Once(sjob[v], crossed') /\ NotIn(rows, sjob[v], crossed')
  BY DEF NewsInv, OnceInv, Once, NotIn
<1>4. Unique(rows, crossed')
  BY DEF NewsInv, OnceInv, Unique
<1>5. ASSUME NEW v \in Callers, Writes(sjob'[v])
      PROVE  /\ Once(sjob'[v], crossed') /\ NotIn(rows, sjob'[v], crossed')
             /\ \A u \in Callers : Writes(sjob'[u]) /\ u # v =>
                   InHand(sjob'[v]) \cap InHand(sjob'[u]) \subseteq crossed'
  <2>1. CASE v = w
    BY <1>1, <1>5, <2>1
  <2>2. CASE v # w
    <3>1. Once(sjob'[v], crossed') /\ NotIn(rows, sjob'[v], crossed')
      BY <1>1, <1>3, <1>5, <2>2
    <3>2. ASSUME NEW u \in Callers, Writes(sjob'[u]), u # v
          PROVE  InHand(sjob'[v]) \cap InHand(sjob'[u]) \subseteq crossed'
      <4>1. CASE u = w
        BY <1>1, <1>5, <2>2, <3>2, <4>1
      <4>2. CASE u # w
        BY <1>1, <1>5, <2>2, <3>2, <4>2 DEF NewsInv, OnceInv
      <4>. QED  BY <4>1, <4>2
    <3>. QED  BY <3>1, <3>2
  <2>. QED  BY <2>1, <2>2
<1>6. OnceInv'
  BY <1>4, <1>5 DEF OnceInv
<1>. QED  BY <1>2, <1>6 DEF NewsInv

LEMMA BusyIs ==
    ASSUME NEW op, NEW clients, NEW list, NEW todo, NEW told
    PROVE  LET job == Busy(op, clients, list, todo, told)
           IN  /\ IsJob(job) /\ job.op = op /\ job.clients = clients
               /\ job.watch = list /\ job.todo = todo /\ job.out = <<>>
               /\ job.told = told /\ job.kept = {}
<1>. DEFINE job == Busy(op, clients, list, todo, told)
<1>1. IsJob(job)
  BY DEF IsJob, Busy
<1>. QED  BY <1>1 DEF Busy

LEMMA NobodyHolds == NoHoldings \in Holdings
  BY DEF NoHoldings, Holdings

LEMMA RestOK == JobOK(AtRest) /\ ~Writes(AtRest)
<1>1. /\ IsJob(AtRest) /\ AtRest.op = "idle" /\ AtRest.clients = {}
      /\ AtRest.watch = NoWatch /\ AtRest.todo = <<>> /\ AtRest.out = <<>>
      /\ AtRest.told = NoHoldings
  BY BusyIs DEF AtRest
<1>. QED  BY <1>1, NobodyHolds DEF JobOK, Writes

LEMMA StillJob ==
    ASSUME NEW job, IsJob(job), NEW x, NEW y, NEW z, NEW u
    PROVE  /\ IsJob([job EXCEPT !.todo = x, !.out = y, !.about = z, !.failed = u])
           /\ IsJob([job EXCEPT !.op = x, !.todo = y, !.kept = z])
<1>. DEFINE F == {"op", "clients", "watch", "todo", "out", "told", "kept",
                  "about", "failed"}
<1>1. job = [f \in F |-> job[f]]
  BY DEF IsJob
<1>. HIDE DEF F
<1>2. LET next == [job EXCEPT !.todo = x, !.out = y, !.about = z, !.failed = u]
      IN  next = [f \in F |-> next[f]]
  BY <1>1, Zenon
<1>3. LET next == [job EXCEPT !.op = x, !.todo = y, !.kept = z]
      IN  next = [f \in F |-> next[f]]
  BY <1>1, Zenon
<1>. QED  BY <1>2, <1>3, Zenon DEF IsJob, F

(* A worker goes on with what it has in hand.                              *)
LEMMA PassKeeps ==
    ASSUME NewsInv, NEW w \in Callers, Judging(w), NEW out \in Seq(NewsRow),
           NEW about, NEW failed, Passes(w, out, about, failed),
           Len(out) <= 1,
           \A i \in DOMAIN out :
              /\ ~out[i].seeded /\ out[i].clients = sjob[w].clients
              /\ out[i].uri = Article(w)
              /\ Shortlisted(out[i].watch, out[i].uri) =>
                    Article(w) \in IF out[i].impact = "none" THEN failed
                                   ELSE about,
           UNCHANGED <<book, watch, rows, crossed>>
    PROVE  NewsInv'
<1>. DEFINE old == sjob[w]
            job == [old EXCEPT !.todo = Tail(@), !.out = @ \o out,
                               !.about = @ \cup about,
                               !.failed = @ \cup failed]
<1>1. Works(w, job) /\ JobOK(old) /\ old.op = "impact" /\ old.todo # <<>>
  BY DEF Passes, NewsInv, JobsInv, Judging
<1>2. /\ job.op = "impact" /\ job.clients = old.clients /\ job.watch = old.watch
      /\ job.told = old.told /\ job.kept = old.kept
      /\ job.todo = Tail(old.todo) /\ job.out = old.out \o out
      /\ job.about = old.about \cup about /\ job.failed = old.failed \cup failed
  BY <1>1 DEF JobOK, IsJob
<1>. HIDE DEF job
<1>3. /\ old.todo \in Seq(Found) /\ old.out \in Seq(NewsRow)
      /\ job.todo \in Seq(Found) /\ job.out \in Seq(NewsRow)
      /\ Article(w) = old.todo[1] /\ 1 \in DOMAIN old.todo
      /\ \A i \in DOMAIN job.todo : /\ i + 1 \in DOMAIN old.todo
                                    /\ job.todo[i] = old.todo[i + 1]
                                    /\ i \in Nat /\ i + 1 # 1
      /\ 1 \in DOMAIN out => out[1].uri = old.todo[1]
  BY <1>1, <1>2 DEF JobOK, Article
<1>4. \A j \in DOMAIN job.out :
         \/ j \in DOMAIN old.out /\ job.out[j] = old.out[j]
         \/ /\ j = Len(old.out) + 1 /\ j \notin DOMAIN old.out
            /\ 1 \in DOMAIN out /\ job.out[j] = out[1]
  BY <1>2, <1>3
<1>5. InHand(job) \subseteq InHand(old)
  <2>1. \A i \in DOMAIN job.todo : job.todo[i] \in InHand(old)
    BY <1>3 DEF InHand
  <2>2. \A j \in DOMAIN job.out : job.out[j].uri \in InHand(old)
    BY <1>3, <1>4 DEF InHand
  <2>. QED  BY <2>1, <2>2 DEF InHand
<1>6. JobOK(job)
  <2>1. \A i \in DOMAIN job.todo : job.todo[i] \in job.kept
    BY <1>1, <1>2, <1>3 DEF JobOK
  <2>2. ASSUME NEW j \in DOMAIN job.out
        PROVE  RowJudged(job.out[j], job)
    <3>1. CASE j \in DOMAIN old.out /\ job.out[j] = old.out[j]
      BY <1>1, <1>2, <3>1 DEF JobOK, RowJudged
    <3>2. CASE 1 \in DOMAIN out /\ job.out[j] = out[1]
      BY <1>1, <1>2, <1>3, <3>2 DEF JobOK, RowJudged
    <3>. QED  BY <1>4, <3>1, <3>2
  <2>3. IsJob(job)
    BY <1>1, StillJob DEF JobOK, job
  <2>. QED  BY <1>1, <1>2, <1>3, <2>1, <2>2, <2>3 DEF JobOK
<1>7. Once(old, crossed) /\ NotIn(rows, old, crossed)
  BY <1>1 DEF NewsInv, OnceInv, Writes
<1>8. Once(job, crossed)
  <2>1. \A i, j \in DOMAIN job.todo :
           job.todo[i] = job.todo[j] /\ job.todo[i] \notin crossed => i = j
    BY <1>3, <1>7 DEF Once
  <2>2. ASSUME NEW i \in DOMAIN job.out, NEW j \in DOMAIN job.out,
               job.out[i].uri = job.out[j].uri, job.out[i].uri \notin crossed
        PROVE  i = j
    <3>1. old.todo[1] \in crossed
             \/ \A k \in DOMAIN old.out : old.out[k].uri # old.todo[1]
      BY <1>3, <1>7 DEF Once
    <3>. QED  BY <1>3, <1>4, <1>7, <2>2, <3>1 DEF Once
  <2>3. ASSUME NEW i \in DOMAIN job.todo, NEW j \in DOMAIN job.out,
               job.todo[i] = job.out[j].uri
        PROVE  job.todo[i] \in crossed
    <3>1. CASE j \in DOMAIN old.out /\ job.out[j] = old.out[j]
      BY <1>3, <1>7, <2>3, <3>1 DEF Once
    <3>2. CASE 1 \in DOMAIN out /\ job.out[j] = out[1]
      BY <1>3, <1>7, <2>3, <3>2 DEF Once
    <3>. QED  BY <1>4, <3>1, <3>2
  <2>. QED  BY <2>1, <2>2, <2>3 DEF Once
<1>9. NotIn(rows, job, crossed)
  BY <1>5, <1>7 DEF NotIn
<1>10. \A v \in Callers \ {w} : Writes(sjob[v]) =>
          InHand(job) \cap InHand(sjob[v]) \subseteq crossed
  BY <1>1, <1>5 DEF NewsInv, OnceInv, Writes
<1>. QED  BY <1>1, <1>6, <1>8, <1>9, <1>10, JobKeeps DEF NewsInv, JobsInv

(* A worker stops to work, or begins what writes no row.                   *)
LEMMA AsideKeeps ==
    ASSUME NewsInv, NEW w \in Callers, NEW job, Works(w, job), JobOK(job),
           ~Writes(job),
           book' \in [Clients -> Lists], watch' \in [Clients -> Lists \cup {NoWatch}],
           UNCHANGED <<rows, crossed>>
    PROVE  NewsInv'
  BY JobKeeps

(* The rows a worker has made, or the stories it has found, become rows.   *)
LEMMA RowsAdd ==
    ASSUME NewsInv, NEW w \in Callers, Writes(sjob[w]), Works(w, AtRest),
           NEW new \in Seq(NewsRow), rows' = rows \o new,
           \A i \in DOMAIN new : new[i].uri \in InHand(sjob[w]),
           Unique(new, crossed),
           UNCHANGED <<book, watch, crossed>>
    PROVE  NewsInv'
<1>1. /\ sjob' = [v \in Callers |-> sjob'[v]] /\ sjob'[w] = AtRest
      /\ \A v \in Callers \ {w} : sjob'[v] = sjob[v]
  BY DEF NewsInv, JobsInv, Works
<1>2. JobsInv'
  <2>1. \A v \in Callers : JobOK(sjob'[v])
    BY <1>1, RestOK DEF NewsInv, JobsInv
  <2>. QED  BY <1>1, <2>1 DEF NewsInv, JobsInv
<1>3. \A i \in DOMAIN rows' :
         \/ i \in DOMAIN rows /\ rows'[i] = rows[i]
         \/ /\ i - Len(rows) \in DOMAIN new /\ rows'[i] = new[i - Len(rows)]
            /\ i \in Int /\ Len(rows) \in Int
            /\ rows'[i].uri \in InHand(sjob[w])
  BY DEF NewsInv, JobsInv
<1>4. ASSUME NEW v \in Callers \ {w}, Writes(sjob[v])
      PROVE  NotIn(rows', sjob[v], crossed)
  <2>1. InHand(sjob[w]) \cap InHand(sjob[v]) \subseteq crossed
    BY <1>4 DEF NewsInv, OnceInv
  <2>2. NotIn(rows, sjob[v], crossed)
    BY <1>4 DEF NewsInv, OnceInv
  <2>. QED  BY <1>3, <2>1, <2>2 DEF NotIn
<1>5. Unique(rows', crossed)
  <2>1. Unique(rows, crossed) /\ NotIn(rows, sjob[w], crossed)
    BY DEF NewsInv, OnceInv
  <2>. SUFFICES ASSUME NEW i \in DOMAIN rows', NEW j \in DOMAIN rows',
                       rows'[i].uri = rows'[j].uri, rows'[i].uri \notin crossed
                PROVE  i = j
    BY DEF Unique
  <2>2. CASE i \in DOMAIN rows /\ rows'[i] = rows[i]
    BY <1>3, <2>1, <2>2 DEF Unique, NotIn
  <2>3. CASE j \in DOMAIN rows /\ rows'[j] = rows[j]
    BY <1>3, <2>1, <2>3 DEF Unique, NotIn
  <2>4. CASE /\ i - Len(rows) \in DOMAIN new /\ rows'[i] = new[i - Len(rows)]
             /\ j - Len(rows) \in DOMAIN new /\ rows'[j] = new[j - Len(rows)]
             /\ i \in Int /\ j \in Int /\ Len(rows) \in Int
    <3>1. i - Len(rows) = j - Len(rows)
      BY <2>4 DEF Unique
    <3>. QED  BY <2>4, <3>1
  <2>. QED  BY <1>3, <2>2, <2>3, <2>4
<1>6. \A v \in Callers : Writes(sjob'[v]) => v # w /\ sjob'[v] = sjob[v]
  BY <1>1, RestOK
<1>7. OnceInv'
  BY <1>4, <1>5, <1>6 DEF NewsInv, OnceInv
<1>. QED  BY <1>2, <1>7 DEF NewsInv

(* The fan-out changes rows, not which articles have one.                  *)
LEMMA FanKeeps ==
    ASSUME NewsInv, NEW w \in Callers, FanCommit(w)
    PROVE  NewsInv'
<1>1. Works(w, AtRest) /\ UNCHANGED <<book, watch, crossed>>
  BY DEF FanCommit, Rests
<1>2. sjob[w].told \in Holdings
  BY DEF NewsInv, JobsInv, JobOK
<1>3. /\ rows' \in Seq(NewsRow) /\ DOMAIN rows' = DOMAIN rows
      /\ \A i \in DOMAIN rows : rows'[i].uri = rows[i].uri
  <2>1. PICK S \in OnePerIssuer(sjob[w].told) :
           rows' = [i \in DOMAIN rows |->
                      IF i \in Range(sjob[w].todo)
                      THEN [rows[i] EXCEPT
                              !.told = sjob[w].told,
                              !.clients = Told(sjob[w].told, S, rows[i].uri)]
                      ELSE rows[i]]
    BY DEF FanCommit
  <2>2. \A a : Told(sjob[w].told, S, a) \in SUBSET Clients
    BY DEF Told, Holders
  <2>3. \A i \in DOMAIN rows : rows[i] \in NewsRow
    BY DEF NewsInv, JobsInv
  <2>4. \A i \in DOMAIN rows : rows'[i] \in NewsRow /\ rows'[i].uri = rows[i].uri
    BY <1>2, <2>1, <2>2, <2>3 DEF NewsRow
  <2>5. Len(rows) \in Nat /\ DOMAIN rows = 1..Len(rows)
    BY DEF NewsInv, JobsInv
  <2>6. rows' \in [1..Len(rows) -> NewsRow]
    BY <2>1, <2>4, <2>5
  <2>7. rows' \in Seq(NewsRow)
    BY <2>5, <2>6
  <2>8. DOMAIN rows' = DOMAIN rows
    BY <2>1
  <2>. QED  BY <2>4, <2>7, <2>8
<1>4. /\ sjob' = [v \in Callers |-> sjob'[v]] /\ sjob'[w] = AtRest
      /\ \A v \in Callers \ {w} : sjob'[v] = sjob[v]
  BY <1>1 DEF NewsInv, JobsInv, Works
<1>5. JobsInv'
  <2>1. \A v \in Callers : JobOK(sjob'[v])
    BY <1>4, RestOK DEF NewsInv, JobsInv
  <2>. QED  BY <1>1, <1>3, <1>4, <2>1 DEF NewsInv, JobsInv
<1>6. \A v \in Callers : Writes(sjob'[v]) => v # w /\ sjob'[v] = sjob[v]
  BY <1>4, RestOK
<1>7. Unique(rows', crossed')
  BY <1>1, <1>3 DEF NewsInv, OnceInv, Unique
<1>8. \A v \in Callers : Writes(sjob'[v]) => NotIn(rows', sjob'[v], crossed')
  BY <1>1, <1>3, <1>6 DEF NewsInv, OnceInv, NotIn
<1>9. OnceInv'
  BY <1>1, <1>6, <1>7, <1>8 DEF NewsInv, OnceInv
<1>. QED  BY <1>5, <1>9 DEF NewsInv

-----------------------------------------------------------------------------
(* Each step of a scan.                                                    *)

LEMMA HeldIsHoldings ==
    ASSUME NewsInv
    PROVE  [c \in Clients |-> book[c].held] \in Holdings
  BY DEF NewsInv, JobsInv, Holdings, Securities

LEMMA FoundFinite == ASSUME NEW S \in SUBSET Found PROVE IsFiniteSet(S)
<1>1. IsFiniteSet(Found)
  BY ScanAssumption, FS_Union DEF Found
<1>. QED  BY <1>1, FS_Subset

(* A watchlist is read and committed, a search and the fan-out begun.      *)
LEMMA BeginKeeps ==
    ASSUME NewsInv, NEW w \in Callers,
           \/ \E c \in Clients : \/ WatchRead(w, c)
                                \/ \E found \in SUBSET Articles :
                                      ScanRead(w, c, found)
           \/ WatchCommit(w) \/ FanRead(w)
    PROVE  NewsInv'
<1>1. CASE WatchCommit(w)
  <2>1. Works(w, AtRest) /\ UNCHANGED <<book, rows, crossed>>
    BY <1>1 DEF WatchCommit, Rests
  <2>2. sjob[w].op = "watch" /\ sjob[w].watch \in Lists \cup {NoWatch}
    BY <1>1 DEF WatchCommit, NewsInv, JobsInv, JobOK
  <2>3. watch' \in [Clients -> Lists \cup {NoWatch}]
    BY <1>1, <2>2 DEF WatchCommit, NewsInv, JobsInv
  <2>. QED  BY <2>1, <2>3, RestOK, AsideKeeps DEF NewsInv, JobsInv
<1>2. ASSUME NEW c \in Clients, WatchRead(w, c)
      PROVE  NewsInv'
  <2>. DEFINE job == Busy("watch", {c}, book[c], <<>>, NoHoldings)
  <2>1. JobOK(job) /\ ~Writes(job)
    <3>1. /\ IsJob(job) /\ job.op = "watch" /\ job.clients = {c}
          /\ job.watch = book[c] /\ job.todo = <<>> /\ job.out = <<>>
          /\ job.told = NoHoldings
      BY BusyIs
    <3>. HIDE DEF job
    <3>. QED  BY <3>1, NobodyHolds DEF JobOK, Writes, NewsInv, JobsInv
  <2>2. /\ Works(w, job) /\ UNCHANGED <<book, watch, rows, crossed>>
    BY <1>2 DEF WatchRead
  <2>. QED  BY <2>1, <2>2, AsideKeeps DEF NewsInv, JobsInv
<1>3. ASSUME NEW c \in Clients, NEW found \in SUBSET Articles,
             ScanRead(w, c, found)
      PROVE  NewsInv'
  <2>. DEFINE job == Busy("filter", {c}, watch[c], SetToSeq(found), NoHoldings)
  <2>1. JobOK(job) /\ ~Writes(job)
    <3>1. /\ IsJob(job) /\ job.op = "filter" /\ job.clients = {c}
          /\ job.watch = watch[c] /\ job.todo = SetToSeq(found)
          /\ job.out = <<>> /\ job.told = NoHoldings
      BY BusyIs
    <3>2. SetToSeq(found) \in Seq(Found)
      <4>1. found \in SUBSET Found
        BY DEF Found
      <4>2. SetToSeq(found) \in Seq(found)
        BY <4>1, FoundFinite, SetAsSeq
      <4>. QED  BY <4>1, <4>2
    <3>. HIDE DEF job
    <3>. QED  BY <3>1, <3>2, NobodyHolds DEF JobOK, Writes, NewsInv, JobsInv
  <2>2. /\ Works(w, job) /\ UNCHANGED <<book, watch, rows, crossed>>
    BY <1>3 DEF ScanRead
  <2>. QED  BY <2>1, <2>2, AsideKeeps DEF NewsInv, JobsInv
<1>4. CASE FanRead(w)
  <2>. DEFINE job == Busy("fan", {}, NoWatch,
                          SetToSeq({i \in DOMAIN rows : rows[i].seeded}),
                          [c \in Clients |-> book[c].held])
  <2>1. JobOK(job) /\ ~Writes(job)
    <3>1. /\ IsJob(job) /\ job.op = "fan" /\ job.clients = {}
          /\ job.watch = NoWatch /\ job.out = <<>>
          /\ job.told = [c \in Clients |-> book[c].held]
      BY BusyIs
    <3>. HIDE DEF job
    <3>. QED  BY <3>1, HeldIsHoldings DEF JobOK, Writes
  <2>2. /\ Works(w, job) /\ UNCHANGED <<book, watch, rows, crossed>>
    BY <1>4 DEF FanRead
  <2>. QED  BY <2>1, <2>2, AsideKeeps DEF NewsInv, JobsInv
<1>. QED  BY <1>1, <1>2, <1>3, <1>4

(* What the filter keeps is in the worker's hands once, unless an index is *)
(* repeated, and nobody has it who has not been noticed.                   *)
LEMMA FilterKeeps ==
    ASSUME NewsInv, NEW w \in Callers, NEW keep \in SUBSET Range(sjob[w].todo),
           NEW again \in SUBSET keep, Filtered(w, keep, again)
    PROVE  NewsInv'
<1>. DEFINE old == sjob[w]
            fresh == Unseen(old.watch, keep)
            p == SetToSeq(fresh)
            q == SetToSeq(fresh \cap again)
            job == [old EXCEPT !.op = "impact", !.todo = p \o q, !.kept = keep]
<1>1. /\ Works(w, job) /\ JobOK(old) /\ old.op = "filter"
      /\ crossed' = crossed \cup again \cup (UnderWay \cap fresh)
      /\ UNCHANGED <<book, watch, rows>>
  BY DEF Filtered, NewsInv, JobsInv
<1>2. /\ job.op = "impact" /\ job.clients = old.clients /\ job.watch = old.watch
      /\ job.told = old.told /\ job.kept = keep /\ job.todo = p \o q
      /\ job.out = <<>> /\ IsJob(job)
  BY <1>1, StillJob DEF JobOK, IsJob
<1>3. fresh \in SUBSET keep /\ keep \in SUBSET Found
  BY <1>1 DEF JobOK, Range, Unseen
<1>4. \A a \in fresh, i \in DOMAIN rows : rows[i].uri # a
  BY DEF Unseen, Stored
<1>5. /\ p \in Seq(Found) /\ Range(p) = fresh /\ IsInjective(p)
      /\ q \in Seq(Found) /\ Range(q) = fresh \cap again /\ IsInjective(q)
  <2>1. IsFiniteSet(fresh) /\ IsFiniteSet(fresh \cap again)
    BY <1>3, FoundFinite
  <2>2. p \in Seq(fresh) /\ q \in Seq(fresh \cap again)
    BY <2>1, SetAsSeq
  <2>3. fresh \subseteq Found /\ fresh \cap again \subseteq Found
    BY <1>3
  <2>4. p \in Seq(Found) /\ q \in Seq(Found)
    <3>. HIDE DEF p, q, fresh
    <3>. QED  BY <2>2, <2>3
  <2>5. /\ Range(p) = fresh /\ IsInjective(p)
        /\ Range(q) = fresh \cap again /\ IsInjective(q)
    <3>. HIDE DEF fresh
    <3>. QED  BY <2>1, SetAsSeq
  <2>. QED  BY <2>4, <2>5
<1>. HIDE DEF job, p, q, fresh
<1>6. \A i \in DOMAIN job.todo :
         /\ i \in Int /\ job.todo[i] \in fresh
         /\ \/ i \in DOMAIN p /\ job.todo[i] = p[i]
            \/ /\ i - Len(p) \in DOMAIN q /\ job.todo[i] = q[i - Len(p)]
               /\ job.todo[i] \in again
  BY <1>2, <1>5 DEF Range
<1>7. JobOK(job)
  BY <1>1, <1>2, <1>3, <1>5, <1>6 DEF JobOK
<1>8. InHand(job) \subseteq fresh
  BY <1>2, <1>6 DEF InHand
<1>9. Once(job, crossed')
  <2>1. ASSUME NEW i \in DOMAIN job.todo, NEW j \in DOMAIN job.todo,
               job.todo[i] = job.todo[j], job.todo[i] \notin crossed'
        PROVE  i = j
    <3>1. job.todo[i] \notin again
      BY <1>1, <2>1
    <3>. QED  BY <1>5, <1>6, <2>1, <3>1 DEF IsInjective
  <2>. QED  BY <1>2, <2>1 DEF Once
<1>10. NotIn(rows, job, crossed')
  BY <1>4, <1>8 DEF NotIn
<1>11. ASSUME NEW v \in Callers \ {w}, Writes(sjob[v])
       PROVE  InHand(job) \cap InHand(sjob[v]) \subseteq crossed'
  <2>1. InHand(sjob[v]) \subseteq UnderWay
    BY <1>11 DEF UnderWay, InHand, Writes
  <2>. QED  BY <1>1, <1>8, <2>1
<1>. QED
  BY <1>1, <1>7, <1>9, <1>10, <1>11, JobKeeps DEF NewsInv, JobsInv

(* The seeded stories found are nobody's, or noticed.                      *)
LEMMA SeedKeeps ==
    ASSUME NewsInv, NEW w \in Callers, NEW found \in SUBSET Stories,
           SeedRead(w, found)
    PROVE  NewsInv'
<1>. DEFINE fresh == {a \in found : ~Stored(a)}
            q == SetToSeq(fresh)
            job == Busy("seed", {}, NoWatch, q, NoHoldings)
<1>1. /\ Works(w, job) /\ crossed' = crossed \cup (UnderWay \cap fresh)
      /\ UNCHANGED <<book, watch, rows>>
  BY DEF SeedRead
<1>2. /\ IsJob(job) /\ job.op = "seed" /\ job.clients = {}
      /\ job.watch = NoWatch /\ job.todo = q /\ job.out = <<>>
      /\ job.told = NoHoldings
  BY BusyIs
<1>3. \A a \in fresh, i \in DOMAIN rows : rows[i].uri # a
  BY DEF Stored
<1>4. q \in Seq(Found) /\ Range(q) = fresh /\ IsInjective(q)
  <2>1. fresh \in SUBSET Found
    BY DEF Found
  <2>2. q \in Seq(fresh) /\ IsFiniteSet(fresh)
    BY <2>1, FoundFinite, SetAsSeq
  <2>. QED  BY <2>1, <2>2, SetAsSeq
<1>. HIDE DEF job, q, fresh
<1>5. JobOK(job)
  BY <1>2, <1>4, NobodyHolds DEF JobOK
<1>6. InHand(job) \subseteq fresh
  BY <1>2, <1>4 DEF InHand, Range
<1>7. Once(job, crossed')
  BY <1>2, <1>4 DEF Once, IsInjective
<1>8. NotIn(rows, job, crossed')
  BY <1>3, <1>6 DEF NotIn
<1>9. ASSUME NEW v \in Callers \ {w}, Writes(sjob[v])
      PROVE  InHand(job) \cap InHand(sjob[v]) \subseteq crossed'
  <2>1. InHand(sjob[v]) \subseteq UnderWay
    BY <1>9 DEF UnderWay, InHand, Writes
  <2>. QED  BY <1>1, <1>6, <2>1
<1>. QED  BY <1>1, <1>5, <1>7, <1>8, <1>9, JobKeeps DEF NewsInv, JobsInv

(* The rows that the seeding writes.                                       *)
SeedRows(todo) ==
    [i \in DOMAIN todo |-> NewsItem(todo[i], {}, "none", NoWatch)]

LEMMA SeedRowsAre ==
    ASSUME NEW todo \in Seq(Found)
    PROVE  LET new == SeedRows(todo)
           IN  /\ new \in Seq(NewsRow) /\ DOMAIN new = DOMAIN todo
               /\ \A i \in DOMAIN new :
                     /\ new[i].uri = todo[i] /\ new[i].seeded
                     /\ new[i].clients = {} /\ new[i].told = NoHoldings
<1>1. ASSUME NEW a \in Found
      PROVE  LET row == NewsItem(a, {}, "none", NoWatch)
             IN  /\ row \in NewsRow /\ row.uri = a /\ row.seeded
                 /\ row.clients = {} /\ row.told = NoHoldings
  BY NobodyHolds DEF NewsItem, NewsRow
<1>2. SeedRows(todo) \in [1..Len(todo) -> NewsRow]
  BY <1>1 DEF SeedRows
<1>. QED  BY <1>1, <1>2 DEF SeedRows

(* The commits.                                                            *)
LEMMA CommitKeeps ==
    ASSUME NewsInv, NEW w \in Callers, RowsCommit(w) \/ SeedCommit(w)
    PROVE  NewsInv'
<1>1. CASE RowsCommit(w)
  <2>1. /\ sjob[w].op = "impact" /\ Works(w, AtRest)
        /\ rows' = rows \o sjob[w].out
        /\ UNCHANGED <<book, watch, crossed>>
    BY <1>1 DEF RowsCommit, Rests
  <2>2. Writes(sjob[w]) /\ sjob[w].out \in Seq(NewsRow)
    BY <2>1 DEF Writes, NewsInv, JobsInv, JobOK
  <2>3. Unique(sjob[w].out, crossed)
    BY <2>2 DEF NewsInv, OnceInv, Once, Unique
  <2>4. \A i \in DOMAIN sjob[w].out : sjob[w].out[i].uri \in InHand(sjob[w])
    BY DEF InHand
  <2>. QED  BY <2>1, <2>2, <2>3, <2>4, RowsAdd
<1>2. CASE SeedCommit(w)
  <2>. DEFINE new == SeedRows(sjob[w].todo)
  <2>1. /\ sjob[w].op = "seed" /\ Works(w, AtRest) /\ rows' = rows \o new
        /\ UNCHANGED <<book, watch, crossed>>
    BY <1>2 DEF SeedCommit, Rests, SeedRows
  <2>2. Writes(sjob[w]) /\ sjob[w].todo \in Seq(Found)
    BY <2>1 DEF Writes, NewsInv, JobsInv, JobOK
  <2>4. /\ new \in Seq(NewsRow) /\ DOMAIN new = DOMAIN sjob[w].todo
        /\ \A i \in DOMAIN new : new[i].uri = sjob[w].todo[i]
    BY <2>2, SeedRowsAre
  <2>. HIDE DEF new
  <2>5. Unique(new, crossed)
    BY <2>2, <2>4 DEF NewsInv, OnceInv, Once, Unique
  <2>6. \A i \in DOMAIN new : new[i].uri \in InHand(sjob[w])
    BY <2>4 DEF InHand
  <2>. QED  BY <2>1, <2>2, <2>4, <2>5, <2>6, RowsAdd
<1>. QED  BY <1>1, <1>2

(* The gate and the verdicts, article by article.                          *)
LEMMA JudgeKeeps ==
    ASSUME NewsInv, NEW w \in Callers,
           \/ GateDrops(w) \/ TakeUnjudged(w) \/ VerdictFails(w)
           \/ \E about \in BOOLEAN : Verdict(w, about)
    PROVE  NewsInv'
<1>1. /\ Judging(w) /\ sjob[w].todo \in Seq(Found) /\ Article(w) \in Found
      /\ sjob[w].clients \in SUBSET Clients /\ sjob[w].clients # {}
      /\ sjob[w].watch \in Lists \cup {NoWatch}
      /\ UNCHANGED <<book, watch, rows, crossed>>
  BY DEF GateDrops, TakeUnjudged, VerdictFails, Verdict, Judging, Article,
         NewsInv, JobsInv, JobOK
<1>2. ASSUME NEW impact \in {"none", "impact"}
      PROVE  LET row == Item(w, impact)
             IN  /\ row \in NewsRow /\ ~row.seeded
                 /\ row.clients = sjob[w].clients /\ row.watch = sjob[w].watch
                 /\ row.uri = Article(w) /\ row.impact = impact
  BY <1>1, NobodyHolds DEF Item, NewsItem, NewsRow
<1>3. CASE GateDrops(w) \/ Verdict(w, FALSE)
  <2>. DEFINE out == <<>>
  <2>1. Passes(w, out, {}, {})
    BY <1>3 DEF GateDrops, Verdict
  <2>2. out \in Seq(NewsRow) /\ Len(out) <= 1 /\ DOMAIN out = {}
    OBVIOUS
  <2>. HIDE DEF out
  <2>. QED  BY <1>1, <2>1, <2>2, PassKeeps
<1>4. ASSUME NEW impact \in {"none", "impact"}, NEW about, NEW failed,
             Passes(w, <<Item(w, impact)>>, about, failed),
             Shortlisted(sjob[w].watch, Article(w)) =>
                Article(w) \in IF impact = "none" THEN failed ELSE about
      PROVE  NewsInv'
  <2>. DEFINE out == <<Item(w, impact)>>
  <2>1. /\ out \in Seq(NewsRow) /\ Len(out) = 1
        /\ \A i \in DOMAIN out : out[i] = Item(w, impact)
    BY <1>2
  <2>2. Passes(w, out, about, failed)
    BY <1>4
  <2>. HIDE DEF out
  <2>3. \A i \in DOMAIN out :
           /\ ~out[i].seeded /\ out[i].clients = sjob[w].clients
           /\ out[i].uri = Article(w)
           /\ Shortlisted(out[i].watch, out[i].uri) =>
                 Article(w) \in IF out[i].impact = "none" THEN failed ELSE about
    BY <1>2, <1>4, <2>1
  <2>4. Len(out) <= 1
    BY <2>1
  <2>. QED  BY <1>1, <2>1, <2>2, <2>3, <2>4, PassKeeps
<1>5. CASE TakeUnjudged(w)
  <2>1. /\ Passes(w, <<Item(w, "none")>>, {}, {})
        /\ ~Shortlisted(sjob[w].watch, Article(w))
    BY <1>5 DEF TakeUnjudged
  <2>. QED  BY <1>4, <2>1
<1>6. CASE VerdictFails(w)
  <2>1. Passes(w, <<Item(w, "none")>>, {}, {Article(w)})
    BY <1>6 DEF VerdictFails
  <2>. QED  BY <1>4, <2>1
<1>7. CASE Verdict(w, TRUE)
  <2>1. Passes(w, <<Item(w, "impact")>>, {Article(w)}, {})
    BY <1>7 DEF Verdict
  <2>. QED  BY <1>4, <2>1
<1>. QED  BY <1>3, <1>5, <1>6, <1>7

(* What the rows and the workers do not notice.                            *)
LEMMA NewsSame ==
    ASSUME NewsInv, UNCHANGED <<watch, rows, sjob, crossed>>,
           book' \in [Clients -> Lists]
    PROVE  NewsInv'
  BY DEF NewsInv, JobsInv, OnceInv

LEMMA NewsSteps == NewsInv /\ [Next]_vars => NewsInv'
<1>. SUFFICES ASSUME NewsInv, [Next]_vars PROVE NewsInv'
  OBVIOUS
<1>1. ASSUME UNCHANGED <<book, watch, rows, sjob, crossed>>
      PROVE  NewsInv'
  BY <1>1, NewsSame DEF NewsInv, JobsInv
<1>2. CASE \/ CallStep /\ UNCHANGED <<ops, mailVars, scanVars>>
           \/ MailNext /\ UNCHANGED scanVars
           \/ UNCHANGED vars
  BY <1>1, <1>2 DEF scanVars, vars
<1>3. CASE Restart
  <2>1. /\ sjob' = [w \in Callers |-> AtRest]
        /\ UNCHANGED <<book, watch, rows, crossed>>
    BY <1>3 DEF Restart, ScansEnd
  <2>2. \A w \in Callers : JobOK(sjob'[w]) /\ ~Writes(sjob'[w])
    BY <2>1, RestOK
  <2>3. sjob' = [w \in Callers |-> sjob'[w]]
    BY <2>1
  <2>. QED  BY <2>1, <2>2, <2>3 DEF NewsInv, JobsInv, OnceInv
<1>4. ASSUME NEW c \in Clients, NEW b \in Books, BookChanges(c, b)
      PROVE  NewsInv'
  <2>1. book' \in [Clients -> Lists]
    BY <1>4 DEF BookChanges, NewsInv, JobsInv, Lists
  <2>. QED  BY <1>4, <2>1, NewsSame DEF BookChanges
<1>5. ASSUME NEW w \in Callers, Works(w, AtRest),
             UNCHANGED <<book, watch, rows, crossed>>
      PROVE  NewsInv'
  BY <1>5, RestOK, AsideKeeps DEF NewsInv, JobsInv
<1>6. ASSUME NEW w \in Callers, FilterFails(w) \/ ScanFails(w)
      PROVE  NewsInv'
  BY <1>5, <1>6 DEF FilterFails, ScanFails, Rests
<1>7. ASSUME NEW w \in Callers, EmbeddingsFail(w) \/ AskVerdict(w)
      PROVE  NewsInv'
  BY <1>1, <1>7 DEF EmbeddingsFail, AskVerdict, scanVars
<1>8. ASSUME NEW w \in Callers, ScanStep(w)
      PROVE  NewsInv'
  BY <1>6, <1>7, <1>8, BeginKeeps, FilterKeeps, JudgeKeeps, CommitKeeps DEF ScanStep
<1>9. ASSUME NEW w \in Callers, SeedStep(w)
      PROVE  NewsInv'
  BY <1>9, BeginKeeps, SeedKeeps, CommitKeeps, FanKeeps DEF SeedStep
<1>. QED  BY <1>2, <1>3, <1>4, <1>6, <1>8, <1>9 DEF Next, ScanNext

LEMMA NewsInvariant == Spec => []NewsInv
<1>1. Init => NewsInv
  <2>. SUFFICES ASSUME Init PROVE NewsInv
    OBVIOUS
  <2>1. book \in [Clients -> Lists]
    BY ScanAssumption DEF Init, ScanInit
  <2>2. rows = <<>> /\ rows \in Seq(NewsRow)
    BY DEF Init, ScanInit
  <2>3. sjob = [w \in Callers |-> AtRest]
    BY DEF Init, ScanInit
  <2>4. \A w \in Callers : JobOK(sjob[w]) /\ ~Writes(sjob[w])
    BY <2>3, RestOK
  <2>5. JobsInv
    BY <2>1, <2>2, <2>3, <2>4 DEF JobsInv, Init, ScanInit
  <2>6. OnceInv
    BY <2>2, <2>4 DEF OnceInv, Unique
  <2>. QED  BY <2>5, <2>6 DEF NewsInv
<1>. QED  BY <1>1, NewsSteps, PTL DEF Spec

(* An article has one row, but where two looked for it at once or a        *)
(* filter's answer named it twice.                                         *)
THEOREM OneRowTheorem == Spec => []NoDuplicateRow
<1>1. NewsInv => NoDuplicateRow
  BY DEF NewsInv, OnceInv, Unique, NoDuplicateRow
<1>. QED  BY <1>1, NewsInvariant, PTL

(* Rows are written by the commits of the scans and of the seeding.        *)
LEMMA RowsFrom ==
    ASSUME [Next]_vars, rows' # rows
    PROVE  \E w \in Callers : RowsCommit(w) \/ SeedCommit(w) \/ FanCommit(w)
<1>1. ASSUME NEW w \in Callers, ScanStep(w)
      PROVE  RowsCommit(w)
  BY <1>1 DEF ScanStep, WatchRead, ScanRead, WatchCommit, Filtered, FilterFails,
              GateDrops, EmbeddingsFail, TakeUnjudged, AskVerdict, VerdictFails,
              Verdict, scanVars
<1>2. ASSUME NEW w \in Callers, SeedStep(w)
      PROVE  SeedCommit(w) \/ FanCommit(w)
  BY <1>2 DEF SeedStep, SeedRead, FanRead
<1>. QED  BY <1>1, <1>2 DEF Next, Restart, ScansEnd, ScanNext, BookChanges,
                            ScanFails, scanVars, vars

(* Nothing reaches a client unjudged.                                      *)
THEOREM JudgedTheorem == Spec => RowsJudged
<1>1. ASSUME NewsInv, [Next]_vars, rows' # rows,
             NEW i \in DOMAIN rows' \ DOMAIN rows
      PROVE  \/ rows'[i].seeded
             \/ \E w \in Callers :
                   /\ rows'[i].clients = sjob[w].clients
                   /\ rows'[i].uri \in sjob[w].kept
                   /\ Shortlisted(rows'[i].watch, rows'[i].uri) =>
                         rows'[i].uri \in IF rows'[i].impact = "none"
                                          THEN sjob[w].failed ELSE sjob[w].about
  <2>1. PICK w \in Callers : RowsCommit(w) \/ SeedCommit(w) \/ FanCommit(w)
    BY <1>1, RowsFrom
  <2>2. CASE RowsCommit(w)
    <3>1. /\ rows \in Seq(NewsRow) /\ sjob[w].out \in Seq(NewsRow)
          /\ rows' = rows \o sjob[w].out /\ sjob[w].op = "impact"
      BY <1>1, <2>2 DEF RowsCommit, NewsInv, JobsInv, JobOK
    <3>2. i - Len(rows) \in DOMAIN sjob[w].out
             /\ rows'[i] = sjob[w].out[i - Len(rows)]
      BY <1>1, <3>1
    <3>3. RowJudged(rows'[i], sjob[w])
      BY <1>1, <3>1, <3>2 DEF NewsInv, JobsInv, JobOK
    <3>. QED  BY <3>3 DEF RowJudged
  <2>3. CASE SeedCommit(w)
    <3>. DEFINE new == SeedRows(sjob[w].todo)
    <3>1. /\ rows \in Seq(NewsRow) /\ sjob[w].todo \in Seq(Found)
          /\ rows' = rows \o new
      BY <1>1, <2>3 DEF SeedCommit, SeedRows, NewsInv, JobsInv, JobOK
    <3>3. new \in Seq(NewsRow) /\ \A k \in DOMAIN new : new[k].seeded
      BY <3>1, SeedRowsAre
    <3>. HIDE DEF new
    <3>4. i - Len(rows) \in DOMAIN new /\ rows'[i] = new[i - Len(rows)]
      BY <1>1, <3>1, <3>3
    <3>. QED  BY <3>3, <3>4
  <2>4. CASE FanCommit(w)
    BY <1>1, <2>4 DEF FanCommit
  <2>. QED  BY <2>1, <2>2, <2>3, <2>4
<1>2. NewsInv /\ [Next]_vars =>
         [\A i \in DOMAIN rows' \ DOMAIN rows :
             LET r == rows'[i]
             IN  r.seeded \/ \E w \in Callers :
                    /\ r.clients = sjob[w].clients /\ r.uri \in sjob[w].kept
                    /\ Shortlisted(r.watch, r.uri) =>
                          r.uri \in IF r.impact = "none" THEN sjob[w].failed
                                    ELSE sjob[w].about]_rows
  BY <1>1
<1>. QED  BY <1>2, NewsInvariant, PTL DEF Spec, RowsJudged

-----------------------------------------------------------------------------
(* Whom a seeded story reaches.                                            *)
Reaches(row) ==
    LET named == Named(row.told, row.uri)
    IN  /\ row.clients \subseteq Holders(row.told, named)
        /\ \A s \in named :
              {t \in named : t.issuer = s.issuer} = {s}
              => Holders(row.told, {s}) \subseteq row.clients

ReachInv == \A i \in DOMAIN rows : rows[i].seeded => Reaches(rows[i])

LEMMA NobodyNamed ==
    ASSUME NEW row, row.told = NoHoldings, row.clients = {}
    PROVE  Reaches(row)
<1>1. Named(row.told, row.uri) = {}
  BY DEF Named, NoHoldings, Range
<1>. QED  BY <1>1 DEF Reaches, Holders

(* Of an issuer whose name the headline has, the security that counts is   *)
(* named as well, because the words are the issuer's.                      *)
LEMMA OneNamed ==
    ASSUME NEW held \in Holdings, NEW S \in OnePerIssuer(held),
           NEW row, row.told = held, row.clients = Told(held, S, row.uri)
    PROVE  Reaches(row)
<1>. DEFINE named == Named(held, row.uri)
<1>1. row.clients \subseteq Holders(held, named)
  BY DEF Told, Holders
<1>2. ASSUME NEW s \in named, {t \in named : t.issuer = s.issuer} = {s}
      PROVE  Holders(held, {s}) \subseteq row.clients
  <2>1. s \in UNION Range(held) /\ S \subseteq UNION Range(held)
    BY DEF Named, OnePerIssuer
  <2>2. UNION Range(held) \subseteq Securities
    BY DEF Holdings, Range
  <2>3. PICK t \in S : {x \in S : x.issuer = s.issuer} = {t}
    BY <2>1 DEF OnePerIssuer
  <2>4. t.issuer = s.issuer /\ t.names = s.names
    BY <2>1, <2>2, <2>3, ScanAssumption
  <2>5. t \in named
    BY <2>1, <2>4 DEF Named
  <2>6. s \in S
    BY <1>2, <2>4, <2>5
  <2>. QED  BY <2>6 DEF Told, Holders
<1>. QED  BY <1>1, <1>2 DEF Reaches

LEMMA ReachSteps == NewsInv /\ ReachInv /\ [Next]_vars => ReachInv'
<1>. SUFFICES ASSUME NewsInv, ReachInv, [Next]_vars, rows' # rows,
                     NEW i \in DOMAIN rows', rows'[i].seeded
              PROVE  Reaches(rows'[i])
  BY DEF ReachInv
<1>1. PICK w \in Callers : RowsCommit(w) \/ SeedCommit(w) \/ FanCommit(w)
  BY RowsFrom
<1>2. CASE i \in DOMAIN rows /\ rows'[i] = rows[i]
  BY <1>2 DEF ReachInv
<1>3. CASE RowsCommit(w)
  <2>1. /\ rows \in Seq(NewsRow) /\ sjob[w].out \in Seq(NewsRow)
        /\ rows' = rows \o sjob[w].out /\ sjob[w].op = "impact"
    BY <1>3 DEF RowsCommit, NewsInv, JobsInv, JobOK
  <2>2. \/ i \in DOMAIN rows /\ rows'[i] = rows[i]
        \/ i - Len(rows) \in DOMAIN sjob[w].out
              /\ rows'[i] = sjob[w].out[i - Len(rows)]
    BY <2>1
  <2>3. \A k \in DOMAIN sjob[w].out : ~sjob[w].out[k].seeded
    BY <2>1 DEF NewsInv, JobsInv, JobOK, RowJudged
  <2>. QED  BY <1>2, <2>2, <2>3
<1>4. CASE SeedCommit(w)
  <2>. DEFINE new == SeedRows(sjob[w].todo)
  <2>1. /\ rows \in Seq(NewsRow) /\ sjob[w].todo \in Seq(Found)
        /\ rows' = rows \o new
    BY <1>4 DEF SeedCommit, SeedRows, NewsInv, JobsInv, JobOK
  <2>2. /\ new \in Seq(NewsRow)
        /\ \A k \in DOMAIN new : new[k].clients = {} /\ new[k].told = NoHoldings
    BY <2>1, SeedRowsAre
  <2>. HIDE DEF new
  <2>3. \/ i \in DOMAIN rows /\ rows'[i] = rows[i]
        \/ i - Len(rows) \in DOMAIN new /\ rows'[i] = new[i - Len(rows)]
    BY <2>1, <2>2
  <2>. QED  BY <1>2, <2>2, <2>3, NobodyNamed
<1>5. CASE FanCommit(w)
  <2>. DEFINE held == sjob[w].told
  <2>1. held \in Holdings
    BY DEF NewsInv, JobsInv, JobOK
  <2>2. PICK S \in OnePerIssuer(held) :
           rows' = [k \in DOMAIN rows |->
                      IF k \in Range(sjob[w].todo)
                      THEN [rows[k] EXCEPT !.told = held,
                                           !.clients = Told(held, S, rows[k].uri)]
                      ELSE rows[k]]
    BY <1>5 DEF FanCommit
  <2>3. i \in DOMAIN rows /\ rows[i] \in NewsRow
    <3>1. i \in DOMAIN rows
      BY <2>2
    <3>. QED  BY <3>1 DEF NewsInv, JobsInv
  <2>4. \/ rows'[i] = rows[i]
        \/ /\ rows'[i].told = held
           /\ rows'[i].clients = Told(held, S, rows'[i].uri)
    <3>. HIDE DEF held
    <3>. QED  BY <2>2, <2>3 DEF NewsRow
  <2>. QED  BY <1>2, <2>1, <2>3, <2>4, OneNamed
<1>. QED  BY <1>1, <1>3, <1>4, <1>5

(* A seeded story is told to holders of what it names, and to every holder *)
(* of a security that is the only one of its issuer.                       *)
THEOREM ReachTheorem == Spec => []SeededReaches
<1>1. Init => ReachInv
  BY DEF Init, ScanInit, ReachInv
<1>2. ReachInv => SeededReaches
  BY DEF ReachInv, Reaches, SeededReaches
<1>. QED  BY <1>1, <1>2, NewsInvariant, ReachSteps, PTL DEF Spec
=============================================================================
