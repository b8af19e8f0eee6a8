----------------------------- MODULE RadarProofs -----------------------------
(* Theorems about the Change Radar: about its builder (ChangeRadar), its    *)
(* dispatcher (RadarDispatch), and the two together (Radar), for any        *)
(* sources, positions, builders, keys, thresholds, hours and margins.       *)
EXTENDS Radar, SetSums, SequenceTheorems

-----------------------------------------------------------------------------
Announcements ==
    [key : Keys \cup DigestKeys, impact : Nat, era : Nat]

(***************************************************************************)
(* The dispatcher: its inductive invariant.                                *)
(***************************************************************************)

Of(s, key) == {i \in DOMAIN s : s[i].key = key}

(* A sequence of deliveries on which the impacts of every key climb.  That *)
(* a key with a delivery has a last one is part of it: the cycle compares  *)
(* with the last one only.                                                 *)
Climbs(s) ==
    \A i, j \in DOMAIN s :
        i < j /\ s[i].key = s[j].key => Climbed(s[j].impact, s[i].impact)

HasLast(s) ==
    \A i \in DOMAIN s :
        \E l \in Of(s, s[i].key) : \A k \in Of(s, s[i].key) : k <= l

Sound(s) == Climbs(s) /\ HasLast(s)

(* The committed ledger is sound, and so is what the cycle sees of it.     *)
SoundInv == Sound(ledger) /\ Sound(Visible)

(* What was announced since the last failure is in the ledger the cycle    *)
(* sees.                                                                   *)
HeardInv ==
    \A i \in DOMAIN announced :
        /\ announced[i].era <= faults
        /\ announced[i].era = faults =>
              \E j \in DOMAIN Visible : /\ Visible[j].key = announced[i].key
                                        /\ Visible[j].impact = announced[i].impact

IInv == TypeOK /\ SoundInv /\ HeardInv /\ NoRepeat

-----------------------------------------------------------------------------
(* Climbing is transitive: what climbed above an impact is not below it.   *)
LEMMA ClimbedTransitive ==
    ASSUME NEW a \in Nat, NEW b \in Nat, NEW c \in Nat,
           Climbed(b, a), Climbed(c, b)
    PROVE  Climbed(c, a)
<1>. Margin \in Nat
  BY RadarAssumption
<1>1. 100 * b > a * 100 + a * Margin /\ 100 * c > b * 100 + b * Margin
  BY DEF Climbed
<1>2. a * Margin \in Nat /\ b * Margin \in Nat
  OBVIOUS
<1>3. b >= a
  BY <1>1, <1>2
<1>4. PICK d \in Nat : b = a + d
  BY <1>3
<1>5. b * Margin = a * Margin + d * Margin /\ d * Margin \in Nat
  BY <1>4
<1>6. 100 * c > a * 100 + a * Margin
  BY <1>1, <1>2, <1>3, <1>5
<1>. QED  BY <1>6 DEF Climbed

(* What climbed above the last delivery of its key climbed above them all. *)
LEMMA AboveAll ==
    ASSUME NEW s \in Seq(Deliveries), Sound(s),
           NEW key, NEW impact \in Nat,
           \A i \in Of(s, key) :
              (\A k \in Of(s, key) : k <= i) => Climbed(impact, s[i].impact)
    PROVE  \A i \in Of(s, key) : Climbed(impact, s[i].impact)
<1>. SUFFICES ASSUME NEW i \in Of(s, key)
              PROVE  Climbed(impact, s[i].impact)
  OBVIOUS
<1>1. DOMAIN s \subseteq Nat /\ \A k \in DOMAIN s : s[k] \in Deliveries
  BY LenProperties
<1>2. PICK l \in Of(s, key) : \A k \in Of(s, key) : k <= l
  BY DEF Sound, HasLast, Of
<1>3. Climbed(impact, s[l].impact)
  BY <1>2
<1>4. CASE i = l
  BY <1>3, <1>4
<1>5. CASE i < l
  <2>1. Climbed(s[l].impact, s[i].impact)
    BY <1>5 DEF Sound, Climbs, Of
  <2>2. s[i].impact \in Nat /\ s[l].impact \in Nat
    BY <1>1 DEF Of, Deliveries
  <2>. QED  BY <1>3, <2>1, <2>2, ClimbedTransitive
<1>. QED  BY <1>1, <1>2, <1>4, <1>5 DEF Of

(* A sound sequence stays sound under a delivery that climbs.              *)
LEMMA SoundAppend ==
    ASSUME NEW s \in Seq(Deliveries), NEW e \in Deliveries, Sound(s),
           \A i \in Of(s, e.key) : Climbed(e.impact, s[i].impact)
    PROVE  Sound(Append(s, e))
<1>. DEFINE t == Append(s, e)
            n == Len(s) + 1
<1>1. /\ Len(s) \in Nat /\ DOMAIN s = 1..Len(s) /\ DOMAIN t = 1..n
      /\ \A i \in 1..Len(s) : t[i] = s[i]
      /\ t[n] = e
  BY LenProperties
<1>. HIDE DEF t
<1>2. Climbs(t)
  <2>. SUFFICES ASSUME NEW i \in DOMAIN t, NEW j \in DOMAIN t,
                       i < j, t[i].key = t[j].key
                PROVE  Climbed(t[j].impact, t[i].impact)
    BY DEF Climbs
  <2>1. i \in DOMAIN s /\ t[i] = s[i]
    BY <1>1
  <2>2. CASE j = n
    BY <1>1, <2>1, <2>2 DEF Of
  <2>3. CASE j # n
    <3>1. j \in DOMAIN s /\ t[j] = s[j]
      BY <1>1, <2>3
    <3>. QED  BY <2>1, <3>1 DEF Sound, Climbs
  <2>. QED  BY <2>2, <2>3
<1>3. HasLast(t)
  <2>. SUFFICES ASSUME NEW i \in DOMAIN t
                PROVE  \E l \in Of(t, t[i].key) : \A k \in Of(t, t[i].key) : k <= l
    BY DEF HasLast
  <2>1. CASE t[i].key = e.key
    <3>1. n \in Of(t, t[i].key)
      BY <1>1, <2>1 DEF Of
    <3>2. \A k \in Of(t, t[i].key) : k <= n
      BY <1>1 DEF Of
    <3>. QED  BY <3>1, <3>2
  <2>2. CASE t[i].key # e.key
    <3>1. i \in DOMAIN s /\ t[i] = s[i]
      BY <1>1, <2>2
    <3>2. PICK l \in Of(s, s[i].key) : \A k \in Of(s, s[i].key) : k <= l
      BY <3>1 DEF Sound, HasLast
    <3>3. Of(t, t[i].key) = Of(s, s[i].key)
      BY <1>1, <2>2, <3>1 DEF Of
    <3>. QED  BY <3>2, <3>3
  <2>. QED  BY <2>1, <2>2
<1>. QED  BY <1>2, <1>3 DEF Sound, t

-----------------------------------------------------------------------------
(* What the cycle's session sees, as steps of the cycle change it.         *)
LEMMA VisibleOK ==
    ASSUME TypeOK
    PROVE  /\ Visible \in Seq(Deliveries)
           /\ DOMAIN Visible = 1..Len(Visible) /\ Len(Visible) \in Nat
           /\ \A i \in DOMAIN Visible : Visible[i] \in Deliveries
<1>1. Visible \in Seq(Deliveries)
  BY ConcatProperties DEF TypeOK, Visible
<1>. QED  BY <1>1, LenProperties, ElementOfSeq

LEMMA VisibleKept ==
    ASSUME TypeOK, \/ UNCHANGED <<ledger, pend>>
                   \/ ledger' = Visible /\ pend' = <<>>
    PROVE  Visible' = Visible
<1>1. Visible \o <<>> = Visible
  BY VisibleOK, ConcatEmptySeq
<1>. QED  BY <1>1 DEF Visible

LEMMA VisibleCleared ==
    ASSUME TypeOK, ledger' = ledger, pend' = <<>>
    PROVE  Visible' = ledger
BY ConcatEmptySeq DEF TypeOK, Visible

LEMMA VisibleGrows ==
    ASSUME TypeOK, NEW e \in Deliveries,
           ledger' = ledger, pend' = Append(pend, e)
    PROVE  /\ Visible' = Append(Visible, e)
           /\ DOMAIN Visible' = DOMAIN Visible \cup {Len(Visible) + 1}
           /\ \A i \in DOMAIN Visible : Visible'[i] = Visible[i]
           /\ Visible'[Len(Visible) + 1] = e
<1>1. ledger \in Seq(Deliveries) /\ pend \in Seq(Deliveries) /\ <<e>> \in Seq(Deliveries)
  BY DEF TypeOK
<1>2. Append(pend, e) = pend \o <<e>> /\ Append(Visible, e) = Visible \o <<e>>
  BY <1>1, VisibleOK
<1>3. Visible' = Append(Visible, e)
  BY <1>1, <1>2, ConcatAssociative DEF Visible
<1>. QED  BY <1>3, VisibleOK

(* The ledger row of a push, and of a digest.                              *)
LEMMA PushEntry ==
    ASSUME TypeOK, NEW row \in todo, NEW channel \in Channels
    PROVE  /\ row.key \in Keys /\ row.impact \in Nat
           /\ Entry(row.key, channel, row.impact) \in Deliveries
BY DEF TypeOK, IsRow, Entry, Deliveries, Channels

LEMMA DigestEntry ==
    ASSUME TypeOK
    PROVE  /\ DigestKey(now.day) \in DigestKeys
           /\ Entry(DigestKey(now.day), "digest", 0) \in Deliveries
BY DEF TypeOK, Entry, Deliveries, DigestKeys

(* A row that is due climbed above every delivery of its key.              *)
LEMMA DueClimbs ==
    ASSUME TypeOK, SoundInv, NEW row \in todo, Due(row)
    PROVE  \A i \in Of(Visible, row.key) : Climbed(row.impact, Visible[i].impact)
<1>1. row.impact \in Nat
  BY DEF TypeOK, IsRow
<1>2. \A i \in Of(Visible, row.key) :
         (\A k \in Of(Visible, row.key) : k <= i)
            => Climbed(row.impact, Visible[i].impact)
  BY DEF Due, IsLast, Delivered, Of
<1>. QED  BY <1>1, <1>2, AboveAll, VisibleOK DEF SoundInv

-----------------------------------------------------------------------------
(* Each step preserves the types.                                          *)
LEMMA StepType ==
    ASSUME TypeOK, Next
    PROVE  TypeOK'
<1>1. CASE Refresh
  BY <1>1 DEF Refresh, TypeOK, clock, cycleVars, Deliveries, IsRow
<1>2. CASE Tick
  <2>1. day' \in 0..MaxDays /\ hour' \in Hours
    BY <1>2, RadarAssumption DEF Tick, TypeOK, Hours
  <2>. QED  BY <1>2, <2>1 DEF Tick, TypeOK, cycleVars, IsRow
<1>3. CASE StartCycle
  BY <1>3 DEF StartCycle, TypeOK, IsRow, clock
<1>4. ASSUME NEW row \in todo, SkipRow(row)
      PROVE  TypeOK'
  BY <1>4 DEF SkipRow, TypeOK, IsRow, clock
<1>5. ASSUME NEW row \in todo, NEW channel \in Channels, PushRow(row, channel)
      PROVE  TypeOK'
  <2>1. pend' \in Seq(Deliveries)
    BY <1>5, PushEntry DEF PushRow, TypeOK
  <2>2. announced' \in Seq(Announcements)
    BY <1>5, PushEntry DEF PushRow, Announce, TypeOK, Announcements
  <2>. QED  BY <1>5, <2>1, <2>2 DEF PushRow, TypeOK, IsRow, clock, Announcements
<1>6. CASE SendDigest
  <2>1. pend' \in Seq(Deliveries)
    BY <1>6, DigestEntry DEF SendDigest, TypeOK
  <2>2. announced' \in Seq(Announcements)
    BY <1>6, DigestEntry DEF SendDigest, Announce, TypeOK, Announcements
  <2>. QED  BY <1>6, <2>1, <2>2 DEF SendDigest, TypeOK, IsRow, clock, Announcements
<1>7. ASSUME ClearCycle
      PROVE  /\ dpc' \in {"idle", "rows"} /\ todo' = {} /\ rest' = {}
             /\ pend' \in Seq(Deliveries) /\ now' \in [day : 0..MaxDays, hour : Hours]
  <2>1. Midnight \in [day : 0..MaxDays, hour : Hours]
    BY RadarAssumption DEF Midnight, Hours
  <2>. QED  BY <1>7, <2>1 DEF ClearCycle
<1>8. CASE CommitCycle
  BY <1>7, <1>8, VisibleOK DEF CommitCycle, TypeOK, clock, IsRow
<1>9. CASE CycleFails
  BY <1>7, <1>9 DEF CycleFails, TypeOK, clock, IsRow
<1>10. CASE Restart
  BY <1>7, <1>10 DEF Restart, TypeOK, clock, IsRow
<1>. QED  BY <1>1, <1>2, <1>3, <1>4, <1>5, <1>6, <1>8, <1>9, <1>10
          DEF Next, DispatchStep, Cycle

(* Each step preserves that impacts climb in the ledger.                   *)
LEMMA StepSound ==
    ASSUME TypeOK, SoundInv, Next
    PROVE  SoundInv'
<1>1. ASSUME UNCHANGED <<ledger, pend>>
      PROVE  SoundInv'
  BY <1>1, VisibleKept DEF SoundInv
<1>2. ASSUME ledger' = ledger, pend' = <<>>
      PROVE  SoundInv'
  BY <1>2, VisibleCleared DEF SoundInv
<1>3. ASSUME NEW e \in Deliveries, ledger' = ledger, pend' = Append(pend, e),
             \A i \in Of(Visible, e.key) : Climbed(e.impact, Visible[i].impact)
      PROVE  SoundInv'
  <2>1. Sound(Append(Visible, e))
    BY <1>3, SoundAppend, VisibleOK DEF SoundInv
  <2>. QED  BY <1>3, <2>1, VisibleGrows DEF SoundInv
<1>4. CASE Refresh \/ Tick \/ StartCycle \/ \E row \in todo : SkipRow(row)
  BY <1>1, <1>4 DEF Refresh, Tick, StartCycle, SkipRow, cycleVars
<1>5. ASSUME NEW row \in todo, NEW channel \in Channels, PushRow(row, channel)
      PROVE  SoundInv'
  BY <1>3, <1>5, PushEntry, DueClimbs DEF PushRow, Entry
<1>6. CASE SendDigest
  <2>1. Of(Visible, DigestKey(now.day)) = {}
    BY <1>6 DEF SendDigest, DigestDue, Delivered, Of
  <2>. QED  BY <1>3, <1>6, <2>1, DigestEntry DEF SendDigest, Entry
<1>7. CASE CommitCycle
  BY <1>7, VisibleKept DEF CommitCycle, ClearCycle, SoundInv
<1>8. CASE CycleFails \/ Restart
  BY <1>2, <1>8 DEF CycleFails, Restart, ClearCycle
<1>. QED  BY <1>4, <1>5, <1>6, <1>7, <1>8 DEF Next, DispatchStep, Cycle

(* An announcement of a cycle is new, and is remembered with its ledger    *)
(* row.                                                                    *)
LEMMA AnnounceStep ==
    ASSUME TypeOK, HeardInv, NoRepeat, NEW e \in Deliveries,
           ledger' = ledger, pend' = Append(pend, e), faults' = faults,
           Announce(e.key, e.impact),
           \A i \in Of(Visible, e.key) : Climbed(e.impact, Visible[i].impact)
    PROVE  HeardInv' /\ NoRepeat'
<1>. DEFINE n == Len(announced) + 1
<1>1. /\ Len(announced) \in Nat /\ DOMAIN announced = 1..Len(announced)
      /\ DOMAIN announced' = 1..n
      /\ \A i \in DOMAIN announced : announced'[i] = announced[i]
      /\ announced'[n] = [key |-> e.key, impact |-> e.impact, era |-> faults]
  BY LenProperties DEF Announce, TypeOK
<1>2. faults \in Nat
  BY DEF TypeOK
<1>. HIDE DEF n
<1>3. HeardInv'
  <2>. SUFFICES ASSUME NEW i \in DOMAIN announced'
                PROVE  /\ announced'[i].era <= faults'
                       /\ announced'[i].era = faults' =>
                             \E j \in DOMAIN Visible' :
                                /\ Visible'[j].key = announced'[i].key
                                /\ Visible'[j].impact = announced'[i].impact
    BY DEF HeardInv
  <2>1. CASE i = n
    BY <1>1, <1>2, <2>1, VisibleGrows
  <2>2. CASE i \in DOMAIN announced
    BY <1>1, <2>2, VisibleGrows DEF HeardInv
  <2>. QED  BY <1>1, <2>1, <2>2 DEF n
<1>4. NoRepeat'
  <2>. SUFFICES ASSUME NEW i \in DOMAIN announced', NEW j \in DOMAIN announced',
                       i < j, announced'[i].key = announced'[j].key,
                       announced'[i].era = announced'[j].era
                PROVE  Climbed(announced'[j].impact, announced'[i].impact)
    BY DEF NoRepeat
  <2>1. i \in DOMAIN announced /\ announced'[i] = announced[i]
    BY <1>1 DEF n
  <2>2. CASE j = n
    <3>1. PICK k \in DOMAIN Visible : /\ Visible[k].key = announced[i].key
                                      /\ Visible[k].impact = announced[i].impact
      BY <1>1, <2>1, <2>2 DEF HeardInv
    <3>2. k \in Of(Visible, e.key)
      BY <1>1, <2>1, <2>2, <3>1 DEF Of
    <3>. QED  BY <1>1, <2>1, <2>2, <3>1, <3>2
  <2>3. CASE j \in DOMAIN announced
    BY <1>1, <2>1, <2>3 DEF NoRepeat
  <2>. QED  BY <1>1, <2>2, <2>3 DEF n
<1>. QED  BY <1>3, <1>4

(* Each step preserves what was heard and that none of it was a repeat.    *)
LEMMA StepHeard ==
    ASSUME TypeOK, SoundInv, HeardInv, NoRepeat, Next
    PROVE  HeardInv' /\ NoRepeat'
<1>1. ASSUME Visible' = Visible, UNCHANGED <<announced, faults>>
      PROVE  HeardInv' /\ NoRepeat'
  BY <1>1 DEF HeardInv, NoRepeat
<1>2. ASSUME announced' = announced, faults' = faults + 1
      PROVE  HeardInv' /\ NoRepeat'
  <2>1. faults \in Nat /\ announced \in Seq(Announcements)
    BY DEF TypeOK, Announcements
  <2>2. \A i \in DOMAIN announced : announced[i] \in Announcements
    BY <2>1, LenProperties, ElementOfSeq
  <2>3. \A i \in DOMAIN announced : announced[i].era \in Nat
    BY <2>2 DEF Announcements
  <2>. QED  BY <1>2, <2>1, <2>3 DEF HeardInv, NoRepeat
<1>3. CASE Refresh \/ Tick \/ StartCycle \/ \E row \in todo : SkipRow(row)
  <2>1. UNCHANGED <<ledger, pend, announced, faults>>
    BY <1>3 DEF Refresh, Tick, StartCycle, SkipRow, cycleVars
  <2>. QED  BY <1>1, <2>1, VisibleKept
<1>4. ASSUME NEW row \in todo, NEW channel \in Channels, PushRow(row, channel)
      PROVE  HeardInv' /\ NoRepeat'
  <2>. DEFINE e == Entry(row.key, channel, row.impact)
  <2>1. e.key = row.key /\ e.impact = row.impact /\ e \in Deliveries
    BY PushEntry DEF Entry
  <2>2. /\ ledger' = ledger /\ pend' = Append(pend, e) /\ faults' = faults
        /\ Due(row) /\ Announce(row.key, row.impact)
    BY <1>4 DEF PushRow
  <2>3. \A i \in Of(Visible, row.key) : Climbed(row.impact, Visible[i].impact)
    BY <2>2, DueClimbs
  <2>. HIDE DEF e
  <2>. QED  BY <2>1, <2>2, <2>3, AnnounceStep
<1>5. CASE SendDigest
  <2>. DEFINE e == Entry(DigestKey(now.day), "digest", 0)
  <2>1. e.key = DigestKey(now.day) /\ e.impact = 0 /\ e \in Deliveries
    BY DigestEntry DEF Entry
  <2>2. /\ ledger' = ledger /\ pend' = Append(pend, e) /\ faults' = faults
        /\ Announce(DigestKey(now.day), 0)
        /\ Of(Visible, DigestKey(now.day)) = {}
    BY <1>5 DEF SendDigest, DigestDue, Delivered, Of
  <2>. HIDE DEF e
  <2>. QED  BY <2>1, <2>2, AnnounceStep
<1>6. CASE CommitCycle
  BY <1>1, <1>6, VisibleKept DEF CommitCycle, ClearCycle
<1>7. CASE CycleFails \/ Restart
  BY <1>2, <1>7 DEF CycleFails, Restart
<1>. QED  BY <1>3, <1>4, <1>5, <1>6, <1>7 DEF Next, DispatchStep, Cycle

-----------------------------------------------------------------------------
LEMMA InitIInv ==
    ASSUME Init
    PROVE  IInv
<1>1. TypeOK
  BY RadarAssumption DEF Init, TypeOK, IsRow, Midnight, Hours
<1>2. Visible = <<>>
  BY DEF Init, Visible
<1>3. SoundInv
  BY <1>2 DEF Init, SoundInv, Sound, Climbs, HasLast
<1>4. HeardInv /\ NoRepeat
  BY DEF Init, HeardInv, NoRepeat
<1>. QED  BY <1>1, <1>3, <1>4 DEF IInv

LEMMA StutterIInv ==
    ASSUME IInv, UNCHANGED vars
    PROVE  IInv'
<1>1. TypeOK'
  BY DEF IInv, TypeOK, vars, clock, cycleVars, IsRow
<1>2. Visible' = Visible
  BY DEF Visible, vars, cycleVars
<1>3. SoundInv' /\ HeardInv' /\ NoRepeat'
  BY <1>2 DEF IInv, SoundInv, HeardInv, NoRepeat, vars
<1>. QED  BY <1>1, <1>3 DEF IInv

LEMMA Inductive == Spec => []IInv
<1>1. Init => IInv
  BY InitIInv
<1>2. IInv /\ [Next]_vars => IInv'
  BY StepType, StepSound, StepHeard, StutterIInv DEF IInv
<1>. QED  BY <1>1, <1>2, PTL DEF Spec

-----------------------------------------------------------------------------
(* Every reachable state is well typed.                                    *)
THEOREM TypeCorrect == Spec => []TypeOK
<1>1. IInv => TypeOK
  BY DEF IInv
<1>. QED  BY Inductive, <1>1, PTL

(* The ledger holds a change twice only when its impact climbed by more    *)
(* than the margin, and one digest a day, through rebuilds of the table,   *)
(* failed cycles and restarts.                                             *)
THEOREM LedgerTheorem == Spec => []LedgerClimbs
<1>1. IInv => LedgerClimbs
  BY DEF IInv, SoundInv, Sound, Climbs, LedgerClimbs
<1>. QED  BY Inductive, <1>1, PTL

(* The RM is not told again of a change whose impact has not climbed,      *)
(* unless a cycle failed in between.                                       *)
THEOREM NoRepeatTheorem == Spec => []NoRepeat
<1>1. IInv => NoRepeat
  BY DEF IInv
<1>. QED  BY Inductive, <1>1, PTL

(* The RM hears of a change once per climb.                                *)
THEOREM TellsOnceTheorem == Spec => []TellsOnce
<1>. QED  BY LedgerTheorem, NoRepeatTheorem, PTL DEF TellsOnce

-----------------------------------------------------------------------------
(***************************************************************************)
(* The builder: from sources to rows.                                      *)
(***************************************************************************)

IsSignal(s) == s.magnitude \in Nat /\ s.relevance \in Nat

(* The signals of finitely many sources are finitely many, and each is as  *)
(* old as a source.                                                        *)
LEMMA SignalsOf ==
    ASSUME NEW S \in SUBSET Sources
    PROVE  /\ IsFiniteSet(Signals(S))
           /\ \A s \in Signals(S) : IsSignal(s) /\ \E x \in S : s.day = x.day
<1>1. \A x \in S : IsSource(x)
  BY BuildAssumption
<1>2. \A T \in SUBSET S : IsFiniteSet(T)
  BY BuildAssumption, FS_Subset
<1>3. \A s \in DOMAIN Magnitude : Magnitude[s] \in Nat
  BY DEF Magnitude
<1>4. \A c : Relevance(c) \in Nat
  BY DEF Relevance
<1>6. /\ IsFiniteSet({AlertSignal(a) : a \in Resolvable(S)})
      /\ \A a \in Resolvable(S) :
            IsSignal(AlertSignal(a)) /\ \E x \in S : AlertSignal(a).day = x.day
  <2>. DEFINE g == [a \in Resolvable(S) |-> AlertSignal(a)]
  <2>1. {AlertSignal(a) : a \in Resolvable(S)} = {g[a] : a \in Resolvable(S)}
    OBVIOUS
  <2>2. Resolvable(S) \in SUBSET S
    BY DEF Resolvable, PlainAlerts, Kind
  <2>. HIDE DEF g
  <2>3. IsFiniteSet({g[a] : a \in Resolvable(S)})
    BY <1>2, <2>2, FiniteImage
  <2>4. ASSUME NEW a \in Resolvable(S)
        PROVE  IsSignal(AlertSignal(a)) /\ AlertSignal(a).day = a.day
    <3>1. a.severity \in DOMAIN Magnitude /\ a.confidence \in Nat /\ a \in S
      BY <1>1 DEF Resolvable, PlainAlerts, Kind, IsSource
    <3>2. Magnitude[a.severity] * a.confidence \in Nat
      BY <1>3, <3>1
    <3>. QED  BY <1>4, <3>1, <3>2 DEF AlertSignal, Signal, IsSignal
  <2>. QED  BY <2>1, <2>2, <2>3, <2>4
<1>7. ASSUME NEW n \in Kind(S, "news")
      PROVE  /\ IsFiniteSet(NewsSignals(n, S))
             /\ \A s \in NewsSignals(n, S) : IsSignal(s) /\ s.day = n.day
  <2>1. n \in S /\ n.sentiment \in Nat /\ IsFiniteSet(n.clients)
    BY <1>1 DEF Kind, IsSource
  <2>2. \A c : Matched(n, c, S) \in SUBSET S
    BY DEF Matched, Kind
  <2>3. ASSUME NEW c, NEW severity \in DOMAIN Magnitude, NEW class
        PROVE  /\ IsSignal(NewsSignal(n, c, severity, class))
               /\ NewsSignal(n, c, severity, class).day = n.day
    <3>1. Magnitude[severity] * (5 + n.sentiment) \in Nat
      BY <1>3, <2>1
    <3>. QED  BY <1>4, <2>1, <3>1 DEF NewsSignal, Signal, IsSignal
  <2>. DEFINE Of1(c) == IF Matched(n, c, S) = {}
                          THEN {NewsSignal(n, c, "Attention", "news_impact")}
                          ELSE {NewsSignal(n, c, a.severity, a.class) : a \in Matched(n, c, S)}
              g == [c \in n.clients |-> Of1(c)]
  <2>4. NewsSignals(n, S) = UNION {g[c] : c \in n.clients}
    BY DEF NewsSignals
  <2>5. ASSUME NEW c \in n.clients
        PROVE  IsFiniteSet(Of1(c))
    <3>. DEFINE k == [a \in Matched(n, c, S) |-> NewsSignal(n, c, a.severity, a.class)]
    <3>1. {NewsSignal(n, c, a.severity, a.class) : a \in Matched(n, c, S)}
            = {k[a] : a \in Matched(n, c, S)}
      OBVIOUS
    <3>. HIDE DEF k
    <3>2. IsFiniteSet({k[a] : a \in Matched(n, c, S)})
      BY <1>2, <2>2, FiniteImage
    <3>. QED  BY <3>1, <3>2, FS_Singleton
  <2>6. \A c \in n.clients : g[c] = Of1(c)
    OBVIOUS
  <2>7. ASSUME NEW s \in NewsSignals(n, S)
        PROVE  IsSignal(s) /\ s.day = n.day
    <3>1. PICK c \in n.clients : s \in Of1(c)
      BY <2>4
    <3>2. CASE Matched(n, c, S) = {}
      <4>1. "Attention" \in DOMAIN Magnitude
        BY DEF Magnitude
      <4>. QED  BY <2>3, <3>1, <3>2, <4>1
    <3>3. CASE Matched(n, c, S) # {}
      <4>1. PICK a \in Matched(n, c, S) : s = NewsSignal(n, c, a.severity, a.class)
        BY <3>1, <3>3
      <4>2. a.severity \in DOMAIN Magnitude
        BY <1>1 DEF Matched, Kind, IsSource
      <4>. QED  BY <2>3, <4>1, <4>2
    <3>. QED  BY <3>2, <3>3
  <2>. HIDE DEF g, Of1
  <2>8. IsFiniteSet({g[c] : c \in n.clients})
    BY <2>1, FiniteImage
  <2>9. IsFiniteSet(UNION {g[c] : c \in n.clients})
    BY <2>5, <2>6, <2>8, FS_UNION
  <2>. QED  BY <2>4, <2>7, <2>9
<1>8. IsFiniteSet(UNION {NewsSignals(n, S) : n \in Kind(S, "news")})
  <2>. DEFINE g == [n \in Kind(S, "news") |-> NewsSignals(n, S)]
  <2>1. {NewsSignals(n, S) : n \in Kind(S, "news")} = {g[n] : n \in Kind(S, "news")}
    OBVIOUS
  <2>2. Kind(S, "news") \in SUBSET S
    BY DEF Kind
  <2>. HIDE DEF g
  <2>3. IsFiniteSet({g[n] : n \in Kind(S, "news")})
    BY <1>2, <2>2, FiniteImage
  <2>. QED  BY <1>7, <2>1, <2>3, FS_UNION
<1>9. /\ IsFiniteSet({EmailSignal(e) : e \in Kind(S, "email")})
      /\ \A e \in Kind(S, "email") :
            IsSignal(EmailSignal(e)) /\ \E x \in S : EmailSignal(e).day = x.day
  <2>. DEFINE g == [e \in Kind(S, "email") |-> EmailSignal(e)]
  <2>1. {EmailSignal(e) : e \in Kind(S, "email")} = {g[e] : e \in Kind(S, "email")}
    OBVIOUS
  <2>2. Kind(S, "email") \in SUBSET S
    BY DEF Kind
  <2>. HIDE DEF g
  <2>3. IsFiniteSet({g[e] : e \in Kind(S, "email")})
    BY <1>2, <2>2, FiniteImage
  <2>4. ASSUME NEW e \in Kind(S, "email")
        PROVE  IsSignal(EmailSignal(e)) /\ EmailSignal(e).day = e.day
    <3>1. e \in S /\ e.magnitude \in Nat /\ e.relevance \in Nat
      BY <1>1 DEF Kind, IsSource
    <3>. QED  BY <3>1 DEF EmailSignal, Signal, IsSignal
  <2>. QED  BY <2>1, <2>2, <2>3, <2>4
<1>10. IsFiniteSet(Signals(S))
  <2>. DEFINE A == {AlertSignal(a) : a \in Resolvable(S)}
              N == UNION {NewsSignals(n, S) : n \in Kind(S, "news")}
              E == {EmailSignal(e) : e \in Kind(S, "email")}
  <2>1. Signals(S) = (A \cup N) \cup E
    BY DEF Signals
  <2>2. IsFiniteSet(A) /\ IsFiniteSet(N) /\ IsFiniteSet(E)
    BY <1>6, <1>8, <1>9
  <2>. HIDE DEF A, N, E
  <2>3. IsFiniteSet(A \cup N)
    BY <2>2, FS_Union
  <2>. QED  BY <2>1, <2>2, <2>3, FS_Union
<1>11. ASSUME NEW s \in Signals(S)
       PROVE  IsSignal(s) /\ \E x \in S : s.day = x.day
  <2>1. ASSUME NEW a \in Resolvable(S), s = AlertSignal(a)
        PROVE  IsSignal(s) /\ \E x \in S : s.day = x.day
    BY <1>6, <2>1
  <2>2. ASSUME NEW n \in Kind(S, "news"), s \in NewsSignals(n, S)
        PROVE  IsSignal(s) /\ \E x \in S : s.day = x.day
    <3>1. n \in S
      BY DEF Kind
    <3>. QED  BY <1>7, <2>2, <3>1
  <2>3. ASSUME NEW e \in Kind(S, "email"), s = EmailSignal(e)
        PROVE  IsSignal(s) /\ \E x \in S : s.day = x.day
    BY <1>9, <2>3
  <2>4. \/ \E a \in Resolvable(S) : s = AlertSignal(a)
        \/ \E n \in Kind(S, "news") : s \in NewsSignals(n, S)
        \/ \E e \in Kind(S, "email") : s = EmailSignal(e)
    BY DEF Signals
  <2>. QED  BY <2>1, <2>2, <2>3, <2>4
<1>. QED  BY <1>10, <1>11

(* What a rebuild may choose: of every client and entity, one signal.      *)
Chosen(S) == OnePerPair(Strongest(Signals(S)))

LEMMA ChosenOf ==
    ASSUME NEW S \in SUBSET Sources, NEW chosen \in Chosen(S)
    PROVE  /\ chosen \in SUBSET Signals(S) /\ IsFiniteSet(chosen)
           /\ \A s, t \in chosen : SamePair(s, t) => s = t
<1>1. chosen \in SUBSET Strongest(Signals(S))
      /\ \A s, t \in chosen : SamePair(s, t) => s = t
  BY DEF Chosen, OnePerPair
<1>2. chosen \in SUBSET Signals(S)
  BY <1>1 DEF Strongest
<1>. QED  BY <1>1, <1>2, SignalsOf, FS_Subset

(* And it leaves out nobody: among finitely many signals there is a        *)
(* strongest.                                                              *)
LEMMA ChosenCover ==
    ASSUME NEW S \in SUBSET Sources, NEW chosen \in Chosen(S),
           NEW s \in Signals(S)
    PROVE  \E t \in chosen : SamePair(s, t)
<1>. DEFINE P == {o \in Signals(S) : SamePair(s, o)}
            mag == [o \in Signals(S) |-> o.magnitude]
            M == {mag[o] : o \in P}
<1>1. IsFiniteSet(P)
  BY SignalsOf, FS_Subset
<1>2. s \in P /\ \A o \in P : mag[o] = o.magnitude /\ o.magnitude \in Nat
  BY SignalsOf DEF SamePair, IsSignal
<1>3. M \in SUBSET Nat /\ M # {}
  BY <1>2
<1>4. IsFiniteSet(M)
  <2>. HIDE DEF mag, P
  <2>. QED  BY <1>1, FiniteImage
<1>5. Max(M) \in M /\ \A m \in M : Max(M) >= m
  <2>. HIDE DEF M
  <2>. QED  BY <1>3, <1>4, HighestOfFinite
<1>6. PICK top \in P : Max(M) = mag[top]
  BY <1>5
<1>7. \A o \in Signals(S) : SamePair(top, o) => o.magnitude <= top.magnitude
  <2>. SUFFICES ASSUME NEW o \in Signals(S), SamePair(top, o)
                PROVE  o.magnitude <= top.magnitude
    OBVIOUS
  <2>1. o \in P
    BY DEF SamePair
  <2>2. mag[o] \in M /\ mag[top] \in Nat
    BY <1>2, <2>1
  <2>3. Max(M) >= mag[o]
    BY <1>5, <2>2
  <2>. QED  BY <1>2, <1>3, <1>6, <2>1, <2>2, <2>3
<1>8. top \in Strongest(Signals(S))
  BY <1>7 DEF Strongest
<1>9. PICK t \in chosen : SamePair(top, t)
  BY <1>8 DEF Chosen, OnePerPair
<1>. QED  BY <1>9 DEF SamePair

(* The signals of one group have one key, which tells it from the others.  *)
LEMMA GroupOf ==
    ASSUME NEW chosen, NEW G \in Groups(chosen)
    PROVE  /\ G # {} /\ G \in SUBSET chosen
           /\ \A s \in G : s.key = (CHOOSE t \in G : TRUE).key
           /\ G = {s \in chosen : s.key = (CHOOSE t \in G : TRUE).key}
<1>1. PICK x \in chosen : G = {s \in chosen : s.key = x.key}
  BY DEF Groups
<1>2. x \in G
  BY <1>1
<1>3. (CHOOSE t \in G : TRUE) \in G
  BY <1>2
<1>. QED  BY <1>1, <1>2, <1>3

-----------------------------------------------------------------------------
(* What a client's positions are worth, and what a signal can reach of it. *)
LEMMA TotalOf ==
    ASSUME NEW P \in SUBSET DOMAIN Positions, NEW Q \in SUBSET P
    PROVE  Total(P) \in Nat /\ Total(Q) <= Total(P)
<1>. DEFINE chf == [n \in DOMAIN Positions |-> Positions[n].chf]
<1>1. SumsNat(chf, P)
  BY BuildAssumption, FS_Subset DEF SumsNat
<1>. QED  BY <1>1, SumChosen, SumSubset DEF Total

LEMMA ExposureOf ==
    ASSUME NEW s
    PROVE  /\ HeldBy(s.client) \in SUBSET DOMAIN Positions
           /\ Exposure(s) \in Nat /\ Exposure(s) <= Total(HeldBy(s.client))
<1>1. HeldBy(s.client) \in SUBSET DOMAIN Positions
  BY DEF HeldBy
<1>2. \A Q \in SUBSET HeldBy(s.client) :
         Total(Q) \in Nat /\ Total(Q) <= Total(HeldBy(s.client))
  BY <1>1, TotalOf
<1>. QED  BY <1>1, <1>2 DEF Exposure

(* The exposures of different clients add up to no more than they hold.    *)
LEMMA ExposuresAdd ==
    ASSUME NEW G, IsFiniteSet(G), \A s, t \in G : s.client = t.client => s = t
    PROVE  /\ SumFunction([s \in G |-> Exposure(s)]) \in Nat
           /\ SumFunction([s \in G |-> Exposure(s)])
                <= Total(UNION {HeldBy(s.client) : s \in G})
<1>. DEFINE e == [s \in G |-> Exposure(s)]
            chf == [n \in DOMAIN Positions |-> Positions[n].chf]
            Sum(T) == SumFunctionOnSet(e, T)
            Lots(T) == UNION {HeldBy(s.client) : s \in T}
            B == {T \in SUBSET G : ~(Sum(T) <= Total(Lots(T)))}
<1>1. \A T \in SUBSET G : SumsNat(e, T)
  BY ExposureOf, FS_Subset DEF SumsNat
<1>2. \A T \in SUBSET G : Lots(T) \in SUBSET DOMAIN Positions
  BY DEF HeldBy
<1>3. B = {}
  <2>. SUFFICES ASSUME B # {}
                PROVE  FALSE
    OBVIOUS
  <2>. B \in SUBSET SUBSET G
    OBVIOUS
  <2>. HIDE DEF B
  <2>1. PICK T \in B : \A W \in SUBSET T : W # T => W \notin B
    BY MinimalSet
  <2>. USE DEF B
  <2>2. T \in SUBSET G /\ ~(Sum(T) <= Total(Lots(T)))
    OBVIOUS
  <2>3. T # {}
    <3>1. Sum({}) = 0
      BY <1>1, SumChosen
    <3>2. Total(Lots({})) \in Nat
      BY <1>2, TotalOf
    <3>. HIDE DEF Sum, Lots
    <3>. QED  BY <2>2, <3>1, <3>2
  <2>4. PICK x \in T : TRUE
    BY <2>3
  <2>. DEFINE V == T \ {x}
              mine == HeldBy(x.client)
  <2>5. Sum(V) <= Total(Lots(V))
    BY <2>1, <2>2, <2>4
  <2>6. Sum(T) = e[x] + Sum(V)
    BY <1>1, <2>2, <2>4, SumRemove
  <2>7. mine \cap Lots(V) = {}
    BY <2>2, <2>4 DEF HeldBy
  <2>8. Lots(T) = mine \cup Lots(V)
    BY <2>4
  <2>9. SumsNat(chf, mine \cup Lots(V))
    <3>1. mine \cup Lots(V) \in SUBSET DOMAIN Positions
      BY <1>2, <2>2, <2>8
    <3>. QED  BY <3>1, BuildAssumption, FS_Subset DEF SumsNat
  <2>10. Total(mine \cup Lots(V)) = Total(mine) + Total(Lots(V))
    <3>. HIDE DEF mine, Lots
    <3>. QED  BY <2>7, <2>9, SumDisjoint DEF Total
  <2>11. e[x] \in Nat /\ e[x] <= Total(mine) /\ Total(mine) \in Nat
    BY <2>2, <2>4, ExposureOf, TotalOf
  <2>12. Sum(V) \in Nat /\ Total(Lots(V)) \in Nat
    BY <1>1, <1>2, <2>2, SumChosen, TotalOf
  <2>13. Total(Lots(T)) = Total(mine) + Total(Lots(V))
    BY <2>8, <2>10
  <2>. HIDE DEF Sum, Lots, e, mine, B, V
  <2>. QED  BY <2>2, <2>5, <2>6, <2>11, <2>12, <2>13
<1>4. G \notin B
  BY <1>3
<1>5. Sum(G) \in Nat
  BY <1>1, SumChosen
<1>6. SumFunction(e) = Sum(G)
  BY DEF SumFunction
<1>7. Sum(G) <= Total(Lots(G))
  BY <1>4
<1>. HIDE DEF e
<1>. QED  BY <1>5, <1>6, <1>7 DEF e

(* The row of a group.                                                     *)
LEMMA EntityRowOf ==
    ASSUME NEW S \in SUBSET Sources, NEW chosen \in Chosen(S),
           NEW G \in Groups(chosen), NEW n
    PROVE  /\ EntityRow(n, G).exposure \in Nat
           /\ EntityRow(n, G).exposure
                <= Total(UNION {HeldBy(c) : c \in EntityRow(n, G).clients})
           /\ EntityRow(n, G).magnitude \in Nat
<1>1. /\ G # {} /\ G \in SUBSET chosen /\ IsFiniteSet(G)
      /\ \A s \in G : s.key = (CHOOSE t \in G : TRUE).key
  BY GroupOf, ChosenOf, FS_Subset
<1>2. \A s, t \in G : s.client = t.client => s = t
  BY <1>1, ChosenOf DEF SamePair
<1>3. UNION {HeldBy(c) : c \in {s.client : s \in G}}
        = UNION {HeldBy(s.client) : s \in G}
  OBVIOUS
<1>4. EntityRow(n, G).exposure = SumFunction([s \in G |-> Exposure(s)])
      /\ EntityRow(n, G).clients = {s.client : s \in G}
      /\ EntityRow(n, G).magnitude = Max({s.magnitude : s \in G})
  BY DEF EntityRow, Row
<1>5. Max({s.magnitude : s \in G}) \in Nat
  <2>. DEFINE mag == [s \in G |-> s.magnitude]
              M == {mag[s] : s \in G}
  <2>1. M \in SUBSET Nat /\ M # {}
    BY <1>1, ChosenOf, SignalsOf DEF IsSignal
  <2>2. M = {s.magnitude : s \in G}
    OBVIOUS
  <2>3. IsFiniteSet(M)
    <3>. HIDE DEF mag
    <3>. QED  BY <1>1, FiniteImage
  <2>. HIDE DEF M
  <2>. QED  BY <2>1, <2>2, <2>3, HighestOfFinite
<1>. QED  BY <1>1, <1>2, <1>3, <1>4, <1>5, ExposuresAdd

(* The rows of one rebuild: one to an entity, and none counts a franc of   *)
(* its clients twice.                                                      *)
LEMMA BuiltRowsOf ==
    ASSUME NEW S \in SUBSET Sources, NEW chosen \in Chosen(S), NEW n
    PROVE  /\ \A x \in BuiltRows(n, S, chosen) :
                 /\ x.build = n
                 /\ x.exposure <= Total(UNION {HeldBy(c) : c \in x.clients})
           /\ \A x, y \in BuiltRows(n, S, chosen) :
                 x.key = y.key => x = y \/ x.key = None
<1>1. \A a : /\ UnresolvedRow(n, a).build = n /\ UnresolvedRow(n, a).key = None
             /\ UnresolvedRow(n, a).exposure = 0
             /\ UnresolvedRow(n, a).clients = {}
  BY DEF UnresolvedRow, Row
<1>2. \A G : EntityRow(n, G).build = n
             /\ EntityRow(n, G).key = (CHOOSE s \in G : TRUE).key
  BY DEF EntityRow, Row
<1>3. Total(UNION {HeldBy(c) : c \in {}}) >= 0
  <2>1. UNION {HeldBy(c) : c \in {}} = {}
    OBVIOUS
  <2>. QED  BY <2>1, TotalOf
<1>4. ASSUME NEW x \in BuiltRows(n, S, chosen)
      PROVE  /\ x.build = n
             /\ x.exposure <= Total(UNION {HeldBy(c) : c \in x.clients})
  <2>1. CASE \E G \in Groups(chosen) : x = EntityRow(n, G)
    BY <1>2, <2>1, EntityRowOf
  <2>2. CASE \E a \in Unresolvable(S) : x = UnresolvedRow(n, a)
    <3>1. x.build = n /\ x.exposure = 0 /\ x.clients = {}
      BY <1>1, <2>2
    <3>2. Total(UNION {HeldBy(c) : c \in {}}) \in Nat
      BY TotalOf
    <3>. QED  BY <3>1, <3>2
  <2>. QED  BY <2>1, <2>2 DEF BuiltRows
<1>5. ASSUME NEW x \in BuiltRows(n, S, chosen), NEW y \in BuiltRows(n, S, chosen),
             x.key = y.key, x.key # None
      PROVE  x = y
  <2>1. PICK G \in Groups(chosen) : x = EntityRow(n, G)
    BY <1>1, <1>5 DEF BuiltRows
  <2>2. PICK H \in Groups(chosen) : y = EntityRow(n, H)
    BY <1>1, <1>5 DEF BuiltRows
  <2>3. (CHOOSE s \in G : TRUE).key = (CHOOSE s \in H : TRUE).key
    BY <1>2, <1>5, <2>1, <2>2
  <2>4. G = H
    <3>. DEFINE k == (CHOOSE s \in G : TRUE).key
                l == (CHOOSE s \in H : TRUE).key
    <3>1. G = {s \in chosen : s.key = k} /\ H = {s \in chosen : s.key = l}
      BY GroupOf
    <3>2. k = l
      BY <2>3
    <3>. HIDE DEF k, l
    <3>. QED  BY <3>1, <3>2
  <2>. QED  BY <2>1, <2>2, <2>4
<1>. QED  BY <1>4, <1>5

-----------------------------------------------------------------------------
(***************************************************************************)
(* The builder: its inductive invariant.                                   *)
(***************************************************************************)

BuildShape ==
    /\ bpc \in [Builders -> {"idle", "delete", "write"}]
    /\ doomed = [b \in Builders |-> doomed[b]]
    /\ got = [b \in Builders |-> got[b]]
    /\ aborts \in Nat

(* What a rebuild has read are sources, none of them from tomorrow.        *)
ReadInv ==
    /\ day \in Nat /\ live \subseteq Sources
    /\ \A s \in live : s.day <= day
    /\ \A b \in Builders : got[b] \subseteq Sources /\ \A s \in got[b] : s.day <= day

(* No rebuild is about to delete a demo row.                               *)
KeptInv ==
    /\ Pinned \subseteq events
    /\ \A b \in Builders : doomed[b] \cap Pinned = {}

(* While a rebuild is alone, nobody else is at work, and it has taken      *)
(* every row there is to take.                                             *)
AloneInv ==
    \A b \in Builders :
        alone[b] /\ bpc[b] # "idle" =>
            /\ doomed[b] = Deletable
            /\ \A o \in Builders : o # b => bpc[o] = "idle"

BuildInv == BuildShape /\ ReadInv /\ KeptInv /\ AloneInv /\ TableSound

LEMMA BuildInitInv ==
    ASSUME BuildInit
    PROVE  BuildInv
<1>1. BuildShape /\ ReadInv /\ KeptInv /\ AloneInv
  BY DEF BuildInit, BuildShape, ReadInv, KeptInv, AloneInv
<1>2. TableSound
  BY DEF BuildInit, TableSound, WholeSnapshot, CountedOnce
<1>. QED  BY <1>1, <1>2 DEF BuildInv

(* The properties of the table, which only a commit changes.               *)
LEMMA TableKept ==
    ASSUME TableSound, KeptInv, UNCHANGED <<events, whole>>
    PROVE  TableSound'
BY DEF TableSound, WholeSnapshot, CountedOnce, KeptInv

LEMMA DeletableRows ==
    /\ Deletable \subseteq events /\ Deletable \cap Pinned = {}
    /\ events \ Deletable \subseteq Pinned
BY BuildAssumption DEF Deletable

LEMMA AppearInv ==
    ASSUME BuildInv, NEW s \in Sources, Appear(s) \/ Vanish(s)
    PROVE  BuildInv'
<1>1. UNCHANGED <<events, day, bpc, doomed, got, aborts, alone, whole>>
      /\ live' \subseteq live \cup {s} /\ (s.day = day \/ live' \subseteq live)
  BY DEF Appear, Vanish
<1>2. s.day \in Nat
  BY BuildAssumption DEF IsSource
<1>3. ReadInv'
  BY <1>1, <1>2 DEF BuildInv, ReadInv
<1>4. BuildShape' /\ KeptInv' /\ AloneInv'
  BY <1>1 DEF BuildInv, BuildShape, KeptInv, AloneInv, Deletable
<1>. QED  BY <1>1, <1>3, <1>4, TableKept DEF BuildInv

LEMMA BeginInv ==
    ASSUME BuildInv, NEW b \in Builders, Begin(b)
    PROVE  BuildInv'
<1>1. /\ UNCHANGED <<events, live, day, aborts, whole>> /\ bpc[b] = "idle"
      /\ bpc' = [bpc EXCEPT ![b] = "delete"]
      /\ got' = [got EXCEPT ![b] = Kind(live, "email")]
      /\ doomed' = [doomed EXCEPT ![b] = Deletable]
      /\ alone' = [o \in Builders |-> o = b /\ \A x \in Builders : bpc[x] = "idle"]
  BY DEF Begin
<1>2. BuildShape'
  BY <1>1 DEF BuildInv, BuildShape
<1>3. Kind(live, "email") \subseteq live
  BY DEF Kind
<1>4. ReadInv'
  BY <1>1, <1>3 DEF BuildInv, BuildShape, ReadInv
<1>5. KeptInv'
  BY <1>1, DeletableRows DEF BuildInv, BuildShape, KeptInv
<1>6. Deletable' = Deletable
  BY <1>1 DEF Deletable
<1>7. AloneInv'
  BY <1>1, <1>6 DEF BuildInv, BuildShape, AloneInv
<1>. QED  BY <1>1, <1>2, <1>4, <1>5, <1>7, TableKept DEF BuildInv

LEMMA DeleteInv ==
    ASSUME BuildInv, NEW b \in Builders, DeleteAndRead(b)
    PROVE  BuildInv'
<1>1. /\ UNCHANGED <<events, live, day, aborts, alone, whole>> /\ bpc[b] = "delete"
      /\ bpc' = [bpc EXCEPT ![b] = "write"]
      /\ doomed' = [doomed EXCEPT ![b] = doomed[b] \cap events]
      /\ got' = [got EXCEPT ![b] = got[b] \cup Kind(live, "alert") \cup Kind(live, "news")]
  BY DEF DeleteAndRead
<1>2. BuildShape'
  BY <1>1 DEF BuildInv, BuildShape
<1>3. Kind(live, "alert") \subseteq live /\ Kind(live, "news") \subseteq live
  BY DEF Kind
<1>4. ReadInv'
  BY <1>1, <1>3 DEF BuildInv, BuildShape, ReadInv
<1>5. KeptInv'
  BY <1>1 DEF BuildInv, BuildShape, KeptInv
<1>6. Deletable' = Deletable
  BY <1>1 DEF Deletable
<1>7. AloneInv'
  <2>. SUFFICES ASSUME NEW x \in Builders, alone'[x], bpc'[x] # "idle"
                PROVE  /\ doomed'[x] = Deletable
                       /\ \A o \in Builders : o # x => bpc'[o] = "idle"
    BY <1>6 DEF AloneInv
  <2>1. bpc[x] # "idle" /\ alone[x]
    BY <1>1 DEF BuildInv, BuildShape
  <2>2. doomed[x] = Deletable /\ \A o \in Builders : o # x => bpc[o] = "idle"
    BY <2>1 DEF BuildInv, AloneInv
  <2>3. x = b
    BY <1>1, <2>2
  <2>. QED  BY <1>1, <2>2, <2>3, DeletableRows DEF BuildInv, BuildShape
<1>. QED  BY <1>1, <1>2, <1>4, <1>5, <1>7, TableKept DEF BuildInv

LEMMA AbortInv ==
    ASSUME BuildInv, NEW b \in Builders, Abort(b)
    PROVE  BuildInv'
<1>1. /\ UNCHANGED <<events, live, day, alone, whole>>
      /\ bpc' = [bpc EXCEPT ![b] = "idle"]
      /\ doomed' = [doomed EXCEPT ![b] = {}] /\ got' = [got EXCEPT ![b] = {}]
      /\ aborts' = aborts + 1
  BY DEF Abort
<1>2. BuildShape'
  <2>1. aborts' \in Nat
    BY <1>1 DEF BuildInv, BuildShape
  <2>2. bpc' \in [Builders -> {"idle", "delete", "write"}]
    BY <1>1 DEF BuildInv, BuildShape
  <2>3. doomed' = [o \in Builders |-> doomed'[o]] /\ got' = [o \in Builders |-> got'[o]]
    BY <1>1 DEF BuildInv, BuildShape
  <2>. QED  BY <2>1, <2>2, <2>3 DEF BuildShape
<1>3. ReadInv' /\ KeptInv'
  BY <1>1 DEF BuildInv, BuildShape, ReadInv, KeptInv
<1>4. AloneInv'
  BY <1>1 DEF BuildInv, BuildShape, AloneInv, Deletable
<1>. QED  BY <1>1, <1>2, <1>3, <1>4, TableKept DEF BuildInv

(* A commit: what it leaves of the table before it is sound; what it adds  *)
(* is the outcome of one rebuild; if it was alone, nothing of the former   *)
(* rebuilds is left.                                                       *)
LEMMA CommitInv ==
    ASSUME BuildInv, NEW b \in Builders, NEW chosen \in Chosen(got[b]),
           bpc[b] = "write", CommitBuild(b, chosen)
    PROVE  BuildInv'
<1>. DEFINE n == Min(FreeBuilds)
            built == BuiltRows(n, got[b], chosen)
<1>1. /\ events' = (events \ doomed[b]) \cup built
      /\ whole' = alone[b]
      /\ bpc' = [bpc EXCEPT ![b] = "idle"]
      /\ doomed' = [doomed EXCEPT ![b] = {}] /\ got' = [got EXCEPT ![b] = {}]
      /\ UNCHANGED <<live, day, aborts, alone>>
  BY DEF CommitBuild
<1>2. /\ \A x \in built :
            /\ x.build = n
            /\ x.exposure <= Total(UNION {HeldBy(c) : c \in x.clients})
      /\ \A x, y \in built : x.key = y.key => x = y \/ x.key = None
  <2>1. got[b] \in SUBSET Sources
    BY DEF BuildInv, ReadInv
  <2>. HIDE DEF n
  <2>. QED  BY <2>1, BuiltRowsOf
<1>. HIDE DEF built
<1>3. BuildShape' /\ ReadInv' /\ KeptInv'
  BY <1>1 DEF BuildInv, BuildShape, ReadInv, KeptInv
<1>4. AloneInv'
  <2>. SUFFICES ASSUME NEW x \in Builders, alone'[x], bpc'[x] # "idle"
                PROVE  FALSE
    BY DEF AloneInv
  <2>1. x # b /\ bpc[x] # "idle" /\ alone[x]
    BY <1>1 DEF BuildInv, BuildShape
  <2>2. bpc[b] = "idle"
    BY <2>1 DEF BuildInv, AloneInv
  <2>. QED  BY <2>2
<1>5. WholeSnapshot'
  <2>1. ASSUME whole'
        PROVE  events' \ Pinned \subseteq built
    <3>1. doomed[b] = Deletable
      BY <1>1, <2>1 DEF BuildInv, AloneInv
    <3>. QED  BY <1>1, <3>1, DeletableRows
  <2>. QED  BY <1>2, <1>3, <2>1 DEF WholeSnapshot, KeptInv
<1>6. CountedOnce'
  BY <1>1, <1>2 DEF BuildInv, TableSound, CountedOnce, Total, HeldBy
<1>. QED  BY <1>3, <1>4, <1>5, <1>6 DEF BuildInv, TableSound

-----------------------------------------------------------------------------
(* What a rebuild of its own accord, or the world, does to the table.      *)
LEMMA BuildStepInv ==
    ASSUME BuildInv, BuildStep
    PROVE  BuildInv'
<1>1. ASSUME NEW s \in Sources, Appear(s) \/ Vanish(s)
      PROVE  BuildInv'
  BY <1>1, AppearInv
<1>2. ASSUME NEW b \in Builders, Begin(b) \/ DeleteAndRead(b) \/ Abort(b)
      PROVE  BuildInv'
  BY <1>2, BeginInv, DeleteInv, AbortInv
<1>3. ASSUME NEW b \in Builders, Commits(b)
      PROVE  BuildInv'
  BY <1>3, CommitInv DEF Commits, Chosen
<1>. QED  BY <1>1, <1>2, <1>3 DEF BuildStep, World, Rebuild, Proceed

LEMMA NewDayInv ==
    ASSUME BuildInv, UNCHANGED <<events, buildVars>>, day' \in Nat, day' >= day
    PROVE  BuildInv'
<1>1. live \cup UNION {got[b] : b \in Builders} \subseteq Sources
  BY DEF BuildInv, ReadInv
<1>2. ReadInv'
  <2>1. \A s \in Sources : s.day \in Nat
    BY BuildAssumption DEF IsSource
  <2>. QED  BY <2>1 DEF BuildInv, ReadInv, buildVars
<1>3. BuildShape' /\ KeptInv' /\ AloneInv'
  BY DEF BuildInv, BuildShape, KeptInv, AloneInv, Deletable, buildVars
<1>. QED  BY <1>2, <1>3, TableKept DEF BuildInv, buildVars

(* The process is restarted under the rebuilds.                            *)
LEMMA EndedInv ==
    ASSUME BuildInv, UNCHANGED <<events, day, live, aborts, alone, whole>>,
           bpc' = [b \in Builders |-> "idle"],
           doomed' = [b \in Builders |-> {}], got' = [b \in Builders |-> {}]
    PROVE  BuildInv'
<1>1. BuildShape' /\ KeptInv' /\ AloneInv' /\ ReadInv'
  BY DEF BuildInv, BuildShape, KeptInv, AloneInv, ReadInv
<1>. QED  BY <1>1, TableKept DEF BuildInv

LEMMA BuildInductive == BuildSpec => []BuildInv
<1>1. BuildInit => BuildInv
  BY BuildInitInv
<1>2. BuildInv /\ [BuildNext]_<<events, day, buildVars>> => BuildInv'
  <2>. SUFFICES ASSUME BuildInv, [BuildNext]_<<events, day, buildVars>>
                PROVE  BuildInv'
    OBVIOUS
  <2>1. CASE NewDay
    BY <2>1, NewDayInv DEF NewDay, BuildInv, ReadInv
  <2>2. CASE UNCHANGED <<events, day, buildVars>>
    BY <2>2, NewDayInv DEF BuildInv, ReadInv
  <2>. QED  BY <2>1, <2>2, BuildStepInv DEF BuildNext
<1>. QED  BY <1>1, <1>2, PTL DEF BuildSpec

(* Rebuilding over each other and over failures leaves a table that one    *)
(* rebuild could have made by itself, with every franc in it once and the  *)
(* demo rows in it, for any sources, positions, builders and demo rows.    *)
THEOREM TableTheorem == BuildSpec => []TableSound
<1>1. BuildInv => TableSound
  BY DEF BuildInv
<1>. QED  BY BuildInductive, <1>1, PTL

(* Every alert a rebuild has read is in the rows it builds.                *)
LEMMA AllRepresented ==
    ASSUME NEW S \in SUBSET Sources, NEW chosen \in Chosen(S), NEW n,
           NEW a \in PlainAlerts(S)
    PROVE  Represented(a, BuiltRows(n, S, chosen))
<1>1. CASE EntityOf(a) = None
  <2>1. UnresolvedRow(n, a) \in BuiltRows(n, S, chosen)
    BY <1>1 DEF Unresolvable, Resolvable, BuiltRows
  <2>2. UnresolvedRow(n, a).about = a
    BY DEF UnresolvedRow, Row
  <2>. QED  BY <1>1, <2>1, <2>2 DEF Represented
<1>2. CASE EntityOf(a) # None
  <2>1. AlertSignal(a) \in Signals(S)
    BY <1>2 DEF Resolvable, Signals
  <2>2. PICK t \in chosen : SamePair(AlertSignal(a), t)
    BY <2>1, ChosenCover
  <2>3. t.key = EntityOf(a) /\ t.client = a.client
    BY <2>2 DEF SamePair, AlertSignal, Signal
  <2>. DEFINE G == {s \in chosen : s.key = t.key}
  <2>4. G \in Groups(chosen) /\ t \in G
    BY DEF Groups
  <2>5. EntityRow(n, G) \in BuiltRows(n, S, chosen)
    BY <2>4 DEF BuiltRows
  <2>6. EntityRow(n, G).key = EntityOf(a)
    BY <2>3, <2>4, GroupOf DEF EntityRow, Row
  <2>7. a.client \in EntityRow(n, G).clients
    BY <2>3, <2>4 DEF EntityRow, Row
  <2>. QED  BY <1>2, <2>5, <2>6, <2>7 DEF Represented
<1>. QED  BY <1>1, <1>2

Dropless ==
    \A b \in Builders :
        (bpc[b] = "write" /\ bpc'[b] = "idle" /\ aborts' = aborts)
            => \A a \in PlainAlerts(got[b]) : Represented(a, events')

LEMMA StepDropless ==
    ASSUME BuildInv, BuildStep
    PROVE  Dropless
<1>. SUFFICES ASSUME NEW b \in Builders, bpc[b] = "write", bpc'[b] = "idle",
                     aborts' = aborts, NEW a \in PlainAlerts(got[b])
              PROVE  Represented(a, events')
  BY DEF Dropless
<1>1. ~\E s \in Sources : Appear(s) \/ Vanish(s)
  BY DEF Appear, Vanish
<1>2. PICK o \in Builders : Rebuild(o) \/ Abort(o)
  BY <1>1 DEF BuildStep, World
<1>3. ~Abort(o)
  BY DEF Abort, BuildInv, BuildShape
<1>4. ~Begin(o) /\ ~DeleteAndRead(o)
  BY DEF Begin, DeleteAndRead, BuildInv, BuildShape
<1>5. PICK chosen \in Chosen(got[o]) : CommitBuild(o, chosen)
  BY <1>2, <1>3, <1>4 DEF Rebuild, Proceed, Commits, Chosen
<1>6. o = b
  BY <1>5 DEF CommitBuild, BuildInv, BuildShape
<1>7. BuiltRows(Min(FreeBuilds), got[b], chosen) \subseteq events'
  BY <1>5, <1>6 DEF CommitBuild
<1>8. Represented(a, BuiltRows(Min(FreeBuilds), got[b], chosen))
  BY <1>5, <1>6, AllRepresented DEF BuildInv, ReadInv
<1>. QED  BY <1>7, <1>8 DEF Represented

(* No rebuild drops an alert it has read, other than those on news: each   *)
(* is a client of its entity's row or a row of its own.                    *)
THEOREM NothingDroppedTheorem == BuildSpec => NothingDropped
<1>1. BuildInv /\ [BuildNext]_<<events, day, buildVars>> => [Dropless]_events
  BY StepDropless DEF BuildNext, NewDay
<1>2. [Dropless]_events => [\A b \in Builders :
          (bpc[b] = "write" /\ bpc'[b] = "idle" /\ aborts' = aborts)
             => \A a \in PlainAlerts(got[b]) : Represented(a, events')]_events
  BY DEF Dropless
<1>. QED  BY BuildInductive, <1>1, <1>2, PTL DEF BuildSpec, NothingDropped

-----------------------------------------------------------------------------
(***************************************************************************)
(* Builder and dispatcher together.                                        *)
(***************************************************************************)

(* Every signal has a key the ledger may hold.                             *)
LEMMA SignalKeys ==
    ASSUME NEW S \in SUBSET Sources, NEW s \in Signals(S)
    PROVE  s.key \in Keys
<1>1. ASSUME NEW x \in S
      PROVE  IF x.kind = "alert" THEN EntityOf(x) \in Keys \cup {None}
             ELSE x.key \in Keys
  BY RadarBuildAssumption
<1>2. ASSUME NEW a \in Resolvable(S), s = AlertSignal(a)
      PROVE  s.key \in Keys
  <2>1. a \in S /\ a.kind = "alert" /\ EntityOf(a) # None
    BY DEF Resolvable, PlainAlerts, Kind
  <2>. QED  BY <1>1, <1>2, <2>1 DEF AlertSignal, Signal
<1>3. ASSUME NEW n \in Kind(S, "news"), s \in NewsSignals(n, S)
      PROVE  s.key \in Keys
  <2>1. n \in S /\ n.kind = "news"
    BY DEF Kind
  <2>2. s.key = n.key
    BY <1>3 DEF NewsSignals, NewsSignal, Signal
  <2>. QED  BY <1>1, <2>1, <2>2
<1>4. ASSUME NEW e \in Kind(S, "email"), s = EmailSignal(e)
      PROVE  s.key \in Keys
  <2>1. e \in S /\ e.kind = "email"
    BY DEF Kind
  <2>. QED  BY <1>1, <1>4, <2>1 DEF EmailSignal, Signal
<1>5. \/ \E a \in Resolvable(S) : s = AlertSignal(a)
      \/ \E n \in Kind(S, "news") : s \in NewsSignals(n, S)
      \/ \E e \in Kind(S, "email") : s = EmailSignal(e)
  BY DEF Signals
<1>. QED  BY <1>2, <1>3, <1>4, <1>5

(* What a rebuild writes is what the dispatcher expects to read, its       *)
(* impact faded by an age there is a weight for.                           *)
LEMMA RowsOf ==
    ASSUME NEW S \in SUBSET Sources, NEW chosen \in Chosen(S), NEW n,
           day \in 0..MaxDays, \A x \in S : x.day <= day,
           NEW row \in BuiltRows(n, S, chosen)
    PROVE  IsRow(row)
<1>. MaxDays \in Nat
  BY RadarAssumption
<1>1. CASE \E a \in Unresolvable(S) : row = UnresolvedRow(n, a)
  BY <1>1 DEF UnresolvedRow, Row, IsRow
<1>2. ASSUME NEW G \in Groups(chosen), row = EntityRow(n, G)
      PROVE  IsRow(row)
  <2>1. G # {} /\ G \in SUBSET Signals(S) /\ IsFiniteSet(G)
    BY GroupOf, ChosenOf, FS_Subset
  <2>2. row.key \in Keys
    <3>1. (CHOOSE s \in G : TRUE) \in G
      BY <2>1
    <3>2. row.key = (CHOOSE s \in G : TRUE).key
      BY <1>2 DEF EntityRow, Row
    <3>. QED  BY <2>1, <3>1, <3>2, SignalKeys
  <2>3. row.magnitude \in Nat
    BY <1>2, EntityRowOf
  <2>4. Latest(G) \in 0..day
    <3>. DEFINE age == [s \in G |-> s.day]
                D == {age[s] : s \in G}
    <3>1. \A s \in G : s.day \in 0..day
      <4>. SUFFICES ASSUME NEW s \in G
                    PROVE  s.day \in 0..day
        OBVIOUS
      <4>1. PICK x \in S : s.day = x.day
        BY <2>1, SignalsOf
      <4>2. x.day \in Nat
        BY BuildAssumption DEF IsSource
      <4>. QED  BY <4>1, <4>2
    <3>2. D \subseteq 0..day /\ D # {} /\ D = {s.day : s \in G}
      BY <2>1, <3>1
    <3>3. day \in Nat
      OBVIOUS
    <3>. HIDE DEF D
    <3>. QED  BY <3>2, <3>3, Highest DEF Latest
  <2>5. Impact(G) \in Nat
    <3>. DEFINE e == [s \in G |-> Exposure(s) * s.magnitude * s.relevance]
    <3>1. SumsNat(e, G)
      <4>1. ASSUME NEW s \in G
            PROVE  e[s] \in Nat
        <5>1. Exposure(s) \in Nat /\ s.magnitude \in Nat /\ s.relevance \in Nat
          BY <2>1, SignalsOf, ExposureOf DEF IsSignal
        <5>2. Exposure(s) * s.magnitude \in Nat
          BY <5>1
        <5>. QED  BY <5>1, <5>2
      <4>. QED  BY <2>1, <4>1 DEF SumsNat
    <3>2. SumFunction(e) \in Nat
      BY <3>1, SumChosen DEF SumFunction
    <3>3. Decay[day - Latest(G)] \in Nat
      <4>1. day - Latest(G) \in 0..MaxDays
        BY <2>4
      <4>. QED  BY <4>1, RadarBuildAssumption
    <3>4. Impact(G) = Decay[day - Latest(G)] * SumFunction(e)
      BY DEF Impact
    <3>. HIDE DEF e
    <3>. QED  BY <3>2, <3>3, <3>4
  <2>6. row.impact = Impact(G) /\ row.resolved \in BOOLEAN
    BY <1>2 DEF EntityRow, Row
  <2>. QED  BY <2>2, <2>3, <2>5, <2>6 DEF IsRow
<1>. QED  BY <1>1, <1>2 DEF BuiltRows

LEMMA BuilderRefreshes ==
    ASSUME TypeOK, BuildInv, BuilderStep
    PROVE  Refresh /\ BuildInv'
<1>1. BuildStep /\ UNCHANGED <<ledger, clock, cycleVars, announced, faults>>
  BY DEF BuilderStep, Dispatcher
<1>2. CASE events' = events
  BY <1>1, <1>2, BuildStepInv DEF Refresh, TypeOK
<1>3. ASSUME NEW b \in Builders, NEW chosen \in Chosen(got[b]), CommitBuild(b, chosen)
      PROVE  \A row \in events' : IsRow(row)
  <2>1. got[b] \in SUBSET Sources /\ \A x \in got[b] : x.day <= day
    BY DEF BuildInv, ReadInv
  <2>2. \A row \in BuiltRows(Min(FreeBuilds), got[b], chosen) : IsRow(row)
    BY <2>1, RowsOf DEF TypeOK
  <2>3. events' \subseteq events \cup BuiltRows(Min(FreeBuilds), got[b], chosen)
    BY <1>3 DEF CommitBuild
  <2>. QED  BY <2>2, <2>3 DEF TypeOK
<1>4. \/ events' = events
      \/ \E b \in Builders : \E chosen \in Chosen(got[b]) : CommitBuild(b, chosen)
  BY <1>1 DEF BuildStep, World, Appear, Vanish, Rebuild, Begin, Proceed,
              DeleteAndRead, Commits, Abort, Chosen
<1>. QED  BY <1>1, <1>2, <1>3, <1>4, BuildStepInv DEF Refresh

(* A step of the whole is a step of the dispatcher over a table that may   *)
(* become anything, and keeps what both rest on.                           *)
LEMMA RadarStep ==
    ASSUME TypeOK, BuildInv, [RadarNext]_radarVars
    PROVE  [Next]_vars /\ TypeOK' /\ BuildInv'
<1>1. CASE BuilderStep
  BY <1>1, BuilderRefreshes, StepType DEF Next
<1>2. CASE DispatcherStep
  <2>1. DispatchStep
    BY <1>2 DEF DispatcherStep, DispatchStep
  <2>2. UNCHANGED <<events, buildVars>> /\ day' \in Nat /\ day' >= day
    BY <1>2 DEF DispatcherStep, Tick, Cycle, StartCycle, SkipRow, PushRow,
                SendDigest, CommitCycle, CycleFails, clock, TypeOK
  <2>. QED  BY <2>1, <2>2, StepType, NewDayInv DEF Next
<1>3. CASE RadarRestart
  <2>1. DispatchStep
    BY <1>3 DEF RadarRestart, DispatchStep
  <2>2. UNCHANGED <<events, day>>
    BY <1>3 DEF RadarRestart, Restart, clock
  <2>3. BuildInv'
    BY <1>3, <2>2, EndedInv DEF RadarRestart
  <2>. QED  BY <2>1, <2>3, StepType DEF Next
<1>4. CASE UNCHANGED radarVars
  <2>1. UNCHANGED vars /\ UNCHANGED buildVars
    BY <1>4 DEF radarVars
  <2>2. TypeOK'
    BY <2>1 DEF TypeOK, vars, clock, cycleVars, IsRow
  <2>3. BuildInv'
    BY <2>1, NewDayInv DEF BuildInv, ReadInv, vars, clock
  <2>. QED  BY <2>1, <2>2, <2>3
<1>. QED  BY <1>1, <1>2, <1>3, <1>4 DEF RadarNext

LEMMA RadarInductive == RadarSpec => [](TypeOK /\ BuildInv)
<1>1. RadarInit => TypeOK /\ BuildInv
  BY InitIInv, BuildInitInv DEF RadarInit, IInv
<1>2. TypeOK /\ BuildInv /\ [RadarNext]_radarVars => (TypeOK /\ BuildInv)'
  BY RadarStep
<1>. QED  BY <1>1, <1>2, PTL DEF RadarSpec

(* The radar as it runs implements the dispatcher's specification, where   *)
(* change_events may become any table of well-formed rows.                 *)
THEOREM DispatchRefinement == RadarSpec => DispatchSpec
<1>1. RadarInit => Init
  BY DEF RadarInit
<1>2. TypeOK /\ BuildInv /\ [RadarNext]_radarVars => [Next]_vars
  BY RadarStep
<1>. QED  BY RadarInductive, <1>1, <1>2, PTL DEF RadarSpec, DispatchSpec, Spec

(* So the RM hears of a change once per climb, with the builder that       *)
(* rewrites the table under the dispatcher, and its failures and restarts. *)
THEOREM RadarTellsOnce == RadarSpec => []TellsOnce
<1>. QED  BY DispatchRefinement, TellsOnceTheorem, PTL DEF DispatchSpec

(* And the table is sound at every moment of the composed system: the      *)
(* dispatcher reads whole snapshots, whatever restarts there are.          *)
THEOREM RadarTableSound == RadarSpec => []TableSound
<1>1. BuildInv => TableSound
  BY DEF BuildInv
<1>. QED  BY RadarInductive, <1>1, PTL
=============================================================================
