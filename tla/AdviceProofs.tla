----------------------------- MODULE AdviceProofs -----------------------------
(***************************************************************************)
(* The advice and its drafts, for any book, candidates, profiles, texts    *)
(* and number of requests.                                                 *)
(***************************************************************************)
EXTENDS MessageDraft, SetSums

-----------------------------------------------------------------------------
(* Scores.                                                                 *)

LEMMA TagsFinite ==
    ASSUME NEW x, NEW d
    PROVE  /\ IsFiniteSet(Tags(x) \cap d)
           /\ Cardinality(Tags(x) \cap d) \in Nat
<1>1. /\ IsFiniteSet({"tech"}) /\ IsFiniteSet({"fossil"})
      /\ IsFiniteSet({"us-tech"}) /\ IsFiniteSet({"luxury"})
      /\ IsFiniteSet({"labour-risk"}) /\ IsFiniteSet({})
  BY FS_Singleton, FS_EmptySet
<1>2. {"luxury", "labour-risk"} = {"luxury"} \cup {"labour-risk"}
  OBVIOUS
<1>3. IsFiniteSet({"luxury", "labour-risk"})
  BY <1>1, <1>2, FS_Union
<1>4. IsFiniteSet(IndustryTags(Industry[x]))
  BY <1>1, <1>3 DEF IndustryTags
<1>5. IsFiniteSet(Tags(x))
  <2>1. CASE Industry[x] = "IT" /\ Region[x] = "USA"
    BY <1>1, <1>4, <2>1, FS_Union DEF Tags
  <2>2. CASE ~(Industry[x] = "IT" /\ Region[x] = "USA")
    BY <1>1, <1>4, <2>2, FS_Union DEF Tags
  <2>. QED  BY <2>1, <2>2
<1>. QED  BY <1>5, FS_Intersection, FS_CardinalityType

LEMMA MinOfTwo ==
    ASSUME NEW a \in Int, NEW b \in Int
    PROVE  Min({a, b}) = IF a <= b THEN a ELSE b
  BY DEF Min

(* An excluded value settles the score; without one it is fifty or more.   *)
LEMMA ScoreTells ==
    ASSUME NEW x, NEW d
    PROVE  /\ Tags(x) \cap d.excl # {} => Score(Tags(x), d) = 0
           /\ Tags(x) \cap d.excl = {} =>
                 Score(Tags(x), d) \in Int /\ Score(Tags(x), d) >= 50
<1>1. Cardinality(Tags(x) \cap d.tilts) \in Nat
  BY TagsFinite
<1> DEFINE n == Cardinality(Tags(x) \cap d.tilts)
<1>2. 50 + 25 * n \in Int /\ 50 + 25 * n >= 50
  BY <1>1
<1>3. ASSUME NEW m \in Int, m >= 50
      PROVE  Min({100, m}) \in Int /\ Min({100, m}) >= 50
  BY <1>3, MinOfTwo, 100 \in Int
<1>4. Min({100, 50 + 25 * n}) \in Int /\ Min({100, 50 + 25 * n}) >= 50
  BY <1>2, <1>3
<1>. QED  BY <1>4 DEF Score

(* Who excludes more and tilts to less scores nothing higher.              *)
LEMMA ScoreFalls ==
    ASSUME NEW x, NEW d, NEW e, d.excl \subseteq e.excl,
           e.tilts \subseteq d.tilts
    PROVE  /\ Score(Tags(x), d) \in Nat /\ Score(Tags(x), e) \in Nat
           /\ Score(Tags(x), e) <= Score(Tags(x), d)
<1>1. \A c \in {d, e} : Score(Tags(x), c) \in Nat
  <2>1. ASSUME NEW c PROVE Score(Tags(x), c) \in Nat
    <3>1. CASE Tags(x) \cap c.excl # {}
      BY <3>1, ScoreTells
    <3>2. CASE Tags(x) \cap c.excl = {}
      BY <3>2, ScoreTells
    <3>. QED  BY <3>1, <3>2
  <2>. QED  BY <2>1
<1>2. CASE Tags(x) \cap e.excl # {}
  <2>1. Score(Tags(x), e) = 0
    BY <1>2, ScoreTells
  <2>. QED  BY <1>1, <2>1
<1>3. CASE Tags(x) \cap e.excl = {}
  <2> DEFINE n == Cardinality(Tags(x) \cap d.tilts)
             m == Cardinality(Tags(x) \cap e.tilts)
  <2>1. m \in Nat /\ n \in Nat /\ m <= n
    <3>1. Tags(x) \cap e.tilts \subseteq Tags(x) \cap d.tilts
      OBVIOUS
    <3>. QED  BY <3>1, TagsFinite, FS_Subset
  <2>2. Tags(x) \cap d.excl = {}
    BY <1>3
  <2>3. /\ Score(Tags(x), d) = Min({100, 50 + 25 * n})
        /\ Score(Tags(x), e) = Min({100, 50 + 25 * m})
    BY <1>3, <2>2 DEF Score
  <2>4. \A a \in Nat : Min({100, a}) = IF 100 <= a THEN 100 ELSE a
    BY MinOfTwo, 100 \in Int
  <2>5. 50 + 25 * n \in Nat /\ 50 + 25 * m \in Nat /\ 50 + 25 * m <= 50 + 25 * n
    BY <2>1
  <2>. HIDE DEF n, m
  <2>6. /\ Min({100, 50 + 25 * n}) = IF 100 <= 50 + 25 * n THEN 100 ELSE 50 + 25 * n
        /\ Min({100, 50 + 25 * m}) = IF 100 <= 50 + 25 * m THEN 100 ELSE 50 + 25 * m
    BY <2>4, <2>5
  <2>7. Min({100, 50 + 25 * m}) <= Min({100, 50 + 25 * n})
    BY <2>1, <2>5, <2>6
  <2>. QED  BY <1>1, <2>3, <2>7
<1>. QED  BY <1>1, <1>2, <1>3

-----------------------------------------------------------------------------
(* What a request holds.  A profile is known by its version: whoever holds *)
(* one of the same version holds the same.  A holding in conflict, read    *)
(* with scores of the sheet's own profile, has a tag that profile excludes;*)
(* a run deletes rows of the positions it answers.                         *)

Reading == {"fit", "swap", "delete", "insert", "sheet", "best"}

Sound(w) ==
    /\ w \in [op : {w.op}, dna : {w.dna}, ps : {w.ps}, got : {w.got},
              id : {w.id}]
    /\ w.op = "best" /\ w.id = w.dna.ver =>
          \A f \in w.got : f.score = 0 => f.tags \cap w.dna.excl # {}
    /\ w.op = "insert" => \A s \in w.got : s.pos \in w.ps
    /\ w.op = "sheet" => w.ps \cap Positions # {}

RunInv ==
    /\ run = [r \in Requests |-> run[r]]
    /\ \A r \in Requests : Sound(run[r])

Known(d) == d.ver \in Nat /\ d.ver <= dna.ver /\ (d.ver = dna.ver => d = dna)

VersionInv ==
    /\ dna.ver \in Nat \ {0}
    /\ Known(fitFor)
    /\ \A r \in Requests : run[r].op \in Reading =>
          /\ Known(run[r].dna)
          /\ fitFor.ver = run[r].dna.ver => fitFor = run[r].dna
    /\ \A q, r \in Requests :
          /\ run[q].op \in Reading /\ run[r].op \in Reading
          /\ run[q].dna.ver = run[r].dna.ver
          => run[q].dna = run[r].dna

(* A holding in conflict has a tag that the profile of its score excludes. *)
FitInv ==
    \A p \in Positions :
        fit[p].score = 0 => fit[p].tags \cap fitFor.excl # {}

BaseInv == RunInv /\ VersionInv /\ FitInv

(* A request moves on with what it has read, with a fresh reading, or with *)
(* no profile; scores and DNA stay.                                        *)
Goes(r, w) ==
    \/ w.op \notin Reading
    \/ w.dna = dna
    \/ run[r].op \in Reading /\ w.dna = run[r].dna

Moves(r) ==
    /\ Becomes(r, run'[r]) /\ Sound(run'[r]) /\ Goes(r, run'[r])
    /\ UNCHANGED <<dna, fitVars>>

LEMMA Moved ==
    ASSUME BaseInv, NEW r \in Requests, NEW w, Becomes(r, w), Sound(w),
           Goes(r, w), UNCHANGED <<dna, fitVars>>
    PROVE  Moves(r)
<1>1. run'[r] = w
  BY DEF BaseInv, RunInv, Becomes
<1>. QED  BY <1>1 DEF Moves, Goes

LEMMA WorkingSound ==
    ASSUME NEW op, NEW d, NEW ps, NEW got, NEW id,
           op \notin {"best", "insert", "sheet"}
    PROVE  /\ Sound(Working(op, d, ps, got, id))
           /\ Working(op, d, ps, got, id).op = op
           /\ Working(op, d, ps, got, id).dna = d
  BY DEF Sound, Working

LEMMA NothingSound == Sound(Nothing) /\ Nothing.op = "idle"
  BY WorkingSound DEF Nothing

LEMMA BaseInit == Init => BaseInv
<1>. SUFFICES ASSUME Init PROVE BaseInv
  OBVIOUS
<1>1. /\ run = [r \in Requests |-> Nothing]
      /\ fit = [p \in Positions |-> NoFit] /\ fitFor = Blank
      /\ dna.ver = 1
  BY DEF Init, SwapInit, Dna
<1>2. RunInv
  BY <1>1, NothingSound DEF RunInv
<1>3. VersionInv
  BY <1>1, NothingSound DEF VersionInv, Known, Blank, Reading
<1>4. FitInv
  BY <1>1 DEF FitInv, NoFit
<1>. QED  BY <1>2, <1>3, <1>4 DEF BaseInv

LEMMA BaseMoves == ASSUME BaseInv, NEW r \in Requests, Moves(r) PROVE BaseInv'
<1>. USE DEF BaseInv
<1> DEFINE w == run'[r]
<1>1. /\ Sound(w) /\ Goes(r, w) /\ run' = [run EXCEPT ![r] = w]
      /\ dna' = dna /\ fit' = fit /\ fitFor' = fitFor
  BY DEF Moves, Becomes, fitVars
<1>. HIDE DEF w
<1>2. run'[r] = w /\ \A q \in Requests \ {r} : run'[q] = run[q]
  BY <1>1 DEF RunInv
<1>3. RunInv'
  <2>1. run' = [q \in Requests |-> run'[q]]
    BY <1>1 DEF RunInv
  <2>. QED  BY <1>1, <1>2, <2>1 DEF RunInv, Sound
<1>4. VersionInv'
  <2>1. w.op \in Reading =>
           /\ Known(w.dna)
           /\ fitFor.ver = w.dna.ver => fitFor = w.dna
           /\ \A q \in Requests : /\ run[q].op \in Reading
                                  /\ run[q].dna.ver = w.dna.ver
                                  => run[q].dna = w.dna
    BY <1>1 DEF Goes, VersionInv, Known
  <2>. QED  BY <1>1, <1>2, <2>1 DEF VersionInv, Known
<1>5. FitInv'
  BY <1>1 DEF FitInv
<1>. QED  BY <1>3, <1>4, <1>5

LEMMA BaseFit ==
    ASSUME BaseInv, NEW r \in Requests, NEW next \in {"idle", "toswap"},
           FitCommit(r, next)
    PROVE  BaseInv'
<1>. USE DEF BaseInv
<1> DEFINE w == Working(next, Blank, {}, {}, 0)
           d == run[r].dna
<1>1. /\ run[r].op = "fit" /\ dna' = dna /\ fitFor' = d
      /\ fit' = [p \in Positions |-> [score |-> Score(Tags(p), d),
                                      tags |-> Tags(p) \cap d.excl]]
      /\ run' = [run EXCEPT ![r] = w]
  BY DEF FitCommit, Becomes
<1>2. Sound(w) /\ w.op \notin Reading
  BY WorkingSound DEF Reading
<1>. HIDE DEF w, d
<1>3. run'[r] = w /\ \A q \in Requests \ {r} : run'[q] = run[q]
  BY <1>1 DEF RunInv
<1>4. RunInv'
  <2>1. run' = [q \in Requests |-> run'[q]]
    BY <1>1 DEF RunInv
  <2>. QED  BY <1>2, <1>3, <2>1 DEF RunInv, Sound
<1>5. VersionInv'
  <2>1. /\ Known(d)
        /\ \A q \in Requests : run[q].op \in Reading /\ run[q].dna.ver = d.ver
                               => run[q].dna = d
    BY <1>1 DEF VersionInv, Reading, d
  <2>. QED  BY <1>1, <1>2, <1>3, <2>1 DEF VersionInv, Known
<1>6. FitInv'
  <2>1. ASSUME NEW p \in Positions, Score(Tags(p), d) = 0
        PROVE  Tags(p) \cap d.excl # {}
    BY <2>1, ScoreTells
  <2>2. \A p \in Positions : fit'[p] = [score |-> Score(Tags(p), d),
                                        tags |-> Tags(p) \cap d.excl]
    BY <1>1
  <2>. QED  BY <1>1, <2>1, <2>2 DEF FitInv
<1>. QED  BY <1>4, <1>5, <1>6

LEMMA BaseChange ==
    ASSUME BaseInv, NEW d \in Profiles, ChangeDna(d)
    PROVE  BaseInv'
<1>. USE DEF BaseInv
<1>1. dna'.ver = dna.ver + 1 /\ UNCHANGED <<fit, fitFor, run>>
  BY DEF ChangeDna, Dna, fitVars
<1>2. RunInv'
  BY <1>1 DEF RunInv, Sound
<1>3. VersionInv'
  BY <1>1 DEF VersionInv, Known
<1>4. FitInv'
  BY <1>1 DEF FitInv
<1>. QED  BY <1>2, <1>3, <1>4

(* Every step of the system but a change of the DNA and a new score is a   *)
(* request that moves, or touches neither.                                 *)
LEMMA SwapMoves ==
    ASSUME BaseInv, NEW r \in Requests,
           \/ FitRead(r) \/ SwapRead(r) \/ SwapConflicts(r)
           \/ SwapDelete(r) \/ SwapCommit(r) \/ RunFails(r)
    PROVE  Moves(r)
<1>. USE DEF BaseInv
<1>1. Sound(run[r])
  BY DEF RunInv
<1>2. CASE FitRead(r)
  BY <1>2, Moved, WorkingSound DEF FitRead, Goes
<1>3. CASE SwapRead(r)
  BY <1>3, Moved, WorkingSound DEF SwapRead, Goes
<1>4. CASE SwapConflicts(r)
  <2> DEFINE ps == {p \in Positions : fit[p].score = 0}
             w == [run[r] EXCEPT !.op = "delete", !.ps = ps]
  <2>0. w.op = "delete" /\ w.dna = run[r].dna
    BY <1>1 DEF Sound
  <2>1. Sound(w) /\ Goes(r, w)
    BY <1>1, <1>4, <2>0 DEF Sound, Goes, SwapConflicts, Reading
  <2>2. CASE ps = {}
    BY <1>4, <2>2, Moved, NothingSound DEF SwapConflicts, Goes, Reading
  <2>3. CASE ps # {}
    BY <1>4, <2>1, <2>3, Moved DEF SwapConflicts
  <2>. QED  BY <2>2, <2>3
<1>5. CASE SwapDelete(r)
  <2> DEFINE w == [run[r] EXCEPT !.op = "insert",
                       !.got = {s \in proposals : s.pos \in run[r].ps}]
  <2>0. /\ w.op = "insert" /\ w.dna = run[r].dna /\ w.ps = run[r].ps
        /\ w.got = {s \in proposals : s.pos \in run[r].ps}
    BY <1>1 DEF Sound
  <2>1. Sound(w) /\ Goes(r, w)
    BY <1>1, <1>5, <2>0 DEF Sound, Goes, SwapDelete, Reading
  <2>. QED  BY <1>5, <2>1, Moved DEF SwapDelete
<1>6. CASE SwapCommit(r) \/ RunFails(r)
  BY <1>6, Moved, NothingSound DEF SwapCommit, RunFails, Goes, Reading
<1>. QED  BY <1>2, <1>3, <1>4, <1>5, <1>6

LEMMA DraftMoves ==
    ASSUME BaseInv, NEW r \in Requests,
           \/ \E p \in Positions : SheetRead(r, p)
           \/ SheetScores(r) \/ Deliver(r) \/ SendCommit(r)
           \/ SheetAlone(r) \/ MessageAgent(r)
           \/ \E said \in Sayings : RenderWrite(r, said)
           \/ \E i \in DOMAIN drafts : RenderRead(r, i) \/ SendRead(r, i)
    PROVE  Moves(r)
<1>. USE DEF BaseInv, AdviceSame
<1>1. Sound(run[r])
  BY DEF RunInv
<1>2. ASSUME NEW p \in Positions, SheetRead(r, p) PROVE Moves(r)
  <2>1. Sound(Working("sheet", dna, {p}, {}, 0))
    BY DEF Sound, Working
  <2>2. Goes(r, Working("sheet", dna, {p}, {}, 0))
    BY DEF Goes, Working
  <2>. QED  BY <1>2, <2>1, <2>2, Moved DEF SheetRead
<1>3. CASE SheetScores(r)
  <2> DEFINE w == [run[r] EXCEPT !.op = "best", !.got = {fit[Anchor(r)]},
                                 !.id = fitFor.ver]
  <2>1. run[r].op = "sheet" /\ Anchor(r) \in Positions
    BY <1>1, <1>3 DEF SheetScores, Sound, Anchor
  <2>2. ASSUME fitFor.ver = run[r].dna.ver, fit[Anchor(r)].score = 0
        PROVE  fit[Anchor(r)].tags \cap run[r].dna.excl # {}
    BY <2>1, <2>2 DEF VersionInv, FitInv, Reading
  <2>5. /\ w.op = "best" /\ w.dna = run[r].dna /\ w.got = {fit[Anchor(r)]}
        /\ w.id = fitFor.ver
    BY <1>1 DEF Sound
  <2>3. Sound(w)
    BY <1>1, <2>2, <2>5 DEF Sound
  <2>4. Goes(r, w)
    BY <1>1, <2>1 DEF Goes, Sound, Working, Reading
  <2>. QED  BY <1>3, <2>3, <2>4, Moved DEF SheetScores
<1>4. CASE Deliver(r)
  <2> DEFINE w == [run[r] EXCEPT !.op = "mark"]
  <2>1. Sound(w) /\ Goes(r, w)
    BY <1>1 DEF Sound, Working, Goes, Reading
  <2>. QED  BY <1>4, <2>1, Moved DEF Deliver
<1>5. CASE SendCommit(r)
  BY <1>5, Moved, NothingSound DEF SendCommit, Goes, Reading
<1>6. CASE SheetAlone(r)
  BY <1>6, Moved, NothingSound DEF SheetAlone, SheetCommit, Goes, Reading
<1>7. CASE MessageAgent(r)
  BY <1>7, Moved, WorkingSound DEF MessageAgent, SheetCommit, Goes, Reading
<1>8. ASSUME NEW said \in Sayings, RenderWrite(r, said) PROVE Moves(r)
  BY <1>8, Moved, NothingSound DEF RenderWrite, Goes, Reading
<1>9. ASSUME NEW i \in DOMAIN drafts, RenderRead(r, i) PROVE Moves(r)
  BY <1>9, Moved, WorkingSound DEF RenderRead, Goes, Reading
<1>10. ASSUME NEW i \in DOMAIN drafts, SendRead(r, i) PROVE Moves(r)
  BY <1>10, Moved, WorkingSound DEF SendRead, Mailing, Goes, Reading
<1>. QED  BY <1>2, <1>3, <1>4, <1>5, <1>6, <1>7, <1>8, <1>9, <1>10

LEMMA BaseStep == BaseInv /\ [Next]_vars => BaseInv'
<1>. SUFFICES ASSUME BaseInv, [Next]_vars PROVE BaseInv'
  OBVIOUS
<1>1. CASE UNCHANGED <<dna, fitVars, run>>
  BY <1>1 DEF BaseInv, RunInv, Sound, VersionInv, Known, FitInv, fitVars
<1>2. CASE SwapNext
  <2>1. ASSUME NEW r \in Requests, FitAlone(r) \/ PortfolioAgent(r)
        PROVE  BaseInv'
    BY <2>1, BaseFit DEF FitAlone, PortfolioAgent
  <2>. QED  BY <1>2, <2>1, BaseChange, BaseMoves, SwapMoves DEF SwapNext
<1>3. CASE DraftStep
  <2>1. ASSUME NEW i \in DOMAIN drafts,
               \/ Approve(i) \/ Edit(i, {}, "none")
               \/ \E said \in Sayings : Edit(i, said, "rm")
        PROVE  BaseInv'
    BY <1>1, <2>1 DEF Approve, Edit, AdviceSame
  <2>. QED  BY <1>3, <2>1, BaseMoves, DraftMoves DEF DraftStep
<1>4. CASE UNCHANGED vars
  BY <1>1, <1>4 DEF vars
<1>. QED  BY <1>2, <1>3, <1>4 DEF Next, AdviceStep

LEMMA BaseInvariant == Spec => []BaseInv
<1>. QED  BY BaseInit, BaseStep, PTL DEF Spec

-----------------------------------------------------------------------------
(* The proposals.  Of the current DNA are only those of runs that read it. *)
OfferInv ==
    /\ \A s \in proposals : s.ver \in Nat /\ s.ver <= dna.ver
    /\ OfferSound

(* What a run answers for a position is right for the DNA it has read.     *)
LEMMA AnswerSound ==
    ASSUME NEW p, NEW w, NEW s \in Answer(p, w)
    PROVE  /\ s.pos = p /\ s.ver = w.dna.ver
           /\ s.cand # Keep => Tags(s.cand) \cap w.dna.excl = {}
           /\ s.cand = Keep =>
                 \A c \in Candidates \ Held :
                     Same(c, p) => Tags(c) \cap w.dna.excl # {}
<1>1. CASE Offered(p, w.dna) = {}
  <2>1. s = Row(p, Keep, 0, w)
    BY <1>1 DEF Answer
  <2>2. ASSUME NEW c \in Candidates \ Held, Same(c, p)
        PROVE  Tags(c) \cap w.dna.excl # {}
    <3>1. ~(Score(Tags(c), w.dna) > 10)
      BY <1>1, <2>2 DEF Offered
    <3>. QED  BY <3>1, ScoreTells
  <2>. QED  BY <2>1, <2>2 DEF Row
<1>2. CASE Offered(p, w.dna) # {}
  <2>1. PICK c \in Offered(p, w.dna) : s = Row(p, c, Score(Tags(c), w.dna), w)
    BY <1>2 DEF Answer
  <2>2. c \in Candidates /\ Score(Tags(c), w.dna) > 10
    BY DEF Offered
  <2>3. Tags(c) \cap w.dna.excl = {}
    BY <2>2, ScoreTells
  <2>. QED  BY <2>1, <2>2, <2>3, SwapAssumption DEF Row
<1>. QED  BY <1>1, <1>2

(* No position is left out.                                                *)
LEMMA AnswerGiven ==
    ASSUME NEW p, NEW w
    PROVE  \E s \in Answer(p, w) : s.pos = p
<1>1. CASE Offered(p, w.dna) = {}
  BY <1>1 DEF Answer, Row
<1>2. CASE Offered(p, w.dna) # {}
  <2>1. PICK c \in Offered(p, w.dna) : TRUE
    BY <1>2
  <2>2. Row(p, c, Score(Tags(c), w.dna), w) \in Answer(p, w)
    BY <1>2, <2>1 DEF Answer
  <2>. QED  BY <2>2 DEF Row
<1>. QED  BY <1>1, <1>2

(* Only two steps touch the DNA or the proposals.                          *)
LEMMA ProposalSteps ==
    ASSUME [Next]_vars
    PROVE  \/ UNCHANGED <<dna, proposals>>
           \/ \E d \in Profiles : ChangeDna(d)
           \/ \E r \in Requests : SwapCommit(r)
<1>1. CASE SwapNext
  <2>1. ASSUME NEW r \in Requests,
               \/ FitRead(r) \/ SwapRead(r) \/ SwapConflicts(r)
               \/ FitAlone(r) \/ PortfolioAgent(r)
               \/ SwapDelete(r) \/ RunFails(r)
        PROVE  UNCHANGED <<dna, proposals>>
    BY <2>1 DEF FitRead, SwapRead, SwapConflicts, FitAlone, PortfolioAgent,
                FitCommit, SwapDelete, RunFails, swapVars
  <2>. QED  BY <1>1, <2>1 DEF SwapNext
<1>2. CASE DraftStep
  <2>1. AdviceSame
    BY <1>2 DEF DraftStep, SheetRead, SheetScores, Deliver, SendCommit,
                SheetAlone, MessageAgent, SheetCommit, RenderWrite, RenderRead,
                SendRead, Approve, Edit
  <2>. QED  BY <2>1 DEF AdviceSame, swapVars
<1>3. CASE UNCHANGED vars
  BY <1>3 DEF vars, swapVars
<1>. QED  BY <1>1, <1>2, <1>3 DEF Next, AdviceStep

LEMMA OfferInit == Init => OfferInv
  BY DEF Init, SwapInit, OfferInv, OfferSound, OfferAllowed, KeepMeansNone,
         ShownSwaps

LEMMA OfferStep == BaseInv /\ OfferInv /\ [Next]_vars => OfferInv'
<1>. SUFFICES ASSUME BaseInv, OfferInv, [Next]_vars PROVE OfferInv'
  OBVIOUS
<1>1. CASE UNCHANGED <<dna, proposals>>
  BY <1>1 DEF OfferInv, OfferSound, OfferAllowed, KeepMeansNone, ShownSwaps
<1>2. ASSUME NEW d \in Profiles, ChangeDna(d) PROVE OfferInv'
  <2>1. dna'.ver = dna.ver + 1 /\ proposals' = proposals /\ dna.ver \in Nat
    BY <1>2 DEF ChangeDna, Dna, swapVars, BaseInv, VersionInv
  <2>2. \A s \in proposals' : s.ver \in Nat /\ s.ver < dna'.ver
    BY <2>1 DEF OfferInv
  <2>. QED  BY <2>1, <2>2 DEF OfferInv, OfferSound, OfferAllowed, KeepMeansNone,
                              ShownSwaps
<1>3. ASSUME NEW r \in Requests, SwapCommit(r) PROVE OfferInv'
  <2> DEFINE w == [run[r] EXCEPT !.id = FreshId]
             d == run[r].dna
  <2>1. w.dna = d
    BY DEF BaseInv, RunInv, Sound
  <2>2. /\ dna' = dna
        /\ \A s \in proposals' : \/ s \in proposals
                                 \/ \E p \in w.ps : s \in Answer(p, w)
    BY <1>3 DEF SwapCommit
  <2>3. Known(d)
    BY <1>3 DEF SwapCommit, BaseInv, VersionInv, Reading
  <2>. HIDE DEF w, d
  <2>4. ASSUME NEW s \in proposals', s \notin proposals
        PROVE  /\ s.ver = d.ver
               /\ s.cand # Keep => Tags(s.cand) \cap d.excl = {}
               /\ s.cand = Keep =>
                     \A c \in Candidates \ Held :
                         Same(c, s.pos) => Tags(c) \cap d.excl # {}
    <3>1. PICK p \in w.ps : s \in Answer(p, w)
      BY <2>2, <2>4
    <3>. QED  BY <2>1, <3>1, AnswerSound
  <2>5. \A s \in proposals' : s.ver \in Nat /\ s.ver <= dna'.ver
    BY <2>2, <2>3, <2>4 DEF OfferInv, Known
  <2>6. OfferAllowed'
    BY <2>2, <2>3, <2>4 DEF OfferInv, OfferSound, OfferAllowed, ShownSwaps,
                            Known
  <2>7. KeepMeansNone'
    BY <2>2, <2>3, <2>4 DEF OfferInv, OfferSound, KeepMeansNone, Known
  <2>. QED  BY <2>5, <2>6, <2>7 DEF OfferInv, OfferSound
<1>. QED  BY <1>1, <1>2, <1>3, ProposalSteps

(* No proposal offers what the current DNA excludes, and none keeps a      *)
(* position that a compliant candidate would mend.                         *)
THEOREM OfferTheorem == Spec => []OfferSound
<1>1. OfferInv => OfferSound
  BY DEF OfferInv
<1>. QED  BY <1>1, BaseInit, BaseStep, OfferInit, OfferStep, PTL DEF Spec

LEMMA AnswerKept ==
    ASSUME BaseInv, [Next]_vars, NEW p \in Positions,
           \E s \in proposals : s.pos = p, proposals' # proposals
    PROVE  \E s \in proposals' : s.pos = p
<1>1. PICK r \in Requests : SwapCommit(r)
  BY ProposalSteps DEF ChangeDna, Dna, swapVars
<1> DEFINE w == [run[r] EXCEPT !.id = FreshId]
<1>2. proposals' = (proposals \ w.got) \cup UNION {Answer(q, w) : q \in w.ps}
  BY <1>1 DEF SwapCommit
<1>3. \A s \in w.got : s.pos \in w.ps
  BY <1>1 DEF SwapCommit, BaseInv, RunInv, Sound
<1>. HIDE DEF w
<1>4. CASE p \in w.ps
  BY <1>2, <1>4, AnswerGiven
<1>5. CASE p \notin w.ps
  BY <1>2, <1>3, <1>5
<1>. QED  BY <1>4, <1>5

(* A position that has an answer never loses it, however runs overlap.     *)
THEOREM AnswerTheorem == Spec => AnswerStays
<1>1. BaseInv /\ [Next]_vars =>
        [\A p \in Positions : (\E s \in proposals : s.pos = p)
                                => \E s \in proposals' : s.pos = p]_proposals
  BY AnswerKept
<1>. QED  BY <1>1, BaseInvariant, PTL DEF Spec, AnswerStays

-----------------------------------------------------------------------------
(* One answer.  Unless another run was answering a position, the run that  *)
(* is about to answer it has deleted every row of it.                      *)
Rows(p) == {s \in proposals : s.pos = p}

CrossInv ==
    /\ \A q, r \in Requests :
          q # r /\ run[q].op = "insert" /\ run[r].op = "insert" =>
             run[q].ps \cap run[r].ps \subseteq crossed
    /\ \A r \in Requests : run[r].op = "insert" =>
          \A p \in run[r].ps \ crossed : Rows(p) \subseteq run[r].got
    /\ OneAnswer

(* The answers of one run to one position agree.                           *)
LEMMA AnswersAgree ==
    ASSUME NEW p, NEW w, NEW s \in Answer(p, w), NEW t \in Answer(p, w)
    PROVE  /\ s.cand = Keep <=> t.cand = Keep
           /\ s.cand = t.cand => s = t
<1>1. CASE Offered(p, w.dna) = {}
  BY <1>1 DEF Answer
<1>2. CASE Offered(p, w.dna) # {}
  <2>1. PICK c \in Offered(p, w.dna) : s = Row(p, c, Score(Tags(c), w.dna), w)
    BY <1>2 DEF Answer
  <2>2. PICK d \in Offered(p, w.dna) : t = Row(p, d, Score(Tags(d), w.dna), w)
    BY <1>2 DEF Answer
  <2>3. s.cand = c /\ t.cand = d /\ c # Keep /\ d # Keep
    BY <2>1, <2>2, SwapAssumption DEF Row, Offered
  <2>. QED  BY <2>1, <2>2, <2>3
<1>. QED  BY <1>1, <1>2

LEMMA InsertSteps ==
    ASSUME BaseInv, [Next]_vars
    PROVE  \/ \E r \in Requests : SwapDelete(r) \/ SwapCommit(r)
           \/ /\ UNCHANGED <<proposals, crossed>>
              /\ \A r \in Requests : \/ run'[r] = run[r]
                                     \/ run'[r].op # "insert"
<1> DEFINE Quiet == /\ UNCHANGED <<proposals, crossed>>
                    /\ \A r \in Requests : \/ run'[r] = run[r]
                                           \/ run'[r].op # "insert"
<1>1. ASSUME NEW r \in Requests, Moves(r), UNCHANGED swapVars,
             run'[r].op # "insert"
      PROVE  Quiet
  BY <1>1 DEF Moves, Becomes, BaseInv, RunInv, swapVars
<1>2. ASSUME NEW r \in Requests, NEW w, Becomes(r, w), w.op # "insert",
             UNCHANGED swapVars
      PROVE  Quiet
  BY <1>2 DEF Becomes, BaseInv, RunInv, swapVars
<1>3. ASSUME UNCHANGED swapVars, run' = run PROVE Quiet
  BY <1>3 DEF swapVars
<1>. HIDE DEF Quiet
<1>4. \A op, d, ps, got, id : Working(op, d, ps, got, id).op = op
  BY DEF Working
<1>5. \A r \in Requests : Sound(run[r])
  BY DEF BaseInv, RunInv
<1>6. ASSUME SwapNext
      PROVE  Quiet \/ \E r \in Requests : SwapDelete(r) \/ SwapCommit(r)
  <2>1. ASSUME NEW r \in Requests, FitRead(r) \/ SwapRead(r) \/ RunFails(r)
        PROVE  Quiet
    BY <1>2, <1>4, <2>1, NothingSound DEF FitRead, SwapRead, RunFails
  <2>2. ASSUME NEW r \in Requests, FitAlone(r) \/ PortfolioAgent(r)
        PROVE  Quiet
    BY <1>2, <1>4, <2>2 DEF FitAlone, PortfolioAgent, FitCommit
  <2>3. ASSUME NEW r \in Requests, SwapConflicts(r) PROVE Quiet
    <3>1. \A ps : [run[r] EXCEPT !.op = "delete", !.ps = ps].op = "delete"
      BY <1>5 DEF Sound
    <3>. QED  BY <1>2, <2>3, <3>1, NothingSound DEF SwapConflicts
  <2>4. ASSUME NEW d \in Profiles, ChangeDna(d) PROVE Quiet
    BY <1>3, <2>4 DEF ChangeDna, Dna
  <2>. QED  BY <1>6, <2>1, <2>2, <2>3, <2>4 DEF SwapNext
<1>7. ASSUME DraftStep PROVE Quiet
  <2>. USE DEF AdviceSame
  <2>1. ASSUME NEW r \in Requests, NEW p \in Positions, SheetRead(r, p)
        PROVE  Quiet
    BY <1>2, <1>4, <2>1 DEF SheetRead
  <2>2. ASSUME NEW r \in Requests, SheetScores(r) PROVE Quiet
    <3>1. [run[r] EXCEPT !.op = "best", !.got = {fit[Anchor(r)]},
                         !.id = fitFor.ver].op = "best"
      BY <1>5 DEF Sound
    <3>. QED  BY <1>2, <2>2, <3>1 DEF SheetScores
  <2>3. ASSUME NEW r \in Requests, Deliver(r) PROVE Quiet
    <3>1. [run[r] EXCEPT !.op = "mark"].op = "mark"
      BY <1>5 DEF Sound
    <3>. QED  BY <1>2, <2>3, <3>1 DEF Deliver
  <2>4. ASSUME NEW r \in Requests,
               \/ SendCommit(r) \/ SheetAlone(r)
               \/ \E said \in Sayings : RenderWrite(r, said)
        PROVE  Quiet
    BY <1>2, <2>4, NothingSound DEF SendCommit, SheetAlone, SheetCommit,
                                    RenderWrite
  <2>5. ASSUME NEW r \in Requests,
               \/ MessageAgent(r)
               \/ \E i \in DOMAIN drafts : RenderRead(r, i) \/ SendRead(r, i)
        PROVE  Quiet
    <3>1. CASE MessageAgent(r)
      BY <1>2, <1>4, <3>1 DEF MessageAgent, SheetCommit
    <3>2. ASSUME NEW i \in DOMAIN drafts, RenderRead(r, i) PROVE Quiet
      BY <1>2, <1>4, <3>2 DEF RenderRead
    <3>3. ASSUME NEW i \in DOMAIN drafts, SendRead(r, i) PROVE Quiet
      BY <1>2, <1>4, <3>3 DEF SendRead, Mailing
    <3>. QED  BY <2>5, <3>1, <3>2, <3>3
  <2>6. ASSUME NEW i \in DOMAIN drafts,
               \/ Approve(i) \/ Edit(i, {}, "none")
               \/ \E said \in Sayings : Edit(i, said, "rm")
        PROVE  Quiet
    BY <1>3, <2>6 DEF Approve, Edit
  <2>. QED  BY <1>7, <2>1, <2>2, <2>3, <2>4, <2>5, <2>6 DEF DraftStep
<1>8. ASSUME UNCHANGED vars PROVE Quiet
  BY <1>3, <1>8 DEF vars
<1>. QED  BY <1>6, <1>7, <1>8 DEF Next, AdviceStep, Quiet

LEMMA CrossInit == Init => CrossInv
<1>. SUFFICES ASSUME Init PROVE CrossInv
  OBVIOUS
<1>1. run = [r \in Requests |-> Nothing] /\ proposals = {}
  BY DEF Init, SwapInit, Dna
<1>2. OneAnswer
  BY <1>1 DEF OneAnswer, ShownKept, ShownSwaps
<1>. QED  BY <1>1, <1>2, NothingSound DEF CrossInv

LEMMA CrossDelete ==
    ASSUME BaseInv, CrossInv, NEW r \in Requests, SwapDelete(r)
    PROVE  CrossInv'
<1> DEFINE w == run'[r]
<1>1. /\ run[r].op = "delete" /\ proposals' = proposals
      /\ w.op = "insert" /\ w.ps = run[r].ps
      /\ w.got = {s \in proposals : s.pos \in run[r].ps}
      /\ \A q \in Requests \ {r} : run'[q] = run[q]
  BY DEF SwapDelete, Becomes, BaseInv, RunInv, Sound
<1>2. /\ crossed \subseteq crossed'
      /\ \A q \in Requests, p \in run[r].ps :
            run[q].op = "insert" /\ p \in run[q].ps => p \in crossed'
  BY DEF SwapDelete
<1>. HIDE DEF w
<1>3. \A p : Rows(p)' = Rows(p)
  BY <1>1 DEF Rows
<1>4. ASSUME NEW q \in Requests \ {r}, run[q].op = "insert"
      PROVE  run[q].ps \cap run[r].ps \subseteq crossed'
  BY <1>2, <1>4
<1>5. \A p \in w.ps : Rows(p) \subseteq w.got
  BY <1>1 DEF Rows
<1>6. OneAnswer'
  BY <1>1, <1>2 DEF CrossInv, OneAnswer, ShownKept, ShownSwaps
<1>7. ASSUME NEW q \in Requests, NEW t \in Requests, q # t,
             run'[q].op = "insert", run'[t].op = "insert"
      PROVE  run'[q].ps \cap run'[t].ps \subseteq crossed'
  <2>1. CASE q = r
    BY <1>1, <1>4, <1>7, <2>1 DEF w
  <2>2. CASE t = r
    BY <1>1, <1>4, <1>7, <2>2 DEF w
  <2>3. CASE q # r /\ t # r
    BY <1>1, <1>2, <1>7, <2>3 DEF CrossInv
  <2>. QED  BY <2>1, <2>2, <2>3
<1>8. ASSUME NEW q \in Requests, run'[q].op = "insert",
             NEW p \in run'[q].ps \ crossed'
      PROVE  Rows(p)' \subseteq run'[q].got
  <2>1. CASE q = r
    BY <1>3, <1>5, <1>8, <2>1 DEF w
  <2>2. CASE q # r
    BY <1>1, <1>2, <1>3, <1>8, <2>2 DEF CrossInv
  <2>. QED  BY <2>1, <2>2
<1>. QED  BY <1>6, <1>7, <1>8 DEF CrossInv

LEMMA CrossCommit ==
    ASSUME BaseInv, CrossInv, NEW r \in Requests, SwapCommit(r)
    PROVE  CrossInv'
<1> DEFINE w == [run[r] EXCEPT !.id = FreshId]
<1>1. /\ run[r].op = "insert" /\ crossed' = crossed
      /\ proposals' = (proposals \ w.got) \cup UNION {Answer(p, w) : p \in w.ps}
      /\ run'[r].op = "idle" /\ \A q \in Requests \ {r} : run'[q] = run[q]
  BY NothingSound DEF SwapCommit, Becomes, BaseInv, RunInv
<1>2. w.ps = run[r].ps /\ w.got = run[r].got /\ \A s \in w.got : s.pos \in w.ps
  BY <1>1 DEF BaseInv, RunInv, Sound
<1>. HIDE DEF w
<1>3. ASSUME NEW p, p \notin w.ps PROVE Rows(p)' = Rows(p)
  <2>1. \A q \in w.ps : \A s \in Answer(q, w) : s.pos # p
    BY <1>3, AnswerSound
  <2>. QED  BY <1>1, <1>2, <1>3, <2>1 DEF Rows
<1>4. ASSUME NEW p \in w.ps \ crossed PROVE Rows(p)' \subseteq Answer(p, w)
  <2>1. Rows(p) \subseteq w.got
    BY <1>1, <1>2 DEF CrossInv
  <2>2. \A q \in w.ps : \A s \in Answer(q, w) : s.pos = q
    BY AnswerSound
  <2>. QED  BY <1>1, <2>1, <2>2 DEF Rows
<1>5. OneAnswer'
  <2>1. ASSUME NEW p \in Positions \ crossed,
               NEW s \in Rows(p)', NEW t \in Rows(p)'
        PROVE  /\ s.cand = Keep <=> t.cand = Keep
               /\ s.cand = t.cand /\ s.cand # Keep => s = t
    <3>1. CASE p \in w.ps
      BY <1>4, <3>1, AnswersAgree
    <3>2. CASE p \notin w.ps
      <4>1. s \in Rows(p) /\ t \in Rows(p)
        BY <1>3, <3>2
      <4>. QED  BY <4>1 DEF CrossInv, OneAnswer, ShownKept, ShownSwaps, Rows
    <3>. QED  BY <3>1, <3>2
  <2>2. \A p : Rows(p)' = {s \in proposals' : s.pos = p}
    BY DEF Rows
  <2>. QED  BY <1>1, <2>1, <2>2 DEF OneAnswer, ShownKept, ShownSwaps
<1>6. ASSUME NEW q \in Requests, run'[q].op = "insert",
             NEW p \in run'[q].ps \ crossed'
      PROVE  Rows(p)' \subseteq run'[q].got
  <2>1. q # r /\ run[q] = run'[q] /\ p \notin w.ps
    BY <1>1, <1>2, <1>6 DEF CrossInv
  <2>. QED  BY <1>1, <1>3, <1>6, <2>1 DEF CrossInv
<1>7. ASSUME NEW q \in Requests, NEW t \in Requests, q # t,
             run'[q].op = "insert", run'[t].op = "insert"
      PROVE  run'[q].ps \cap run'[t].ps \subseteq crossed'
  BY <1>1, <1>7 DEF CrossInv
<1>. QED  BY <1>5, <1>6, <1>7 DEF CrossInv

LEMMA CrossStep == BaseInv /\ CrossInv /\ [Next]_vars => CrossInv'
<1>. SUFFICES ASSUME BaseInv, CrossInv, [Next]_vars PROVE CrossInv'
  OBVIOUS
<1>1. CASE /\ UNCHANGED <<proposals, crossed>>
           /\ \A r \in Requests : \/ run'[r] = run[r]
                                  \/ run'[r].op # "insert"
  BY <1>1 DEF CrossInv, OneAnswer, ShownKept, ShownSwaps, Rows
<1>. QED  BY <1>1, InsertSteps, CrossDelete, CrossCommit

(* Runs that do not overlap on a position leave it one answer.             *)
THEOREM OneAnswerTheorem == Spec => []OneAnswer
<1>1. CrossInv => OneAnswer
  BY DEF CrossInv
<1>. QED  BY <1>1, BaseInit, BaseStep, CrossInit, CrossStep, PTL DEF Spec

-----------------------------------------------------------------------------
(* The drafts.                                                             *)

IsDraft(d) ==
    d \in [numbers : {d.numbers}, points : {d.points}, text : {d.text},
           by : {"none", "llm", "rm"}, status : {d.status},
           conflict : {d.conflict}, sameDna : {d.sameDna},
           unsourced : {d.unsourced}]

(* A sheet explains a conflict, or has no note to cite; a text of the      *)
(* model is grounded, and so is every mail that is not the RM's; what is   *)
(* marked as sent was delivered.                                           *)
Right(d, mails) ==
    /\ IsDraft(d)
    /\ d.conflict /\ d.sameDna => d.points \cup d.unsourced # {}
    /\ d.by = "llm" => d.text \subseteq d.numbers
    /\ \A b \in mails : b.by # "rm" => b.shows \subseteq d.numbers
    /\ d.status = "sent" => mails # {}

Indices == 1..Len(drafts)

ListInv ==
    /\ Len(drafts) \in 0..MaxDrafts
    /\ drafts = [i \in Indices |-> drafts[i]]
    /\ delivered = [i \in 1..MaxDrafts |-> delivered[i]]
    /\ \A i \in Indices : Right(drafts[i], delivered[i])
    /\ \A i \in 1..MaxDrafts : i > Len(drafts) => delivered[i] = {}

(* A mail under way is right for its draft: a mailed body stays what the   *)
(* mail server got, whatever is written to the draft meanwhile.            *)
Mails(w) ==
    /\ w.op = "llm" => w.id \in Indices
    /\ w.op \in {"smtp", "mark"} =>
          /\ w.id \in Indices /\ w.got # {}
          /\ \A m \in w.got :
                /\ m[1].by # "rm" => m[1].shows \subseteq drafts[w.id].numbers
                /\ m[2] = "sent" => delivered[w.id] # {}
    /\ w.op = "mark" => delivered[w.id] # {}

MailInv == \A r \in Requests : Mails(run[r])

DraftInv == ListInv /\ MailInv

(* Sequences of anything.                                                  *)
LEMMA ListLen ==
    ASSUME NEW n \in Nat, NEW f, f = [i \in 1..n |-> f[i]]
    PROVE  Len(f) = n /\ DOMAIN f = 1..n
<1> DEFINE S == {f[i] : i \in 1..n}
<1>1. f \in [1..n -> S]
  <2>1. \A i \in 1..n : f[i] \in S
    OBVIOUS
  <2>. HIDE DEF S
  <2>. QED  BY <2>1
<1>. HIDE DEF S
<1>. QED  BY <1>1

LEMMA ListAppend ==
    ASSUME NEW n \in Nat, NEW f, f = [i \in 1..n |-> f[i]], NEW e
    PROVE  /\ Append(f, e) = [i \in 1..n+1 |-> Append(f, e)[i]]
           /\ Len(Append(f, e)) = n + 1
           /\ \A i \in 1..n : Append(f, e)[i] = f[i]
           /\ Append(f, e)[n+1] = e
<1> DEFINE S == {f[i] : i \in 1..n} \cup {e}
<1>1. f \in [1..n -> S] /\ e \in S
  <2>1. \A i \in 1..n : f[i] \in S
    OBVIOUS
  <2>2. e \in S
    OBVIOUS
  <2>. HIDE DEF S
  <2>. QED  BY <2>1, <2>2
<1>. HIDE DEF S
<1>2. f \in Seq(S) /\ Len(f) = n
  BY <1>1
<1>3. Append(f, e) \in Seq(S) /\ Len(Append(f, e)) = n + 1
  BY <1>1, <1>2
<1>4. ASSUME NEW s \in Seq(S), Len(s) = n + 1
      PROVE  s = [i \in 1..n+1 |-> s[i]]
  BY <1>4
<1>5. Append(f, e) = [i \in 1..n+1 |-> Append(f, e)[i]]
  BY <1>3, <1>4
<1>6. \A i \in 1..n : Append(f, e)[i] = f[i]
  BY <1>2
<1>7. Append(f, e)[n+1] = e
  BY <1>2
<1>. QED  BY <1>3, <1>5, <1>6, <1>7

LEMMA ListIndices == ASSUME ListInv PROVE DOMAIN drafts = Indices
  BY ListLen DEF ListInv

LEMMA DraftInit == Init => DraftInv
<1>. SUFFICES ASSUME Init PROVE DraftInv
  OBVIOUS
<1>1. /\ drafts = <<>> /\ delivered = [i \in 1..MaxDrafts |-> {}]
      /\ run = [r \in Requests |-> Nothing]
  BY DEF Init, SwapInit, Dna
<1>2. Len(drafts) = 0 /\ Indices = {}
  BY <1>1 DEF Indices
<1>3. ListInv
  BY <1>1, <1>2, DraftAssumption DEF ListInv
<1>4. MailInv
  BY <1>1, NothingSound DEF MailInv, Mails
<1>. QED  BY <1>3, <1>4 DEF DraftInv

(* One draft is written, in its text or its status only, or receives a     *)
(* mail; the others stay.                                                  *)
LEMMA DraftWritten ==
    ASSUME DraftInv, NEW i \in Indices, NEW d, NEW mails,
           drafts' = [drafts EXCEPT ![i] = d],
           delivered' = [delivered EXCEPT ![i] = mails],
           Right(d, mails), d.numbers = drafts[i].numbers,
           delivered[i] # {} => mails # {}
    PROVE  /\ ListInv'
           /\ \A w : Mails(w) => Mails(w)'
<1>1. /\ drafts'[i] = d /\ \A j \in Indices \ {i} : drafts'[j] = drafts[j]
      /\ drafts' = [j \in Indices |-> drafts'[j]]
  BY DEF DraftInv, ListInv
<1>2. Len(drafts') = Len(drafts) /\ Indices' = Indices
  BY <1>1, ListLen DEF DraftInv, ListInv, Indices
<1>3. /\ delivered'[i] = mails
      /\ \A j \in (1..MaxDrafts) \ {i} : delivered'[j] = delivered[j]
      /\ delivered' = [j \in 1..MaxDrafts |-> delivered'[j]]
      /\ Indices \subseteq 1..MaxDrafts
  <2>1. Indices \subseteq 1..MaxDrafts
    BY DraftAssumption DEF DraftInv, ListInv, Indices
  <2>2. delivered = [j \in 1..MaxDrafts |-> delivered[j]]
    BY DEF DraftInv, ListInv
  <2>. QED  BY <2>1, <2>2
<1>4. \A j \in Indices : Right(drafts'[j], delivered'[j])
  BY <1>1, <1>3 DEF DraftInv, ListInv
<1>5. \A j \in 1..MaxDrafts : j > Len(drafts') => delivered'[j] = {}
  BY <1>2, <1>3 DEF DraftInv, ListInv, Indices
<1>6. ListInv'
  <2>1. \A j \in Indices : Right(drafts[j], delivered[j])'
    BY <1>4 DEF Right, IsDraft
  <2>. QED  BY <1>1, <1>2, <1>3, <2>1, <1>5 DEF DraftInv, ListInv
<1>7. ASSUME NEW w, Mails(w) PROVE Mails(w)'
  BY <1>1, <1>2, <1>3, <1>7 DEF Mails
<1>. QED  BY <1>6, <1>7

LEMMA DraftAdded ==
    ASSUME DraftInv, Len(drafts) < MaxDrafts, NEW d,
           drafts' = Append(drafts, d), UNCHANGED delivered,
           Right(d, {})
    PROVE  /\ ListInv' /\ Len(drafts') = Len(drafts) + 1
           /\ \A w : Mails(w) => Mails(w)'
<1> DEFINE n == Len(drafts)
<1>1. n \in Nat /\ n < MaxDrafts /\ drafts = [i \in 1..n |-> drafts[i]]
  BY DraftAssumption DEF DraftInv, ListInv, Indices
<1>2. /\ drafts' = [i \in 1..n+1 |-> drafts'[i]] /\ Len(drafts') = n + 1
      /\ \A i \in 1..n : drafts'[i] = drafts[i]
      /\ drafts'[n+1] = d
  <2>. HIDE DEF n
  <2>. QED  BY <1>1, ListAppend
<1>3. delivered[n+1] = {} /\ \A i \in 1..n : Right(drafts[i], delivered[i])
  <2>1. \A i \in 1..MaxDrafts : i > n => delivered[i] = {}
    BY DEF DraftInv, ListInv
  <2>2. n + 1 \in 1..MaxDrafts /\ n + 1 > n
    BY <1>1, DraftAssumption
  <2>3. \A i \in 1..n : Right(drafts[i], delivered[i])
    BY DEF DraftInv, ListInv, Indices
  <2>. HIDE DEF n
  <2>. QED  BY <2>1, <2>2, <2>3
<1>. HIDE DEF n
<1>4. Indices' = 1..n+1 /\ Indices = 1..n
  BY <1>2 DEF Indices, n
<1>5. ASSUME NEW i \in 1..n+1 PROVE Right(drafts'[i], delivered[i])
  <2>1. CASE i = n + 1
    BY <1>2, <1>3, <2>1
  <2>2. CASE i \in 1..n
    BY <1>2, <1>3, <2>2
  <2>. QED  BY <1>1, <2>1, <2>2
<1>6. ListInv'
  <2>1. \A i \in 1..n+1 : Right(drafts[i], delivered[i])'
    BY <1>5 DEF Right, IsDraft
  <2>5. \A i \in 1..MaxDrafts : i > n => delivered[i] = {}
    BY DEF DraftInv, ListInv, n
  <2>2. ASSUME NEW i \in 1..MaxDrafts, i > n + 1 PROVE delivered[i] = {}
    <3>1. i > n
      BY <1>1, <2>2, DraftAssumption
    <3>. QED  BY <2>5, <3>1
  <2>3. delivered = [i \in 1..MaxDrafts |-> delivered[i]]
    BY DEF DraftInv, ListInv
  <2>4. n + 1 \in 0..MaxDrafts
    BY <1>1, DraftAssumption
  <2>. QED  BY <1>2, <1>4, <2>1, <2>2, <2>3, <2>4 DEF ListInv
<1>7. ASSUME NEW w, Mails(w) PROVE Mails(w)'
  <2>1. \A i \in Indices : i \in Indices' /\ drafts'[i] = drafts[i]
    BY <1>1, <1>2, <1>4
  <2>. QED  BY <1>7, <2>1 DEF Mails
<1>. QED  BY <1>2, <1>6, <1>7 DEF n

LEMMA MailMoved ==
    ASSUME BaseInv, MailInv, NEW r \in Requests, NEW w, Becomes(r, w),
           Mails(w)',
           \A v : Mails(v) => Mails(v)'
    PROVE  MailInv'
<1>1. run'[r] = w /\ \A q \in Requests \ {r} : run'[q] = run[q]
  BY DEF BaseInv, RunInv, Becomes
<1>2. \A q \in Requests : Mails(run[q])'
  BY <1>1 DEF MailInv, Mails
<1>. QED  BY <1>2 DEF MailInv

LEMMA MailQuiet ==
    ASSUME NEW w, w.op \notin {"llm", "smtp", "mark"}
    PROVE  Mails(w)'
  BY DEF Mails

(* A step that leaves the drafts alone and hands no mail on.               *)
LEMMA DraftsAlone ==
    ASSUME BaseInv, DraftInv, UNCHANGED draftVars,
           \A r \in Requests : \/ run'[r] = run[r]
                               \/ run'[r].op \notin {"llm", "smtp", "mark"}
    PROVE  DraftInv'
<1>1. drafts' = drafts /\ delivered' = delivered /\ Indices' = Indices
  BY DEF draftVars, Indices
<1>2. ListInv'
  BY <1>1 DEF DraftInv, ListInv, Right, IsDraft
<1>3. MailInv'
  BY <1>1 DEF DraftInv, MailInv, Mails
<1>. QED  BY <1>2, <1>3 DEF DraftInv

LEMMA DraftSwap == BaseInv /\ DraftInv /\ AdviceStep => DraftInv'
<1>. SUFFICES ASSUME BaseInv, DraftInv, AdviceStep PROVE DraftInv'
  OBVIOUS
<1>1. \A r \in Requests : \/ run'[r] = run[r]
                          \/ run'[r].op \notin {"llm", "smtp", "mark"}
  <2>1. ASSUME NEW d \in Profiles, ChangeDna(d) PROVE run' = run
    BY <2>1 DEF ChangeDna, Dna
  <2>2. ASSUME NEW q \in Requests, NEW w, Becomes(q, w),
               w.op \notin {"llm", "smtp", "mark"}
        PROVE  \A r \in Requests : \/ run'[r] = run[r]
                                   \/ run'[r].op \notin {"llm", "smtp", "mark"}
    BY <2>2 DEF BaseInv, RunInv, Becomes
  <2>3. ASSUME NEW q \in Requests,
               \/ FitRead(q) \/ SwapRead(q) \/ FitAlone(q)
               \/ PortfolioAgent(q) \/ SwapCommit(q) \/ RunFails(q)
        PROVE  \E op \in {"fit", "swap", "idle", "toswap"}, d \in {dna, Blank} :
                  Becomes(q, Working(op, d, {}, {}, 0))
    BY <2>3 DEF FitRead, SwapRead, FitAlone, PortfolioAgent, FitCommit,
                SwapCommit, RunFails, Nothing
  <2>4. ASSUME NEW q \in Requests, SwapConflicts(q)
        PROVE  \/ Becomes(q, Nothing)
               \/ \E ps \in SUBSET Positions :
                     Becomes(q, [run[q] EXCEPT !.op = "delete", !.ps = ps])
    BY <2>4 DEF SwapConflicts
  <2>5. \A q \in Requests, ps \in SUBSET Positions :
           /\ [run[q] EXCEPT !.op = "delete", !.ps = ps].op = "delete"
           /\ [run[q] EXCEPT !.op = "insert",
                 !.got = {s \in proposals : s.pos \in run[q].ps}].op = "insert"
    BY DEF BaseInv, RunInv, Sound
  <2>6. \A op, d : Working(op, d, {}, {}, 0).op = op
    BY DEF Working
  <2> DEFINE Quiet == \A r \in Requests :
                         \/ run'[r] = run[r]
                         \/ run'[r].op \notin {"llm", "smtp", "mark"}
  <2>7. ASSUME NEW q \in Requests,
               \/ FitRead(q) \/ SwapRead(q) \/ FitAlone(q)
               \/ PortfolioAgent(q) \/ SwapCommit(q) \/ RunFails(q)
        PROVE  Quiet
    <3>1. PICK op \in {"fit", "swap", "idle", "toswap"}, d \in {dna, Blank} :
             Becomes(q, Working(op, d, {}, {}, 0))
      BY <2>3, <2>7
    <3>. QED  BY <2>2, <2>6, <3>1
  <2>8. ASSUME NEW q \in Requests, SwapConflicts(q) PROVE Quiet
    BY <2>2, <2>4, <2>5, <2>8, NothingSound
  <2>9. ASSUME NEW q \in Requests, SwapDelete(q) PROVE Quiet
    BY <2>2, <2>5, <2>9 DEF SwapDelete
  <2>. HIDE DEF Quiet
  <2>10. Quiet
    <3>1. CASE \E d \in Profiles : ChangeDna(d)
      BY <2>1, <3>1 DEF Quiet
    <3>. QED  BY <2>7, <2>8, <2>9, <3>1 DEF AdviceStep, SwapNext
  <2>. QED  BY <2>10 DEF Quiet
<1>. QED  BY <1>1, DraftsAlone DEF AdviceStep

LEMMA DraftSheet ==
    ASSUME BaseInv, DraftInv, NEW r \in Requests, NEW next \in {"idle", "llm"},
           SheetCommit(r, next)
    PROVE  DraftInv'
<1>1. PICK f \in run[r].got, offer \in Offers(Anchor(r)) :
         drafts' = Append(drafts, Draft(run[r], f, offer))
  BY DEF SheetCommit
<1> DEFINE d == Draft(run[r], f, offer)
           w == IF next = "idle" THEN Nothing
                ELSE Working(next, Blank, {}, {}, Len(drafts) + 1)
<1>2. Right(d, {})
  <2>1. d.conflict /\ d.sameDna => d.points \cup d.unsourced # {}
    <3>1. ASSUME f.score = 0, run[r].id = run[r].dna.ver
          PROVE  f.tags \cap run[r].dna.excl # {}
      BY <3>1 DEF BaseInv, RunInv, Sound, SheetCommit
    <3>2. /\ d.conflict = (f.score = 0)
          /\ d.sameDna = (run[r].id = run[r].dna.ver)
          /\ d.points = Points(run[r].dna, f)
          /\ d.unsourced = (f.tags \cap run[r].dna.excl) \ run[r].dna.noted
      BY DEF Draft
    <3>. HIDE DEF d
    <3>. QED  BY <3>1, <3>2 DEF Points
  <2>. QED  BY <2>1 DEF Right, IsDraft, Draft
<1>3. /\ Len(drafts) < MaxDrafts /\ delivered' = delivered /\ Becomes(r, w)
  BY DEF SheetCommit
<1>4. /\ ListInv' /\ Len(drafts') = Len(drafts) + 1
      /\ \A v : Mails(v) => Mails(v)'
  <2>. HIDE DEF d
  <2>. QED  BY <1>1, <1>2, <1>3, DraftAdded DEF d
<1>5. PICK v : v = w
  OBVIOUS
<1>6. Mails(v)'
  <2>1. Len(drafts) + 1 \in Indices'
    BY <1>4 DEF Indices, DraftInv, ListInv
  <2>2. \/ v.op = "idle"
        \/ v.op = "llm" /\ v.id = Len(drafts) + 1
    BY <1>5, NothingSound DEF Working
  <2>. QED  BY <2>1, <2>2 DEF Mails
<1>7. MailInv'
  <2>1. Becomes(r, v)
    BY <1>3, <1>5
  <2>. QED  BY <1>4, <1>6, <2>1, MailMoved DEF DraftInv
<1>. QED  BY <1>4, <1>7 DEF DraftInv

LEMMA DraftRows ==
    ASSUME DraftInv, NEW i \in Indices
    PROVE  /\ IsDraft(drafts[i]) /\ Right(drafts[i], delivered[i])
           /\ \A said, by :
                 [drafts EXCEPT ![i].text = said, ![i].by = by]
                    = [drafts EXCEPT ![i] =
                          [drafts[i] EXCEPT !.text = said, !.by = by]]
           /\ \A status :
                 [drafts EXCEPT ![i].status = status]
                    = [drafts EXCEPT ![i] =
                          [drafts[i] EXCEPT !.status = status]]
           /\ [drafts EXCEPT ![i] = drafts[i]] = drafts
           /\ [delivered EXCEPT ![i] = delivered[i]] = delivered
           /\ i \in 1..MaxDrafts
<1>1. IsDraft(drafts[i]) /\ Right(drafts[i], delivered[i])
  BY DEF DraftInv, ListInv, Right
<1>2. i \in 1..MaxDrafts
  BY DraftAssumption DEF DraftInv, ListInv, Indices
<1>3. \A said, by : [drafts EXCEPT ![i].text = said, ![i].by = by]
                       = [drafts EXCEPT ![i] =
                             [drafts[i] EXCEPT !.text = said, !.by = by]]
  BY DEF DraftInv, ListInv
<1>4. \A status : [drafts EXCEPT ![i].status = status]
                     = [drafts EXCEPT ![i] =
                           [drafts[i] EXCEPT !.status = status]]
  BY DEF DraftInv, ListInv
<1>5. [drafts EXCEPT ![i] = drafts[i]] = drafts
  BY DEF DraftInv, ListInv
<1>6. [delivered EXCEPT ![i] = delivered[i]] = delivered
  BY <1>2 DEF DraftInv, ListInv
<1>. QED  BY <1>1, <1>2, <1>3, <1>4, <1>5, <1>6

(* A text is written: the model's within the guardrail, or the RM's.       *)
LEMMA TextWritten ==
    ASSUME DraftInv, NEW i \in Indices, NEW said,
           NEW by \in {"none", "llm", "rm"},
           Write(i, said, by), UNCHANGED delivered,
           by = "llm" => said \subseteq drafts[i].numbers
    PROVE  ListInv' /\ \A w : Mails(w) => Mails(w)'
<1> DEFINE d == [drafts[i] EXCEPT !.text = said, !.by = by]
<1>1. Right(d, delivered[i]) /\ d.numbers = drafts[i].numbers
  BY DraftRows DEF Right, IsDraft
<1>2. /\ drafts' = [drafts EXCEPT ![i] = d]
      /\ delivered' = [delivered EXCEPT ![i] = delivered[i]]
  BY DraftRows DEF Write
<1>. HIDE DEF d
<1>. QED  BY <1>1, <1>2, DraftWritten

LEMMA StatusWritten ==
    ASSUME DraftInv, NEW i \in Indices, NEW status,
           drafts' = [drafts EXCEPT ![i].status = status], UNCHANGED delivered,
           status = "sent" => delivered[i] # {}
    PROVE  ListInv' /\ \A w : Mails(w) => Mails(w)'
<1> DEFINE d == [drafts[i] EXCEPT !.status = status]
<1>1. Right(d, delivered[i]) /\ d.numbers = drafts[i].numbers
  BY DraftRows DEF Right, IsDraft
<1>2. /\ drafts' = [drafts EXCEPT ![i] = d]
      /\ delivered' = [delivered EXCEPT ![i] = delivered[i]]
  BY DraftRows
<1>. HIDE DEF d
<1>. QED  BY <1>1, <1>2, DraftWritten

LEMMA DraftMail ==
    ASSUME BaseInv, DraftInv, NEW r \in Requests,
           \/ \E i \in Indices : SendRead(r, i)
           \/ Deliver(r) \/ SendCommit(r)
    PROVE  DraftInv'
<1>1. ASSUME NEW i \in Indices, SendRead(r, i) PROVE DraftInv'
  <2>1. PICK v : v = Mailing("smtp", i)
    OBVIOUS
  <2>2. /\ v.op = "smtp" /\ v.id = i
        /\ v.got = {<<Body(i), drafts[i].status>>}
    BY <2>1 DEF Mailing, Working
  <2>3. UNCHANGED draftVars /\ Becomes(r, v)
    BY <1>1, <2>1 DEF SendRead
  <2>4. Right(drafts[i], delivered[i])
    BY DraftRows
  <2>5. /\ Body(i).by # "rm" => Body(i).shows \subseteq drafts[i].numbers
        /\ drafts[i].status = "sent" => delivered[i] # {}
    BY <2>4 DEF Body, Right, IsDraft
  <2>6. Mails(v)
    BY <2>2, <2>5 DEF Mails
  <2>7. ListInv' /\ \A w : Mails(w) => Mails(w)'
    BY <2>3 DEF DraftInv, ListInv, Right, IsDraft, Mails, Indices, draftVars
  <2>. QED  BY <2>3, <2>6, <2>7, MailMoved DEF DraftInv
<1>2. CASE Deliver(r)
  <2> DEFINE i == run[r].id
             mails == delivered[i] \cup {m[1] : m \in run[r].got}
  <2>1. /\ run[r].op = "smtp" /\ drafts' = drafts
        /\ delivered' = [delivered EXCEPT ![i] = mails]
        /\ Becomes(r, [run[r] EXCEPT !.op = "mark"])
    BY <1>2 DEF Deliver
  <2>2. /\ i \in Indices /\ run[r].got # {}
        /\ \A m \in run[r].got :
              m[1].by # "rm" => m[1].shows \subseteq drafts[i].numbers
    BY <2>1 DEF DraftInv, MailInv, Mails
  <2>3. Right(drafts[i], delivered[i]) /\ mails # {}
    <3>1. PICK m \in run[r].got : TRUE
      BY <2>2
    <3>2. m[1] \in mails
      BY <3>1
    <3>. QED  BY <2>2, <3>2, DraftRows
  <2>4. Right(drafts[i], mails)
    BY <2>2, <2>3 DEF Right
  <2>5. drafts' = [drafts EXCEPT ![i] = drafts[i]]
    BY <2>1, <2>2, DraftRows
  <2>6. ListInv' /\ \A w : Mails(w) => Mails(w)'
    <3>. HIDE DEF i, mails
    <3>. QED  BY <2>1, <2>2, <2>3, <2>4, <2>5, DraftWritten
  <2>7. PICK v : v = [run[r] EXCEPT !.op = "mark"]
    OBVIOUS
  <2>8. v.op = "mark" /\ v.id = i /\ v.got = run[r].got
    BY <2>7 DEF BaseInv, RunInv, Sound
  <2>9. Mails(v)'
    <3>1. Mails(run[r])
      BY DEF DraftInv, MailInv
    <3>2. PICK u : u = run[r]
      OBVIOUS
    <3>3. Mails(u)' /\ u.op = "smtp" /\ u.id = i /\ u.got = run[r].got
      BY <2>1, <2>6, <3>1, <3>2
    <3>4. delivered'[i] # {}
      BY <2>1, <2>2, <2>3, DraftRows DEF DraftInv, ListInv
    <3>. QED  BY <2>8, <3>3, <3>4 DEF Mails
  <2>10. Becomes(r, v)
    BY <2>1, <2>7
  <2>. QED  BY <2>6, <2>9, <2>10, MailMoved DEF DraftInv
<1>3. CASE SendCommit(r)
  <2>1. /\ run[r].op = "mark" /\ delivered' = delivered /\ Becomes(r, Nothing)
        /\ \E m \in run[r].got :
              drafts' = IF m[2] = "sent" THEN drafts
                        ELSE [drafts EXCEPT ![run[r].id].status = "sent"]
    BY <1>3 DEF SendCommit
  <2>2. run[r].id \in Indices /\ delivered[run[r].id] # {}
    BY <2>1 DEF DraftInv, MailInv, Mails
  <2>3. CASE drafts' = [drafts EXCEPT ![run[r].id].status = "sent"]
    <3>1. ListInv' /\ \A w : Mails(w) => Mails(w)'
      BY <2>1, <2>2, <2>3, StatusWritten
    <3>. QED  BY <2>1, <3>1, NothingSound, MailQuiet, MailMoved DEF DraftInv
  <2>4. CASE drafts' = drafts
    <3>1. \A q \in Requests : run'[q] = run[q] \/ run'[q].op = "idle"
      BY <2>1, NothingSound DEF Becomes, BaseInv, RunInv
    <3>. QED  BY <2>1, <2>4, <3>1, DraftsAlone DEF draftVars
  <2>. QED  BY <2>1, <2>3, <2>4
<1>. QED  BY <1>1, <1>2, <1>3

LEMMA DraftText ==
    ASSUME BaseInv, DraftInv,
           \/ \E r \in Requests, said \in Sayings : RenderWrite(r, said)
           \/ \E i \in Indices :
                 \/ Approve(i) \/ Edit(i, {}, "none")
                 \/ \E said \in Sayings : Edit(i, said, "rm")
    PROVE  DraftInv'
<1>1. ASSUME NEW r \in Requests, NEW said \in Sayings, RenderWrite(r, said)
      PROVE  DraftInv'
  <2>1. /\ run[r].op = "llm" /\ said \subseteq drafts[run[r].id].numbers
        /\ Write(run[r].id, said, "llm") /\ Becomes(r, Nothing)
        /\ delivered' = delivered
    BY <1>1 DEF RenderWrite, Guardrail
  <2>2. run[r].id \in Indices
    BY <2>1 DEF DraftInv, MailInv, Mails
  <2>3. ListInv' /\ \A w : Mails(w) => Mails(w)'
    BY <2>1, <2>2, TextWritten
  <2>. QED  BY <2>1, <2>3, NothingSound, MailQuiet, MailMoved DEF DraftInv
<1>2. ASSUME NEW i \in Indices,
             \/ Approve(i) \/ Edit(i, {}, "none")
             \/ \E said \in Sayings : Edit(i, said, "rm")
      PROVE  DraftInv'
  <2>1. run' = run /\ delivered' = delivered
    BY <1>2 DEF Approve, Edit
  <2>2. ListInv' /\ \A w : Mails(w) => Mails(w)'
    <3>1. CASE Approve(i)
      <4>1. drafts' = [drafts EXCEPT ![i].status = "approved"]
        BY <3>1 DEF Approve
      <4>2. "approved" = "sent" => delivered[i] # {}
        OBVIOUS
      <4>3. UNCHANGED delivered
        BY <2>1
      <4>. QED  BY <4>1, <4>2, <4>3, StatusWritten, Zenon
    <3>2. CASE Edit(i, {}, "none")
      BY <2>1, <3>2, TextWritten DEF Edit
    <3>3. ASSUME NEW said \in Sayings, Edit(i, said, "rm")
          PROVE  ListInv' /\ \A w : Mails(w) => Mails(w)'
      BY <2>1, <3>3, TextWritten DEF Edit
    <3>. QED  BY <1>2, <3>1, <3>2, <3>3
  <2>3. MailInv'
    BY <2>1, <2>2 DEF DraftInv, MailInv, Mails
  <2>. QED  BY <2>2, <2>3 DEF DraftInv
<1>. QED  BY <1>1, <1>2

LEMMA DraftStepHolds == BaseInv /\ DraftInv /\ [Next]_vars => DraftInv'
<1>. SUFFICES ASSUME BaseInv, DraftInv, [Next]_vars PROVE DraftInv'
  OBVIOUS
<1>1. DOMAIN drafts = Indices
  BY ListIndices DEF DraftInv
<1>2. ASSUME NEW r \in Requests, NEW p \in Positions, SheetRead(r, p)
      PROVE  DraftInv'
  <2>1. \A q \in Requests : run'[q] = run[q] \/ run'[q].op = "sheet"
    BY <1>2 DEF SheetRead, Becomes, Working, BaseInv, RunInv
  <2>. QED  BY <1>2, <2>1, DraftsAlone DEF SheetRead
<1>3. ASSUME NEW r \in Requests, SheetScores(r) PROVE DraftInv'
  <2>1. \A q \in Requests : run'[q] = run[q] \/ run'[q].op = "best"
    BY <1>3 DEF SheetScores, Becomes, BaseInv, RunInv, Sound
  <2>. QED  BY <1>3, <2>1, DraftsAlone DEF SheetScores
<1>4. ASSUME NEW r \in Requests, SheetAlone(r) \/ MessageAgent(r)
      PROVE  DraftInv'
  BY <1>4, DraftSheet DEF SheetAlone, MessageAgent
<1>5. ASSUME NEW r \in Requests, NEW i \in Indices, RenderRead(r, i)
      PROVE  DraftInv'
  <2>1. PICK v : v = Working("llm", Blank, {}, {}, i)
    OBVIOUS
  <2>2. v.op = "llm" /\ v.id = i
    BY <2>1 DEF Working
  <2>3. UNCHANGED draftVars /\ Becomes(r, v)
    BY <1>5, <2>1 DEF RenderRead
  <2>4. ListInv' /\ \A w : Mails(w) => Mails(w)'
    BY <2>3 DEF DraftInv, ListInv, Right, IsDraft, Mails, Indices, draftVars
  <2>. QED  BY <2>2, <2>3, <2>4, MailMoved DEF DraftInv, Mails
<1>6. CASE DraftStep
  BY <1>1, <1>2, <1>3, <1>4, <1>5, <1>6, DraftMail, DraftText DEF DraftStep
<1>7. CASE UNCHANGED vars
  BY <1>7, DraftsAlone DEF vars
<1>. QED  BY <1>6, <1>7, DraftSwap DEF Next

LEMMA DraftInvariant == Spec => []DraftInv
<1>. QED  BY BaseInit, BaseStep, DraftInit, DraftStepHolds, PTL DEF Spec

(* What a client is told is on the sheet, and the sheet explains a         *)
(* conflict, however renders, edits and mails of a draft overlap.          *)
THEOREM DraftTheorem == Spec => []DraftFaithful
<1>1. DraftInv => DraftFaithful
  BY ListIndices DEF DraftInv, ListInv, Right, IsDraft, DraftFaithful, Grounded,
                     ConflictExplained
<1>. QED  BY <1>1, DraftInvariant, PTL

(* No draft is marked as sent without a mail.                              *)
THEOREM SentTheorem == Spec => []SentMeansMailed
<1>1. DraftInv => SentMeansMailed
  BY ListIndices DEF DraftInv, ListInv, Right, SentMeansMailed
<1>. QED  BY <1>1, DraftInvariant, PTL
-----------------------------------------------------------------------------
(***************************************************************************)
(* The fit of the portfolio.                                               *)
(***************************************************************************)
FittedTo(d) == [p \in Positions |->
                  [score |-> Score(Tags(p), d), tags |-> Tags(p) \cap d.excl]]

(* The scores in the table are all of one profile, the one of fitFor.      *)
FittedInv == fitFor.ver > 0 => fit = FittedTo(fitFor)

(* Only a run of compute_fit writes scores, and it writes all of them.     *)
LEMMA FitSteps ==
    ASSUME [Next]_vars
    PROVE  \/ UNCHANGED fitVars
           \/ fit' = FittedTo(fitFor')
<1>1. ASSUME NEW r, NEW next, FitCommit(r, next)
      PROVE  fit' = FittedTo(fitFor')
  BY <1>1 DEF FitCommit, FittedTo
<1>2. CASE SwapNext
  BY <1>1, <1>2 DEF SwapNext, ChangeDna, FitRead, SwapRead, SwapConflicts,
     FitAlone, PortfolioAgent, SwapDelete, SwapCommit, RunFails
<1>3. CASE DraftStep
  BY <1>3 DEF DraftStep, AdviceSame, SheetRead, SheetScores, SheetAlone,
     MessageAgent, SheetCommit, RenderRead, RenderWrite, Approve, Edit,
     SendRead, Deliver, SendCommit
<1>4. CASE UNCHANGED vars
  BY <1>4 DEF vars, fitVars
<1>. QED  BY <1>2, <1>3, <1>4 DEF Next, AdviceStep

LEMMA FittedInvariant == Spec => []FittedInv
<1>1. Init => FittedInv
  BY DEF Init, SwapInit, Dna, Blank, FittedInv
<1>2. FittedInv /\ [Next]_vars => FittedInv'
  BY FitSteps DEF FittedInv, FittedTo, fitVars
<1>. QED  BY <1>1, <1>2, PTL DEF Spec

(* The value-weighted score, as a function of the profile.                 *)
Valued == {p \in Positions : Chf[p] > 0}

Weighted(d) == [p \in Positions |-> Score(Tags(p), d) * Chf[p]]

LEMMA ScoredOf ==
    ASSUME NEW d, NEW t, t = FittedTo(d)
    PROVE  /\ {p \in Positions : t[p].score >= 0 /\ Chf[p] > 0} = Valued
           /\ \A p \in Positions : t[p].score = Score(Tags(p), d)
<1>1. \A p \in Positions : t[p].score = Score(Tags(p), d)
  BY DEF FittedTo
<1>2. \A p \in Positions : Score(Tags(p), d) \in Nat
  BY ScoreFalls
<1>. QED  BY <1>1, <1>2 DEF Valued

LEMMA WeightedFalls ==
    ASSUME NEW d, NEW e, d.excl \subseteq e.excl, e.tilts \subseteq d.tilts,
           Valued # {}
    PROVE  SumFunctionOnSet(Weighted(e), Valued) \div SumFunctionOnSet(Chf, Valued)
             <= SumFunctionOnSet(Weighted(d), Valued)
                   \div SumFunctionOnSet(Chf, Valued)
<1> DEFINE a == SumFunctionOnSet(Weighted(e), Valued)
           b == SumFunctionOnSet(Weighted(d), Valued)
           c == SumFunctionOnSet(Chf, Valued)
<1>1. \A p \in Valued :
         /\ Chf[p] \in Nat /\ Chf[p] > 0
         /\ Weighted(d)[p] \in Nat /\ Weighted(e)[p] \in Nat
         /\ Weighted(e)[p] <= Weighted(d)[p]
  <2>1. TAKE p \in Valued
  <2>2. p \in Positions /\ Chf[p] \in Nat /\ Chf[p] > 0
    BY SwapAssumption DEF Valued
  <2> DEFINE u == Score(Tags(p), d)
             v == Score(Tags(p), e)
  <2>3. u \in Nat /\ v \in Nat /\ v <= u
    BY ScoreFalls
  <2>4. Weighted(d)[p] = u * Chf[p] /\ Weighted(e)[p] = v * Chf[p]
    BY <2>2 DEF Weighted
  <2>. HIDE DEF u, v
  <2>5. PICK k \in Nat : k = Chf[p]
    BY <2>2
  <2>6. k * v <= k * u
    BY <2>3, Monotone
  <2>7. k * v = v * k /\ k * u = u * k /\ v * k \in Nat /\ u * k \in Nat
    BY <2>3
  <2>. QED  BY <2>2, <2>4, <2>5, <2>6, <2>7
<1>2. IsFiniteSet(Valued)
  BY SwapAssumption, FS_Subset DEF Valued
<1>3. /\ SumsNat(Weighted(d), Valued) /\ SumsNat(Weighted(e), Valued)
      /\ SumsNat(Chf, Valued)
  BY <1>1, <1>2 DEF SumsNat
<1>4. a \in Nat /\ b \in Nat /\ a <= b
  BY <1>1, <1>3, SumMonotone, SumChosen
<1>5. c \in Nat /\ c > 0
  <2>1. PICK p \in Valued : c = Chf[p] + SumFunctionOnSet(Chf, Valued \ {p})
    BY <1>3, SumChosen
  <2>2. SumFunctionOnSet(Chf, Valued \ {p}) \in Nat
    <3>1. SumsNat(Chf, Valued \ {p})
      BY <1>3, FS_Subset DEF SumsNat
    <3>. QED  BY <3>1, SumChosen
  <2>. HIDE DEF c
  <2>. QED  BY <1>1, <2>1, <2>2
<1>. HIDE DEF a, b, c
<1>6. a \div c <= b \div c
  BY <1>4, <1>5, QuotientMonotone
<1>. QED  BY <1>6 DEF a, b, c

(* Scores taken with a DNA that excludes more and tilts to less never      *)
(* raise the fit the portfolio page shows, for any holdings and values.    *)
THEOREM FitTheorem == Spec => FitFalls
<1>1. FittedInv /\ FittedInv' /\ [Next]_vars =>
        [(/\ fitFor.ver > 0 /\ fitFor.excl \subseteq fitFor'.excl
          /\ fitFor'.tilts \subseteq fitFor.tilts) =>
              PortfolioFit' <= PortfolioFit]_fitVars
  <2>. SUFFICES ASSUME FittedInv, [Next]_vars, fitVars' # fitVars,
                       fitFor.ver > 0, fitFor.excl \subseteq fitFor'.excl,
                       fitFor'.tilts \subseteq fitFor.tilts
                PROVE  PortfolioFit' <= PortfolioFit
    OBVIOUS
  <2>1. fit = FittedTo(fitFor) /\ fit' = FittedTo(fitFor')
    BY FitSteps DEF FittedInv
  <2>2. /\ Scored = Valued
        /\ [p \in Positions |-> fit[p].score * Chf[p]] = Weighted(fitFor)
    <3>1. \A p \in Positions : fit[p].score = Score(Tags(p), fitFor)
      BY <2>1, ScoredOf
    <3>. QED  BY <2>1, <3>1, ScoredOf DEF Scored, Weighted
  <2>3. /\ Scored' = Valued
        /\ [p \in Positions |-> fit'[p].score * Chf[p]] = Weighted(fitFor')
    <3>1. \A p \in Positions : fit'[p].score = Score(Tags(p), fitFor')
      BY <2>1, ScoredOf
    <3>. QED  BY <2>1, <3>1, ScoredOf DEF Scored, Weighted
  <2>4. CASE Valued = {}
    BY <2>2, <2>3, <2>4 DEF PortfolioFit
  <2>5. CASE Valued # {}
    <3>1. /\ PortfolioFit = SumFunctionOnSet(Weighted(fitFor), Valued)
                               \div SumFunctionOnSet(Chf, Valued)
          /\ PortfolioFit' = SumFunctionOnSet(Weighted(fitFor'), Valued)
                               \div SumFunctionOnSet(Chf, Valued)
      BY <2>2, <2>3, <2>5 DEF PortfolioFit
    <3>. QED  BY <2>5, <3>1, WeightedFalls
  <2>. QED  BY <2>4, <2>5
<1>. QED  BY <1>1, FittedInvariant, PTL DEF Spec, FitFalls
=============================================================================
