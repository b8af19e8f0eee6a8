----------------------------- MODULE SwapAdvice ------------------------------
(***************************************************************************)
(* From a client's DNA to the swaps proposed to the RM: loaders/fit.py     *)
(* scores every holding against the DNA, loaders/swap.py looks for a       *)
(* replacement of each holding in conflict, routers/portfolio.py shows     *)
(* both.  A research task does one after the other, the admin API either;  *)
(* nothing keeps two of them from one client, and nothing runs them again  *)
(* when the DNA changes.  One client; scores and gains are per cent.       *)
(*                                                                         *)
(* A proposal names the run that wrote it (by) and the version of the DNA  *)
(* that run read (ver): neither is a column.                               *)
(***************************************************************************)
EXTENDS Integers, Sequences, FiniteSets, FiniteSetsExt

CONSTANTS Requests,      \* requests and tasks that may be under way at once
          Positions,     \* the client's holdings
          Candidates,    \* CIO recommendations that are swap candidates
          Held,          \* the candidates the client holds already
          Industry,      \* of a position or a candidate: its industry group
          Region,        \*    ... its region
          Asset,         \*    ... its sub-asset-class
          Chf,           \* worth of a position, 0 where the book has none
          Profiles,      \* [excl, tilts, noted]: what the DNA may say, and for
                         \* which of its tags it names a source note
          MaxOps         \* bound on runs, DNA changes, sheets, renders and mails

Instruments == Positions \cup Candidates

Keep == "keep"           \* no instrument

ASSUME SwapAssumption ==
    /\ Keep \notin Candidates
    /\ Held \subseteq Candidates /\ Positions \cap Candidates = {}
    /\ IsFiniteSet(Positions) /\ Chf \in [Positions -> Nat]
    /\ MaxOps \in Nat

VARIABLES dna,           \* [ver, excl, tilts, noted]; version 0: no row
          fit,           \* fit[p]: [score, tags] of enriched_holdings
          proposals,     \* rows of swap_proposals
          run,           \* run[r]: what a request has read and does next
          fitFor,        \* history: the profile the scores stand for
          crossed,       \* history: positions two runs answered at once
          ops            \* operations begun

swapVars == <<proposals, crossed>>
fitVars  == <<fit, fitFor>>

NoFit  == [score |-> 0 - 1, tags |-> {}]
Blank  == [ver |-> 0, excl |-> {}, tilts |-> {}, noted |-> {}]

Dna(n, d) == [ver |-> n, excl |-> d.excl, tilts |-> d.tilts, noted |-> d.noted]

Working(op, d, ps, got, id) ==
    [op |-> op, dna |-> d, ps |-> ps, got |-> got, id |-> id]

Nothing == Working("idle", Blank, {}, {}, 0)

Becomes(r, w) == run' = [run EXCEPT ![r] = w]

Begun == ops < MaxOps /\ ops' = ops + 1

SwapInit ==
    /\ \E d \in Profiles : dna = Dna(1, d)
    /\ fit = [p \in Positions |-> NoFit] /\ fitFor = Blank
    /\ proposals = {} /\ crossed = {}
    /\ run = [r \in Requests |-> Nothing] /\ ops = 0

-----------------------------------------------------------------------------
(* tags.py: the values an instrument stands for.                           *)

IndustryTags(i) ==
    CASE i = "IT" -> {"tech"}
      [] i = "Energy" -> {"fossil"}
      [] i = "Consumer" -> {"luxury", "labour-risk"}
      [] OTHER -> {}

Tags(x) ==
    IndustryTags(Industry[x])
      \cup (IF Industry[x] = "IT" /\ Region[x] = "USA" THEN {"us-tech"} ELSE {})

ScoreAllHits(tags, d) ==
    Min({100, 50 + 25 * Cardinality(tags \cap (d.excl \cup d.tilts))})

(* _score_holding: one excluded value settles it.                          *)
Score(tags, d) ==
    IF tags \cap d.excl # {} THEN 0
    ELSE Min({100, 50 + 25 * Cardinality(tags \cap d.tilts)})

(* The client's DNA is rewritten, by a note's delta or an extraction.      *)
ChangeDna(d) ==
    /\ Begun
    /\ dna' = Dna(dna.ver + 1, d)
    /\ UNCHANGED <<fitVars, swapVars, run>>

-----------------------------------------------------------------------------
(* compute_fit, alone or as the first half of an agent's analysis.         *)

FitRead(r) ==
    /\ run[r] = Nothing /\ Begun
    /\ Becomes(r, Working("fit", dna, {}, {}, 0))
    /\ UNCHANGED <<dna, fitVars, swapVars>>

FitCommit(r, next) ==
    /\ run[r].op = "fit"
    /\ fit' = [p \in Positions |->
                  [score |-> Score(Tags(p), run[r].dna),
                   tags |-> Tags(p) \cap run[r].dna.excl]]
    /\ fitFor' = run[r].dna
    /\ Becomes(r, Working(next, Blank, {}, {}, 0))
    /\ UNCHANGED <<dna, swapVars, ops>>

(* POST /admin/seed/fit.                                                   *)
FitAlone(r) == FitCommit(r, "idle")

(* The task of kind swap_candidates: fit, then swaps, in one session.      *)
PortfolioAgent(r) == FitCommit(r, "toswap")

-----------------------------------------------------------------------------
(* compute_swaps.                                                          *)

SwapRead(r) ==
    /\ \/ run[r] = Nothing /\ Begun
       \/ run[r].op = "toswap" /\ UNCHANGED ops
    /\ Becomes(r, Working("swap", dna, {}, {}, 0))
    /\ UNCHANGED <<dna, fitVars, swapVars>>

(* The holdings in conflict; without one the run ends, and what is stored  *)
(* stays.                                                                  *)
SwapConflicts(r) ==
    LET ps == {p \in Positions : fit[p].score = 0}
    IN  /\ run[r].op = "swap"
        /\ Becomes(r, IF ps = {} THEN Nothing
                      ELSE [run[r] EXCEPT !.op = "delete", !.ps = ps])
        /\ UNCHANGED <<dna, fitVars, swapVars, ops>>

SwapDeleteNone(r) ==
    /\ run[r].op = "delete"
    /\ Becomes(r, [run[r] EXCEPT !.op = "insert"])
    /\ UNCHANGED <<dna, fitVars, swapVars, ops>>

SwapDeleteCommits(r) ==
    /\ run[r].op = "delete"
    /\ proposals' = {s \in proposals : s.pos \notin run[r].ps}
    /\ Becomes(r, [run[r] EXCEPT !.op = "insert"])
    /\ UNCHANGED <<dna, fitVars, crossed, ops>>

(* The statement deletes the rows it can see: not those another run has    *)
(* inserted and not committed.                                             *)
SwapDelete(r) ==
    /\ run[r].op = "delete"
    /\ Becomes(r, [run[r] EXCEPT !.op = "insert",
                      !.got = {s \in proposals : s.pos \in run[r].ps}])
    /\ crossed' = crossed \cup {p \in run[r].ps : \E q \in Requests :
                                    run[q].op = "insert" /\ p \in run[q].ps}
    /\ UNCHANGED <<dna, fitVars, proposals, ops>>

Same(x, p) == Industry[x] = Industry[p] /\ Asset[x] = Asset[p]

OfferedTilted(p, d) == {c \in Candidates \ Held :
                           /\ Same(c, p)
                           /\ \/ Score(Tags(c), d) > 10
                              \/ Tags(c) \cap d.tilts # {}}

(* Compliant replacements, E3 to E12: in the slot of the position, not     *)
(* held, not excluded, and a gain of more than ten points.                 *)
Offered(p, d) == {c \in Candidates \ Held :
                     Same(c, p) /\ Score(Tags(c), d) > 10}

Row(p, c, gain, w) == [pos |-> p, cand |-> c, gain |-> gain,
                       ver |-> w.dna.ver, by |-> w.id]

(* E11: a position without one is kept, and that is recorded as well.      *)
Answer(p, w) ==
    IF Offered(p, w.dna) = {} THEN {Row(p, Keep, 0, w)}
    ELSE {Row(p, c, Score(Tags(c), w.dna), w) : c \in Offered(p, w.dna)}

FreshId == 1 + Max({0} \cup {s.by : s \in proposals})

SwapCommit(r) ==
    LET w == [run[r] EXCEPT !.id = FreshId]
    IN  /\ run[r].op = "insert"
        /\ proposals' = (proposals \ w.got)
                            \cup UNION {Answer(p, w) : p \in w.ps}
        /\ Becomes(r, Nothing)
        /\ UNCHANGED <<dna, fitVars, crossed, ops>>

(* An exception, a cancelled request or a restart: the transaction rolls   *)
(* back.                                                                   *)
RunFails(r) ==
    /\ run[r] # Nothing
    /\ Becomes(r, Nothing)
    /\ UNCHANGED <<dna, fitVars, swapVars, ops>>

SwapNext ==
    \/ \E d \in Profiles : ChangeDna(d)
    \/ \E r \in Requests :
          \/ FitRead(r) \/ SwapRead(r) \/ SwapConflicts(r)
          \/ FitAlone(r) \/ PortfolioAgent(r)
          \/ SwapDelete(r) \/ SwapCommit(r) \/ RunFails(r)

-----------------------------------------------------------------------------
(* What the portfolio endpoints show.                                      *)

Scored == {p \in Positions : fit[p].score >= 0 /\ Chf[p] > 0}

(* GET portfolio/fit: the value-weighted score.                            *)
PortfolioFit ==
    IF Scored = {} THEN 0 - 1
    ELSE SumFunctionOnSet([p \in Positions |-> fit[p].score * Chf[p]], Scored)
            \div SumFunctionOnSet(Chf, Scored)

(* GET portfolio/swaps: positions with candidates, and positions kept.     *)
ShownSwaps(p) == {s \in proposals : s.pos = p /\ s.cand # Keep}

ShownKept(p) == \E s \in proposals : s.pos = p /\ s.cand = Keep

-----------------------------------------------------------------------------
(* As long as the DNA is the one its run read, no proposal offers what the *)
(* client excludes, whatever it tilts to (E9 before everything else).      *)
OfferAllowed ==
    \A p \in Positions : \A s \in ShownSwaps(p) :
        s.ver = dna.ver => Tags(s.cand) \cap dna.excl = {}

(* Unless two runs answered a position at once, the RM sees it either with *)
(* candidates, each of them once, or as kept.                              *)
OneAnswer ==
    \A p \in Positions \ crossed :
        /\ ~(ShownKept(p) /\ ShownSwaps(p) # {})
        /\ \A s, t \in ShownSwaps(p) : s.cand = t.cand => s = t

(* A position is kept only if every candidate in its slot is held, or was  *)
(* excluded by the DNA of the run: the gain of ten points that E12 asks    *)
(* for never keeps a position that a compliant candidate would mend.       *)
KeepMeansNone ==
    \A s \in proposals : s.cand = Keep /\ s.ver = dna.ver =>
        \A c \in Candidates \ Held :
            Same(c, s.pos) => Tags(c) \cap dna.excl # {}

(* The proposals answer for the client's values both ways: nothing that is *)
(* excluded is offered, and nothing is kept for want of an alternative     *)
(* that there is.                                                          *)
OfferSound == OfferAllowed /\ KeepMeansNone

(* A position that has an answer never loses it: neither a failed run nor  *)
(* one that overlaps another leaves it with none.                          *)
AnswerStays ==
    [][\A p \in Positions :
          (\E s \in proposals : s.pos = p) => \E s \in proposals' : s.pos = p
      ]_proposals

(* A DNA that excludes more and tilts to less never raises the fit of the  *)
(* portfolio.                                                              *)
FitFalls ==
    [][(/\ fitFor.ver > 0 /\ fitFor.excl \subseteq fitFor'.excl
        /\ fitFor'.tilts \subseteq fitFor.tilts) =>
            PortfolioFit' <= PortfolioFit]_fitVars
=============================================================================
