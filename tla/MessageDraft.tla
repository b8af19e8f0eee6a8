---------------------------- MODULE MessageDraft -----------------------------
(***************************************************************************)
(* Draft messages to a client: loaders/fact_sheet.py freezes what is known *)
(* of a holding and its best swap, loaders/message_render.py has a         *)
(* language model put it into words, and routers/messages.py lets the RM   *)
(* edit, approve and send the result.  Every step may be taken on any      *)
(* draft at any time.  A sheet, and a text, is the set of numbers it shows.*)
(***************************************************************************)
EXTENDS SwapAdvice

CONSTANTS Sayings,       \* what a model, or the RM, may write
          MaxDrafts      \* bound on drafts

ASSUME DraftAssumption == MaxDrafts \in Nat

VARIABLES drafts,        \* rows of message_drafts, in the order of creation
          delivered      \* delivered[i]: the bodies the mail server accepted

draftVars == <<drafts, delivered>>
vars == <<dna, fitVars, swapVars, run, ops, draftVars>>

Init == SwapInit /\ drafts = <<>> /\ delivered = [i \in 1..MaxDrafts |-> {}]

AdviceSame == UNCHANGED <<dna, fitVars, swapVars>>

-----------------------------------------------------------------------------
(* assemble_fact_sheet: the DNA, and an alert that anchors the sheet to a  *)
(* position; the position's scores; its best proposal; and always a new    *)
(* draft.  The sheet shows what these statements saw one after the other.  *)

SheetRead(r, p) ==
    /\ run[r] = Nothing /\ Len(drafts) < MaxDrafts /\ Begun
    /\ Becomes(r, Working("sheet", dna, {p}, {}, 0))
    /\ AdviceSame /\ UNCHANGED draftVars

Anchor(r) == CHOOSE p \in Positions : p \in run[r].ps

SheetScores(r) ==
    /\ run[r].op = "sheet"
    /\ Becomes(r, [run[r] EXCEPT !.op = "best", !.got = {fit[Anchor(r)]},
                                 !.id = fitFor.ver])
    /\ AdviceSame /\ UNCHANGED <<ops, draftVars>>

Best(p) == {s \in ShownSwaps(p) : \A t \in ShownSwaps(p) : t.gain <= s.gain}

Offers(p) == IF Best(p) = {} THEN {{}} ELSE {{s} : s \in Best(p)}

Numbers(f, offer) ==
    ({f.score} \ {NoFit.score}) \cup {s.gain : s \in offer}

(* dna_points: what the DNA says of the tags in conflict, for those it     *)
(* names a source note for.  The DNA of a synthetic client names none.     *)
Points(d, f) == f.tags \cap (d.excl \cup d.tilts) \cap d.noted

Draft(w, f, offer) ==
    [numbers |-> Numbers(f, offer), points |-> Points(w.dna, f),
     text |-> {}, by |-> "none", status |-> "draft",
     conflict |-> f.score = 0, sameDna |-> w.id = w.dna.ver,
     unsourced |-> (f.tags \cap w.dna.excl) \ w.dna.noted]

SheetCommit(r, next) ==
    /\ run[r].op = "best" /\ Len(drafts) < MaxDrafts
    /\ \E f \in run[r].got, offer \in Offers(Anchor(r)) :
          drafts' = Append(drafts, Draft(run[r], f, offer))
    /\ Becomes(r, IF next = "idle" THEN Nothing
                  ELSE Working(next, Blank, {}, {}, Len(drafts) + 1))
    /\ AdviceSame /\ UNCHANGED <<ops, delivered>>

(* POST /admin/assemble/fact-sheet.                                        *)
SheetAlone(r) == SheetCommit(r, "idle")

(* A task of kind draft_prep, and an auto-draft, go on to render it.       *)
MessageAgent(r) == SheetCommit(r, "llm")

-----------------------------------------------------------------------------
(* render_message_draft.                                                   *)

RenderRead(r, i) ==
    /\ run[r] = Nothing /\ Begun
    /\ Becomes(r, Working("llm", Blank, {}, {}, i))
    /\ AdviceSame /\ UNCHANGED draftVars

GuardrailSome(said, numbers) == said \cap numbers # {} \/ said = {}

(* Every number of the text must be one of the sheet.                      *)
Guardrail(said, numbers) == said \subseteq numbers

Write(i, said, by) ==
    drafts' = [drafts EXCEPT ![i].text = said, ![i].by = by]

(* The text is written whatever became of the draft meanwhile.  An answer  *)
(* the guardrail refuses, and no answer, is RunFails.                      *)
RenderWrite(r, said) ==
    LET i == run[r].id
    IN  /\ run[r].op = "llm" /\ Guardrail(said, drafts[i].numbers)
        /\ Write(i, said, "llm")
        /\ Becomes(r, Nothing)
        /\ AdviceSame /\ UNCHANGED <<ops, delivered>>

-----------------------------------------------------------------------------
(* The RM: PATCH, approve, send-test.                                      *)

(* An edit may also clear the text.                                        *)
Edit(i, said, by) ==
    /\ Begun /\ Write(i, said, by)
    /\ AdviceSame /\ UNCHANGED <<run, delivered>>

Approve(i) ==
    /\ Begun /\ drafts' = [drafts EXCEPT ![i].status = "approved"]
    /\ AdviceSame /\ UNCHANGED <<run, delivered>>

(* Without a text the mail carries the sheet itself.                       *)
Body(i) == IF drafts[i].by = "none"
           THEN [shows |-> drafts[i].numbers, by |-> "none"]
           ELSE [shows |-> drafts[i].text, by |-> drafts[i].by]

Mailing(op, i) == Working(op, Blank, {}, {<<Body(i), drafts[i].status>>}, i)

SendReadMarks(r, i) ==
    /\ run[r] = Nothing /\ Begun
    /\ Becomes(r, Mailing("smtp", i))
    /\ drafts' = [drafts EXCEPT ![i].status = "sent"]
    /\ AdviceSame /\ UNCHANGED delivered

SendRead(r, i) ==
    /\ run[r] = Nothing /\ Begun
    /\ Becomes(r, Mailing("smtp", i))
    /\ AdviceSame /\ UNCHANGED draftVars

(* The mail server may also refuse: RunFails, and nothing is written.      *)
Deliver(r) ==
    /\ run[r].op = "smtp"
    /\ delivered' = [delivered EXCEPT ![run[r].id] =
                        @ \cup {m[1] : m \in run[r].got}]
    /\ Becomes(r, [run[r] EXCEPT !.op = "mark"])
    /\ AdviceSame /\ UNCHANGED <<ops, drafts>>

(* The session writes a column only if it differs from what it read.       *)
SendCommit(r) ==
    /\ run[r].op = "mark"
    /\ \E m \in run[r].got :
          drafts' = IF m[2] = "sent" THEN drafts
                    ELSE [drafts EXCEPT ![run[r].id].status = "sent"]
    /\ Becomes(r, Nothing)
    /\ AdviceSame /\ UNCHANGED <<ops, delivered>>

DraftStep ==
    \/ \E r \in Requests, p \in Positions : SheetRead(r, p)
    \/ \E r \in Requests :
          \/ SheetScores(r) \/ Deliver(r) \/ SendCommit(r)
          \/ SheetAlone(r) \/ MessageAgent(r)
          \/ \E said \in Sayings : RenderWrite(r, said)
          \/ \E i \in DOMAIN drafts : RenderRead(r, i) \/ SendRead(r, i)
    \/ \E i \in DOMAIN drafts :
          \/ Approve(i) \/ Edit(i, {}, "none")
          \/ \E said \in Sayings : Edit(i, said, "rm")

AdviceStep == SwapNext /\ UNCHANGED draftVars

Next == AdviceStep \/ DraftStep

Spec == Init /\ [][Next]_vars

-----------------------------------------------------------------------------
(* Whatever is rendered, edited and mailed over each other: a text that    *)
(* does not come from the RM, in a draft or in a client's mail, shows no   *)
(* number that its fact sheet does not have.                               *)
Grounded ==
    \A i \in DOMAIN drafts :
        /\ drafts[i].by = "llm" => drafts[i].text \subseteq drafts[i].numbers
        /\ \A b \in delivered[i] :
              b.by # "rm" => b.shows \subseteq drafts[i].numbers

(* A draft is marked as sent only if a mail of it was delivered.           *)
SentMeansMailed ==
    \A i \in DOMAIN drafts :
        drafts[i].status = "sent" => delivered[i] # {}

(* A sheet of a holding in conflict says which of the client's values it   *)
(* offends, if the scores it shows were computed from the DNA it read and  *)
(* unless no note stands behind that value.                                *)
ConflictExplained ==
    \A i \in DOMAIN drafts :
        drafts[i].conflict /\ drafts[i].sameDna
            => drafts[i].points \cup drafts[i].unsourced # {}

(* What a draft tells the client comes from its sheet, and its sheet tells *)
(* what made the advice.                                                   *)
DraftFaithful == Grounded /\ ConflictExplained
=============================================================================
