--------------------------- MODULE NoteWriteback ----------------------------
(***************************************************************************)
(* What becomes of an approved voice note (routers/voice_writeback.py) and *)
(* of the client's DNA (loaders/dna.py, loaders/style_profile.py): the     *)
(* commit of a note with its DNA delta in one transaction, the calendar    *)
(* events after it, and the extractions that rewrite the DNA from all      *)
(* notes.  Each request reads, waits, and writes what it computed from its *)
(* reading; the upsert's row lock makes everything from the upsert to the  *)
(* commit one step.  One client: rows of other clients are independent.    *)
(*                                                                         *)
(* An item of a DNA list is the note it names as its source, or Unsourced  *)
(* when it names none.                                                     *)
(***************************************************************************)
EXTENDS GraphAuth, Integers, Sequences, FiniteSets

CONSTANTS Requests,    \* requests that may be under way at once
          Notes,       \* ids of interactions
          Imported,    \* the interactions of the CRM import
          Lists,       \* the DNA lists a delta may add to
          Unsourced,   \* an item with source_note_ids = []
          Replies,     \* the lists of items the model may answer
          MaxEvents,   \* events a note may schedule
          MaxOps       \* bound on commits, extractions, sign-ins, sign-outs,
                       \* failures and restarts, all together

Items == Notes \cup {Unsourced}

ASSUME WritebackAssumption ==
    /\ Requests \subseteq Calls /\ Imported \subseteq Notes
    /\ Unsourced \notin Notes /\ Replies \subseteq SUBSET Items
    /\ MaxEvents \in Nat /\ MaxOps \in Nat

VARIABLES notes,       \* interactions committed
          lists,       \* lists[k]: the items of list k
          version,     \* client_dna.version, 0 before there is a row
          cited,       \* citations of the client_dna row
          style,       \* [sources, cited]: the style profile's notes
          calendar,    \* calendar[n]: events of note n in the RM's calendar
          mailed,      \* mailed[n]: events the confirmation mail lists
          answered,    \* answered[n]: events_created, -1 before the answer
          req,         \* req[r]: what a request has read and has left to do
          asked,       \* history: the lists the delta of a note adds to
          hist,        \* history: the writes of the DNA row, in order
          bare,        \* history: the lists with items the last extraction's
                       \* answer gave no source
          ops          \* operations begun

dnaVars  == <<lists, version, cited, hist, bare>>
planVars == <<calendar, mailed, answered>>
vars == <<authVars, notes, dnaVars, style, planVars, req, asked, ops>>

NoLists == [k \in Lists |-> {}]

Handling(op, note, seen, read, at, made) ==
    [op |-> op, note |-> note, seen |-> seen, read |-> read, at |-> at,
     made |-> made]

Nothing == Handling("idle", {}, NoLists, {}, 0, {})

Init ==
    /\ AuthInit
    /\ notes = Imported
    /\ \/ lists = NoLists /\ version = 0 /\ cited = {} /\ hist = <<>>
       \/ /\ lists = [k \in Lists |-> Imported]
          /\ version = 1 /\ cited = Imported
          /\ hist = <<[by |-> "extract", keys |-> Lists, note |-> {},
                       base |-> 0]>>
    /\ bare = {} /\ style = [sources |-> {}, cited |-> {}]
    /\ calendar = [n \in Notes |-> {}] /\ mailed = [n \in Notes |-> {}]
    /\ answered = [n \in Notes |-> 0 - 1]
    /\ req = [r \in Requests |-> Nothing]
    /\ asked = [n \in Notes |-> {}] /\ ops = 0

Begun == ops < MaxOps /\ ops' = ops + 1

Becomes(r, h) == req' = [req EXCEPT ![r] = h]

Wrote(by, keys, note, base) ==
    hist' = Append(hist, [by |-> by, keys |-> keys, note |-> note,
                          base |-> base])

-----------------------------------------------------------------------------
(* POST /clients/{client_id}/voice-notes/commit.                           *)

Fresh(n) == n \notin notes /\ \A r \in Requests : n \notin req[r].note

BeginCommitNoteFirst(r, n, keys) ==
    /\ req[r] = Nothing /\ Fresh(n)
    /\ keys = {} \/ version > 0
    /\ Begun
    /\ asked' = [asked EXCEPT ![n] = keys]
    /\ notes' = notes \cup {n}
    /\ Becomes(r, Handling("commit", {n}, lists, {}, Len(hist), {}))
    /\ UNCHANGED <<authVars, dnaVars, style, planVars>>

(* The note is flushed and the DNA row read; 409, and nothing written, for *)
(* a delta to a client without one.                                        *)
BeginCommit(r, n, keys) ==
    /\ req[r] = Nothing /\ Fresh(n)
    /\ keys = {} \/ version > 0
    /\ Begun
    /\ asked' = [asked EXCEPT ![n] = keys]
    /\ Becomes(r, Handling("commit", {n}, lists, {}, Len(hist), {}))
    /\ UNCHANGED <<authVars, notes, dnaVars, style, planVars>>

MergedAll(seen, keys, note) ==
    [k \in Lists |-> IF k \in keys THEN seen[k] \cup note ELSE seen[k]]

(* apply_dna_delta: each list of the delta is what the request read with   *)
(* the new items after it; the lists it does not name stay as they are.    *)
Merged(seen, keys, note) ==
    [k \in Lists |-> IF k \in keys THEN seen[k] \cup note ELSE lists[k]]

(* Computed by the database, in the statement that writes the lists.       *)
NextVersion == version + 1

ApplyDelta(r, keys) ==
    /\ lists' = Merged(req[r].seen, keys, req[r].note)
    /\ version' = NextVersion
    /\ cited' = cited \cup req[r].note
    /\ Wrote("delta", keys, req[r].note, req[r].at)
    /\ UNCHANGED bare

(* Note, delta and citation in one transaction; the calendar is next, if   *)
(* the RM approved events.                                                 *)
CommitNote(r) ==
    LET n == CHOOSE x \in Notes : x \in req[r].note
    IN  /\ req[r].op = "commit"
        /\ notes' = notes \cup {n}
        /\ \/ asked[n] # {} /\ ApplyDelta(r, asked[n])
           \/ asked[n] = {} /\ UNCHANGED dnaVars
        /\ \E planned \in {0, MaxEvents} :
              Becomes(r, Handling("calendar", {n}, NoLists, {}, planned, {}))
        /\ UNCHANGED <<authVars, style, planVars, asked, ops>>

(* _save_events_to_calendar: one event after the other, each with a token  *)
(* of its own.                                                             *)
AskToken(r) ==
    /\ \/ req[r].op = "calendar" /\ req[r].at > 0
       \/ req[r].op = "mail"
    /\ TokenLoad(r)
    /\ UNCHANGED <<notes, dnaVars, style, planVars, req, asked, ops>>

CreateEvent(r) ==
    LET n == CHOOSE x \in Notes : x \in req[r].note
        e == req[r].at
    IN  /\ req[r].op = "calendar" /\ call[r].at = "token"
        /\ calendar' = [calendar EXCEPT ![n] = @ \cup {e}]
        /\ Becomes(r, [req[r] EXCEPT !.at = e - 1, !.made = @ \cup {e}])
        /\ TokenDone(r)
        /\ UNCHANGED <<notes, dnaVars, style, mailed, answered, asked, ops>>

EventFailsCounted(r) ==
    /\ req[r].op = "calendar" /\ call[r].at = "token"
    /\ Begun
    /\ Becomes(r, [req[r] EXCEPT !.at = @ - 1, !.made = @ \cup {req[r].at}])
    /\ TokenDone(r)
    /\ UNCHANGED <<notes, dnaVars, style, planVars, asked>>

(* A malformed time, a refused call, or one that raised after the calendar *)
(* had the event (a timeout, an unreadable answer): logged, not counted,   *)
(* and on to the next event.                                               *)
EventFails(r) ==
    LET n == CHOOSE x \in Notes : x \in req[r].note
    IN  /\ req[r].op = "calendar" /\ call[r].at = "token"
        /\ Begun
        /\ \E there \in {{}, {req[r].at}} :
              calendar' = [calendar EXCEPT ![n] = @ \cup there]
        /\ Becomes(r, [req[r] EXCEPT !.at = @ - 1])
        /\ TokenDone(r)
        /\ UNCHANGED <<notes, dnaVars, style, mailed, answered, asked>>

Answer(r, count) ==
    LET n == CHOOSE x \in Notes : x \in req[r].note
    IN  /\ answered' = [answered EXCEPT ![n] = count]
        /\ Becomes(r, Nothing)

(* Nobody signed in: the answer is 0 at once, whatever was created before, *)
(* and no mail is sent.                                                    *)
NotSignedIn(r) ==
    /\ req[r].op = "calendar" /\ call[r].at = "denied"
    /\ TokenDone(r)
    /\ Answer(r, 0)
    /\ UNCHANGED <<notes, dnaVars, style, calendar, mailed, asked, ops>>

EventsTried(r) ==
    /\ req[r].op = "calendar" /\ req[r].at = 0
    /\ IF req[r].made = {}
       THEN Answer(r, 0)
       ELSE /\ Becomes(r, [req[r] EXCEPT !.op = "mail"])
            /\ UNCHANGED answered
    /\ UNCHANGED <<authVars, notes, dnaVars, style, calendar, mailed, asked,
                   ops>>

(* One confirmation of what was created; it may fail, the answer stays.    *)
Confirm(r, sent) ==
    LET n == CHOOSE x \in Notes : x \in req[r].note
    IN  /\ req[r].op = "mail" /\ call[r].at \in {"token", "denied"}
        /\ sent => call[r].at = "token"
        /\ mailed' = IF sent THEN [mailed EXCEPT ![n] = req[r].made]
                     ELSE mailed
        /\ TokenDone(r)
        /\ Answer(r, Cardinality(req[r].made))
        /\ UNCHANGED <<notes, dnaVars, style, calendar, asked, ops>>

-----------------------------------------------------------------------------
(* extract_dna and extract_style_profiles, for the client.                 *)

BeginExtract(r, op) ==
    /\ req[r] = Nothing /\ notes # {}
    /\ op = "style" => version > 0
    /\ Begun
    /\ Becomes(r, Handling(op, {}, NoLists, notes, Len(hist), {}))
    /\ UNCHANGED <<authVars, notes, dnaVars, style, planVars, asked>>

(* The model cites notes by their number in the prompt; a number that is   *)
(* not there is dropped, the item it stood for is kept.                    *)
Grounded(answer, read) ==
    {IF item \in read THEN item ELSE Unsourced : item \in answer}

CitationsOfOneList(all) == all[CHOOSE k \in Lists : TRUE] \ {Unsourced}

Citations(all) == (UNION {all[k] : k \in Lists}) \ {Unsourced}

(* All lists are replaced by the answer's, the citations by the notes it   *)
(* names.                                                                  *)
CommitExtract(r, answer) ==
    /\ req[r].op = "extract"
    /\ lists' = [k \in Lists |-> Grounded(answer[k], req[r].read)]
    /\ version' = NextVersion
    /\ cited' = Citations(lists')
    /\ Wrote("extract", Lists, {}, req[r].at)
    /\ bare' = {k \in Lists : ~(answer[k] \subseteq req[r].read)}
    /\ Becomes(r, Nothing)
    /\ UNCHANGED <<authVars, notes, style, planVars, asked, ops>>

(* The style profile has a column and an owner of citations of its own.    *)
CommitStyle(r, answer) ==
    /\ req[r].op = "style"
    /\ LET sources == answer \cap req[r].read
       IN  style' = [sources |-> sources, cited |-> sources]
    /\ Becomes(r, Nothing)
    /\ UNCHANGED <<authVars, notes, dnaVars, planVars, asked, ops>>

(* GET /clients/{client_id}/dna: the interactions the row's citations name.*)
Sources == cited \cap notes

(* The LLM call fails, or a commit's database call does: nothing is written*)
RequestFails(r) ==
    /\ Begun
    /\ req[r].op \in {"commit", "extract", "style"}
    /\ Becomes(r, Nothing)
    /\ UNCHANGED <<authVars, notes, dnaVars, style, planVars, asked>>

Restart ==
    /\ Begun
    /\ req' = [r \in Requests |-> Nothing]
    /\ AuthRestart
    /\ UNCHANGED <<notes, dnaVars, style, planVars, asked>>

-----------------------------------------------------------------------------
CommitStep(r) ==
    \/ \E n \in Notes, keys \in SUBSET Lists : BeginCommit(r, n, keys)
    \/ CommitNote(r) \/ AskToken(r) \/ CreateEvent(r) \/ EventFails(r)
    \/ NotSignedIn(r) \/ EventsTried(r)
    \/ \E sent \in BOOLEAN : Confirm(r, sent)

ExtractStep(r) ==
    \/ \E op \in {"extract", "style"} : BeginExtract(r, op)
    \/ \E answer \in [Lists -> Replies] : CommitExtract(r, answer)
    \/ \E answer \in SUBSET Notes : CommitStyle(r, answer)

(* The rest of a token request, and the RM signing in and out.             *)
SignInOutStep ==
    /\ \/ /\ Begun
          /\ \/ \E g \in Grants : Login(g)
             \/ \E c \in Calls \ Requests : SignOutLoad(c)
       \/ /\ UNCHANGED ops
          /\ \/ \E g \in Grants : FlowExpires(g)
             \/ \E c \in Calls : TokenSave(c)
             \/ \E c \in Calls, answer \in Answers : TokenSilent(c, answer)
             \/ \E c \in Calls \ Requests :
                   SignInStep(c) \/ SignOutSave(c) \/ SignOutDelete(c)
    /\ UNCHANGED <<notes, dnaVars, style, planVars, req, asked>>

Next ==
    \/ \E r \in Requests : CommitStep(r) \/ ExtractStep(r) \/ RequestFails(r)
    \/ SignInOutStep
    \/ Restart

Spec == Init /\ [][Next]_vars

-----------------------------------------------------------------------------
(* Properties.                                                             *)

(* "Three effects in one transaction": the note of a commit is in the CRM  *)
(* exactly if its delta has been applied, whatever fails in between.       *)
NoteWithDelta ==
    \A n \in Notes : asked[n] # {} =>
        (n \in notes <=> \E i \in DOMAIN hist : hist[i].note = {n})

(* The durable record first: events exist for committed notes only.        *)
EventsFollowNote == \A n \in Notes : calendar[n] # {} => n \in notes

(* A note is a whole: its text and its delta stand or fall together, and  *)
(* what the calendar has of it is in the record.                           *)
NoteIsWhole == NoteWithDelta /\ EventsFollowNote

(* An approved item is lost only to a write of the same list: to an        *)
(* extraction, or to a delta that had read the list before the item was in.*)
(* Deltas to other lists never undo it.                                    *)
LostToSameList ==
    \A i \in DOMAIN hist : hist[i].by = "delta" =>
        \A k \in hist[i].keys :
            \/ hist[i].note \subseteq lists[k]
            \/ \E j \in i+1..Len(hist) :
                  /\ k \in hist[j].keys
                  /\ hist[j].by = "extract" \/ hist[j].base < i

OverlappedExtraction ==
    \E j \in DOMAIN hist : hist[j].by = "delta" /\
        \E i \in hist[j].base+1..j-1 : hist[i].by = "extract"

(* Traceability (G2): every note an item names is an interaction of the    *)
(* CRM and has its citation, so GET /clients/{id}/dna returns it with the  *)
(* sources; and a list has an item without a source exactly if the latest  *)
(* extraction's answer cited nothing for one: no delta adds or drops any.  *)
(* (Not after a delta that had read the lists before an extraction replaced*)
(* them: it brings items back whose citations are gone.)                   *)
ItemsTraceable ==
    /\ \A k \in Lists : lists[k] \subseteq notes \cup {Unsourced}
    /\ \/ \A k \in Lists : /\ lists[k] \subseteq Sources \cup {Unsourced}
                            /\ Unsourced \in lists[k] <=> k \in bare
       \/ OverlappedExtraction

StyleTraceable == style.sources = style.cited /\ style.cited \subseteq notes

(* What the product says of a client can be traced to a note, as far as    *)
(* the model's last answer named one.                                      *)
SourcesStand == ItemsTraceable /\ StyleTraceable

(* Neither the answer nor the confirmation mail reports an event that the  *)
(* calendar does not have, and the two report the same.  (The calendar may *)
(* have more: events of failed calls, events before the token ran out.)    *)
ReportIsTrue ==
    \A n \in Notes :
        /\ answered[n] <= Cardinality(calendar[n])
        /\ mailed[n] \subseteq calendar[n]
        /\ mailed[n] # {} => answered[n] = Cardinality(mailed[n])
=============================================================================
