------------------------------ MODULE NewsScan -------------------------------
(***************************************************************************)
(* The news scan of a client (loaders/watchlist.py, news_match.py,         *)
(* news_seed.py, embeddings.py, rerank.py): a watchlist from holdings and  *)
(* DNA, a search, a filter by the model, a two-axis match of words, a      *)
(* check against the rows there are, a verdict of the model per article,   *)
(* one commit.  Seeded articles are told to the holders of what their      *)
(* headline names.  Every step is a call or a statement, and any number of *)
(* scans may run; a scan of all clients is one after the other.            *)
(*                                                                         *)
(* A text is the set of its words, an issuer the distinctive words of its  *)
(* name; a ticker and an ISIN are words as well.                           *)
(***************************************************************************)
EXTENDS LlmBudget, SequencesExt

CONSTANTS Clients,
          Articles,      \* uris that searches may find
          Text,          \* Text[a]: [title, body, material]
          Stories,       \* articles a search for the seeded stories finds
          Ambiguous,     \* words that are names and words
          Far,           \* <<a, c>>: the article is far from c's profile
          Books,         \* what a client's book and DNA may be:
                         \* [held, themes, dna: there is a DNA]
          Loaded         \* the books the seeding loads

(* What a client may hold and care for, and what any of them may hold.     *)
Lists == Books \cup UNION {Range(l) : l \in Loaded}

Securities == UNION {list.held : list \in Lists}

(* A page of a search is finite, and the words of a name are the issuer's: *)
(* significant_name_tokens computes them from it.                          *)
ASSUME ScanAssumption ==
    /\ IsFiniteSet(Articles) /\ IsFiniteSet(Stories)
    /\ Loaded \subseteq [Clients -> Lists]
    /\ \A s, t \in Securities : s.issuer = t.issuer => s.names = t.names

VARIABLES book,          \* book[c]: positions and DNA as they are
          watch,         \* rows of client_watchlists
          rows,          \* rows of news_items
          degraded,      \* embeddings failed once: no gate until a restart
          sjob,          \* sjob[w]: what a worker has read and does next
          crossed        \* history: articles that two had fresh at once, or
                         \* that a filter's answer names twice

scanVars == <<book, watch, rows, degraded, sjob, crossed>>

NoWatch == [held |-> {}, themes |-> {}, dna |-> FALSE]

Watchable(list) == list.held # {} /\ list.dna
NoHoldings == [c \in Clients |-> {}]

(* A row, with the watchlist or the holdings it was matched with.          *)
NewsItem(a, clients, impact, list) ==
    [uri |-> a, clients |-> clients, impact |-> impact, watch |-> list,
     told |-> NoHoldings, seeded |-> clients = {}]

(* What a worker holds; kept, about and failed are a history of what the   *)
(* model said in its scan.                                                 *)
Busy(op, clients, list, todo, told) ==
    [op |-> op, clients |-> clients, watch |-> list, todo |-> todo,
     out |-> <<>>, told |-> told, kept |-> {}, about |-> {}, failed |-> {}]

AtRest == Busy("idle", {}, NoWatch, <<>>, NoHoldings)

Works(w, job) == sjob' = [sjob EXCEPT ![w] = job]

Rests(w) == Works(w, AtRest) /\ Turns(w, Free)

ScanInit ==
    /\ book \in Loaded
    /\ watch = [c \in Clients |-> IF Watchable(book[c]) THEN book[c]
                                 ELSE NoWatch]
    /\ rows = <<>> /\ degraded = FALSE
    /\ sjob = [w \in Callers |-> AtRest]
    /\ crossed = {}

-----------------------------------------------------------------------------
(* Matching.                                                               *)

Title(a) == Text[a].title
Words(a) == Text[a].title \cup Text[a].body

(* _entity_signals: an ISIN anywhere and a ticker in the title are strong, *)
(* a name is strong in the title if it is no ordinary word.                *)
Strong(s, a) ==
    \/ s.isin \in Words(a)
    \/ s.ticker \in Title(a) \ Ambiguous
    \/ (s.names \ Ambiguous) \cap Title(a) # {}

Weak(s, a) == ~Strong(s, a) /\ s.names \cap Words(a) # {}

Care(list, a) == list.themes \cap Words(a)

Certain(list, a) == {s \in list.held : Strong(s, a)}

OwnEither(list, a) ==
    IF Certain(list, a) # {} THEN Certain(list, a)
    ELSE IF Care(list, a) # {} \/ Text[a].material
    THEN {s \in list.held : Weak(s, a)}
    ELSE {}

(* _match_article, with its two-signal gate: weak matches count if there is*)
(* a strong one, a theme or a material sentiment.                          *)
Own(list, a) ==
    IF Certain(list, a) # {} \/ Care(list, a) # {} \/ Text[a].material
    THEN Certain(list, a) \cup {s \in list.held : Weak(s, a)}
    ELSE {}

Shortlisted(list, a) ==
    \/ Text[a].material
    \/ Cardinality(Own(list, a)) + Cardinality(Care(list, a)) >= 2

(* _build_keywords: the words the search is asked for.                     *)
Keywords(list) == list.themes \cup UNION {s.names : s \in list.held}

Searched(list) == {a \in Articles : Keywords(list) \cap Words(a) # {}}

Stored(a) == \E i \in DOMAIN rows : rows[i].uri = a

-----------------------------------------------------------------------------
(* Watchlists.                                                             *)

BookChanges(c, b) ==
    /\ Begun /\ b # book[c]
    /\ book' = [book EXCEPT ![c] = b]
    /\ UNCHANGED <<watch, rows, degraded, sjob, crossed, call>>

(* build_watchlists: a client without positions or DNA is passed over.     *)
WatchRead(w, c) ==
    /\ call[w] = Free /\ Watchable(book[c]) /\ Begun
    /\ Works(w, Busy("watch", {c}, book[c], <<>>, NoHoldings))
    /\ Turns(w, Running)
    /\ UNCHANGED <<book, watch, rows, degraded, crossed>>

(* The upsert replaces the row, and each client is committed by itself.    *)
WatchCommit(w) ==
    /\ sjob[w].op = "watch"
    /\ watch' = [c \in Clients |-> IF c \in sjob[w].clients
                                   THEN sjob[w].watch ELSE watch[c]]
    /\ Rests(w)
    /\ UNCHANGED <<book, rows, degraded, crossed, ops>>

-----------------------------------------------------------------------------
(* scan_news_for_client.                                                   *)

ScanRead(w, c, found) ==
    /\ call[w] = Free /\ watch[c] # NoWatch /\ Begun
    /\ found # {} /\ found \subseteq Searched(watch[c])
    /\ Works(w, Busy("filter", {c}, watch[c], SetToSeq(found), NoHoldings))
    /\ Turns(w, Calling)
    /\ UNCHANGED <<book, watch, rows, degraded, crossed>>

Matches(list, a) == Own(list, a) # {} \/ Care(list, a) # {}

UnseenAll(list, as) == {a \in as : Matches(list, a)}

(* What matches and no row has yet, of this client or of another.          *)
Unseen(list, as) == {a \in as : Matches(list, a) /\ ~Stored(a)}

UnderWay == UNION {{sjob[w].todo[i] : i \in DOMAIN sjob[w].todo}
                   \cup {sjob[w].out[i].uri : i \in DOMAIN sjob[w].out}
                      : w \in {x \in Callers :
                                  sjob[x].op \in {"impact", "seed"}}}

FilteredOpen(w, keep, again) ==
    LET fresh == Unseen(sjob[w].watch, keep)
    IN  /\ sjob[w].op = "filter" /\ call[w].at \in Answered
        /\ crossed' = crossed \cup again \cup (UnderWay \cap fresh)
        /\ Works(w, [sjob[w] EXCEPT
                       !.op = "impact",
                       !.todo = SetToSeq(fresh) \o SetToSeq(fresh \cap again),
                       !.kept = IF call[w].at = "ok" THEN keep ELSE {}])
        /\ Turns(w, Running)
        /\ UNCHANGED <<book, watch, rows, degraded, ops>>

(* The filter keeps what its answer's indices name, as often as it names   *)
(* it; the match and the look at the table follow.                         *)
Filtered(w, keep, again) ==
    LET fresh == Unseen(sjob[w].watch, keep)
    IN  /\ sjob[w].op = "filter" /\ call[w].at = "ok"
        /\ crossed' = crossed \cup again \cup (UnderWay \cap fresh)
        /\ Works(w, [sjob[w] EXCEPT
                       !.op = "impact",
                       !.todo = SetToSeq(fresh) \o SetToSeq(fresh \cap again),
                       !.kept = keep])
        /\ Turns(w, Running)
        /\ UNCHANGED <<book, watch, rows, degraded, ops>>

(* No fallback: without the filter nothing is matched, and a scan of all   *)
(* clients ends here.                                                      *)
FilterFails(w) ==
    /\ sjob[w].op = "filter" /\ call[w].at = "failed"
    /\ Rests(w)
    /\ UNCHANGED <<book, watch, rows, degraded, crossed, ops>>

Article(w) == Head(sjob[w].todo)

CareOnly(w) == Own(sjob[w].watch, Article(w)) = {}

Judging(w) == sjob[w].op = "impact" /\ sjob[w].todo # <<>>

Passes(w, out, about, failed) ==
    /\ Works(w, [sjob[w] EXCEPT !.todo = Tail(@), !.out = @ \o out,
                                !.about = @ \cup about,
                                !.failed = @ \cup failed])
    /\ Turns(w, Running)

Item(w, impact) ==
    NewsItem(Article(w), sjob[w].clients, impact, sjob[w].watch)

Near(w) ==
    ~CareOnly(w) \/ degraded \/ sjob[w].clients \X {Article(w)} \cap Far = {}

(* relevance_distances: a theme without a holding must be near the profile.*)
GateDrops(w) ==
    /\ Judging(w) /\ call[w] = Running /\ ~Near(w)
    /\ Passes(w, <<>>, {}, {})
    /\ UNCHANGED <<book, watch, rows, degraded, crossed, ops>>

(* The first failure of the embeddings turns the gate off.                 *)
EmbeddingsFail(w) ==
    /\ Judging(w) /\ call[w] = Running /\ CareOnly(w) /\ ~degraded
    /\ degraded' = TRUE
    /\ UNCHANGED <<book, watch, rows, sjob, crossed, call, ops>>

(* Not worth a verdict: a row without one.                                 *)
TakeUnjudged(w) ==
    /\ Judging(w) /\ call[w] = Running /\ Near(w)
    /\ ~Shortlisted(sjob[w].watch, Article(w))
    /\ Passes(w, <<Item(w, "none")>>, {}, {})
    /\ UNCHANGED <<book, watch, rows, degraded, crossed, ops>>

AskVerdictUnchecked(w) ==
    /\ Judging(w) /\ call[w] = Running /\ Near(w)
    /\ Shortlisted(sjob[w].watch, Article(w))
    /\ Turns(w, At("asked", Attempts - 1))
    /\ UNCHANGED <<scanVars, ops>>

AskVerdict(w) ==
    /\ Judging(w) /\ call[w] = Running /\ Near(w)
    /\ Shortlisted(sjob[w].watch, Article(w))
    /\ Turns(w, Calling)
    /\ UNCHANGED <<scanVars, ops>>

(* A match the model finds spurious is dropped.                            *)
Verdict(w, about) ==
    /\ Judging(w) /\ call[w].at = "ok"
    /\ IF about THEN Passes(w, <<Item(w, "impact")>>, {Article(w)}, {})
       ELSE Passes(w, <<>>, {}, {})
    /\ UNCHANGED <<book, watch, rows, degraded, crossed, ops>>

(* Without a verdict the row is written without an impact, and no later    *)
(* scan looks at the article again.                                        *)
VerdictFails(w) ==
    /\ Judging(w) /\ call[w].at = "failed"
    /\ Passes(w, <<Item(w, "none")>>, {}, {Article(w)})
    /\ UNCHANGED <<book, watch, rows, degraded, crossed, ops>>

(* Everything a worker has made, in one commit.                            *)
RowsCommit(w) ==
    /\ sjob[w].op = "impact" /\ sjob[w].todo = <<>>
    /\ rows' = rows \o sjob[w].out
    /\ Rests(w)
    /\ UNCHANGED <<book, watch, degraded, crossed, ops>>

-----------------------------------------------------------------------------
(* Seeded stories.                                                         *)

(* seed_news_triggers: of what the searches find, what has no row.         *)
SeedRead(w, found) ==
    LET fresh == {a \in found : ~Stored(a)}
    IN  /\ call[w] = Free /\ found # {} /\ Begun
        /\ Works(w, Busy("seed", {}, NoWatch, SetToSeq(fresh), NoHoldings))
        /\ crossed' = crossed \cup (UnderWay \cap fresh)
        /\ Turns(w, Running)
        /\ UNCHANGED <<book, watch, rows, degraded>>

SeedCommit(w) ==
    /\ sjob[w].op = "seed"
    /\ rows' = rows \o [i \in DOMAIN sjob[w].todo |->
                          NewsItem(sjob[w].todo[i], {}, "none", NoWatch)]
    /\ Rests(w)
    /\ UNCHANGED <<book, watch, degraded, crossed, ops>>

(* fanout_seeded_news reads the seeded rows and the positions.             *)
FanRead(w) ==
    /\ call[w] = Free /\ Begun
    /\ Works(w, Busy("fan", {}, NoWatch,
                     SetToSeq({i \in DOMAIN rows : rows[i].seeded}),
                     [c \in Clients |-> book[c].held]))
    /\ Turns(w, Running)
    /\ UNCHANGED <<book, watch, rows, degraded, crossed>>

Named(held, a) == {s \in UNION Range(held) : s.names \cap Title(a) # {}}

Holders(held, named) == {c \in Clients : held[c] \cap named # {}}

FirstOnly(held) == {{s} : s \in UNION Range(held)}

(* Of several securities of one issuer the first one counts, in the order  *)
(* the positions come in.                                                  *)
OnePerIssuer(held) ==
    {S \in SUBSET UNION Range(held) :
        \A s \in UNION Range(held) :
            \E t \in S : {x \in S : x.issuer = s.issuer} = {t}}

(* Recomputed on every run: whom an earlier run told is forgotten.         *)
Told(held, S, a) == Holders(held, S \cap Named(held, a))

FanCommit(w) ==
    LET held == sjob[w].told
    IN  /\ sjob[w].op = "fan"
        /\ \E S \in OnePerIssuer(held) :
              rows' = [i \in DOMAIN rows |->
                         IF i \in Range(sjob[w].todo)
                         THEN [rows[i] EXCEPT
                                 !.told = held,
                                 !.clients = Told(held, S, rows[i].uri)]
                         ELSE rows[i]]
        /\ Rests(w)
        /\ UNCHANGED <<book, watch, degraded, crossed, ops>>

-----------------------------------------------------------------------------
(* What a statement, a search or a cancellation ends; nothing is committed.*)
ScanFails(w) ==
    /\ sjob[w] # AtRest
    /\ Rests(w)
    /\ UNCHANGED <<book, watch, rows, degraded, crossed, ops>>

(* The flag of the embeddings is the process's own.                        *)
ScansEnd ==
    /\ sjob' = [w \in Callers |-> AtRest] /\ degraded' = FALSE
    /\ UNCHANGED <<book, watch, rows, crossed>>

ScanStep(w) ==
    \/ \E c \in Clients :
          \/ WatchRead(w, c)
          \/ \E found \in SUBSET Articles : ScanRead(w, c, found)
    \/ WatchCommit(w)
    \/ \E keep \in SUBSET Range(sjob[w].todo) :
          \E again \in SUBSET keep : Filtered(w, keep, again)
    \/ FilterFails(w)
    \/ GateDrops(w) \/ EmbeddingsFail(w) \/ TakeUnjudged(w)
    \/ AskVerdict(w) \/ VerdictFails(w)
    \/ \E about \in BOOLEAN : Verdict(w, about)
    \/ RowsCommit(w)

SeedStep(w) ==
    \/ \E found \in SUBSET Stories : SeedRead(w, found)
    \/ SeedCommit(w) \/ FanRead(w) \/ FanCommit(w)

ScanNext ==
    MeterSame /\ \/ \E c \in Clients, b \in Books : BookChanges(c, b)
                 \/ \E w \in Callers : \/ ScanStep(w) \/ SeedStep(w)
                                        \/ ScanFails(w)

-----------------------------------------------------------------------------
(* An article has one row, whatever finds it, for whichever client, and    *)
(* however often: the exceptions are two that looked for its row before    *)
(* either had written it, and a filter whose answer names it twice.        *)
NoDuplicateRow ==
    \A i, j \in DOMAIN rows :
        rows[i].uri = rows[j].uri /\ rows[i].uri \notin crossed => i = j

(* Nothing reaches a client unjudged: a scan writes a row for an article   *)
(* that the model's filter kept in that scan, and one worth a verdict has  *)
(* one that says it is about the client's holding, or its verdict failed.  *)
RowsJudged ==
    [][\A i \in DOMAIN rows' \ DOMAIN rows :
          LET r == rows'[i]
          IN  r.seeded \/ \E w \in Callers :
                 /\ r.clients = sjob[w].clients /\ r.uri \in sjob[w].kept
                 /\ Shortlisted(r.watch, r.uri) =>
                       r.uri \in IF r.impact = "none" THEN sjob[w].failed
                                 ELSE sjob[w].about]_rows

(* A holding or a theme more never costs a client a match: the gate of two *)
(* signals may add weak matches and takes none away.                       *)
MatchGrows ==
    [][\A c \in {x \in Clients : watch'[x] # watch[x]}, a \in Articles :
          /\ watch[c].held \subseteq watch'[c].held
          /\ watch[c].themes \subseteq watch'[c].themes
          => Own(watch[c], a) \subseteq Own(watch'[c], a)]_watch

(* Whom a seeded story is told to are holders of what it names, as of the  *)
(* last run; and every holder of a security is, but where another security *)
(* of the same issuer is held as well.                                     *)
SeededReaches ==
    \A i \in {x \in DOMAIN rows : rows[x].seeded} :
        LET r == rows[i]
            named == Named(r.told, r.uri)
        IN  /\ r.clients \subseteq Holders(r.told, named)
            /\ \A s \in named :
                  {t \in named : t.issuer = s.issuer} = {s}
                  => Holders(r.told, {s}) \subseteq r.clients
=============================================================================
