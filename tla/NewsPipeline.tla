---------------------------- MODULE NewsPipeline ----------------------------
(***************************************************************************)
(* The news firehose: how an article gets from the Event Registry feed to  *)
(* the clients it concerns.                                                *)
(*                                                                         *)
(* The poller (backend/app/poller.py) asks the feed for what is newer than *)
(* its cursor, pushes every article on the Redis list news:candidates and  *)
(* then saves the new cursor.  The fan-out (backend/app/loaders/           *)
(* news_fanout.py) pops one article at a time, finds the clients whose     *)
(* watchlist it hits, asks the hosted LLM about each doubtful pair,        *)
(* remembers the verdict in Redis, pushes a candidate per client on        *)
(* news:alert_candidates and finally writes one news_items row.  Both are  *)
(* loops of one process: every await is a place where they interleave, and *)
(* where a restart or an exception can catch them.                         *)
(***************************************************************************)
EXTENDS Integers, Sequences

CONSTANTS
    NumArticles,    \* articles the feed publishes
    PageSize,       \* articles one request may bring (count)
    Clients,        \* clients with a watchlist
    Keyword,        \* pairs <<article, client>>: a watchlist keyword is in it
    Own,            \* those of them matched by a held entity
    Care,           \* those of them matched by a DNA theme
    Shortlisted,    \* pairs worth an LLM call: strong sentiment or two hits
    UniqueIndex,    \* does news_items have the unique index the upsert needs?
    MaxFaults,      \* bound: exceptions and restarts
    MaxErrors,      \* bound: failed LLM calls
    MaxExpiries     \* bound: verdicts that reach their time to live

Articles == 1..NumArticles
Pairs    == Articles \X Clients

ASSUME NewsAssumption ==
    /\ NumArticles \in Nat /\ PageSize \in Nat \ {0}
    /\ Keyword \subseteq Pairs
    /\ Own \cup Care \subseteq Keyword /\ Shortlisted \subseteq Own \cup Care
    /\ UniqueIndex \in BOOLEAN
    /\ MaxFaults \in Nat /\ MaxErrors \in Nat /\ MaxExpiries \in Nat

VARIABLES
    published,      \* the feed has published articles 1..published
    \* Redis
    cursor,         \* news:cursor, 0 before the first one is saved
    queue,          \* the list news:candidates, oldest first
    verdict,        \* verdict[p]: news:classified:{article}:{client}
    emitted,        \* pairs pushed on news:alert_candidates
    \* the database
    stored,         \* stored[a]: client_ids of a's news_items row, {} if none
    \* the poller
    ppc,            \* where it is in its cycle
    pnext, plast,   \* the articles pnext..plast are fetched, not yet pushed
    \* the fan-out
    fpc,            \* where it is in run_fanout
    fart,           \* the article it popped, 0 if none
    ftodo,          \* clients hit and not yet looked at
    fmatched,       \* all_client_ids
    fclient,        \* the clients being looked at: {} or one
    fanswer,        \* the LLM's answer for it, not yet remembered
    \* history
    start,          \* the first article of the coverage the cursor promises
    settled,        \* articles the fan-out finished with
    refused,        \* articles whose row the database refused
    caught,         \* articles in the fan-out's hands at a failure
    paid,           \* paid[p]: LLM answers, less the verdicts since lost
    faults, errors, expiries

pollVars == <<ppc, pnext, plast>>
fanVars  == <<fpc, fart, ftodo, fmatched, fclient, fanswer>>
outVars  == <<verdict, emitted, stored>>
history  == <<settled, refused, caught, paid, faults, errors, expiries>>
vars == <<published, cursor, queue, outVars, pollVars, fanVars, start, history>>

-----------------------------------------------------------------------------
Init ==
    /\ published = 0 /\ cursor = 0 /\ queue = <<>>
    /\ verdict = [p \in Pairs |-> "none"] /\ emitted = {}
    /\ stored = [a \in Articles |-> {}]
    /\ ppc = "idle" /\ pnext = 1 /\ plast = 0
    /\ fpc = "idle" /\ fart = 0 /\ ftodo = {} /\ fmatched = {}
    /\ fclient = {} /\ fanswer = "none"
    /\ start = 1 /\ settled = {} /\ refused = {} /\ caught = {}
    /\ paid = [p \in Pairs |-> 0]
    /\ faults = 0 /\ errors = 0 /\ expiries = 0

(* The feed is the outside world.                                          *)
Publish ==
    /\ published < NumArticles
    /\ published' = published + 1
    /\ UNCHANGED <<cursor, queue, outVars, pollVars, fanVars, start, history>>

-----------------------------------------------------------------------------
(* The poller.                                                             *)

(* One request for at most PageSize articles.  Without a cursor the feed    *)
(* answers some of its most recent ones; with one, those that follow it,   *)
(* and the cursor it returns is the last of them.                          *)
PollFetch(first) ==
    /\ ppc = "idle"
    /\ published > cursor
    /\ first \in 1..published
    /\ IF cursor = 0
       THEN published - first < PageSize /\ start' = first /\ plast' = published
       ELSE /\ first = cursor + 1 /\ UNCHANGED start
            /\ plast' = IF published < cursor + PageSize
                        THEN published ELSE cursor + PageSize
    /\ ppc' = "push" /\ pnext' = first
    /\ UNCHANGED <<published, cursor, queue, outVars, fanVars, history>>

(* A cycle that saves its cursor first and pushes afterwards.              *)
PollPushLate ==
    /\ ppc = "push"
    /\ IF pnext <= plast
       THEN queue' = Append(queue, pnext) /\ pnext' = pnext + 1
       ELSE UNCHANGED <<queue, pnext>>
    /\ ppc' = IF pnext < plast THEN "push" ELSE "idle"
    /\ cursor' = plast
    /\ UNCHANGED <<published, outVars, plast, fanVars, start, history>>

PollPush ==
    /\ ppc = "push"
    /\ queue' = Append(queue, pnext)
    /\ pnext' = pnext + 1
    /\ ppc' = IF pnext = plast THEN "save" ELSE "push"
    /\ UNCHANGED <<published, cursor, outVars, plast, fanVars, start, history>>

PollSave ==
    /\ ppc = "save"
    /\ cursor' = plast
    /\ ppc' = "idle"
    /\ UNCHANGED <<published, queue, outVars, pnext, plast, fanVars, start,
                   history>>

-----------------------------------------------------------------------------
(* The fan-out: run_fanout, cut at its awaits.                             *)

Hit(a) == {c \in Clients : <<a, c>> \in Keyword}

(* It is done with the article: nothing of this call survives.             *)
FanReset ==
    /\ fpc' = "idle" /\ fart' = 0 /\ ftodo' = {} /\ fmatched' = {}
    /\ fclient' = {} /\ fanswer' = "none"

FanDequeue ==
    /\ fpc = "idle"
    /\ queue # <<>>
    /\ fart' = Head(queue)
    /\ queue' = Tail(queue)
    /\ fpc' = "index"
    /\ UNCHANGED <<published, cursor, outVars, pollVars, ftodo, fmatched,
                   fclient, fanswer, start, history>>

(* The inverted index: an article that hits no watchlist is dropped.       *)
FanIndex ==
    /\ fpc = "index"
    /\ IF Hit(fart) = {}
       THEN FanReset /\ settled' = settled \cup {fart}
       ELSE /\ fpc' = "filter" /\ ftodo' = Hit(fart)
            /\ UNCHANGED <<fart, fmatched, fclient, fanswer, settled>>
    /\ UNCHANGED <<published, cursor, queue, outVars, pollVars, start, refused,
                   caught, paid, faults, errors, expiries>>

(* The financial filter answers; noise is dropped.                         *)
FanFilter(relevant) ==
    /\ fpc = "filter"
    /\ IF relevant
       THEN /\ fpc' = "triage"
            /\ UNCHANGED <<fart, ftodo, fmatched, fclient, fanswer, settled>>
       ELSE FanReset /\ settled' = settled \cup {fart}
    /\ UNCHANGED <<published, cursor, queue, outVars, pollVars, start, refused,
                   caught, paid, faults, errors, expiries>>

(* "No fail-open": when the filter fails the article goes back on the      *)
(* queue.                                                                  *)
FanFilterFails ==
    /\ fpc = "filter"
    /\ errors < MaxErrors
    /\ fpc' = "requeue"
    /\ errors' = errors + 1
    /\ UNCHANGED <<published, cursor, queue, outVars, pollVars, fart, ftodo,
                   fmatched, fclient, fanswer, start, settled, refused, caught,
                   paid, faults, expiries>>

FanRequeueDropped ==
    /\ fpc = "requeue"
    /\ FanReset
    /\ UNCHANGED <<published, cursor, queue, outVars, pollVars, start, history>>

FanRequeue ==
    /\ fpc = "requeue"
    /\ queue' = Append(queue, fart)
    /\ FanReset
    /\ UNCHANGED <<published, cursor, outVars, pollVars, start, history>>

(* One client of the loop.  A keyword alone is no match.  A theme match    *)
(* must pass two local gates, the distance to the client's profile and,    *)
(* when the pair would be sent to the LLM, the cross-encoder; either may   *)
(* be switched off.                                                        *)
PassedAnswered(p) ==
    p \in Own \cup Care /\ (p \notin Shortlisted \/ verdict[p] # "none")

Passed(p) ==
    p \in Own \cup Care /\ (p \notin Shortlisted \/ verdict[p] = "about")

GateDrop(c) ==
    /\ fpc = "triage" /\ c \in ftodo
    /\ <<fart, c>> \notin Own
    /\ ftodo' = ftodo \ {c}
    /\ UNCHANGED <<published, cursor, queue, outVars, pollVars, fpc, fart,
                   fmatched, fclient, fanswer, start, history>>

(* A verdict remembered from an earlier delivery spares the LLM call.      *)
CachedDrop(c) ==
    /\ fpc = "triage" /\ c \in ftodo
    /\ <<fart, c>> \in Shortlisted /\ verdict[<<fart, c>>] = "spurious"
    /\ ftodo' = ftodo \ {c}
    /\ UNCHANGED <<published, cursor, queue, outVars, pollVars, fpc, fart,
                   fmatched, fclient, fanswer, start, history>>

AcceptClient(c) ==
    /\ fpc = "triage" /\ c \in ftodo
    /\ Passed(<<fart, c>>)
    /\ fclient' = {c}
    /\ fpc' = "emit"
    /\ UNCHANGED <<published, cursor, queue, outVars, pollVars, fart, ftodo,
                   fmatched, fanswer, start, history>>

(* The LLM's verdict on a pair nobody judged before: "spurious" when the   *)
(* article is not about the holding.                                       *)
AskImpact(c, answer) ==
    /\ fpc = "triage" /\ c \in ftodo
    /\ <<fart, c>> \in Shortlisted /\ verdict[<<fart, c>>] = "none"
    /\ fclient' = {c} /\ fanswer' = answer
    /\ fpc' = "remember"
    /\ paid' = [paid EXCEPT ![<<fart, c>>] = @ + 1]
    /\ UNCHANGED <<published, cursor, queue, outVars, pollVars, fart, ftodo,
                   fmatched, start, settled, refused, caught, faults, errors,
                   expiries>>

(* When that call fails the pair is kept, unjudged.                        *)
AskFails(c) ==
    /\ fpc = "triage" /\ c \in ftodo
    /\ <<fart, c>> \in Shortlisted /\ verdict[<<fart, c>>] = "none"
    /\ errors < MaxErrors
    /\ fclient' = {c}
    /\ fpc' = "emit"
    /\ errors' = errors + 1
    /\ UNCHANGED <<published, cursor, queue, outVars, pollVars, fart, ftodo,
                   fmatched, fanswer, start, settled, refused, caught, paid,
                   faults, expiries>>

(* The verdict, negative ones included, is stored in Redis; only then is a *)
(* spurious pair dropped.                                                  *)
RememberPositive(c) ==
    /\ fpc = "remember" /\ fclient = {c}
    /\ verdict' = IF fanswer = "about"
                  THEN [verdict EXCEPT ![<<fart, c>>] = fanswer] ELSE verdict
    /\ fanswer' = "none"
    /\ IF fanswer = "spurious"
       THEN fpc' = "triage" /\ ftodo' = ftodo \ {c} /\ fclient' = {}
       ELSE fpc' = "emit" /\ UNCHANGED <<ftodo, fclient>>
    /\ UNCHANGED <<published, cursor, queue, emitted, stored, pollVars, fart,
                   fmatched, start, history>>

RememberVerdict(c) ==
    /\ fpc = "remember" /\ fclient = {c}
    /\ verdict' = [verdict EXCEPT ![<<fart, c>>] = fanswer]
    /\ fanswer' = "none"
    /\ IF fanswer = "spurious"
       THEN fpc' = "triage" /\ ftodo' = ftodo \ {c} /\ fclient' = {}
       ELSE fpc' = "emit" /\ UNCHANGED <<ftodo, fclient>>
    /\ UNCHANGED <<published, cursor, queue, emitted, stored, pollVars, fart,
                   fmatched, start, history>>

(* The candidate is pushed before the row it refers to is written.         *)
EmitCandidate(c) ==
    /\ fpc = "emit" /\ fclient = {c}
    /\ emitted' = emitted \cup {<<fart, c>>}
    /\ fmatched' = fmatched \cup {c}
    /\ ftodo' = ftodo \ {c}
    /\ fclient' = {}
    /\ fpc' = "triage"
    /\ UNCHANGED <<published, cursor, queue, verdict, stored, pollVars, fart,
                   fanswer, start, history>>

(* INSERT ... ON CONFLICT (event_cluster_id) DO UPDATE.  PostgreSQL refuses *)
(* the statement when no unique index covers the column; the exception     *)
(* ends the call and _fanout_loop goes on to the next article.             *)
UpsertWritten ==
    IF UniqueIndex
    THEN /\ stored'  = [stored EXCEPT ![fart] = fmatched]
         /\ settled' = settled \cup {fart}
         /\ UNCHANGED refused
    ELSE /\ refused' = refused \cup {fart}
         /\ UNCHANGED <<stored, settled>>

FanFinish ==
    /\ fpc = "triage" /\ ftodo = {}
    /\ IF fmatched = {}
       THEN settled' = settled \cup {fart} /\ UNCHANGED <<stored, refused>>
       ELSE UpsertWritten
    /\ FanReset
    /\ UNCHANGED <<published, cursor, queue, verdict, emitted, pollVars, start,
                   caught, paid, faults, errors, expiries>>

-----------------------------------------------------------------------------
(* What goes wrong.                                                        *)

PollReset == ppc' = "idle" /\ UNCHANGED <<pnext, plast>>

(* The verdict of an answered call is lost with the call.                  *)
Unremembered ==
    [p \in Pairs |-> IF fpc = "remember" /\ p[1] = fart /\ p[2] \in fclient
                     THEN paid[p] - 1 ELSE paid[p]]

FanDropped ==
    /\ FanReset
    /\ caught' = caught \cup ({fart} \ {0})
    /\ paid' = Unremembered

(* An exception in the poller's cycle, or an answer without a cursor.      *)
PollFault ==
    /\ faults < MaxFaults
    /\ ppc # "idle"
    /\ PollReset
    /\ faults' = faults + 1
    /\ UNCHANGED <<published, cursor, queue, outVars, fanVars, start, settled,
                   refused, caught, paid, errors, expiries>>

(* An exception in run_fanout: a lost connection to Redis or Postgres.     *)
FanFault ==
    /\ faults < MaxFaults
    /\ fpc # "idle"
    /\ FanDropped
    /\ faults' = faults + 1
    /\ UNCHANGED <<published, cursor, queue, outVars, pollVars, start, settled,
                   refused, errors, expiries>>

(* Storing a verdict fails inside the try: the pair is kept, unjudged.     *)
RememberFails ==
    /\ faults < MaxFaults
    /\ fpc = "remember"
    /\ fpc' = "emit" /\ fanswer' = "none"
    /\ paid' = Unremembered
    /\ faults' = faults + 1
    /\ UNCHANGED <<published, cursor, queue, outVars, pollVars, fart, ftodo,
                   fmatched, fclient, start, settled, refused, caught, errors,
                   expiries>>

Restart ==
    /\ faults < MaxFaults
    /\ PollReset
    /\ FanDropped
    /\ faults' = faults + 1
    /\ UNCHANGED <<published, cursor, queue, outVars, start, settled, refused,
                   errors, expiries>>

(* A remembered verdict reaches its time to live of a week.                *)
VerdictExpires(p) ==
    /\ expiries < MaxExpiries
    /\ verdict[p] # "none"
    /\ verdict' = [verdict EXCEPT ![p] = "none"]
    /\ paid' = [paid EXCEPT ![p] = @ - 1]
    /\ expiries' = expiries + 1
    /\ UNCHANGED <<published, cursor, queue, emitted, stored, pollVars, fanVars,
                   start, settled, refused, caught, faults, errors>>

-----------------------------------------------------------------------------
PollStep == (\E first \in Articles : PollFetch(first)) \/ PollPush \/ PollSave

TriageStep ==
    \E c \in Clients :
       \/ GateDrop(c) \/ CachedDrop(c) \/ AcceptClient(c)
       \/ \E answer \in {"about", "spurious"} : AskImpact(c, answer)
       \/ AskFails(c) \/ RememberVerdict(c) \/ EmitCandidate(c)

FanStep ==
    \/ FanDequeue \/ FanIndex
    \/ \E relevant \in BOOLEAN : FanFilter(relevant)
    \/ FanFilterFails \/ FanRequeue \/ TriageStep \/ FanFinish

FaultStep ==
    \/ PollFault \/ FanFault \/ RememberFails \/ Restart
    \/ \E p \in Pairs : VerdictExpires(p)

Next == Publish \/ PollStep \/ FanStep \/ FaultStep

Spec == Init /\ [][Next]_vars

(* Both loops run for as long as the process does; every wait in them is   *)
(* bounded by a timeout.                                                   *)
FairSpec == Spec /\ WF_vars(PollStep) /\ WF_vars(FanStep)

-----------------------------------------------------------------------------
(* Properties.                                                             *)

TypeOK ==
    /\ published \in 0..NumArticles /\ cursor \in 0..NumArticles
    /\ queue \in Seq(Articles)
    /\ verdict \in [Pairs -> {"none", "about", "spurious"}]
    /\ emitted \subseteq Pairs
    /\ stored \in [Articles -> SUBSET Clients]
    /\ ppc \in {"idle", "push", "save"}
    /\ pnext \in Nat /\ plast \in 0..NumArticles
    /\ fpc \in {"idle", "index", "filter", "requeue", "triage", "remember",
                "emit"}
    /\ fart \in Articles \cup {0}
    /\ ftodo \subseteq Clients /\ fmatched \subseteq Clients
    /\ fclient \subseteq Clients /\ fanswer \in {"none", "about", "spurious"}
    /\ start \in Nat
    /\ settled \subseteq Articles /\ refused \subseteq Articles
    /\ caught \subseteq Articles
    /\ paid \in [Pairs -> Int]
    /\ faults \in Nat /\ errors \in Nat /\ expiries \in Nat

Queued(a) == \E i \in 1..Len(queue) : queue[i] = a

(* The saved cursor never runs ahead of the queue: every article it covers *)
(* is queued, in the fan-out's hands, finished, or was in those hands when *)
(* something failed.  A crash of the poller, at any point of its cycle,    *)
(* loses nothing ("gapless", news.py:213).                                 *)
CursorCovers ==
    \A a \in Articles : start <= a /\ a <= cursor =>
        Queued(a) \/ fart = a \/ a \in settled \cup refused \cup caught

(* "A replay never re-spends": whatever is delivered again, the LLM is paid *)
(* at most once for a pair whose verdict has not been lost since.          *)
PaidOnce == \A p \in Pairs : paid[p] <= 1

(* What the first delivery learnt decides the next: however an article     *)
(* comes back (a replay, a requeue, a repeated page), no candidate leaves  *)
(* for the alert engine while the pair is remembered as spurious.          *)
NoSpuriousCandidate ==
    [][\A p \in Pairs : p \in emitted' \ emitted => verdict[p] # "spurious"]_vars

(* A candidate on news:alert_candidates has its news_items row, unless the *)
(* fan-out is still at the article or a failure caught it there.           *)
CandidateHasItem ==
    \A p \in emitted :
        \/ stored[p[1]] # {}
        \/ fart = p[1] \/ p[1] \in caught

(* Every article newer than a saved cursor is polled, one page after the   *)
(* other, and brought to its end, as long as nothing fails but a bounded   *)
(* number of LLM calls: it is dropped, gets its row, or the database       *)
(* refuses the row.                                                        *)
ArticleSettles ==
    [](faults = 0) =>
        \A a \in Articles :
            (cursor # 0 /\ cursor < a /\ a <= published)
                ~> a \in settled \cup refused
=============================================================================
