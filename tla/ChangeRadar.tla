----------------------------- MODULE ChangeRadar -----------------------------
(***************************************************************************)
(* The Change Radar: change_events as a projection of open alerts, news    *)
(* items and e-mails (backend/app/loaders/change_radar.py).                *)
(*                                                                         *)
(* A rebuild deletes the table and writes one row per triggering entity in *)
(* one transaction.  The refresh loop (radar_refresh.py) and the admin API *)
(* both start rebuilds, and nothing keeps them apart; the database runs    *)
(* READ COMMITTED, where a DELETE takes the rows its statement saw and     *)
(* waits for the transactions that hold one of them.                       *)
(*                                                                         *)
(* Severity and confidence are in tenths, sentiment in fifths, magnitude   *)
(* in hundredths, relevance in halves; exposures are whole amounts.        *)
(***************************************************************************)
EXTENDS Integers, Sequences, FiniteSets, FiniteSetsExt, Functions, RadarTable

CONSTANTS
    Sources,        \* what may be there to see, records of a kind:
                    \*   alert: class, client, severity, confidence, isin,
                    \*          sac, url, day
                    \*   news:  key, clients, url, sentiment, isins, day
                    \*   email: key, type, client, magnitude, relevance,
                    \*          isins, day
    Positions,      \* sequence of [client, isin, sac, chf]
    Decay,          \* Decay[n]: weight of an event that is n days old
    Pinned,         \* rows of the demo scenario, which rebuilds preserve
    Builders,       \* rebuilds that may be under way at once
    NumBuilds,      \* bound: rebuilds whose rows are in the table together
    MaxChanges,     \* bound: sources that come or go
    MaxRequests,    \* bound: rebuilds the admin API asks for
    MaxAborts       \* bound: rebuilds that fail

VARIABLES
    live,           \* sources there are now: open alerts, news, e-mails
    bpc,            \* bpc[b]: idle, delete, write
    doomed,         \* doomed[b]: rows its DELETE has taken
    got,            \* got[b]: sources it has read
    changes, requests, aborts,
    alone,          \* history: no other rebuild since this one began
    whole           \* history: the last commit was by such a rebuild

buildVars == <<live, bpc, doomed, got, changes, requests, aborts,
               alone, whole>>
Builds == 1..NumBuilds

Magnitude == [Critical |-> 10, Attention |-> 6, FYI |-> 3]

(* Amounts, confidences and magnitudes are numbers, and finitely many       *)
(* things can be seen; a demo row has a key ("email:demo:...").             *)
IsSource(s) ==
    /\ s.day \in Nat
    /\ s.kind = "alert" => s.severity \in DOMAIN Magnitude /\ s.confidence \in Nat
    /\ s.kind = "news"  => s.sentiment \in Nat /\ IsFiniteSet(s.clients)
    /\ s.kind = "email" => s.magnitude \in Nat /\ s.relevance \in Nat

ASSUME BuildAssumption ==
    /\ IsFiniteSet(Sources) /\ \A s \in Sources : IsSource(s)
    /\ IsFiniteSet(DOMAIN Positions)
    /\ \A n \in DOMAIN Positions : Positions[n].chf \in Nat
    /\ \A row \in Pinned : row.key # None

-----------------------------------------------------------------------------
(* From sources to signals: one client's stake in one entity.              *)

NewsClasses == {"news_impact", "good_news", "panic"}
DnaClasses  == {"dna_conflict", "behavioural_guardrail", "panic", "good_news"}

Relevance(class) == IF class \in DnaClasses THEN 3 ELSE 2

Signal(key, type, client, magnitude, relevance, isins, sac, ts) ==
    [key |-> key, type |-> type, client |-> client, magnitude |-> magnitude,
     relevance |-> relevance, isins |-> isins, sac |-> sac, day |-> ts]

(* extract_alert_entity.                                                   *)
EntityType(a) ==
    CASE a.class = "drift_breach" -> "sector"
      [] a.class \in {"stale_sell", "dna_conflict", "price_move",
                      "maturity_soon", "behavioural_guardrail"} -> "instrument"
      [] OTHER -> "client"

EntityOf(a) ==
    LET type == EntityType(a)
        value == CASE type = "sector" -> a.sac
                   [] type = "instrument" -> a.isin
                   [] OTHER -> a.client
    IN  IF value = None THEN None ELSE <<type, value>>

Kind(S, k) == {s \in S : s.kind = k}
PlainAlerts(S) == {a \in Kind(S, "alert") : a.class \notin NewsClasses}
Resolvable(S)  == {a \in PlainAlerts(S) : EntityOf(a) # None}
Unresolvable(S) == PlainAlerts(S) \ Resolvable(S)

AlertUntyped(a) ==
    Signal(EntityOf(a)[2], EntityType(a), a.client,
           Magnitude[a.severity] * a.confidence, Relevance(a.class),
           {a.isin} \ {None}, a.sac, a.day)

AlertSignal(a) ==
    Signal(EntityOf(a), EntityType(a), a.client,
           Magnitude[a.severity] * a.confidence, Relevance(a.class),
           {a.isin} \ {None}, a.sac, a.day)

(* The severest of the client's alerts on the article; of equals, any.     *)
Matched(n, c, S) ==
    LET on == {a \in Kind(S, "alert") : /\ a.class \in NewsClasses
                                        /\ a.client = c /\ a.url = n.url}
    IN  {a \in on : \A o \in on : Magnitude[o.severity] <= Magnitude[a.severity]}

NewsSignal(n, c, severity, class) ==
    Signal(n.key, IF n.isins = {} THEN "macro" ELSE "instrument", c,
           Magnitude[severity] * (5 + n.sentiment), Relevance(class),
           n.isins, None, n.day)

NewsSignals(n, S) ==
    UNION {IF Matched(n, c, S) = {} THEN {NewsSignal(n, c, "Attention", "news_impact")}
           ELSE {NewsSignal(n, c, a.severity, a.class) : a \in Matched(n, c, S)}
           : c \in n.clients}

EmailSignal(e) ==
    Signal(e.key, e.type, e.client, e.magnitude, e.relevance, e.isins, None,
           e.day)

Signals(S) ==
    {AlertSignal(a) : a \in Resolvable(S)}
    \cup (UNION {NewsSignals(n, S) : n \in Kind(S, "news")})
    \cup {EmailSignal(e) : e \in Kind(S, "email")}

-----------------------------------------------------------------------------
(* From signals to rows.                                                   *)

Total(P) == SumFunctionOnSet([n \in DOMAIN Positions |-> Positions[n].chf], P)

HeldBy(c) == {n \in DOMAIN Positions : Positions[n].client = c}

Exposure(s) ==
    Total({n \in HeldBy(s.client) :
              CASE s.type = "instrument" -> Positions[n].isin \in s.isins
                [] s.type = "sector" -> Positions[n].sac = s.sac
                [] OTHER -> TRUE})

SamePair(s, o) == s.key = o.key /\ s.client = o.client

(* A client counts once per entity, with its strongest signal; among       *)
(* equally strong ones the order of the rows in the database decides.      *)
Strongest(S) ==
    {s \in S : \A o \in S : SamePair(s, o) => o.magnitude <= s.magnitude}

OnePerPair(S) ==
    {T \in SUBSET S : /\ \A s \in S : \E t \in T : SamePair(s, t)
                     /\ \A t, o \in T : SamePair(t, o) => t = o}

Groups(chosen) == {{s \in chosen : s.key = key} : key \in {s.key : s \in chosen}}

Latest(G) == Max({s.day : s \in G})

(* score_event: every client's exposure by magnitude and relevance, faded  *)
(* by the age of the latest signal.                                        *)
Impact(G) ==
    Decay[day - Latest(G)]
      * SumFunction([s \in G |-> Exposure(s) * s.magnitude * s.relevance])

Row(n, key, about, magnitude, impact, clients, exposure) ==
    [build |-> n, key |-> key, about |-> about, magnitude |-> magnitude,
     impact |-> impact, clients |-> clients, exposure |-> exposure,
     resolved |-> clients # {} /\ exposure > 0]

EntityRow(n, G) ==
    Row(n, (CHOOSE s \in G : TRUE).key, None, Max({s.magnitude : s \in G}),
        Impact(G), {s.client : s \in G},
        SumFunction([s \in G |-> Exposure(s)]))

UnresolvedRow(n, a) == Row(n, None, a, 0, 0, {}, 0)

KnownOnly(n, S, chosen) ==
    {EntityRow(n, G) : G \in Groups(chosen)}

BuiltRows(n, S, chosen) ==
    {EntityRow(n, G) : G \in Groups(chosen)}
    \cup {UnresolvedRow(n, a) : a \in Unresolvable(S)}

-----------------------------------------------------------------------------
BuildInit ==
    /\ events = Pinned
    /\ live = {} /\ day = 0
    /\ bpc = [b \in Builders |-> "idle"]
    /\ doomed = [b \in Builders |-> {}] /\ got = [b \in Builders |-> {}]
    /\ changes = 0 /\ requests = 0 /\ aborts = 0
    /\ alone = [b \in Builders |-> FALSE] /\ whole = FALSE

(* The generators, the news pipeline, the RM.                              *)
Appear(s) ==
    /\ changes < MaxChanges
    /\ s \notin live /\ s.day = day
    /\ live' = live \cup {s} /\ changes' = changes + 1
    /\ UNCHANGED <<events, day, bpc, doomed, got, requests, aborts, alone,
                   whole>>

Vanish(s) ==
    /\ changes < MaxChanges
    /\ s \in live
    /\ live' = live \ {s} /\ changes' = changes + 1
    /\ UNCHANGED <<events, day, bpc, doomed, got, requests, aborts, alone,
                   whole>>

(* LIKE is never true of NULL: rows without entity are named apart.        *)
DeletableKeyed == {row \in events \ Pinned : row.key # None}

Deletable == {row \in events : row.key = None \/ row \notin Pinned}

(* E-mails are read, then the DELETE is sent and sees the table.           *)
Begin(b) ==
    /\ bpc[b] = "idle"
    /\ IF b = "loop" THEN requests' = requests
       ELSE requests < MaxRequests /\ requests' = requests + 1
    /\ bpc' = [bpc EXCEPT ![b] = "delete"]
    /\ got' = [got EXCEPT ![b] = Kind(live, "email")]
    /\ doomed' = [doomed EXCEPT ![b] = Deletable]
    /\ alone' = [o \in Builders |-> o = b /\ \A x \in Builders : bpc[x] = "idle"]
    /\ UNCHANGED <<events, live, day, changes, aborts, whole>>

Held == UNION {doomed[b] : b \in {x \in Builders : bpc[x] = "write"}}

(* The DELETE ends, leaving alone what is gone, and the rest is read.      *)
DeleteAndRead(b) ==
    /\ bpc[b] = "delete"
    /\ doomed[b] \cap Held = {}
    /\ bpc' = [bpc EXCEPT ![b] = "write"]
    /\ doomed' = [doomed EXCEPT ![b] = @ \cap events]
    /\ got' = [got EXCEPT ![b] = @ \cup Kind(live, "alert") \cup Kind(live, "news")]
    /\ UNCHANGED <<events, live, day, changes, requests, aborts, alone, whole>>

FreeBuilds == {n \in Builds : \A row \in events : row.build # n}

CommitBuild(b, chosen) ==
    /\ FreeBuilds # {}
    /\ events' = (events \ doomed[b])
                    \cup BuiltRows(Min(FreeBuilds), got[b], chosen)
    /\ whole' = alone[b]
    /\ bpc' = [bpc EXCEPT ![b] = "idle"]
    /\ doomed' = [doomed EXCEPT ![b] = {}] /\ got' = [got EXCEPT ![b] = {}]
    /\ UNCHANGED <<live, day, changes, requests, aborts, alone>>

Abort(b) ==
    /\ aborts < MaxAborts
    /\ bpc[b] # "idle"
    /\ bpc' = [bpc EXCEPT ![b] = "idle"]
    /\ doomed' = [doomed EXCEPT ![b] = {}] /\ got' = [got EXCEPT ![b] = {}]
    /\ aborts' = aborts + 1
    /\ UNCHANGED <<events, live, day, changes, requests, alone, whole>>

Commits(b) ==
    /\ bpc[b] = "write"
    /\ \E signals \in {Signals(got[b])} : \E strongest \in {Strongest(signals)} :
       \E chosen \in OnePerPair(strongest) : CommitBuild(b, chosen)

Proceed(b) == DeleteAndRead(b) \/ Commits(b)
Rebuild(b) == Begin(b) \/ Proceed(b)

World == \E s \in Sources : Appear(s) \/ Vanish(s)

BuildStep == World \/ \E b \in Builders : Rebuild(b) \/ Abort(b)

NewDay ==
    /\ day + 1 \in DOMAIN Decay
    /\ day' = day + 1
    /\ UNCHANGED <<events, buildVars>>

BuildNext == BuildStep \/ NewDay

BuildSpec == BuildInit /\ [][BuildNext]_<<events, day, buildVars>>

-----------------------------------------------------------------------------
(* "Concurrent reads see the old or new snapshot, never a partial one":    *)
(* after a rebuild that no other overlapped, the table is the outcome of   *)
(* that rebuild alone, with one row per entity, whatever overlaps and      *)
(* failures came before it; and the demo rows are still there.             *)
WholeSnapshot ==
    LET built == events \ Pinned
    IN  /\ Pinned \subseteq events
        /\ whole => \A x, y \in built :
                       /\ x.build = y.build
                       /\ x.key = y.key => x = y \/ x.key = None

(* "Surfaced explicitly, never silently dropped": every alert that a       *)
(* rebuild read, other than those on news, is in the table it leaves, as a *)
(* client of its entity's row or as a row of its own.                      *)
Represented(a, table) ==
    \E row \in table :
        IF EntityOf(a) = None THEN row.about = a
        ELSE row.key = EntityOf(a) /\ a.client \in row.clients

NothingDropped ==
    [][\A b \in Builders :
          (bpc[b] = "write" /\ bpc'[b] = "idle" /\ aborts' = aborts)
             => \A a \in PlainAlerts(got[b]) : Represented(a, events')]_events

(* No franc is counted twice: however many channels and alerts point at an *)
(* entity, its exposure is at most what its clients hold.                  *)
CountedOnce ==
    \A row \in events \ Pinned :
        row.exposure <= Total(UNION {HeldBy(c) : c \in row.clients})

(* Rebuilding over each other and over failures leaves a table that one    *)
(* rebuild could have made by itself, with every franc in it once.         *)
TableSound == WholeSnapshot /\ CountedOnce
=============================================================================
