----------------------------- MODULE AlertRules ------------------------------
(***************************************************************************)
(* Which alerts a client gets, and in which order an RM sees them.         *)
(*                                                                         *)
(* One pass over one client: the helpers of                                *)
(* backend/app/loaders/alerts.py in the order generate_alerts calls them,  *)
(* then those of drift.py, then alert_rank.py, which scores what is there. *)
(* AlertEngine has the transactions around these rules and leaves the      *)
(* rules out.                                                              *)
(*                                                                         *)
(* Numbers are integers: sentiment, confidence and fit in hundredths, a    *)
(* weight as chf against percent of the total, so that nothing is rounded. *)
(***************************************************************************)
EXTENDS Integers, Sequences, FiniteSets, FiniteSetsExt

CONSTANTS
    Situations,     \* what a pass may find, records of
                    \*   feed: news_items of the client, a sequence of
                    \*         [cluster, sentiment, impact, own, care]
                    \*   book: its positions, a sequence of
                    \*         [isin, fit, sac, chf]
                    \*   profile: its DNA and CRM, [dna, promises,
                    \*         proposals, contact, anxious]
                    \*   cooled: keys <<class, dedup key>> cooling down
    Targets,        \* the mandate: sequence of [sac, weight in percent]
    Sells,          \* CIO SELL list: days since the rating, by isin
    None            \* an empty column

(* The articles of a client come one after the other, and a sentiment is   *)
(* between -1 and 1, as news.py:21 has it of the provider.                 *)
ASSUME RulesAssumption ==
    \A s \in Situations :
        /\ Len(s.feed) \in Nat /\ DOMAIN s.feed = 1..Len(s.feed)
        /\ \A n \in DOMAIN s.feed : s.feed[n].sentiment \in -100..100

VARIABLES
    feed, book, profile, cooled,    \* what there is to look at
    stage, item,                    \* the helper that runs, where it is
    alerts,                         \* the rows inserted so far
    score                           \* rank_score of each

input     == <<feed, book, profile, cooled>>
rulesVars == <<input, stage, item, alerts, score>>

Stages == <<"news", "conflict", "values", "quiet", "promise", "guardrail",
            "drift", "sell", "rank", "done">>
After(s) == Stages[(CHOOSE n \in DOMAIN Stages : Stages[n] = s) + 1]

(* A row; "from" is the place of what raised it, so that two rows for the  *)
(* same key are two.                                                       *)
Alert(class, action, severity, key, confidence) ==
    [class |-> class, action |-> action, severity |-> severity, key |-> key,
     confidence |-> confidence, from |-> item]

When(condition, alert) == IF condition THEN {alert} ELSE {}

RulesInit ==
    /\ \E s \in Situations :
          /\ feed = s.feed /\ book = s.book
          /\ profile = s.profile /\ cooled = s.cooled
    /\ stage = "news" /\ item = 1 /\ alerts = {} /\ score = <<>>

-----------------------------------------------------------------------------
(* What each helper raises for the item it is at.                          *)

(* The same event may call for a trade and for a reach-out: their keys     *)
(* differ, so that one does not silence the other.                         *)
TradeKey(it) == <<it.cluster, "trade">>
ReachKey(it) == <<it.cluster, "reach">>

NewsAlerts ==
    LET it == feed[item]
        bridged == it.impact \in {"threat", "opportunity"}
    IN  When(it.sentiment <= -50 /\ it.own,
             Alert("panic", "ReachOut",
                   IF it.sentiment <= -80 THEN "Critical" ELSE "Attention",
                   <<it.cluster>>, -it.sentiment))
        \cup
        When(bridged /\ it.own,
             Alert("news_impact", "Trade", "Attention", TradeKey(it), 80))
        \cup
        When(bridged /\ it.care,
             Alert("news_impact", "ReachOut", "Attention", ReachKey(it), 75))
        \cup
        When(it.impact \in {"opportunity", "non-financial moment"} /\ it.care,
             Alert("good_news", "ReachOut", "FYI", <<it.cluster>>, 70))

(* Positions without an ISIN are told apart by their id.                   *)
PositionKey(p) == IF p.isin = None THEN <<"position", item>> ELSE <<p.isin>>

ConflictAlerts ==
    LET p == book[item]
    IN  When(p.fit = 0,
             Alert("dna_conflict", "Trade", "Critical", PositionKey(p), 100))

Scored == {n \in DOMAIN book : book[n].fit # None}

ValuesAlerts ==
    LET total == FoldSet(LAMBDA n, sum : sum + book[n].fit, 0, Scored)
    IN  When(Cardinality(Scored) >= 3 /\ total < 65 * Cardinality(Scored),
             Alert("values_drift", "Acknowledge", "FYI", <<"portfolio">>, 80))

(* No contact at all calls for attention, not for more.                    *)
QuietAlerts ==
    LET days == profile.contact
    IN  When(days = None,
             Alert("quiet_client", "ReachOut", "Attention", <<"contact">>, 100))
        \cup
        When(days # None /\ days >= 60,
             Alert("quiet_client", "ReachOut",
                   IF days > 120 THEN "Critical" ELSE "Attention",
                   <<"contact">>, 100))

(* A promise is told apart by its first 64 characters.                     *)
PromiseAlerts ==
    LET p == profile.promises[item]
    IN  When(profile.dna /\ p.head # "",
             Alert("overdue_promise", "ReachOut", "Attention", <<p.head>>, 70))

GuardrailAlerts ==
    LET p == profile.proposals[item]
    IN  When(profile.dna /\ p.candidate # None /\ p.conflicting,
             Alert("behavioural_guardrail", "Acknowledge", "Attention",
                   <<p.candidate>>, 90))

Priced == {n \in DOMAIN book : book[n].chf # None}
ChfOf(ns) == FoldSet(LAMBDA n, sum : sum + book[n].chf, 0, ns)
Apart(x, y) == IF x < y THEN y - x ELSE x - y

(* More than two points off the mandate is a breach, more than five is     *)
(* critical.                                                               *)
DriftAlerts ==
    LET t     == Targets[item]
        total == ChfOf(Priced)
        drift == Apart(100 * ChfOf({n \in Priced : book[n].sac = t.sac}),
                       t.weight * total)
    IN  When(total # 0 /\ drift > 2 * total,
             Alert("drift_breach", "Trade",
                   IF drift > 5 * total THEN "Critical" ELSE "Attention",
                   <<t.sac>>, 100))

SellAlerts ==
    LET p == book[item]
    IN  When(p.isin \in DOMAIN Sells,
             Alert("stale_sell", "Trade",
                   IF Sells[p.isin] # None /\ Sells[p.isin] > 90 THEN "Critical"
                   ELSE "Attention",
                   <<p.isin>>, 100))

Length == CASE stage = "news" -> Len(feed)
            [] stage \in {"conflict", "sell"} -> Len(book)
            [] stage = "promise" -> Len(profile.promises)
            [] stage = "guardrail" -> Len(profile.proposals)
            [] stage = "drift" -> Len(Targets)
            [] OTHER -> 1

Raised == CASE stage = "news" -> NewsAlerts
            [] stage = "conflict" -> ConflictAlerts
            [] stage = "values" -> ValuesAlerts
            [] stage = "quiet" -> QuietAlerts
            [] stage = "promise" -> PromiseAlerts
            [] stage = "guardrail" -> GuardrailAlerts
            [] stage = "drift" -> DriftAlerts
            [] stage = "sell" -> SellAlerts

(* The helpers of alerts.py remember the keys of this pass; those of       *)
(* drift.py look at the cooldowns only.                                    *)
Known(a) == a.class \notin {"drift_breach", "stale_sell"}
            /\ \E b \in alerts : b.class = a.class /\ b.key = a.key
Suppressed(a) == <<a.class, a.key>> \in cooled

Examine ==
    /\ stage \notin {"rank", "done"} /\ item <= Length
    /\ alerts' = alerts \cup {a \in Raised : ~Known(a) /\ ~Suppressed(a)}
    /\ item' = item + 1
    /\ UNCHANGED <<input, stage, score>>

NextHelper ==
    /\ stage \notin {"rank", "done"} /\ item > Length
    /\ stage' = After(stage)
    /\ item' = 1
    /\ UNCHANGED <<input, alerts, score>>

-----------------------------------------------------------------------------
(* alert_rank.py.  A severity that is not in the table counts as 1.        *)
SeverityBase == [CRITICAL |-> 3, ATTENTION |-> 2, FYI |-> 1]
Base(severity) ==
    IF severity \in DOMAIN SeverityBase THEN SeverityBase[severity] ELSE 1

ClassWeight ==
    [dna_conflict |-> 100, panic |-> 95, quiet_client |-> 90,
     drift_breach |-> 85, news_impact |-> 80, overdue_promise |-> 75,
     stale_sell |-> 70, behavioural_guardrail |-> 60, values_drift |-> 50,
     good_news |-> 40]

(* In tenths.                                                              *)
Emotional(a) ==
    IF /\ profile.dna /\ profile.anxious
       /\ \/ a.action = "REACH_OUT"
          \/ a.class \in {"panic", "quiet_client", "good_news"}
    THEN 13 ELSE 10

RankScore(a) ==
    Base(a.severity) * ClassWeight[a.class] * a.confidence * Emotional(a)

(* Every row of the client is scored, whatever its status.                 *)
Rank ==
    /\ stage = "rank"
    /\ score' = [a \in alerts |-> RankScore(a)]
    /\ stage' = "done"
    /\ UNCHANGED <<input, item, alerts>>

RulesNext == Examine \/ NextHelper \/ Rank

RulesSpec == RulesInit /\ [][RulesNext]_rulesVars

-----------------------------------------------------------------------------
Classes    == DOMAIN ClassWeight
Severities == {"Critical", "Attention", "FYI"}
Actions    == {"Trade", "ReachOut", "Acknowledge", "Watch"}
Articles   == {feed[n] : n \in DOMAIN feed}

RulesTypeOK ==
    /\ \E s \in Situations : /\ feed = s.feed /\ book = s.book
                             /\ profile = s.profile /\ cooled = s.cooled
    /\ stage \in {Stages[n] : n \in DOMAIN Stages} /\ item \in Nat \ {0}
    /\ \A a \in alerts : /\ a.class \in Classes /\ a.severity \in Severities
                        /\ a.action \in Actions /\ a.confidence \in 0..100
    /\ IF stage = "done" THEN score \in [alerts -> Nat] ELSE score = <<>>

(* One event, two alerts: when a threat or an opportunity touches both a   *)
(* holding and a theme, the RM gets the trade and the reach-out, whatever  *)
(* other articles of the same story raised before.                         *)
PairSurvives ==
    stage = "done" =>
        \A it \in Articles :
            /\ it.impact \in {"threat", "opportunity"} /\ it.own /\ it.care
            /\ <<"news_impact", TradeKey(it)>> \notin cooled
            /\ <<"news_impact", ReachKey(it)>> \notin cooled
            => \A action \in {"Trade", "ReachOut"} :
                  \E a \in alerts : /\ a.class = "news_impact"
                                    /\ a.action = action
                                    /\ a.key[1] = it.cluster
=============================================================================
