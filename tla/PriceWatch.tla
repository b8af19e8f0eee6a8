----------------------------- MODULE PriceWatch ------------------------------
(***************************************************************************)
(* The SIX price scan: who hears of a price move.                          *)
(*                                                                         *)
(* backend/app/loaders/price_watch.py walks the clients and, per client,   *)
(* their positions.  A position's close is compared with the last close    *)
(* any scan saw of that listing, kept in Redis under six:lastclose and     *)
(* replaced at once; a move beyond the threshold becomes an alert, which   *)
(* is committed with the client's other alerts.  The price loop and the    *)
(* admin API can run it at the same time.  AlertEngine has the rows and    *)
(* the cooldowns of all generators; here it is the baseline that matters.  *)
(***************************************************************************)
EXTENDS Integers, Sequences, FiniteSets

CONSTANTS
    Scans,          \* scans that may be under way at once
    Order,          \* the clients, in the order they are scanned
    Holdings,       \* Holdings[c]: the listings of its positions, in order;
                    \* a position without a valor or a mic is never priced
    Anonymous,      \* <<client, listing>> of positions without an ISIN
    Listings,
    Levels,         \* closes
    Threshold,      \* price_move_threshold_pct, in levels
    MaxTicks,       \* bound: price changes
    MaxFaults       \* bound: failed SIX calls and aborted scans

ASSUME PriceAssumption ==
    /\ Levels \subseteq Nat \ {0} /\ Threshold \in Nat \ {0}
    /\ MaxTicks \in Nat /\ MaxFaults \in Nat
    /\ Order \in Seq(DOMAIN Holdings)
    /\ \A c \in DOMAIN Holdings : Holdings[c] \in Seq(Listings)
    /\ Anonymous \subseteq (DOMAIN Holdings) \X Listings

(* Up or down, by the threshold or more.                                   *)
Beyond(x, y) == x - y >= Threshold \/ y - x >= Threshold

Nothing == [close |-> 0, tick |-> 0]

VARIABLES
    close, tick,    \* the market: the close of each listing; price changes
    opening,        \* the session's opening price
    base,           \* six:lastclose:{listing}, with the time it was seen
    muted,          \* <<client, listing>> whose cooldown is on
    reported,       \* committed: [client, listing, from, to]
    \* a scan
    phase,          \* idle, fetch, read, write, judge, record
    ci, pi,         \* the client and the position it is at
    snap,           \* the snapshot it fetched
    prev,           \* the baseline it read
    moves,          \* alerts of the open transaction
    \* history
    jumps,          \* baselines replaced by one the threshold away
    hushed,         \* jumps met by a cooldown or a position without an ISIN
    lapped,         \* snapshots whose listing another scan wrote before the
                    \* scan that holds them did
    faults

market       == <<close, tick, opening>>
scanVars     == <<phase, ci, pi, snap, prev, moves>>
priceHistory == <<jumps, hushed, lapped, faults>>
priceVars    == <<market, base, muted, reported, scanVars, priceHistory>>

PriceInit ==
    /\ close \in [Listings -> Levels] /\ opening = close /\ tick = 0
    /\ base = [l \in Listings |-> Nothing]
    /\ muted = {} /\ reported = {}
    /\ phase = [s \in Scans |-> "idle"]
    /\ ci = [s \in Scans |-> 1] /\ pi = [s \in Scans |-> 1]
    /\ snap = [s \in Scans |-> Nothing] /\ prev = [s \in Scans |-> Nothing]
    /\ moves = [s \in Scans |-> {}]
    /\ jumps = {} /\ hushed = {} /\ lapped = {} /\ faults = 0

Trade(l, v) ==
    /\ tick < MaxTicks /\ v # close[l]
    /\ close' = [close EXCEPT ![l] = v]
    /\ tick' = tick + 1
    /\ UNCHANGED <<opening, base, muted, reported, scanVars, priceHistory>>

Unmute(k) ==
    /\ k \in muted
    /\ muted' = muted \ {k}
    /\ UNCHANGED <<market, base, reported, scanVars, priceHistory>>

-----------------------------------------------------------------------------
Client(s)  == Order[ci[s]]
Listing(s) == Holdings[Client(s)][pi[s]]

(* Without a client there is nothing to scan.                              *)
StartScan(s) ==
    /\ phase[s] = "idle" /\ Order # <<>>
    /\ phase' = [phase EXCEPT ![s] = "fetch"]
    /\ ci' = [ci EXCEPT ![s] = 1] /\ pi' = [pi EXCEPT ![s] = 1]
    /\ UNCHANGED <<market, base, muted, reported, snap, prev, moves,
                   priceHistory>>

(* get_eod_snapshot                                                        *)
Fetch(s) ==
    /\ phase[s] = "fetch" /\ pi[s] <= Len(Holdings[Client(s)])
    /\ snap' = [snap EXCEPT ![s] = [close |-> close[Listing(s)], tick |-> tick]]
    /\ phase' = [phase EXCEPT ![s] = "read"]
    /\ UNCHANGED <<market, base, muted, reported, ci, pi, prev, moves,
                   priceHistory>>

(* SIX cannot price it: logged and skipped.                                *)
FetchFails(s) ==
    /\ phase[s] = "fetch" /\ pi[s] <= Len(Holdings[Client(s)])
    /\ faults < MaxFaults
    /\ faults' = faults + 1
    /\ pi' = [pi EXCEPT ![s] = @ + 1]
    /\ UNCHANGED <<market, base, muted, reported, phase, ci, snap, prev, moves,
                   jumps, hushed, lapped>>

ReadFresh(s) ==
    /\ phase[s] = "read"
    /\ prev' = [prev EXCEPT ![s] = snap[s]]
    /\ phase' = [phase EXCEPT ![s] = "write"]
    /\ UNCHANGED <<market, base, muted, reported, ci, pi, snap, moves,
                   priceHistory>>

(* The last observed close or, before there is one, the session's opening. *)
Baseline(l) == IF base[l] # Nothing THEN base[l]
               ELSE [close |-> opening[l], tick |-> 0]

ReadBase(s) ==
    /\ phase[s] = "read"
    /\ prev' = [prev EXCEPT ![s] = Baseline(Listing(s))]
    /\ phase' = [phase EXCEPT ![s] = "write"]
    /\ UNCHANGED <<market, base, muted, reported, ci, pi, snap, moves,
                   priceHistory>>

Move(s) == [client |-> Client(s), listing |-> Listing(s),
            from |-> prev[s], to |-> snap[s]]
Jumped(s) == Beyond(prev[s].close, snap[s].close)

Overtakes(s) == {<<Listing(s), snap[t]>> :
                    t \in {r \in Scans \ {s} : /\ phase[r] \in {"read", "write"}
                                               /\ Listing(r) = Listing(s)}}

(* The baseline is refreshed in any case.                                  *)
WriteBase(s) ==
    /\ phase[s] = "write"
    /\ base' = [base EXCEPT ![Listing(s)] = snap[s]]
    /\ jumps' = IF /\ base[Listing(s)] # Nothing
                   /\ Beyond(base[Listing(s)].close, snap[s].close)
                THEN jumps \cup {<<Listing(s), snap[s]>>} ELSE jumps
    /\ lapped' = lapped \cup Overtakes(s)
    /\ phase' = [phase EXCEPT ![s] = "judge"]
    /\ UNCHANGED <<market, muted, reported, ci, pi, snap, prev, moves, hushed,
                   faults>>

Advance(s) ==
    /\ pi' = [pi EXCEPT ![s] = @ + 1]
    /\ phase' = [phase EXCEPT ![s] = "fetch"]

JudgeQuiet(s) ==
    /\ phase[s] = "judge"
    /\ ~Jumped(s)
    /\ Advance(s)
    /\ UNCHANGED <<market, base, muted, reported, ci, snap, prev, moves,
                   priceHistory>>

(* A cooldown is on; or there is no ISIN to alert under, and the baseline  *)
(* is replaced all the same.                                               *)
JudgeSilenced(s) ==
    /\ phase[s] = "judge"
    /\ Jumped(s) /\ <<Client(s), Listing(s)>> \in muted \cup Anonymous
    /\ hushed' = hushed \cup {<<Listing(s), snap[s]>>}
    /\ Advance(s)
    /\ UNCHANGED <<market, base, muted, reported, ci, snap, prev, moves, jumps,
                   lapped, faults>>

JudgeMove(s) ==
    /\ phase[s] = "judge"
    /\ Jumped(s) /\ <<Client(s), Listing(s)>> \notin muted \cup Anonymous
    /\ moves' = [moves EXCEPT ![s] = @ \cup {Move(s)}]
    /\ Advance(s)
    /\ UNCHANGED <<market, base, muted, reported, ci, snap, prev,
                   priceHistory>>

Commit(s) ==
    /\ phase[s] = "fetch" /\ pi[s] > Len(Holdings[Client(s)])
    /\ reported' = reported \cup moves[s]
    /\ phase' = [phase EXCEPT ![s] = "record"]
    /\ UNCHANGED <<market, base, muted, ci, pi, snap, prev, moves,
                   priceHistory>>

(* The cooldowns, then the next client.                                    *)
Record(s) ==
    /\ phase[s] = "record"
    /\ muted' = muted \cup {<<m.client, m.listing>> : m \in moves[s]}
    /\ moves' = [moves EXCEPT ![s] = {}]
    /\ IF ci[s] < Len(Order)
       THEN /\ ci' = [ci EXCEPT ![s] = @ + 1] /\ pi' = [pi EXCEPT ![s] = 1]
            /\ phase' = [phase EXCEPT ![s] = "fetch"]
       ELSE phase' = [phase EXCEPT ![s] = "idle"] /\ UNCHANGED <<ci, pi>>
    /\ UNCHANGED <<market, base, reported, snap, prev, priceHistory>>

(* Redis or the database fails, or the process ends.                       *)
AbortScan(s) ==
    /\ phase[s] # "idle"
    /\ faults < MaxFaults
    /\ faults' = faults + 1
    /\ moves' = [moves EXCEPT ![s] = {}]
    /\ phase' = [phase EXCEPT ![s] = "idle"]
    /\ UNCHANGED <<market, base, muted, reported, ci, pi, snap, prev, jumps,
                   hushed, lapped>>

-----------------------------------------------------------------------------
Scan(s) ==
    \/ StartScan(s) \/ Fetch(s) \/ FetchFails(s) \/ ReadBase(s) \/ WriteBase(s)
    \/ JudgeQuiet(s) \/ JudgeSilenced(s) \/ JudgeMove(s)
    \/ Commit(s) \/ Record(s) \/ AbortScan(s)

PriceNext ==
    \/ \E l \in Listings, v \in Levels : Trade(l, v)
    \/ \E c \in DOMAIN Holdings, l \in Listings : Unmute(<<c, l>>)
    \/ \E s \in Scans : Scan(s)

PriceSpec == PriceInit /\ [][PriceNext]_priceVars

-----------------------------------------------------------------------------
Observation == [close : Levels \cup {0}, tick : 0..MaxTicks]

Report == [client : DOMAIN Holdings, listing : Listings,
           from : Observation, to : Observation]

PriceTypeOK ==
    /\ close \in [Listings -> Levels] /\ opening \in [Listings -> Levels]
    /\ tick \in 0..MaxTicks /\ faults \in 0..MaxFaults
    /\ base \in [Listings -> Observation]
    /\ muted \subseteq (DOMAIN Holdings) \X Listings
    /\ reported \subseteq Report
    /\ phase \in [Scans -> {"idle", "fetch", "read", "write", "judge", "record"}]
    /\ ci \in [Scans -> Nat \ {0}] /\ pi \in [Scans -> Nat \ {0}]
    /\ \A s \in Scans : phase[s] # "idle" => ci[s] \in DOMAIN Order
    /\ snap \in [Scans -> Observation] /\ prev \in [Scans -> Observation]
    /\ moves \in [Scans -> SUBSET Report]
    /\ jumps \cup hushed \cup lapped \subseteq Listings \X Observation

(* "Both are real SIX-sourced moves, never fabricated": the price an alert *)
(* compares with was seen before the price it reports, unless another scan *)
(* replaced the baseline while this one held its snapshot.                 *)
RealMove ==
    \A m \in reported :
        m.from.tick <= m.to.tick \/ <<m.listing, m.to>> \in lapped

(* When no scan is cut short and none is lapped, no jump of a listing's    *)
(* baseline is lost: the scan that replaced the baseline has alerted the   *)
(* client it was at, or is about to, or a cooldown or a missing ISIN kept  *)
(* it from that.                                                           *)
JumpReported ==
    faults = 0 =>
        \A j \in jumps \ (hushed \cup lapped) :
            \/ \E m \in reported \cup UNION {moves[s] : s \in Scans} :
                  m.listing = j[1] /\ m.to = j[2]
            \/ \E s \in Scans : /\ phase[s] = "judge"
                                /\ Listing(s) = j[1] /\ snap[s] = j[2]

(* The scans tell what the market did: they report moves that happened,    *)
(* and no jump that replaced a baseline goes unreported, but for the       *)
(* failures named above.                                                   *)
PricesTold == RealMove /\ JumpReported
=============================================================================
