---------------------------- MODULE RadarDispatch ----------------------------
(***************************************************************************)
(* The proactive radar: what the RM is told of, when, and how often.       *)
(*                                                                         *)
(* backend/app/radar_dispatch.py runs a cycle a minute.  It reads the      *)
(* resolved rows of change_events, pushes each critical one to the open    *)
(* browser tabs (radar_stream.py) and, outside quiet hours, by mail to the *)
(* RM (notify.py), unless the ledger radar_deliveries says it was          *)
(* delivered at an impact it has not climbed above since; the others go    *)
(* into one digest mail a day.  The ledger rows of a cycle are committed   *)
(* at its end, after everything was sent.                                  *)
(*                                                                         *)
(* change_events is rewritten meanwhile by others: here it may become any  *)
(* table of rows at any moment (Refresh); module Radar puts the builder of *)
(* ChangeRadar in that place.  Between the read of the rows and the commit *)
(* the cycle shares nothing with another process but the clock, so a push, *)
(* its mail and its ledger row are one step.                               *)
(***************************************************************************)
EXTENDS Integers, Sequences, RadarTable

CONSTANTS
    Keys,           \* entity keys of change_events
    CriticalAt,     \* radar_critical_magnitude, in hundredths
    Margin,         \* radar_rebroadcast_margin, in percent
    HoursPerDay,
    QuietStart, QuietEnd, DigestHour,
    MaxDays,        \* bound: days after which the clock stops
    MaxFaults       \* bound: failed cycles and restarts

Hours == 0..(HoursPerDay - 1)
DigestKey(d) == <<"digest", d>>
DigestKeys   == {DigestKey(d) : d \in 0..MaxDays}

ASSUME RadarAssumption ==
    /\ None \notin Keys /\ Keys \cap DigestKeys = {}
    /\ CriticalAt \in Nat /\ Margin \in Nat
    /\ HoursPerDay \in Nat \ {0} /\ DigestHour \in Hours
    /\ QuietStart \in Hours /\ QuietEnd \in Hours
    /\ MaxDays \in Nat /\ MaxFaults \in Nat

VARIABLES
    ledger,         \* radar_deliveries, in the order of delivered_at
    hour,           \* the clock (UTC), with the day
    \* the dispatch loop
    dpc,            \* idle or rows
    now,            \* the day and the hour the cycle was given
    todo,           \* critical rows it has still to look at
    rest,           \* resolved rows that are not critical
    pend,           \* ledger rows added and not committed
    \* history
    announced,      \* every push and every digest, with the faults so far
    faults

clock     == <<day, hour>>
cycleVars == <<dpc, now, todo, rest, pend>>
vars == <<events, ledger, clock, cycleVars, announced, faults>>

(* What the cycle reads of a row of change_events; a row without entity has *)
(* no key.                                                                  *)
IsRow(row) ==
    /\ row.key \in Keys \cup {None} /\ row.resolved \in BOOLEAN
    /\ row.magnitude \in Nat /\ row.impact \in Nat

Midnight == [day |-> 0, hour |-> 0]

Init ==
    /\ \A row \in events : IsRow(row)
    /\ ledger = <<>> /\ day = 0 /\ hour = 0
    /\ dpc = "idle" /\ now = Midnight
    /\ todo = {} /\ rest = {} /\ pend = <<>>
    /\ announced = <<>> /\ faults = 0

-----------------------------------------------------------------------------
(* The outside: the table and the clock.                                   *)

Refresh ==
    /\ \A row \in events' : IsRow(row)
    /\ UNCHANGED <<ledger, clock, cycleVars, announced, faults>>

Tick ==
    /\ day < MaxDays
    /\ IF hour + 1 \in Hours
         THEN hour' = hour + 1 /\ day' = day
         ELSE hour' = 0 /\ day' = day + 1
    /\ UNCHANGED <<events, ledger, cycleVars, announced, faults>>

-----------------------------------------------------------------------------
(* One cycle.                                                              *)

(* Quiet from start up to end, past midnight if need be.                   *)
IsQuietHour(h) ==
    \/ QuietStart < QuietEnd /\ QuietStart <= h /\ h < QuietEnd
    \/ QuietEnd < QuietStart /\ (h >= QuietStart \/ h < QuietEnd)

(* An impact that rose materially since it was last delivered.             *)
Climbed(impact, before) == 100 * impact > before * (100 + Margin)

Entry(key, channel, impact) ==
    [key |-> key, channel |-> channel, impact |-> impact]

(* What a query of the cycle's session sees: it flushes what was added.    *)
Visible == ledger \o pend

Delivered(key) == {i \in DOMAIN Visible : Visible[i].key = key}

IsLast(i, key) == i \in Delivered(key) /\ \A j \in Delivered(key) : j <= i

(* _last_delivery: there is none, or the impact has climbed above it.      *)
Due(row) ==
    \A i \in DOMAIN Visible :
        IsLast(i, row.key) => Climbed(row.impact, Visible[i].impact)

StartCycle ==
    /\ dpc = "idle"
    /\ dpc' = "rows"
    /\ now' = [day |-> day, hour |-> hour]
    /\ todo' = {row \in events : /\ row.resolved /\ row.key # None
                                 /\ row.magnitude >= CriticalAt}
    /\ rest' = {row \in events : row.resolved /\ row.magnitude < CriticalAt}
    /\ UNCHANGED <<events, ledger, clock, pend, announced, faults>>

(* Rows come by falling impact.                                            *)
Foremost(row) == row \in todo /\ \A other \in todo : other.impact <= row.impact

SkipQuiet(row) ==
    /\ dpc = "rows" /\ Foremost(row)
    /\ ~Due(row) \/ IsQuietHour(now.hour)
    /\ todo' = todo \ {row}
    /\ UNCHANGED <<events, ledger, clock, dpc, now, rest, pend,
                   announced, faults>>

SkipRow(row) ==
    /\ dpc = "rows" /\ Foremost(row)
    /\ ~Due(row)
    /\ todo' = todo \ {row}
    /\ UNCHANGED <<events, ledger, clock, dpc, now, rest, pend,
                   announced, faults>>

(* To the open tabs, each of which has a queue of its own (radar_stream),  *)
(* or by the digest.                                                       *)
Announce(key, impact) ==
    announced' = Append(announced,
                        [key |-> key, impact |-> impact, era |-> faults])

(* The mail fails, or there is no transport: the row is recorded as shown  *)
(* to the tabs, as it is in quiet hours.                                   *)
Channels == IF IsQuietHour(now.hour) THEN {"sse"} ELSE {"email", "sse"}

PushRow(row, channel) ==
    /\ dpc = "rows" /\ Foremost(row)
    /\ Due(row) /\ channel \in Channels
    /\ Announce(row.key, row.impact)
    /\ pend' = Append(pend, Entry(row.key, channel, row.impact))
    /\ todo' = todo \ {row}
    /\ UNCHANGED <<events, ledger, clock, dpc, now, rest, faults>>

DigestDue ==
    /\ rest # {} /\ now.hour >= DigestHour
    /\ Delivered(DigestKey(now.day)) = {}

(* Once a day, whether the mail leaves or not.                             *)
SendDigest ==
    /\ dpc = "rows" /\ todo = {}
    /\ DigestDue
    /\ Announce(DigestKey(now.day), 0)
    /\ pend' = Append(pend, Entry(DigestKey(now.day), "digest", 0))
    /\ UNCHANGED <<events, ledger, clock, dpc, now, todo, rest, faults>>

ClearCycle ==
    /\ dpc' = "idle" /\ now' = Midnight
    /\ todo' = {} /\ rest' = {} /\ pend' = <<>>

CommitNothing ==
    /\ dpc = "rows" /\ todo = {} /\ ~DigestDue
    /\ ledger' = ledger
    /\ ClearCycle
    /\ UNCHANGED <<events, clock, announced, faults>>

CommitCycle ==
    /\ dpc = "rows" /\ todo = {} /\ ~DigestDue
    /\ ledger' = Visible
    /\ ClearCycle
    /\ UNCHANGED <<events, clock, announced, faults>>

(* The loop logs an exception and goes on; what was sent stays sent.       *)
CycleFails ==
    /\ faults < MaxFaults
    /\ dpc # "idle"
    /\ ClearCycle
    /\ faults' = faults + 1
    /\ UNCHANGED <<events, ledger, clock, announced>>

Restart ==
    /\ faults < MaxFaults
    /\ ClearCycle
    /\ faults' = faults + 1
    /\ UNCHANGED <<events, ledger, clock, announced>>

-----------------------------------------------------------------------------
Cycle ==
    \/ StartCycle
    \/ \E row \in todo :
          SkipRow(row) \/ \E channel \in Channels : PushRow(row, channel)
    \/ SendDigest \/ CommitCycle

DispatchStep == Tick \/ Cycle \/ CycleFails \/ Restart

Next == Refresh \/ DispatchStep

Spec == Init /\ [][Next]_vars

-----------------------------------------------------------------------------
Deliveries ==
    [key : Keys \cup DigestKeys, channel : {"sse", "email", "digest"},
     impact : Nat]

TypeOK ==
    /\ \A row \in events \cup todo \cup rest : IsRow(row)
    /\ \A row \in todo : row.key # None
    /\ ledger \in Seq(Deliveries) /\ pend \in Seq(Deliveries)
    /\ day \in 0..MaxDays /\ hour \in Hours
    /\ dpc \in {"idle", "rows"}
    /\ now \in [day : 0..MaxDays, hour : Hours]
    /\ announced \in Seq([key : Keys \cup DigestKeys, impact : Nat,
                          era : Nat])
    /\ faults \in Nat

(* The ledger never holds the same change twice unless its impact climbed  *)
(* by more than the margin in between, and never a second digest of a day: *)
(* whatever rebuilds, duplicate rows, failures and restarts did            *)
(* (run_dispatch_cycle, "re-notified only when impact climbs materially"). *)
LedgerClimbs ==
    \A i, j \in DOMAIN ledger :
        i < j /\ ledger[i].key = ledger[j].key
            => Climbed(ledger[j].impact, ledger[i].impact)

(* The RM is not told twice of the same change, at the tabs or by a        *)
(* digest, unless the impact climbed or a cycle failed between the two     *)
(* (a failed cycle loses the ledger rows of what it sent).                 *)
NoRepeat ==
    \A i, j \in DOMAIN announced :
        /\ i < j /\ announced[i].key = announced[j].key
        /\ announced[i].era = announced[j].era
        => Climbed(announced[j].impact, announced[i].impact)

(* The RM hears of a change once per climb: neither the ledger nor the     *)
(* tabs and digests have it twice for the same impact.                     *)
TellsOnce == LedgerClimbs /\ NoRepeat
=============================================================================
