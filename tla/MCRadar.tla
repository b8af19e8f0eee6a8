------------------------------- MODULE MCRadar -------------------------------
(* Radar for TLC: two clients hold one security, one of them twice.        *)
EXTENDS Radar, TLC

CONSTANTS c1, c2, i1, s1, u1

Lot(c, chf) == [client |-> c, isin |-> i1, sac |-> s1, chf |-> chf]
MCPositions == <<Lot(c1, 1), Lot(c1, 1), Lot(c2, 1)>>

Alert(class, c, severity, isin) ==
    [kind |-> "alert", class |-> class, client |-> c, severity |-> severity,
     confidence |-> 10, isin |-> isin, sac |-> None, url |-> None, day |-> 0]

(* A SELL on c1's security; a conflict of c2 with the same one, with which *)
(* its impact climbs by more than half; a story that concerns both.        *)
Sell     == Alert("stale_sell", c1, "Critical", i1)
Conflict == Alert("dna_conflict", c2, "Critical", i1)
Story    == [kind |-> "news", key |-> <<"news", u1>>, clients |-> {c1, c2},
             url |-> u1, sentiment |-> 4, isins |-> {i1}, day |-> 0]

MCSources == {Sell, Conflict, Story}
MCKeys    == {<<"instrument", i1>>, <<"news", u1>>}
MCDecay   == [n \in 0..MaxDays |-> IF n = 0 THEN 2 ELSE 1]
MCPinned  == {}
=============================================================================
