---------------------------- MODULE MCChangeRadar ----------------------------
(* ChangeRadar for TLC: two clients hold one security, one of them twice.  *)
EXTENDS ChangeRadar, TLC

CONSTANTS c1, c2, i1, s1, u1

Stock(c, chf) == [client |-> c, isin |-> i1, sac |-> s1, chf |-> chf]
MCPositions == <<Stock(c1, 1), Stock(c1, 2), Stock(c2, 1)>>

Alert(class, c, severity, isin, url) ==
    [kind |-> "alert", class |-> class, client |-> c, severity |-> severity,
     confidence |-> 10, isin |-> isin, sac |-> None, url |-> url, day |-> 0]

(* A SELL and, of the same weight, a guardrail on c1's security; a drift   *)
(* breach without a class of assets; a story about the security with an    *)
(* alert on it for c1; a client's e-mail about the security.               *)
Sell  == Alert("stale_sell", c1, "Critical", i1, None)
Guard == Alert("behavioural_guardrail", c1, "Critical", i1, None)
Drift == Alert("drift_breach", c1, "Attention", None, None)
Panic == Alert("panic", c1, "Critical", None, u1)
Story == [kind |-> "news", key |-> <<"news", u1>>, clients |-> {c1, c2},
          url |-> u1, sentiment |-> 4, isins |-> {i1}, day |-> 0]
Mail  == [kind |-> "email", key |-> <<"instrument", i1>>, type |-> "instrument",
          client |-> c2, magnitude |-> 60, relevance |-> 3, isins |-> {i1},
          day |-> 1]

MCSources == {Sell, Guard, Drift, Panic, Story, Mail}
MCDecay   == [n \in 0..1 |-> 2 - n]
Demo      == [build |-> 0, key |-> <<"demo", c1>>, about |-> None,
              magnitude |-> 95, impact |-> 9, clients |-> {c1}, exposure |-> 3,
              resolved |-> TRUE]
MCPinned  == {Demo}
=============================================================================
