---------------------------- MODULE MCPriceWatch -----------------------------
(* PriceWatch for TLC: two clients hold the same listing, the first in a   *)
(* position without an ISIN.                                               *)
EXTENDS PriceWatch, TLC

CONSTANTS c1, c2, l1, loop, admin

TwoClients  == <<c1, c2>>
MCHoldings  == [c \in {c1, c2} |-> <<l1>>]
MCAnonymous == {<<c1, l1>>}

(* The scans differ in nothing but their name.                             *)
SameScans   == Permutations(Scans)
=============================================================================
