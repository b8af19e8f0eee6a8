---------------------------- MODULE MCAlertEngine ----------------------------
(* AlertEngine for TLC.  An item is [key, n]; the client and the           *)
(* generator of a key are in its name.                                     *)
EXTENDS AlertEngine, TLC

CONSTANTS c1, r1

promise  == [client |-> c1, gen |-> "alerts", name |-> "promise"]
maturity == [client |-> c1, gen |-> "price",  name |-> "maturity"]

Item(k, n) == [key |-> k, n |-> n]

(* A promise, extracted once or twice, and a bond that matures.            *)
TwoPromises == {Item(promise, 1), Item(promise, 2)}
OneBond     == {Item(maturity, 1)}
BondPromises == OneBond \cup TwoPromises

ItemKeys   == {i.key : i \in Items}
MCKeyOf    == [i \in Items |-> i.key]
MCClientOf == [k \in ItemKeys |-> k.client]
MCGenOf    == [k \in ItemKeys |-> k.gen]
=============================================================================
