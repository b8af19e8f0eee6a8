---------------------------- MODULE MCAlertRules -----------------------------
(* AlertRules for TLC.                                                     *)
EXTENDS AlertRules, TLC

Article == [cluster : {"a", "b"}, sentiment : {-90, -60, 20},
            impact : {"threat", "opportunity", "moment"},
            own : BOOLEAN, care : BOOLEAN]
Linked  == {it \in Article : it.own \/ it.care}
Pairs   == Linked \X Linked
SomePairs == {p \in Pairs : p[1].cluster = "a"}
NoNews  == {<<>>}

Pos(isin, fit, sac, chf) == [isin |-> isin, fit |-> fit, sac |-> sac, chf |-> chf]

(* A hundred francs in shares, bonds and gold, split in every way.        *)
Holdings ==
    {<<Pos("i1", f, "shares", s), Pos("i1", 100, "bonds", b),
       Pos(None, f, "gold", 100 - s - b)>> :
     f \in {0, 50, None}, s \in {0, 30, 32, 33, 36, 60}, b \in {0, 28, 40}}
NoBook  == {<<>>}

Mandate == <<[sac |-> "shares", weight |-> 30], [sac |-> "bonds", weight |-> 40],
             [sac |-> "gold", weight |-> 30]>>
SellList == [i \in {"i1"} |-> 91]

Promise(h, t) == [head |-> h, tail |-> t]
Proposal(c, x) == [candidate |-> c, conflicting |-> x]
Plain == [dna |-> TRUE, promises |-> <<>>, proposals |-> <<>>, contact |-> 1,
          anxious |-> FALSE]
Worried == {[Plain EXCEPT !.anxious = TRUE]}
Busy == [dna : BOOLEAN,
         promises : {<<>>, <<Promise("x", ""), Promise("x", "")>>,
                     <<Promise("x", ""), Promise("", ""), Promise("y", "")>>},
         proposals : {<<>>, <<Proposal("i7", TRUE), Proposal("i7", TRUE),
                              Proposal("i8", FALSE)>>},
         contact : {None, 59, 60, 120, 121}, anxious : BOOLEAN]
NewsKeys == {<<"news_impact", <<"a", "trade">>>>, <<"panic", <<"a">>>>}
BookKeys == {<<"quiet_client", <<"contact">>>>, <<"drift_breach", <<"gold">>>>}

(* Every two articles, the first of story a; and every mix of holdings,    *)
(* promises, proposals and contact, without news.                          *)
MCSituations ==
    [feed : SomePairs, book : NoBook, profile : Worried,
     cooled : SUBSET NewsKeys]
    \cup
    [feed : NoNews, book : Holdings, profile : Busy, cooled : SUBSET BookKeys]
=============================================================================
