--------------------------- MODULE MCNewsPipeline ---------------------------
(* NewsPipeline for TLC: article 1 concerns c1 by a holding, which is      *)
(* worth an LLM call, and c2 by a theme, which is not; article 2 names a   *)
(* keyword of c2 by accident; the others concern nobody.                   *)
EXTENDS NewsPipeline, TLC

CONSTANTS c1, c2

MCClients     == {c1, c2}
MCKeyword     == {<<a, c>> \in {<<1, c1>>, <<1, c2>>, <<2, c2>>} : a <= NumArticles}
MCOwn         == {<<1, c1>>}
MCCare        == {<<1, c2>>}
MCShortlisted == {<<1, c1>>}
=============================================================================
