------------------------------- MODULE MCIntake -------------------------------
(***************************************************************************)
(* Three mails in two threads, two answered articles and one seeded story, *)
(* two securities of one issuer and one whose name is an ordinary word.    *)
(***************************************************************************)
EXTENDS Intake

CONSTANTS c1, c2, alpha, beta, gamma, isin1, isin2, isin3, green, other

mcThread == <<1, 2, 1>>
mcInbound == {1, 2}
mcEntities == {[kind |-> "client", reach |-> {c1}],
               [kind |-> "instrument", reach |-> {c1, c2}]}

First  == [isin |-> isin1, ticker |-> beta, issuer |-> alpha, names |-> {alpha}]
Second == [isin |-> isin2, ticker |-> beta, issuer |-> alpha, names |-> {alpha}]
Third  == [isin |-> isin3, ticker |-> gamma, issuer |-> gamma,
           names |-> {gamma}]

mcAmbiguous == {gamma}
mcText == [x \in {"a", "b", "s"} |->
    CASE x = "a" -> [title |-> {green}, body |-> {}, material |-> FALSE]
      [] x = "b" -> [title |-> {other}, body |-> {gamma, isin2},
                     material |-> TRUE]
      [] x = "s" -> [title |-> {alpha, gamma}, body |-> {}, material |-> FALSE]]
mcFar == {<<c1, "a">>}
mcBooks == {[held |-> {First, Third}, themes |-> {green}, dna |-> TRUE],
            [held |-> {First, Second, Third}, themes |-> {green}, dna |-> TRUE]}
mcLoaded == {[c \in {c1, c2} |->
                IF c = c1 THEN [held |-> {First, Third}, themes |-> {green}, dna |-> TRUE]
                ELSE [held |-> {First, Second, Third}, themes |-> {}, dna |-> TRUE]]}
mcSymmetry == Permutations(Callers)
=============================================================================
