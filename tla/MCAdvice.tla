------------------------------- MODULE MCAdvice -------------------------------
(* MessageDraft, and the advice it is drafted from, for TLC: one American  *)
(* technology holding with three candidates, one of them held, and one     *)
(* energy holding with no candidate that is not fossil.                    *)
EXTENDS MessageDraft, TLC

MCIndustry == [x \in Instruments |->
                  IF x \in {"oil", "gas"} THEN "Energy" ELSE "IT"]

MCRegion == [x \in Instruments |->
                IF x \in {"chips", "phones"} THEN "USA" ELSE "Europe"]

MCAsset == [x \in Instruments |-> "equity"]

MCChf == [p \in Positions |-> IF p = "chips" THEN 2 ELSE 1]

(* The second is a synthetic client's: no note behind it.                  *)
MCProfiles == {[excl |-> {}, tilts |-> {"tech", "us-tech"}, noted |-> {"tech"}],
               [excl |-> {"us-tech"}, tilts |-> {}, noted |-> {}],
               [excl |-> {"tech", "us-tech", "fossil"}, tilts |-> {"tech"},
                noted |-> {"tech", "fossil"}]}

MCSayings == {{}, {50}, {0, 75}}

MCSymmetry == Permutations(Requests)
=============================================================================
