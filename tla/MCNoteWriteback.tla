--------------------------- MODULE MCNoteWriteback ---------------------------
(* NoteWriteback for TLC: two requests and the RM's browser.               *)
EXTENDS NoteWriteback, TLC

MCCalls == Requests \cup {"rm"}
MCReplies == {reply \in SUBSET Items : Cardinality(reply) <= 2}
MCSymmetry == Permutations(Requests) \cup Permutations(Lists)
                  \cup Permutations(Notes \ Imported)
=============================================================================
