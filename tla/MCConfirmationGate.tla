------------------------ MODULE MCConfirmationGate ------------------------
(* Small instances of ConfirmationGate for TLC.                            *)
EXTENDS ConfirmationGate, TLC

Yes == [question |-> FALSE, declines |-> FALSE, long |-> FALSE, leads |-> TRUE,
        words |-> {"base"}]

(* "yes", "yes, delete it" and "actually no".                              *)
MCTexts == {Yes,
            [Yes EXCEPT !.words = {"base", "delete_event"}],
            [Yes EXCEPT !.declines = TRUE, !.leads = FALSE, !.words = {"foreign"}]}

(* "yes" and "yes but move it to five".                                    *)
MCTwoTexts == {Yes, [Yes EXCEPT !.words = {"base", "foreign", "update_event"}]}

Symmetry == Permutations(Users) \cup Permutations(Tokens) \cup Permutations(Fingerprints)
=============================================================================
