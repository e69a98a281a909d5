----------------------------- MODULE MCVtyLine -----------------------------
(* Lines of at most three characters and a ring of two of them. *)
EXTENDS VtyLine

MCRuns == {<<"x">>, <<"x", "x">>, <<" ", "x">>}
=============================================================================
