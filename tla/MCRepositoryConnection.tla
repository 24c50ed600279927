---------------------- MODULE MCRepositoryConnection ----------------------
(* A small instance of RepositoryConnection for TLC. *)
EXTENDS RepositoryConnection, TLC

CONSTANTS c1, c2, t1, t2

\* A name, a page of a repository, a name alone and a path made of dots.
SmallPasted ==
  { <<"acme", "app">>, <<"acme", "", "lib", "tree">>, <<"acme">>,
    <<"..", "..", "app">>, <<"acme", "a b">> }
SmallHosted == {<<"acme", "app">>, <<"acme", "lib">>}

Alike == Permutations(Caller) \cup Permutations(Token)
=============================================================================
