---------------------------- MODULE MCLogPaging ----------------------------
(* A small log for LogPaging: four rows on three days, two of them sharing *)
(* a timestamp.  A search is one call of DuckDB, and what that call does   *)
(* is checked beside it: a behaviour is one of walks or one of calls.      *)
EXTENDS LogPaging, DuckDb

VARIABLE looking     \* at "pages" or at "calls"

FourEntry == 1 .. 4
FourTs == <<10, 20, 20, 30>>
FourDay == <<1, 2, 2, 3>>

\* Scripts that print nothing, an empty set, or a preamble's set and one
\* message of up to two of the characters the scanner must not trip over.
Punctuation == {"[", "]", "quote", "slash"}
SmallMessage == UNION { [1 .. n -> Punctuation] : n \in 0 .. 2 }
SmallScript ==
  { <<>>, << <<>> >> }
  \cup { << << <<"x">> >>, rows >> : rows \in { <<>> } \cup [1 .. 1 -> SmallMessage] }

ReaderInit ==
  /\ Init /\ CallInit
  /\ looking \in {"pages", "calls"} /\ (looking = "pages" => script = <<>>)

ReaderNext ==
  \/ looking = "pages" /\ Next /\ UNCHANGED <<callVars, looking>>
  \/ looking = "calls" /\ CallNext /\ UNCHANGED <<vars, looking>>

ReaderSpec ==
  /\ ReaderInit /\ [][ReaderNext]_<<vars, callVars, looking>>
  /\ CallFairness
=============================================================================
