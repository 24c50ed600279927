----------------------- MODULE RepositoryConnection -----------------------
(* The repository a project is connected to: app/Fix/repository.ts, its      *)
(* three routes and verifyAccess of app/Fix/github.ts, with GitHub's answers *)
(* and the rotation of APP_KEY around them.  Each step of a request is one   *)
(* database call or one of GitHub's.                                         *)
EXTENDS Naturals, Sequences, SequencesExt

CONSTANTS
  Caller,    \* requests being handled at once
  Pasted,    \* what an owner may paste, a sequence of segments past the host
  Legal,     \* the segments made of word characters, dots and hyphens
  Dots,      \* those of dots alone
  Empty,     \* what is between two slashes
  Hosted,    \* the repositories there are
  Token,     \* GitHub tokens
  None       \* no row, no token, no branch

Ref == (Legal \ Dots) \X (Legal \ Dots)

ASSUME ConnectionAssumption == Hosted \subseteq Ref /\ Dots \subseteq Legal

VARIABLES
  row,       \* the project's row of project_repositories, or None; in "stamp",
             \* what GitHub had answered for when it was last stamped
  reads,     \* the pairs of a repository and a token GitHub lets read
  writes,    \* and push
  call,      \* the requests: the call each is at, and its locals; in "crossed",
             \* whether the row was replaced since it began
  proven,    \* history: the pairs GitHub has called writable
  overtaken  \* history: the row was stamped by a verification that was crossed

vars == <<row, reads, writes, call, proven, overtaken>>

Branch(ref) == <<"default branch of", ref>>
Row == [ref : Ref, token : Token, branch : { Branch(ref) : ref \in Ref },
        stamp : Ref \X Token, legible : BOOLEAN]
NoCall == [at |-> "idle", ref |-> None, token |-> None, crossed |-> FALSE]

Init ==
  /\ row = None
  /\ reads \in SUBSET (Hosted \X Token) /\ writes \in SUBSET reads
  /\ call = [c \in Caller |-> NoCall]
  /\ proven = {} /\ overtaken = FALSE

Idle(c) == call[c].at = "idle"
Calls(c, at, ref, token) ==
  call' = [call EXCEPT ![c] = [@ EXCEPT !.at = at, !.ref = ref, !.token = token]]
Ends(c) == call' = [call EXCEPT ![c] = NoCall]

\* The row is replaced or removed under every other request's feet.
EndsReplacing(c) ==
  call' = [d \in Caller |-> IF d = c \/ Idle(d) THEN NoCall
                            ELSE [call[d] EXCEPT !.crossed = TRUE]]

-----------------------------------------------------------------------------
(* Connect: prove the token, then store it.                                  *)

Segments(pasted) == SelectSeq(pasted, LAMBDA s : s # Empty)

\* parseRepositoryRef: the first two segments, if GitHub could have them.
ParseRef(pasted) ==
  LET parts == Segments(pasted) IN
  IF Len(parts) >= 2 /\ {parts[1], parts[2]} \subseteq Legal \ Dots
  THEN <<parts[1], parts[2]>> ELSE None

\* Mutant: a token that can read will do.
CanWriteReads(ref, token) == <<ref, token>> \in reads

\* permissions.push, maintain or admin.
CanWrite(ref, token) == <<ref, token>> \in writes

Connect(c, pasted, token) ==
  /\ Idle(c)
  /\ ParseRef(pasted) # None
  /\ Calls(c, "prove", ParseRef(pasted), token)
  /\ UNCHANGED <<row, reads, writes, proven, overtaken>>

\* GitHub refuses, cannot be reached or lets the token do too little.
Prove(c) ==
  /\ call[c].at = "prove"
  /\ \/ /\ CanWrite(call[c].ref, call[c].token)
        /\ Calls(c, "save", call[c].ref, call[c].token)
        /\ proven' = proven \cup ({<<call[c].ref, call[c].token>>} \cap writes)
     \/ Ends(c) /\ UNCHANGED proven
  /\ UNCHANGED <<row, reads, writes, overtaken>>

\* Mutant: the upsert leaves the branch of the row that was there.
SavedBranchKept(ref) == IF row = None THEN Branch(ref) ELSE row.branch

\* default_branch = excluded.default_branch.
SavedBranch(ref) == Branch(ref)

\* The upsert of saveRepository, on the project's one row.
Save(c) ==
  /\ call[c].at = "save"
  /\ row' = [ref |-> call[c].ref, token |-> call[c].token,
             branch |-> SavedBranch(call[c].ref),
             stamp |-> <<call[c].ref, call[c].token>>, legible |-> TRUE]
  /\ EndsReplacing(c) /\ overtaken' = FALSE
  /\ UNCHANGED <<reads, writes, proven>>

-----------------------------------------------------------------------------
(* Verify: the repository and its token are two reads.                       *)

ReadRow(c) ==
  /\ Idle(c)
  /\ row # None
  /\ Calls(c, "token", row.ref, None)
  /\ UNCHANGED <<row, reads, writes, proven, overtaken>>

\* A token that APP_KEY no longer opens is no token.
ReadToken(c) ==
  /\ call[c].at = "token"
  /\ IF row # None /\ row.legible
     THEN Calls(c, "ask", call[c].ref, row.token)
     ELSE Ends(c)
  /\ UNCHANGED <<row, reads, writes, proven, overtaken>>

\* canWrite is reported and not required.
Ask(c) ==
  /\ call[c].at = "ask"
  /\ \/ /\ <<call[c].ref, call[c].token>> \in reads
        /\ Calls(c, "mark", call[c].ref, call[c].token)
     \/ Ends(c)
  /\ UNCHANGED <<row, reads, writes, proven, overtaken>>

\* markVerified, by project: whichever connection the row holds by now.
Mark(c) ==
  /\ call[c].at = "mark"
  /\ IF row = None
     THEN UNCHANGED <<row, overtaken>>
     ELSE /\ row' = [row EXCEPT !.branch = Branch(call[c].ref),
                                !.stamp = <<call[c].ref, call[c].token>>]
          /\ overtaken' = call[c].crossed
  /\ Ends(c)
  /\ UNCHANGED <<reads, writes, proven>>

Disconnect(c) ==
  /\ Idle(c)
  /\ row' = None
  /\ EndsReplacing(c) /\ overtaken' = FALSE
  /\ UNCHANGED <<reads, writes, proven>>

-----------------------------------------------------------------------------
(* Around it.                                                                *)

\* A token is revoked, or loses its write access.
Revoke(pair) ==
  /\ pair \in reads
  /\ \/ writes' = writes \ {pair} /\ reads' = reads \ {pair}
     \/ pair \in writes /\ writes' = writes \ {pair} /\ UNCHANGED reads
  /\ UNCHANGED <<row, call, proven, overtaken>>

RotateAppKey ==
  /\ row # None /\ row.legible
  /\ row' = [row EXCEPT !.legible = FALSE]
  /\ UNCHANGED <<reads, writes, call, proven, overtaken>>

\* A database call throws, or the process dies.
CallDies(c) ==
  /\ ~Idle(c)
  /\ Ends(c)
  /\ UNCHANGED <<row, reads, writes, proven, overtaken>>

Next ==
  \/ \E c \in Caller :
       \/ \E pasted \in Pasted, token \in Token : Connect(c, pasted, token)
       \/ Prove(c) \/ Save(c)
       \/ ReadRow(c) \/ ReadToken(c) \/ Ask(c) \/ Mark(c)
       \/ Disconnect(c) \/ CallDies(c)
  \/ \E pair \in Hosted \X Token : Revoke(pair)
  \/ RotateAppKey

Spec == Init /\ [][Next]_vars

-----------------------------------------------------------------------------
(* Properties.                                                               *)

\* repository.ts:70-76, "so a malformed value cannot be interpolated into an
\* API path": every variable has its type, and every request GitHub is sent or
\* row that is stored names an owner and a repository it could have.
TypeOK ==
  /\ row \in {None} \cup Row
  /\ writes \subseteq reads /\ reads \subseteq Hosted \X Token
  /\ call \in [Caller -> [at : {"idle", "prove", "save", "token", "ask", "mark"},
                          ref : Ref \cup {None}, token : Token \cup {None},
                          crossed : BOOLEAN]]
  /\ \A c \in Caller : ~Idle(c) => call[c].ref \in Ref
  /\ proven \subseteq Hosted \X Token /\ overtaken \in BOOLEAN

\* projects.ts:571-573, "verified against GitHub BEFORE it is stored", and
\* 601-602: whatever is stored, or about to be, GitHub has let push once.
ProvenBeforeStored ==
  /\ row # None => <<row.ref, row.token>> \in proven
  /\ \A c \in Caller : call[c].at = "save" => <<call[c].ref, call[c].token>> \in proven

\* repository.ts:169, "the credential was just proven good, and what branch it
\* targets": the branch and the stamp are about the repository and the token
\* stored, unless a verification stamped a connection made while it was asking.
StampFitsRow ==
  row # None /\ ~overtaken =>
    row.branch = Branch(row.ref) /\ row.stamp = <<row.ref, row.token>>

=============================================================================
