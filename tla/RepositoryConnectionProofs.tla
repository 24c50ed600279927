--------------------- MODULE RepositoryConnectionProofs ---------------------
(* Proofs about RepositoryConnection, for any callers, names, tokens and     *)
(* repositories: what may be stored, and what the stamp of the stored row    *)
(* vouches for.                                                              *)
EXTENDS RepositoryConnection, TLAPS

\* Whoever is about to use a token has one.
Armed ==
  \A c \in Caller :
    call[c].at \in {"prove", "save", "ask", "mark"} => call[c].token \in Token

\* A verification that no connection overtook is about the row that is there,
\* and about its token once it has read that.
AboutRow ==
  \A c \in Caller :
    row # None /\ ~call[c].crossed =>
      /\ call[c].at \in {"token", "ask", "mark"} => call[c].ref = row.ref
      /\ call[c].at \in {"ask", "mark"} => call[c].token = row.token

ConnInv == TypeOK /\ Armed /\ AboutRow /\ ProvenBeforeStored /\ StampFitsRow

-----------------------------------------------------------------------------
(* What the helpers do to the calls.                                         *)

CallRecord == [at : {"idle", "prove", "save", "token", "ask", "mark"},
               ref : Ref \cup {None}, token : Token \cup {None}, crossed : BOOLEAN]

LEMMA CallsFits ==
  ASSUME call \in [Caller -> CallRecord], NEW c \in Caller,
         NEW at \in {"prove", "save", "token", "ask", "mark"},
         NEW ref \in Ref, NEW token \in Token \cup {None},
         Calls(c, at, ref, token)
  PROVE  /\ call' \in [Caller -> CallRecord]
         /\ \A d \in Caller \ {c} : call'[d] = call[d]
         /\ call'[c].at = at /\ call'[c].ref = ref /\ call'[c].token = token
         /\ call'[c].crossed = call[c].crossed
BY DEF Calls, CallRecord

LEMMA EndsFits ==
  ASSUME call \in [Caller -> CallRecord], NEW c \in Caller, Ends(c)
  PROVE  /\ call' \in [Caller -> CallRecord]
         /\ \A d \in Caller \ {c} : call'[d] = call[d]
         /\ call'[c].at = "idle" /\ call'[c].crossed = FALSE
BY DEF Ends, CallRecord, NoCall

LEMMA EndsReplacingFits ==
  ASSUME call \in [Caller -> CallRecord], NEW c \in Caller, EndsReplacing(c)
  PROVE  /\ call' \in [Caller -> CallRecord]
         /\ call'[c].at = "idle"
         /\ \A d \in Caller :
              \/ call'[d].at = "idle"
              \/ /\ call[d].at # "idle" /\ call'[d].crossed
                 /\ call'[d].at = call[d].at
                 /\ call'[d].ref = call[d].ref /\ call'[d].token = call[d].token
BY DEF EndsReplacing, CallRecord, NoCall, Idle

\* What is parsed has two segments GitHub could have.
LEMMA ParseRefFits ==
  ASSUME NEW pasted, ParseRef(pasted) # None
  PROVE  ParseRef(pasted) \in Ref
BY DEF ParseRef, Ref

-----------------------------------------------------------------------------
(* The invariant holds at first and every step keeps it.                     *)

LEMMA ConnInitial == Init => ConnInv
<1> SUFFICES ASSUME Init PROVE ConnInv
  OBVIOUS
<1>1. \A c \in Caller : call[c].at = "idle" /\ Idle(c)
  BY DEF Init, NoCall, Idle
<1>2. call \in [Caller -> CallRecord]
  BY DEF Init, NoCall, CallRecord
<1>3. TypeOK
  BY <1>1, <1>2 DEF Init, TypeOK, CallRecord
<1>4. Armed /\ AboutRow
  BY <1>1 DEF Init, Armed, AboutRow
<1>5. ProvenBeforeStored /\ StampFitsRow
  BY <1>1 DEF Init, ProvenBeforeStored, StampFitsRow
<1> QED
  BY <1>3, <1>4, <1>5 DEF ConnInv

\* A step of one request that leaves the row and the history alone.
LEMMA QuietCall ==
  ASSUME ConnInv, NEW c \in Caller,
         call' \in [Caller -> CallRecord],
         \A d \in Caller \ {c} : call'[d] = call[d],
         call'[c].at # "idle" => call'[c].ref \in Ref,
         call'[c].at \in {"prove", "save", "ask", "mark"} => call'[c].token \in Token,
         call'[c].at = "save" => <<call'[c].ref, call'[c].token>> \in proven',
         row # None /\ ~call'[c].crossed =>
           /\ call'[c].at \in {"token", "ask", "mark"} => call'[c].ref = row.ref
           /\ call'[c].at \in {"ask", "mark"} => call'[c].token = row.token,
         UNCHANGED <<row, reads, writes, overtaken>>,
         proven \subseteq proven', proven' \subseteq Hosted \X Token
  PROVE  ConnInv'
<1>1. TypeOK'
  BY DEF ConnInv, TypeOK, CallRecord, Idle
<1>2. Armed' /\ AboutRow'
  BY DEF ConnInv, Armed, AboutRow
<1>3. ProvenBeforeStored'
  BY DEF ConnInv, ProvenBeforeStored
<1>4. StampFitsRow'
  BY DEF ConnInv, StampFitsRow, Branch
<1> QED
  BY <1>1, <1>2, <1>3, <1>4 DEF ConnInv

LEMMA ConnectKeeps ==
  ASSUME ConnInv, NEW c \in Caller, NEW pasted, NEW token \in Token, Connect(c, pasted, token)
  PROVE  ConnInv'
<1>1. call \in [Caller -> CallRecord]
  BY DEF ConnInv, TypeOK, CallRecord
<1>2. ParseRef(pasted) \in Ref
  BY ParseRefFits DEF Connect
<1>3. /\ call' \in [Caller -> CallRecord]
      /\ \A d \in Caller \ {c} : call'[d] = call[d]
      /\ call'[c].at = "prove" /\ call'[c].ref = ParseRef(pasted) /\ call'[c].token = token
  BY <1>1, <1>2, CallsFits DEF Connect
<1> QED
  BY <1>2, <1>3, QuietCall DEF Connect, ConnInv, TypeOK

LEMMA ProveKeeps ==
  ASSUME ConnInv, NEW c \in Caller, Prove(c)
  PROVE  ConnInv'
<1>1. call \in [Caller -> CallRecord]
  BY DEF ConnInv, TypeOK, CallRecord
<1>2. call[c].ref \in Ref /\ call[c].token \in Token
  BY DEF Prove, ConnInv, TypeOK, Armed, Idle
<1>3. proven \subseteq proven' /\ proven' \subseteq Hosted \X Token
  BY DEF Prove, ConnInv, TypeOK
<1>4. CASE /\ CanWrite(call[c].ref, call[c].token)
           /\ Calls(c, "save", call[c].ref, call[c].token)
           /\ proven' = proven \cup ({<<call[c].ref, call[c].token>>} \cap writes)
  <2>1. /\ call' \in [Caller -> CallRecord]
        /\ \A d \in Caller \ {c} : call'[d] = call[d]
        /\ call'[c].at = "save" /\ call'[c].ref = call[c].ref
        /\ call'[c].token = call[c].token
    BY <1>1, <1>2, <1>4, CallsFits
  <2>2. <<call'[c].ref, call'[c].token>> \in proven'
    BY <1>4, <2>1 DEF CanWrite
  <2> QED
    BY <1>2, <1>3, <2>1, <2>2, QuietCall DEF Prove
<1>5. CASE Ends(c)
  <2>1. /\ call' \in [Caller -> CallRecord]
        /\ \A d \in Caller \ {c} : call'[d] = call[d]
        /\ call'[c].at = "idle"
    BY <1>1, <1>5, EndsFits
  <2> QED
    BY <1>3, <2>1, QuietCall DEF Prove
<1> QED
  BY <1>4, <1>5 DEF Prove

LEMMA SaveKeeps ==
  ASSUME ConnInv, NEW c \in Caller, Save(c)
  PROVE  ConnInv'
<1>1. call \in [Caller -> CallRecord]
  BY DEF ConnInv, TypeOK, CallRecord
<1>2. /\ call' \in [Caller -> CallRecord]
      /\ \A d \in Caller :
           \/ call'[d].at = "idle"
           \/ /\ call[d].at # "idle" /\ call'[d].crossed
              /\ call'[d].at = call[d].at
              /\ call'[d].ref = call[d].ref /\ call'[d].token = call[d].token
  BY <1>1, EndsReplacingFits DEF Save
<1>3. call[c].ref \in Ref /\ call[c].token \in Token
  BY DEF Save, ConnInv, TypeOK, Armed, Idle
<1>4. /\ row' \in Row /\ row'.ref = call[c].ref /\ row'.token = call[c].token
      /\ row'.branch = Branch(row'.ref)
      /\ row'.stamp = <<row'.ref, row'.token>>
  BY <1>3 DEF Save, SavedBranch, Row
<1>5. TypeOK'
  BY <1>2, <1>4 DEF Save, ConnInv, TypeOK, CallRecord, Idle
<1>6. Armed' /\ AboutRow'
  BY <1>2 DEF ConnInv, Armed, AboutRow
<1>7. ProvenBeforeStored'
  BY <1>2, <1>4 DEF Save, ConnInv, ProvenBeforeStored
<1>8. StampFitsRow'
  BY <1>4 DEF StampFitsRow, Branch
<1> QED
  BY <1>5, <1>6, <1>7, <1>8 DEF ConnInv

LEMMA ReadRowKeeps ==
  ASSUME ConnInv, NEW c \in Caller, ReadRow(c)
  PROVE  ConnInv'
<1>1. call \in [Caller -> CallRecord]
  BY DEF ConnInv, TypeOK, CallRecord
<1>2. row.ref \in Ref
  BY DEF ReadRow, ConnInv, TypeOK, Row
<1>3. /\ call' \in [Caller -> CallRecord]
      /\ \A d \in Caller \ {c} : call'[d] = call[d]
      /\ call'[c].at = "token" /\ call'[c].ref = row.ref
  BY <1>1, <1>2, CallsFits DEF ReadRow
<1> QED
  BY <1>2, <1>3, QuietCall DEF ReadRow, ConnInv, TypeOK

LEMMA ReadTokenKeeps ==
  ASSUME ConnInv, NEW c \in Caller, ReadToken(c)
  PROVE  ConnInv'
<1>1. call \in [Caller -> CallRecord]
  BY DEF ConnInv, TypeOK, CallRecord
<1>2. CASE row # None /\ row.legible
  <2>1. call[c].ref \in Ref /\ row.token \in Token
    BY <1>2 DEF ReadToken, ConnInv, TypeOK, Idle, Row
  <2>2. /\ call' \in [Caller -> CallRecord]
        /\ \A d \in Caller \ {c} : call'[d] = call[d]
        /\ call'[c].at = "ask" /\ call'[c].ref = call[c].ref
        /\ call'[c].token = row.token /\ call'[c].crossed = call[c].crossed
    BY <1>1, <1>2, <2>1, CallsFits DEF ReadToken
  <2>3. row # None /\ ~call'[c].crossed => call'[c].ref = row.ref
    BY <2>2 DEF ReadToken, ConnInv, AboutRow
  <2> QED
    BY <2>1, <2>2, <2>3, QuietCall DEF ReadToken, ConnInv, TypeOK
<1>3. CASE ~(row # None /\ row.legible)
  <2>1. /\ call' \in [Caller -> CallRecord]
        /\ \A d \in Caller \ {c} : call'[d] = call[d]
        /\ call'[c].at = "idle"
    BY <1>1, <1>3, EndsFits DEF ReadToken
  <2> QED
    BY <2>1, QuietCall DEF ReadToken, ConnInv, TypeOK
<1> QED
  BY <1>2, <1>3

LEMMA AskKeeps ==
  ASSUME ConnInv, NEW c \in Caller, Ask(c)
  PROVE  ConnInv'
<1>1. call \in [Caller -> CallRecord]
  BY DEF ConnInv, TypeOK, CallRecord
<1>2. call[c].ref \in Ref /\ call[c].token \in Token
  BY DEF Ask, ConnInv, TypeOK, Armed, Idle
<1>3. CASE Calls(c, "mark", call[c].ref, call[c].token)
  <2>1. /\ call' \in [Caller -> CallRecord]
        /\ \A d \in Caller \ {c} : call'[d] = call[d]
        /\ call'[c].at = "mark" /\ call'[c].ref = call[c].ref
        /\ call'[c].token = call[c].token /\ call'[c].crossed = call[c].crossed
    BY <1>1, <1>2, <1>3, CallsFits
  <2>2. row # None /\ ~call'[c].crossed =>
          call'[c].ref = row.ref /\ call'[c].token = row.token
    BY <2>1 DEF Ask, ConnInv, AboutRow
  <2> QED
    BY <1>2, <2>1, <2>2, QuietCall DEF Ask, ConnInv, TypeOK
<1>4. CASE Ends(c)
  <2>1. /\ call' \in [Caller -> CallRecord]
        /\ \A d \in Caller \ {c} : call'[d] = call[d]
        /\ call'[c].at = "idle"
    BY <1>1, <1>4, EndsFits
  <2> QED
    BY <2>1, QuietCall DEF Ask, ConnInv, TypeOK
<1> QED
  BY <1>3, <1>4 DEF Ask

LEMMA CallDiesKeeps ==
  ASSUME ConnInv, NEW c \in Caller, CallDies(c)
  PROVE  ConnInv'
<1>1. call \in [Caller -> CallRecord]
  BY DEF ConnInv, TypeOK, CallRecord
<1>2. /\ call' \in [Caller -> CallRecord]
      /\ \A d \in Caller \ {c} : call'[d] = call[d]
      /\ call'[c].at = "idle"
  BY <1>1, EndsFits DEF CallDies
<1> QED
  BY <1>2, QuietCall DEF CallDies, ConnInv, TypeOK

\* A stamp is about the row unless the call was crossed, and then it says so.
LEMMA MarkKeeps ==
  ASSUME ConnInv, NEW c \in Caller, Mark(c)
  PROVE  ConnInv'
<1>1. call \in [Caller -> CallRecord]
  BY DEF ConnInv, TypeOK, CallRecord
<1>2. /\ call' \in [Caller -> CallRecord]
      /\ \A d \in Caller \ {c} : call'[d] = call[d]
      /\ call'[c].at = "idle"
  BY <1>1, EndsFits DEF Mark
<1>3. CASE row = None
  BY <1>2, <1>3, QuietCall DEF Mark, ConnInv, TypeOK
<1>4. CASE row # None
  <2>1. call[c].ref \in Ref /\ call[c].token \in Token
    BY DEF Mark, ConnInv, TypeOK, Armed, Idle
  <2>2. row \in Row
    BY <1>4 DEF ConnInv, TypeOK
  <2>3. /\ row' \in Row /\ row'.ref = row.ref /\ row'.token = row.token
        /\ row'.branch = Branch(call[c].ref)
        /\ row'.stamp = <<call[c].ref, call[c].token>>
    <3> DEFINE branch == Branch(call[c].ref)
               stamp == <<call[c].ref, call[c].token>>
    <3>1. branch \in { Branch(ref) : ref \in Ref } /\ stamp \in Ref \X Token
      BY <2>1
    <3>2. row' = [row EXCEPT !.branch = branch, !.stamp = stamp]
      BY <1>4 DEF Mark
    <3> HIDE DEF branch, stamp
    <3>3. /\ row' \in Row /\ row'.ref = row.ref /\ row'.token = row.token
          /\ row'.branch = branch /\ row'.stamp = stamp
      BY <2>2, <3>1, <3>2 DEF Row
    <3> QED
      BY <3>3 DEF branch, stamp
  <2>4. TypeOK'
    BY <1>1, <1>2, <1>4, <2>3 DEF Mark, ConnInv, TypeOK, CallRecord, Idle
  <2>5. Armed' /\ AboutRow'
    BY <1>2, <1>4, <2>3 DEF ConnInv, Armed, AboutRow
  <2>6. ProvenBeforeStored'
    BY <1>2, <1>4, <2>3 DEF Mark, ConnInv, ProvenBeforeStored
  <2>7. StampFitsRow'
    <3>1. ~overtaken' => call[c].ref = row.ref /\ call[c].token = row.token
      BY <1>4 DEF Mark, ConnInv, AboutRow
    <3> QED
      BY <2>3, <3>1 DEF StampFitsRow, Branch
  <2> QED
    BY <2>4, <2>5, <2>6, <2>7 DEF ConnInv
<1> QED
  BY <1>3, <1>4

LEMMA DisconnectKeeps ==
  ASSUME ConnInv, NEW c \in Caller, Disconnect(c)
  PROVE  ConnInv'
<1>1. call \in [Caller -> CallRecord]
  BY DEF ConnInv, TypeOK, CallRecord
<1>2. /\ call' \in [Caller -> CallRecord]
      /\ \A d \in Caller :
           \/ call'[d].at = "idle"
           \/ /\ call[d].at # "idle" /\ call'[d].crossed
              /\ call'[d].at = call[d].at
              /\ call'[d].ref = call[d].ref /\ call'[d].token = call[d].token
  BY <1>1, EndsReplacingFits DEF Disconnect
<1>3. TypeOK'
  BY <1>2 DEF Disconnect, ConnInv, TypeOK, CallRecord, Idle
<1>4. Armed' /\ AboutRow'
  BY <1>2 DEF ConnInv, Armed, AboutRow
<1>5. ProvenBeforeStored' /\ StampFitsRow'
  BY <1>2 DEF Disconnect, ConnInv, ProvenBeforeStored, StampFitsRow
<1> QED
  BY <1>3, <1>4, <1>5 DEF ConnInv

LEMMA AroundKeeps ==
  ASSUME ConnInv, (\E pair \in Hosted \X Token : Revoke(pair)) \/ RotateAppKey
  PROVE  ConnInv'
<1>1. CASE \E pair \in Hosted \X Token : Revoke(pair)
  <2>1. writes' \subseteq reads' /\ reads' \subseteq Hosted \X Token
    BY <1>1 DEF Revoke, ConnInv, TypeOK
  <2>2. UNCHANGED <<row, call, proven, overtaken>>
    BY <1>1 DEF Revoke
  <2>3. TypeOK'
    BY <2>1, <2>2 DEF ConnInv, TypeOK, Idle
  <2>4. Armed' /\ AboutRow' /\ ProvenBeforeStored'
    BY <2>2 DEF ConnInv, Armed, AboutRow, ProvenBeforeStored
  <2>5. StampFitsRow'
    BY <2>2 DEF ConnInv, StampFitsRow, Branch
  <2> QED
    BY <2>3, <2>4, <2>5 DEF ConnInv
<1>2. CASE RotateAppKey
  <2>1. /\ row # None /\ row' \in Row
        /\ row'.ref = row.ref /\ row'.token = row.token
        /\ row'.branch = row.branch /\ row'.stamp = row.stamp
    BY <1>2 DEF RotateAppKey, ConnInv, TypeOK, Row
  <2>2. TypeOK'
    BY <1>2, <2>1 DEF RotateAppKey, ConnInv, TypeOK, Idle
  <2>3. Armed' /\ AboutRow' /\ ProvenBeforeStored'
    BY <1>2, <2>1 DEF RotateAppKey, ConnInv, Armed, AboutRow, ProvenBeforeStored
  <2>4. StampFitsRow'
    BY <1>2, <2>1 DEF RotateAppKey, ConnInv, StampFitsRow, Branch
  <2> QED
    BY <2>2, <2>3, <2>4 DEF ConnInv
<1> QED
  BY <1>1, <1>2

LEMMA ConnInductive == ConnInv /\ [Next]_vars => ConnInv'
<1> SUFFICES ASSUME ConnInv, [Next]_vars PROVE ConnInv'
  OBVIOUS
<1>1. CASE UNCHANGED vars
  <2>1. TypeOK' /\ Armed' /\ AboutRow' /\ ProvenBeforeStored'
    BY <1>1 DEF vars, ConnInv, TypeOK, Armed, AboutRow, ProvenBeforeStored, Idle
  <2>2. StampFitsRow'
    BY <1>1 DEF vars, ConnInv, StampFitsRow, Branch
  <2> QED
    BY <2>1, <2>2 DEF ConnInv
<1>2. CASE Next
  BY <1>2, ConnectKeeps, ProveKeeps, SaveKeeps, ReadRowKeeps, ReadTokenKeeps,
     AskKeeps, MarkKeeps, DisconnectKeeps, CallDiesKeeps, AroundKeeps DEF Next
<1> QED
  BY <1>1, <1>2

-----------------------------------------------------------------------------

\* repository.ts, projects.ts 551-660.  The inductive invariant: types, what a
\* request at each of its calls holds, and the two properties below.
THEOREM ConnectionCorrect == Spec => []ConnInv
BY ConnInitial, ConnInductive, PTL DEF Spec

\* repository.ts:70-76.  Whatever is pasted, an owner and a repository that
\* GitHub could have are all that is stored or asked about.
THEOREM ConnectionTyped == Spec => []TypeOK
<1>1. ConnInv => TypeOK
  BY DEF ConnInv
<1> QED
  BY <1>1, ConnectionCorrect, PTL

\* projects.ts:571-573.  No repository and token are stored that GitHub has not
\* once let push, whatever other requests do between the proof and the upsert.
THEOREM StoredIsProven == Spec => []ProvenBeforeStored
<1>1. ConnInv => ProvenBeforeStored
  BY DEF ConnInv
<1> QED
  BY <1>1, ConnectionCorrect, PTL

\* repository.ts:169.  A stamp is about the repository and the token stored,
\* unless the verification that wrote it was overtaken by a connection.
THEOREM StampIsHonest == Spec => []StampFitsRow
<1>1. ConnInv => StampFitsRow
  BY DEF ConnInv
<1> QED
  BY <1>1, ConnectionCorrect, PTL

=============================================================================
