------------------------ MODULE ProjectAccessProofs ------------------------
(* For any people, requests and bound on the owner's acts: one row per       *)
(* person, removal leaves none, and the requests of ProjectAccess implement  *)
(* the promise of AccessList.  Of a batch that is ingested, every entry is   *)
(* accounted for and every row fits its columns.                             *)
EXTENDS ProjectAccess, NaturalsInduction, WellFoundedInduction, TLAPS

USE AccessAssumption

\* Initially there is nobody, and no request.
LEMMA InitInv == Init => AccessInv
  BY DEF Init, AccessInv, TypeOK, OneRowEach, AllAsked, Row, Idle, Calls

\* A row with a fresh id for a person who has none keeps a table in order.
LEMMA FreshRow ==
  ASSUME NEW table, table \subseteq Row, OneRowEach(table), ids \in Nat,
         NEW p \in Person, RowsOf(table, p) = {}
  PROVE  LET t == table \cup {[id |-> ids + 1, who |-> p]} IN
           /\ t \subseteq Row
           /\ \A m, n \in t : m.who = n.who \/ m.id = n.id => m = n
           /\ \A m \in t : m.id <= ids + 1
  BY DEF OneRowEach, RowsOf, Row

\* A table keeps its order when rows go.
LEMMA FewerRows ==
  ASSUME NEW table, table \subseteq Row, OneRowEach(table), NEW id
  PROVE  Without(table, id) \subseteq table
  BY DEF Without

\* The owner's writes to the project row leave the people alone.
LEMMA KeyActsInv ==
  ASSUME AccessInv,
         \/ RotateKey \/ IssueReadKey \/ RevokeReadKey
         \/ \E archived \in BOOLEAN : SetArchived(archived)
  PROVE  AccessInv'
<1> USE DEF AccessInv, TypeOK, OneRowEach, AllAsked, Act, peopleVars
<1>1. CASE RotateKey
  BY <1>1 DEF RotateKey
<1>2. CASE IssueReadKey
  BY <1>2 DEF IssueReadKey
<1>3. CASE RevokeReadKey
  BY <1>3 DEF RevokeReadKey
<1>4. CASE \E archived \in BOOLEAN : SetArchived(archived)
  <2>1. active' \in BOOLEAN
    BY <1>4, Zenon DEF SetArchived
  <2> QED
    BY <1>4, <2>1 DEF SetArchived
<1> QED
  BY <1>1, <1>2, <1>3, <1>4

\* Steps of a request that leave both tables as they are.
LEMMA QuietInv ==
  ASSUME AccessInv, NEW r \in Request,
         \/ \E p \in Person : InviteStarts(r, p)
         \/ InviteChecksMember(r) \/ InviteReadsPending(r)
         \/ \E p \in Person, token \in 1 .. ids : AcceptReads(r, p, token)
         \/ AcceptChecksMember(r)
         \/ \E k \in 1 .. keys : ReadByKey(r, k)
         \/ RecordReadKeyUse(r)
         \/ \E p \in Person : ReadByUser(r, p)
         \/ Answer(r)
         \/ \E k \in 1 .. keys : IngestChecks(r, k)
         \/ Store(r) \/ Dies(r)
  PROVE  AccessInv'
<1> USE DEF AccessInv, TypeOK, OneRowEach, AllAsked, Idle, Calls, Starts, keyVars, peopleVars
<1>1. CASE \E p \in Person : InviteStarts(r, p)
  <2>1. PICK p \in Person : InviteStarts(r, p)
    BY <1>1
  <2>2. req' = [req EXCEPT ![r] = [at |-> "invite", who |-> p, id |-> 0, key |-> NoKey]]
    BY <2>1 DEF InviteStarts, Act
  <2> QED
    BY <2>1, <2>2 DEF InviteStarts, Act
<1>2. CASE InviteChecksMember(r)
  BY <1>2 DEF InviteChecksMember, At, Ends, Goes
<1>3. CASE InviteReadsPending(r)
  BY <1>3 DEF InviteReadsPending, At, Ends, Goes
<1>4. CASE \E p \in Person, token \in 1 .. ids : AcceptReads(r, p, token)
  <2>1. PICK p \in Person, token \in 1 .. ids : AcceptReads(r, p, token)
    BY <1>4
  <2>2. req' = [req EXCEPT ![r] = [at |-> "exists", who |-> p, id |-> token, key |-> NoKey]]
    BY <2>1 DEF AcceptReads, Addressed
  <2> QED
    BY <2>1, <2>2 DEF AcceptReads, Addressed
<1>5. CASE AcceptChecksMember(r)
  BY <1>5 DEF AcceptChecksMember, At, Goes
<1>6. CASE \E k \in 1 .. keys : ReadByKey(r, k)
  <2>1. PICK k \in 1 .. keys, call \in {"stamp", "answer"} :
          /\ req' = [req EXCEPT ![r] = [at |-> call, who |-> Owner, id |-> 0, key |-> k]]
          /\ UNCHANGED <<engine, keyVars, peopleVars, invited, acts>>
    BY <1>6 DEF ReadByKey
  <2> QED
    BY <2>1
<1>7. CASE RecordReadKeyUse(r)
  BY <1>7 DEF RecordReadKeyUse, At, Goes
<1>8. CASE \E p \in Person : ReadByUser(r, p)
  <2>1. PICK p \in Person : ReadByUser(r, p)
    BY <1>8
  <2>2. req' = [req EXCEPT ![r] = [at |-> "answer", who |-> p, id |-> 0, key |-> NoKey]]
    BY <2>1 DEF ReadByUser
  <2> QED
    BY <2>1, <2>2 DEF ReadByUser
<1>9. CASE Answer(r) \/ Store(r) \/ Dies(r)
  BY <1>9 DEF Answer, Store, Dies, Ends
<1>10. CASE \E k \in 1 .. keys : IngestChecks(r, k)
  <2>1. PICK k \in 1 .. keys : IngestChecks(r, k)
    BY <1>10
  <2>2. req' = [req EXCEPT ![r] = [at |-> "store", who |-> Owner, id |-> 0, key |-> k]]
    BY <2>1 DEF IngestChecks
  <2> QED
    BY <2>1, <2>2 DEF IngestChecks
<1> QED
  BY <1>1, <1>2, <1>3, <1>4, <1>5, <1>6, <1>7, <1>8, <1>9, <1>10

\* An invite is inserted under its unique index.
LEMMA InsertInviteInv ==
  ASSUME AccessInv, NEW r \in Request, InsertInvite(r)
  PROVE  AccessInv'
<1> DEFINE p == req[r].who
<1>1. p \in Person /\ p \in invited
  BY DEF AccessInv, TypeOK, AllAsked, InsertInvite, At
<1>2. CASE Unique(invites, p)
  <2>1. /\ invites' = invites \cup {[id |-> ids + 1, who |-> p]} /\ ids' = ids + 1
        /\ members' = members
    BY <1>2 DEF InsertInvite
  <2>2. invites' \subseteq Row /\ OneRowEach(invites)'
    BY <1>1, <1>2, <2>1, FreshRow DEF AccessInv, TypeOK, OneRowEach, Unique
  <2>3. OneRowEach(members)'
    BY <2>1 DEF AccessInv, TypeOK, OneRowEach, Row
  <2>4. AllAsked'
    BY <1>1, <2>1 DEF AccessInv, TypeOK, AllAsked, InsertInvite, Ends, Idle
  <2>5. TypeOK'
    BY <2>1, <2>2 DEF AccessInv, TypeOK, InsertInvite, Ends, Idle, Calls, keyVars
  <2> QED
    BY <2>2, <2>3, <2>4, <2>5 DEF AccessInv
<1>3. CASE ~Unique(invites, p)
  BY <1>3 DEF InsertInvite, Ends, Idle, Calls, AccessInv, TypeOK, OneRowEach, AllAsked, keyVars
<1> QED
  BY <1>2, <1>3

\* A membership is inserted under its unique index.
LEMMA JoinInv ==
  ASSUME AccessInv, NEW r \in Request, Join(r)
  PROVE  AccessInv'
<1> DEFINE p == req[r].who
<1>1. p \in Person
  BY DEF AccessInv, TypeOK
<1>2. CASE Unique(members, p)
  <2>1. /\ members' = members \cup {[id |-> ids + 1, who |-> p]} /\ ids' = ids + 1
        /\ invites' = invites /\ Goes(r, "dropInvite")
    BY <1>2 DEF Join
  <2>2. members' \subseteq Row /\ OneRowEach(members)'
    BY <1>1, <1>2, <2>1, FreshRow DEF AccessInv, TypeOK, OneRowEach, Unique
  <2>3. OneRowEach(invites)'
    BY <2>1 DEF AccessInv, TypeOK, OneRowEach, Row
  <2>4. AllAsked'
    BY <2>1 DEF AccessInv, TypeOK, AllAsked, Join, Goes
  <2>5. TypeOK'
    BY <2>1, <2>2 DEF AccessInv, TypeOK, Join, Goes, Calls, keyVars
  <2> QED
    BY <2>2, <2>3, <2>4, <2>5 DEF AccessInv
<1>3. CASE ~Unique(members, p)
  BY <1>3 DEF Join, Ends, Idle, Calls, AccessInv, TypeOK, OneRowEach, AllAsked, keyVars
<1> QED
  BY <1>2, <1>3

\* The three deletes.
LEMMA DeletesInv ==
  ASSUME AccessInv, NEW r \in Request,
         \/ \E id \in 1 .. ids : RemoveMember(r, id)
         \/ RemoveInvite(r) \/ DropInvite(r)
  PROVE  AccessInv'
<1> USE DEF AccessInv, TypeOK, OneRowEach, AllAsked, Idle, Calls, Starts, keyVars, Without
<1>1. CASE \E id \in 1 .. ids : RemoveMember(r, id)
  <2>1. PICK id \in 1 .. ids : RemoveMember(r, id)
    BY <1>1
  <2>2. \/ UNCHANGED req
        \/ req' = [req EXCEPT ![r] = [at |-> "removeInvite", who |-> Owner, id |-> id, key |-> NoKey]]
    BY <2>1 DEF RemoveMember
  <2> QED
    BY <2>1, <2>2 DEF RemoveMember, Act
<1>2. CASE RemoveInvite(r)
  BY <1>2 DEF RemoveInvite, Ends
<1>3. CASE DropInvite(r)
  BY <1>3 DEF DropInvite, Ends
<1> QED
  BY <1>1, <1>2, <1>3

LEMMA NextInv == AccessInv /\ [Next]_vars => AccessInv'
<1> SUFFICES ASSUME AccessInv, [Next]_vars PROVE AccessInv'
  OBVIOUS
<1>1. CASE OwnerActs
  BY <1>1, KeyActsInv, QuietInv, DeletesInv DEF OwnerActs
<1>2. CASE \E r \in Request : Arrives(r)
  BY <1>2, QuietInv DEF Arrives
<1>3. CASE \E r \in Request : Continues(r) \/ Dies(r)
  BY <1>3, QuietInv, InsertInviteInv, JoinInv, DeletesInv DEF Continues
<1>4. CASE UNCHANGED vars
  BY <1>4 DEF vars, keyVars, peopleVars, AccessInv, TypeOK, OneRowEach, AllAsked
<1> QED
  BY <1>1, <1>2, <1>3, <1>4 DEF Next

\* One row per person and table, whatever double clicks and races there are.
THEOREM AccessCorrect == Spec => []AccessInv
  BY InitInv, NextInv, PTL DEF Spec

\* A removal takes the person's only row away.
THEOREM RemovalFinal == Spec => RemovalRevokes
<1> DEFINE Gone ==
      /\ \A m \in members \ members' : RowsOf(members', m.who) = {}
      /\ \A i \in invites \ invites' : RowsOf(invites', i.who) = {}
<1>1. AccessInv /\ [Next]_vars => [Gone]_vars
  <2> SUFFICES ASSUME AccessInv, [Next]_vars PROVE Gone
    OBVIOUS
  <2>1. CASE \/ members' \subseteq members /\ invites' = invites
             \/ members' = members /\ invites' \subseteq invites
    BY <2>1 DEF RowsOf, AccessInv, OneRowEach
  <2>2. CASE members \subseteq members' /\ invites \subseteq invites'
    BY <2>2
  <2>3. \/ members' \subseteq members /\ invites' = invites
        \/ members' = members /\ invites' \subseteq invites
        \/ members \subseteq members' /\ invites \subseteq invites'
    <3>1. CASE OwnerActs
      BY <3>1, FewerRows DEF OwnerActs, RotateKey, IssueReadKey, RevokeReadKey, SetArchived,
         InviteStarts, RemoveMember, Without, peopleVars
    <3>2. CASE \E r \in Request : Arrives(r) \/ Dies(r)
      BY <3>2 DEF Arrives, AcceptReads, ReadByKey, ReadByUser, IngestChecks, Dies, peopleVars
    <3>3. CASE \E r \in Request : Continues(r)
      BY <3>3 DEF Continues, InviteChecksMember, InviteReadsPending, InsertInvite, RemoveInvite,
         AcceptChecksMember, Join, DropInvite, RecordReadKeyUse, Answer, Store, Without, peopleVars
    <3>4. CASE UNCHANGED vars
      BY <3>4 DEF vars, peopleVars
    <3> QED
      BY <3>1, <3>2, <3>3, <3>4 DEF Next
  <2> QED
    BY <2>1, <2>2, <2>3
<1>2. Spec => [][Gone]_vars
  BY <1>1, AccessCorrect, PTL DEF Spec
<1> QED
  BY <1>2 DEF RemovalRevokes

-----------------------------------------------------------------------------
(* The refinement.  What a step does to one person's standing is stated by   *)
(* whether that person has a membership and whether an offer stands.         *)

Holds(p) == RowsOf(members, p) # {}
Keeps(p) == (Holds(p)' <=> Holds(p)) /\ (Offered(p)' <=> Offered(p))
Moves(p) ==
  \/ Keeps(p)
  \/ ~Holds(p) /\ p \in invited /\ Offered(p)' /\ ~Holds(p)'
  \/ ~Holds(p) /\ Offered(p) /\ Holds(p)'
  \/ (Holds(p) \/ Offered(p)) /\ ~Holds(p)'
  \/ Holds(p) /\ Holds(p)'

OnePersonMoves ==
  \E p \in Person : Moves(p) /\ \A q \in Person \ {p} : Keeps(q)

\* A step that moves one person, and asks nobody, is one of the promise's.
LEMMA MoveRefines ==
  ASSUME OnePersonMoves, invited' = invited
  PROVE  [AL!Next]_<<invited, StandingOf>>
<1>1. PICK p \in Person : Moves(p) /\ \A q \in Person \ {p} : Keeps(q)
  BY DEF OnePersonMoves
<1>2. \A q \in Person : StandingOf'[q] = IF Holds(q)' THEN "member"
                                        ELSE IF Offered(q)' THEN "offered" ELSE "none"
  BY DEF StandingOf, Holds
<1>3. \A q \in Person : StandingOf[q] = IF Holds(q) THEN "member"
                                       ELSE IF Offered(q) THEN "offered" ELSE "none"
  BY DEF StandingOf, Holds
<1>4. \A q \in Person \ {p} : StandingOf'[q] = StandingOf[q]
  BY <1>1, <1>2, <1>3 DEF Keeps
<1>5. StandingOf' = [StandingOf EXCEPT ![p] = StandingOf'[p]]
  BY <1>4 DEF StandingOf
<1>6. CASE StandingOf'[p] = StandingOf[p]
  <2>1. StandingOf' = StandingOf
    BY <1>4, <1>6 DEF StandingOf
  <2> QED
    BY <2>1
<1>7. CASE StandingOf'[p] # StandingOf[p]
  <2>1. \/ StandingOf[p] = "none" /\ StandingOf'[p] = "offered" /\ p \in invited
        \/ StandingOf[p] = "offered" /\ StandingOf'[p] = "member"
        \/ StandingOf[p] # "none" /\ StandingOf'[p] \in {"none", "offered"}
    BY <1>1, <1>2, <1>3, <1>7 DEF Moves, Keeps
  <2>2. AL!Offer(p) \/ AL!Join(p) \/ AL!Withdraw(p)
    BY <1>5, <2>1 DEF AL!Offer, AL!Join, AL!Withdraw
  <2> QED
    BY <2>2 DEF AL!Next
<1> QED
  BY <1>6, <1>7

\* A request that changes neither table moves at most the person it is for.
LEMMA RequestMoves ==
  ASSUME AccessInv, NEW r \in Request, NEW p \in Person,
         members' = members, invites' = invites,
         \A x \in Request \ {r} : req'[x] = req[x],
         req[r].at \in {"exists", "join"} => req[r].who = p,
         req'[r].at \in {"exists", "join"} => req'[r].who = p
  PROVE  \A q \in Person \ {p} : Keeps(q)
  BY DEF Keeps, Holds, Offered, RowsOf

\* Of the rows of a table one at most has a given id.
LEMMA WithoutMoves ==
  ASSUME AccessInv, NEW table \in {members, invites}, NEW id
  PROVE  \E p \in Person : \A q \in Person \ {p} :
           RowsOf(Without(table, id), q) = RowsOf(table, q)
<1>1. CASE \E m \in table : m.id = id
  <2>1. PICK m \in table : m.id = id
    BY <1>1
  <2>2. m.who \in Person
    BY <2>1 DEF AccessInv, TypeOK, Row
  <2>3. \A n \in table : n.id = id => n = m
    BY <2>1 DEF AccessInv, OneRowEach
  <2> QED
    BY <2>2, <2>3 DEF RowsOf, Without
<1>2. CASE \A m \in table : m.id # id
  <2>1. Without(table, id) = table
    BY <1>2 DEF Without
  <2> QED
    BY <2>1
<1> QED
  BY <1>1, <1>2

\* Steps of a request before which and after which it stands on no offer.
LEMMA AsideMoves ==
  ASSUME AccessInv, members' = members, invites' = invites, NEW r \in Request,
         \A x \in Request \ {r} : req'[x] = req[x],
         req[r].at \notin {"exists", "join"}, req'[r].at \notin {"exists", "join"}
  PROVE  OnePersonMoves
<1>1. \A q \in Person : Keeps(q)
  BY DEF Keeps, Holds, Offered, RowsOf
<1> QED
  BY <1>1 DEF OnePersonMoves, Moves

LEMMA KeyActsMove ==
  ASSUME AccessInv,
         \/ RotateKey \/ IssueReadKey \/ RevokeReadKey
         \/ \E archived \in BOOLEAN : SetArchived(archived)
  PROVE  OnePersonMoves /\ invited' = invited
<1>1. members' = members /\ invites' = invites /\ req' = req /\ invited' = invited
  BY DEF RotateKey, IssueReadKey, RevokeReadKey, SetArchived, peopleVars
<1>2. \A q \in Person : Keeps(q)
  BY <1>1 DEF Keeps, Holds, Offered, RowsOf
<1> QED
  BY <1>1, <1>2 DEF OnePersonMoves, Moves

LEMMA ReadsMove ==
  ASSUME AccessInv, NEW r \in Request,
         \/ \E k \in 1 .. keys : ReadByKey(r, k)
         \/ \E p \in Person : ReadByUser(r, p)
         \/ \E k \in 1 .. keys : IngestChecks(r, k)
         \/ RecordReadKeyUse(r) \/ Answer(r) \/ Store(r)
         \/ InviteChecksMember(r) \/ InviteReadsPending(r)
  PROVE  OnePersonMoves /\ invited' = invited
<1> USE DEF At, Fresh, Starts, Goes, Ends, Idle, peopleVars
<1>1. /\ members' = members /\ invites' = invites /\ invited' = invited
      /\ \A x \in Request \ {r} : req'[x] = req[x]
      /\ req[r].at \notin {"exists", "join"} /\ req'[r].at \notin {"exists", "join"}
  <2>1. CASE \/ \E k \in 1 .. keys : ReadByKey(r, k)
            \/ \E p \in Person : ReadByUser(r, p)
            \/ \E k \in 1 .. keys : IngestChecks(r, k)
    BY <2>1 DEF ReadByKey, ReadByUser, IngestChecks, AccessInv, TypeOK
  <2>2. CASE RecordReadKeyUse(r) \/ Answer(r) \/ Store(r)
    BY <2>2 DEF RecordReadKeyUse, Answer, Store, AccessInv, TypeOK
  <2>3. CASE InviteChecksMember(r) \/ InviteReadsPending(r)
    BY <2>3 DEF InviteChecksMember, InviteReadsPending, AccessInv, TypeOK
  <2> QED
    BY <2>1, <2>2, <2>3
<1> QED
  BY <1>1, AsideMoves

\* A request that ends without writing may take the last trace of an offer along.
LEMMA DiesMoves ==
  ASSUME AccessInv, NEW r \in Request, Dies(r)
  PROVE  OnePersonMoves /\ invited' = invited
<1>1. PICK p \in Person : p = req[r].who
  BY DEF AccessInv, TypeOK
<1>2. /\ members' = members /\ invites' = invites /\ invited' = invited
      /\ \A x \in Request \ {r} : req'[x] = req[x]
      /\ req'[r].at = "idle"
  BY DEF Dies, Ends, Idle, peopleVars, AccessInv, TypeOK
<1>3. \A q \in Person \ {p} : Keeps(q)
  BY <1>1, <1>2, RequestMoves
<1>4. Holds(p)' <=> Holds(p)
  BY <1>2 DEF Holds, RowsOf
<1>5. Offered(p)' => Offered(p)
  BY <1>1, <1>2 DEF Offered, RowsOf
<1>6. Moves(p)
  BY <1>4, <1>5 DEF Moves, Keeps
<1> QED
  BY <1>1, <1>2, <1>3, <1>6 DEF OnePersonMoves, AccessInv, TypeOK

LEMMA AcceptMoves ==
  ASSUME AccessInv, NEW r \in Request,
         \/ \E p \in Person, token \in 1 .. ids : AcceptReads(r, p, token)
         \/ AcceptChecksMember(r)
  PROVE  OnePersonMoves /\ invited' = invited
<1>1. CASE \E p \in Person, token \in 1 .. ids : AcceptReads(r, p, token)
  <2>1. PICK p \in Person, token \in 1 .. ids : AcceptReads(r, p, token)
    BY <1>1
  <2>2. /\ members' = members /\ invites' = invites /\ invited' = invited
        /\ \A x \in Request \ {r} : req'[x] = req[x]
        /\ req[r].at = "idle" /\ req'[r].at = "exists" /\ req'[r].who = p
        /\ RowsOf(invites, p) # {}
    BY <2>1 DEF AcceptReads, Addressed, Fresh, At, Starts, RowsOf, peopleVars, AccessInv, TypeOK
  <2>3. \A q \in Person \ {p} : Keeps(q)
    BY <2>2, RequestMoves
  <2>4. Keeps(p)
    BY <2>2 DEF Keeps, Holds, Offered, RowsOf
  <2> QED
    BY <2>2, <2>3, <2>4 DEF OnePersonMoves, Moves
<1>2. CASE AcceptChecksMember(r)
  <2>1. PICK p \in Person : p = req[r].who
    BY DEF AccessInv, TypeOK
  <2>2. /\ members' = members /\ invites' = invites /\ invited' = invited
        /\ \A x \in Request \ {r} : req'[x] = req[x]
        /\ req[r].at = "exists" /\ req'[r].who = p
        /\ req'[r].at = IF RowsOf(members, p) # {} THEN "dropInvite" ELSE "join"
    BY <1>2, <2>1 DEF AcceptChecksMember, At, Goes, peopleVars, AccessInv, TypeOK
  <2>3. \A q \in Person \ {p} : Keeps(q)
    BY <2>1, <2>2, RequestMoves
  <2>4. Moves(p)
    BY <2>1, <2>2 DEF Moves, Keeps, Holds, Offered, RowsOf
  <2> QED
    BY <2>1, <2>2, <2>3, <2>4 DEF OnePersonMoves
<1> QED
  BY <1>1, <1>2

LEMMA InsertInviteMoves ==
  ASSUME AccessInv, NEW r \in Request, InsertInvite(r)
  PROVE  OnePersonMoves /\ invited' = invited
<1>1. PICK p \in invited : p = req[r].who
  BY DEF AccessInv, TypeOK, AllAsked, InsertInvite, At
<1>2. /\ members' = members /\ invited' = invited
      /\ \A x \in Request \ {r} : req'[x] = req[x]
      /\ req[r].at = "insertInvite" /\ req'[r].at = "idle"
      /\ invites \subseteq invites' /\ \A i \in invites' \ invites : i.who = p
  BY <1>1 DEF InsertInvite, At, Ends, Idle, AccessInv, TypeOK
<1>3. \A q \in Person \ {p} : Keeps(q)
  BY <1>1, <1>2 DEF Keeps, Holds, Offered, RowsOf
<1>4. Holds(p)' <=> Holds(p)
  BY <1>2 DEF Holds, RowsOf
<1>5. Offered(p) => Offered(p)'
  BY <1>1, <1>2 DEF Offered, RowsOf
<1>6. Moves(p)
  BY <1>1, <1>4, <1>5 DEF Moves, Keeps
<1> QED
  BY <1>1, <1>2, <1>3, <1>6 DEF OnePersonMoves, AccessInv, TypeOK

LEMMA JoinMoves ==
  ASSUME AccessInv, NEW r \in Request, Join(r)
  PROVE  OnePersonMoves /\ invited' = invited
<1>1. PICK p \in Person : p = req[r].who
  BY DEF AccessInv, TypeOK
<1>2. /\ invites' = invites /\ invited' = invited
      /\ \A x \in Request \ {r} : req'[x] = req[x]
      /\ req[r].at = "join" /\ req'[r].at \in {"idle", "dropInvite"}
      /\ members \subseteq members' /\ \A i \in members' \ members : i.who = p
      /\ RowsOf(members', p) # {}
  <2>1. /\ invites' = invites /\ invited' = invited
        /\ \A x \in Request \ {r} : req'[x] = req[x]
        /\ req[r].at = "join" /\ req'[r].at \in {"idle", "dropInvite"}
    BY DEF Join, At, Goes, Ends, Idle, AccessInv, TypeOK
  <2>2. CASE Unique(members, p)
    <3>1. members' = members \cup {[id |-> ids + 1, who |-> p]}
      BY <1>1, <2>2 DEF Join
    <3>2. [id |-> ids + 1, who |-> p] \in RowsOf(members', p)
      BY <3>1 DEF RowsOf
    <3>3. \A i \in members' \ members : i.who = p
      BY <3>1
    <3> QED
      BY <2>1, <3>1, <3>2, <3>3
  <2>3. CASE ~Unique(members, p)
    <3>1. members' = members
      BY <1>1, <2>3 DEF Join
    <3> QED
      BY <2>1, <2>3, <3>1 DEF Unique
  <2> QED
    BY <2>2, <2>3
<1>3. \A q \in Person \ {p} : Keeps(q)
  BY <1>1, <1>2 DEF Keeps, Holds, Offered, RowsOf
<1>4. Moves(p)
  BY <1>1, <1>2 DEF Moves, Holds, Offered, RowsOf
<1> QED
  BY <1>1, <1>2, <1>3, <1>4 DEF OnePersonMoves

LEMMA DeletesMove ==
  ASSUME AccessInv, NEW r \in Request,
         \/ \E id \in 1 .. ids : RemoveMember(r, id)
         \/ RemoveInvite(r) \/ DropInvite(r)
  PROVE  OnePersonMoves /\ invited' = invited
<1>1. CASE \E id \in 1 .. ids : RemoveMember(r, id)
  <2>1. PICK id \in 1 .. ids : RemoveMember(r, id)
    BY <1>1
  <2>2. /\ members' = Without(members, id) /\ invites' = invites /\ invited' = invited
        /\ \A x \in Request \ {r} : req'[x] = req[x]
        /\ req[r].at = "idle" /\ req'[r].at \in {"idle", "removeInvite"}
    BY <2>1 DEF RemoveMember, Fresh, At, Starts, AccessInv, TypeOK
  <2>3. PICK p \in Person : \A q \in Person \ {p} : RowsOf(members', q) = RowsOf(members, q)
    BY <2>2, WithoutMoves
  <2>4. \A q \in Person \ {p} : Keeps(q)
    BY <2>2, <2>3 DEF Keeps, Holds, Offered
  <2>5. Moves(p)
    BY <2>2 DEF Moves, Keeps, Holds, Offered, RowsOf, Without
  <2> QED
    BY <2>2, <2>4, <2>5 DEF OnePersonMoves
<1>2. CASE RemoveInvite(r) \/ DropInvite(r)
  <2> DEFINE id == req[r].id
  <2>2. /\ invites' = Without(invites, id) /\ members' = members /\ invited' = invited
        /\ \A x \in Request \ {r} : req'[x] = req[x]
        /\ req[r].at \in {"removeInvite", "dropInvite"} /\ req'[r].at = "idle"
    BY <1>2 DEF RemoveInvite, DropInvite, At, Ends, Idle, AccessInv, TypeOK
  <2>3. PICK p \in Person : \A q \in Person \ {p} : RowsOf(invites', q) = RowsOf(invites, q)
    BY <2>2, WithoutMoves
  <2>4. \A q \in Person \ {p} : Keeps(q)
    BY <2>2, <2>3 DEF Keeps, Holds, Offered
  <2>5. Moves(p)
    BY <2>2 DEF Moves, Keeps, Holds, Offered, RowsOf, Without
  <2> QED
    BY <2>2, <2>4, <2>5 DEF OnePersonMoves
<1> QED
  BY <1>1, <1>2

\* Asking is a step of the promise of its own.
LEMMA InviteAsks ==
  ASSUME AccessInv, NEW r \in Request, NEW p \in Person, InviteStarts(r, p)
  PROVE  AL!Ask(p)
<1>1. /\ members' = members /\ invites' = invites /\ invited' = invited \cup {p}
      /\ \A x \in Request \ {r} : req'[x] = req[x]
      /\ req[r].at = "idle" /\ req'[r].at = "invite"
  BY DEF InviteStarts, Fresh, At, Starts, peopleVars, AccessInv, TypeOK
<1>2. \A q \in Person : Offered(q)' <=> Offered(q)
  BY <1>1 DEF Offered, RowsOf
<1>3. StandingOf' = StandingOf
  BY <1>1, <1>2 DEF StandingOf, RowsOf
<1> QED
  BY <1>1, <1>3 DEF AL!Ask

\* Every step of the requests is a step of the promise, or none.
LEMMA StepRefines ==
  AccessInv /\ [Next]_vars => [AL!Next]_<<invited, StandingOf>>
<1> SUFFICES ASSUME AccessInv, [Next]_vars PROVE [AL!Next]_<<invited, StandingOf>>
  OBVIOUS
<1>1. CASE \E r \in Request, p \in Person : InviteStarts(r, p)
  BY <1>1, InviteAsks DEF AL!Next
<1>2. CASE OnePersonMoves /\ invited' = invited
  BY <1>2, MoveRefines
<1>3. CASE UNCHANGED vars
  <2>1. UNCHANGED <<members, invites, req, invited>>
    BY <1>3 DEF vars, peopleVars
  <2>2. StandingOf' = StandingOf
    BY <2>1 DEF StandingOf, Offered, RowsOf
  <2> QED
    BY <2>1, <2>2
<1>4. CASE OwnerActs
  BY <1>1, <1>2, <1>4, KeyActsMove, DeletesMove DEF OwnerActs
<1>5. CASE \E r \in Request : Arrives(r)
  BY <1>2, <1>5, ReadsMove, AcceptMoves DEF Arrives
<1>6. CASE \E r \in Request : Continues(r) \/ Dies(r)
  BY <1>2, <1>6, ReadsMove, AcceptMoves, InsertInviteMoves, JoinMoves, DeletesMove, DiesMoves
     DEF Continues
<1> QED
  BY <1>3, <1>4, <1>5, <1>6 DEF Next

\* For any number of people and requests, the database calls of the handlers
\* implement the access list.
THEOREM AccessRefines == Spec => AccessIsOffered
<1>1. Init => AL!Init
  BY DEF Init, AL!Init, StandingOf, Offered, RowsOf, Idle
<1>2. Spec => [][AL!Next]_<<invited, StandingOf>>
  BY StepRefines, AccessCorrect, PTL DEF Spec
<1> QED
  BY <1>1, <1>2, PTL DEF Spec, AccessIsOffered, AL!Spec

-----------------------------------------------------------------------------
(* What is stored of a batch.  The loop of normalizeBatch is a recursive     *)
(* function of the entries it has passed; what it is at each entry follows   *)
(* from the least entry at which it would be anything else.                  *)

\* A set of naturals has a least element.
LEMMA LeastNumber ==
  ASSUME NEW S \in SUBSET Nat, S # {}
  PROVE  \E m \in S : \A n \in S : m <= n
<1> DEFINE R == OpToRel(<, Nat)
<1>1. IsWellFoundedOn(R, Nat)
  BY NatLessThanWellFounded, Zenon
<1>2. \A x, y \in Nat : y < x => <<y, x>> \in R
  BY DEF OpToRel
<1> HIDE DEF R
<1>3. PICK m \in S : \A n \in S : <<n, m>> \notin R
  BY <1>1, WFMin
<1>4. \A n \in S : ~(n < m)
  BY <1>2, <1>3
<1> QED
  BY <1>4

Entry == RawEntry \cup {Null}
Nothing == [rows |-> << >>, skipped |-> 0]

\* f is what the loop has done after each of the first n entries of c.
Loops(f, c, n) ==
  f = [i \in 0 .. n |-> IF i = 0 THEN Nothing ELSE Shape(f[i - 1], c[i], 24)]

\* The loop is defined after any number of entries.
LEMMA LoopExists ==
  ASSUME NEW c
  PROVE  \A n \in Nat : \E f : Loops(f, c, n)
<1> DEFINE S == { n \in Nat : ~ \E f : Loops(f, c, n) }
<1> SUFFICES ASSUME S # {} PROVE FALSE
  OBVIOUS
<1>1. PICK n \in S : \A m \in S : n <= m
  <2>1. S \in SUBSET Nat
    OBVIOUS
  <2> QED
    BY <2>1, LeastNumber
<1>2. n \in Nat /\ ~ \E f : Loops(f, c, n)
  OBVIOUS
<1>3. CASE n = 0
  <2> DEFINE f == [i \in 0 .. 0 |-> Nothing]
  <2>1. f = [i \in 0 .. 0 |-> IF i = 0 THEN Nothing ELSE Shape(f[i - 1], c[i], 24)]
    OBVIOUS
  <2>2. Loops(f, c, 0)
    BY <2>1 DEF Loops
  <2> QED
    BY <1>2, <1>3, <2>2
<1>4. CASE n # 0
  <2>1. n - 1 \in Nat /\ n - 1 \notin S
    BY <1>1, <1>2, <1>4
  <2>2. PICK f : Loops(f, c, n - 1)
    BY <2>1
  <2> DEFINE g == [i \in 0 .. n |-> IF i = n THEN Shape(f[n - 1], c[n], 24) ELSE f[i]]
  <2>3. ASSUME NEW i \in 0 .. n
        PROVE  g[i] = IF i = 0 THEN Nothing ELSE Shape(g[i - 1], c[i], 24)
    <3>1. CASE i = 0
      <4>1. f[0] = Nothing
        BY <2>1, <2>2 DEF Loops
      <4>2. g[0] = f[0]
        BY <1>2, <1>4
      <4> QED
        BY <3>1, <4>1, <4>2
    <3>2. CASE i = n
      <4>1. g[n - 1] = f[n - 1]
        BY <1>2, <1>4, <2>1
      <4>2. g[n] = Shape(f[n - 1], c[n], 24)
        BY <1>2
      <4> HIDE DEF g
      <4> QED
        BY <1>4, <3>2, <4>1, <4>2
    <3>3. CASE i # 0 /\ i # n
      <4>1. i \in 0 .. n - 1 /\ i - 1 \in 0 .. n - 1 /\ i - 1 # n /\ i - 1 \in 0 .. n
        BY <1>2, <3>3
      <4>2. f[i] = Shape(f[i - 1], c[i], 24)
        BY <2>2, <3>3, <4>1 DEF Loops
      <4>3. g[i] = f[i] /\ g[i - 1] = f[i - 1]
        BY <3>3, <4>1
      <4> HIDE DEF g
      <4> QED
        BY <3>3, <4>2, <4>3
    <3> QED
      BY <3>1, <3>2, <3>3
  <2>4. g = [i \in 0 .. n |-> g[i]]
    OBVIOUS
  <2> HIDE DEF g
  <2>5. g = [i \in 0 .. n |-> IF i = 0 THEN Nothing ELSE Shape(g[i - 1], c[i], 24)]
    BY <2>3, <2>4
  <2>6. Loops(g, c, n)
    BY <2>5 DEF Loops
  <2> QED
    BY <1>2, <2>6
<1> QED
  BY <1>3, <1>4

\* What Shaped is: the loop after the last entry.
LEMMA ShapedLoops ==
  ASSUME NEW c \in Seq(Entry)
  PROVE  \E f : Loops(f, c, Len(c)) /\ Shaped(c, 24) = f[Len(c)]
<1> DEFINE f == CHOOSE g : g = [i \in 0 .. Len(c) |->
                  IF i = 0 THEN [rows |-> << >>, skipped |-> 0]
                  ELSE Shape(g[i - 1], c[i], 24)]
<1>1. \E g : Loops(g, c, Len(c))
  <2>1. Len(c) \in Nat
    OBVIOUS
  <2> QED
    BY <2>1, LoopExists
<1>2. Loops(f, c, Len(c))
  BY <1>1 DEF Loops, Nothing
<1>3. Shaped(c, 24) = f[Len(c)]
  BY DEF Shaped
<1> HIDE DEF f
<1> QED
  BY <1>2, <1>3

\* What is stored of an entry that is usable.
ShapedRow == { NormalizeEntry(raw, 24) : raw \in { r \in RawEntry : Usable(r) } }

\* What is true of the loop after i of the entries of c.
ShapedSoFar(done, i) ==
  /\ done.rows \in Seq(ShapedRow)
  /\ done.skipped \in Nat
  /\ Len(done.rows) + done.skipped = i
  /\ done = [rows |-> done.rows, skipped |-> done.skipped]

\* Rows and a count of skipped entries account for as many entries as they are.
LEMMA Accounted ==
  ASSUME NEW rows \in Seq(ShapedRow), NEW skipped \in Nat
  PROVE  ShapedSoFar([rows |-> rows, skipped |-> skipped], Len(rows) + skipped)
  BY DEF ShapedSoFar

\* One entry is stored or skipped, and nothing else changes.
LEMMA ShapeOne ==
  ASSUME NEW done, NEW i \in Nat, ShapedSoFar(done, i), NEW raw \in Entry
  PROVE  ShapedSoFar(Shape(done, raw, 24), i + 1)
<1>1. PICK rows \in Seq(ShapedRow), skipped \in Nat :
        done = [rows |-> rows, skipped |-> skipped] /\ Len(rows) + skipped = i
  <2>1. done.rows \in Seq(ShapedRow) /\ done.skipped \in Nat
    BY DEF ShapedSoFar
  <2> QED
    BY <2>1 DEF ShapedSoFar
<1>2. CASE Usable(raw)
  <2>1. raw \in RawEntry
    BY <1>2 DEF Usable, Entry
  <2>2. NormalizeEntry(raw, 24) \in ShapedRow
    BY <1>2, <2>1 DEF ShapedRow
  <2> DEFINE row == NormalizeEntry(raw, 24)
  <2>3. Shape(done, raw, 24) = [rows |-> Append(rows, row), skipped |-> skipped]
    BY <1>1, <1>2 DEF Shape
  <2> HIDE DEF row
  <2>4. Append(rows, row) \in Seq(ShapedRow) /\ Len(Append(rows, row)) = Len(rows) + 1
    BY <2>2 DEF row
  <2>5. Len(Append(rows, row)) + skipped = i + 1
    BY <1>1, <2>4
  <2> QED
    BY <2>3, <2>4, <2>5, Accounted
<1>3. CASE ~Usable(raw)
  <2>1. Shape(done, raw, 24) = [rows |-> rows, skipped |-> skipped + 1]
    BY <1>1, <1>3 DEF Shape
  <2>2. Len(rows) + (skipped + 1) = i + 1
    BY <1>1
  <2> QED
    BY <1>1, <2>1, <2>2, Accounted
<1> QED
  BY <1>2, <1>3

\* The loop accounts for every entry it has passed.
LEMMA LoopAccounts ==
  ASSUME NEW c \in Seq(Entry), NEW f, Loops(f, c, Len(c))
  PROVE  \A i \in 0 .. Len(c) : ShapedSoFar(f[i], i)
<1> DEFINE S == { i \in 0 .. Len(c) : ~ShapedSoFar(f[i], i) }
<1> SUFFICES ASSUME S # {} PROVE FALSE
  OBVIOUS
<1>1. PICK i \in S : \A j \in S : i <= j
  <2>1. S \in SUBSET Nat
    OBVIOUS
  <2> QED
    BY <2>1, LeastNumber
<1>2. i \in 0 .. Len(c) /\ ~ShapedSoFar(f[i], i) /\ Len(c) \in Nat
  OBVIOUS
<1>3. CASE i = 0
  <2>1. f[0] = Nothing
    BY <1>2, <1>3 DEF Loops
  <2>2. ShapedSoFar(Nothing, 0)
    BY DEF ShapedSoFar, Nothing
  <2> QED
    BY <1>2, <1>3, <2>1, <2>2
<1>4. CASE i # 0
  <2>1. i - 1 \in Nat /\ i - 1 \in 0 .. Len(c) /\ i - 1 \notin S /\ i \in 1 .. Len(c)
    BY <1>1, <1>2, <1>4
  <2>2. ShapedSoFar(f[i - 1], i - 1)
    BY <2>1
  <2>3. f[i] = Shape(f[i - 1], c[i], 24)
    BY <1>2, <1>4 DEF Loops
  <2>4. c[i] \in Entry
    BY <2>1
  <2>5. ShapedSoFar(f[i], (i - 1) + 1)
    BY <2>1, <2>2, <2>3, <2>4, ShapeOne
  <2> QED
    BY <1>2, <2>1, <2>5
<1> QED
  BY <1>3, <1>4

\* normalizeBatch accounts for every entry it considers, and shapes the rest.
LEMMA ShapedAccounts ==
  ASSUME NEW c \in Seq(Entry)
  PROVE  ShapedSoFar(Shaped(c, 24), Len(c))
<1>1. PICK f : Loops(f, c, Len(c)) /\ Shaped(c, 24) = f[Len(c)]
  BY ShapedLoops
<1>2. Len(c) \in 0 .. Len(c)
  OBVIOUS
<1> QED
  BY <1>1, <1>2, LoopAccounts

\* A text shaped for a varchar column fits it.
LEMMA ColumnFits ==
  ASSUME NEW v \in Width, NEW max \in Nat
  PROVE  /\ VarcharCol(v, max) \in Width
         /\ VarcharCol(v, max) = Null \/ VarcharCol(v, max) <= max
  BY DEF VarcharCol, Width, IngestAssumption

\* Every row shaped from an entry fits the columns of log_entries.
LEMMA EntryFits ==
  ASSUME NEW raw \in RawEntry
  PROVE  FitsColumns(NormalizeEntry(raw, 24))
<1> DEFINE row == NormalizeEntry(raw, 24)
<1> USE IngestAssumption DEF IngestAssumption
<1>1. /\ raw.column \in Width /\ raw.environment \in Width /\ raw.timestamp \in Width
      /\ raw.trace_id \in Width /\ raw.traceId \in Width
  BY DEF RawEntry
<1>2. /\ Or(raw.environment, 10) \in Width /\ Or(raw.trace_id, raw.traceId) \in Width
  BY <1>1 DEF Or, Width
<1>3. /\ row.column = VarcharCol(raw.column, MaxColumn)
      /\ row.environment = VarcharCol(Or(raw.environment, 10), MaxColumn)
      /\ row.timestamp = Or(VarcharCol(raw.timestamp, MaxColumn), 24)
      /\ row.trace = VarcharCol(Or(raw.trace_id, raw.traceId), MaxCorrelation)
      /\ row.level = IF raw.level \in Levels THEN raw.level ELSE "info"
  BY DEF NormalizeEntry
<1> HIDE DEF row
<1>4. /\ row.column = Null \/ row.column <= MaxColumn
      /\ row.environment = Null \/ row.environment <= MaxColumn
      /\ row.trace = Null \/ row.trace <= MaxCorrelation
  BY <1>1, <1>2, <1>3, ColumnFits
<1>5. row.timestamp # Null /\ row.timestamp <= MaxColumn
  <2> DEFINE v == VarcharCol(raw.timestamp, MaxColumn)
  <2>1. v = Null \/ v <= MaxColumn
    BY <1>1, ColumnFits
  <2>2. row.timestamp = IF v = Null THEN 24 ELSE v
    BY <1>3 DEF Or
  <2> HIDE DEF v
  <2> QED
    BY <2>1, <2>2
<1>6. row.level \in Levels
  BY <1>3
<1>7. FitsColumns(row)
  BY <1>4, <1>5, <1>6 DEF FitsColumns
<1> QED
  BY <1>7 DEF row

\* A body is a sequence of entries.
LEMMA EntriesOf ==
  ASSUME NEW body \in RawBody
  PROVE  ExtractEntries(body) \in Seq(Entry)
<1>1. /\ body.logs \in Seq(RawEntry \cup {Null}) \cup {Null}
      /\ body.entry \in RawEntry \cup {Null}
  BY DEF RawBody
<1>2. << >> \in Seq(Entry)
  OBVIOUS
<1>3. body.entry \in Entry => <<body.entry>> \in Seq(Entry)
  OBVIOUS
<1> QED
  BY <1>1, <1>2, <1>3 DEF ExtractEntries, Entry

\* For any body and any caps, every entry is stored, dropped or skipped, the
\* quota covers what is stored, and what is stored fits its columns.
LEMMA BodyKept ==
  ASSUME NEW body \in RawBody
  PROVE  AllAccounted(body) /\ RowsFit(body)
<1> DEFINE entries == ExtractEntries(body)
           dropped == IF Len(entries) > MaxBatch THEN Len(entries) - MaxBatch ELSE 0
           c == SubSeq(entries, 1, Len(entries) - dropped)
           shaped == Shaped(c, 24)
<1> USE IngestAssumption DEF IngestAssumption
<1>1. entries \in Seq(Entry)
  BY EntriesOf
<1>2. NormalizeBatch(body, 24) = [rows |-> shaped.rows, dropped |-> dropped,
                                  skipped |-> shaped.skipped]
  BY DEF NormalizeBatch
<1>3. Charged(body) = Least(Len(entries), MaxBatch)
  BY DEF Charged
<1> HIDE DEF entries
<1>4. /\ dropped \in Nat /\ dropped <= Len(entries)
      /\ Len(entries) - dropped = Least(Len(entries), MaxBatch)
      /\ Least(Len(entries), MaxBatch) <= MaxBatch
  <2>1. Len(entries) \in Nat
    BY <1>1
  <2>2. CASE Len(entries) > MaxBatch
    BY <2>1, <2>2 DEF Least
  <2>3. CASE Len(entries) <= MaxBatch
    <3>1. dropped = 0
      BY <2>1, <2>3
    <3> HIDE DEF dropped
    <3>2. Least(Len(entries), MaxBatch) = Len(entries)
      BY <2>1, <2>3 DEF Least
    <3> QED
      BY <2>1, <2>3, <3>1, <3>2
  <2> QED
    BY <2>1, <2>2, <2>3
<1>5. c \in Seq(Entry) /\ Len(c) = Len(entries) - dropped
  <2> HIDE DEF dropped
  <2> QED
    BY <1>1, <1>4
<1> HIDE DEF dropped, c
<1>6. ShapedSoFar(shaped, Len(c))
  BY <1>5, ShapedAccounts
<1> HIDE DEF shaped
<1>7. /\ Len(shaped.rows) \in Nat /\ shaped.skipped \in Nat
      /\ Len(shaped.rows) + shaped.skipped = Len(c)
  BY <1>6 DEF ShapedSoFar
<1>8. AllAccounted(body)
  <2>1. Len(shaped.rows) + dropped + shaped.skipped = Len(entries)
    BY <1>1, <1>4, <1>5, <1>7
  <2>2. Len(shaped.rows) <= Charged(body) /\ Charged(body) <= MaxBatch
    BY <1>1, <1>3, <1>4, <1>5, <1>7
  <2> QED
    BY <1>2, <2>1, <2>2 DEF AllAccounted, entries
<1>9. RowsFit(body)
  <2>1. ASSUME NEW i \in DOMAIN shaped.rows PROVE FitsColumns(shaped.rows[i])
    <3>1. shaped.rows \in Seq(ShapedRow)
      BY <1>6 DEF ShapedSoFar
    <3>2. shaped.rows[i] \in ShapedRow
      BY <3>1
    <3>3. PICK raw \in RawEntry : shaped.rows[i] = NormalizeEntry(raw, 24)
      BY <3>2 DEF ShapedRow
    <3> QED
      BY <3>3, EntryFits
  <2> QED
    BY <1>2, <2>1 DEF RowsFit
<1> QED
  BY <1>8, <1>9

\* A request that is about to store has a batch that is accounted for and that
\* the database takes whole, whatever the caps and the bodies.
THEOREM BatchesAreKept == Spec => []BatchKept
<1>1. BatchKept
  BY BodyKept, AccessAssumption DEF BatchKept, AccessAssumption
<1> QED
  BY <1>1, PTL

=============================================================================
