--------------------------- MODULE ProjectAccess ---------------------------
(* Who may read a project and who may write to it: its members and pending   *)
(* invites, its two keys and its active flag, as routes/projects.ts changes  *)
(* them and as app/Support and app/Errors consult them.  A request is a      *)
(* process; each step of it is one database call, and requests interleave    *)
(* between any two.  A handler that only writes one row is one step.         *)
EXTENDS LogIngest, FiniteSets

CONSTANTS
  Person,     \* signed-in people; an email is the person it belongs to
  Owner,      \* the project's owner
  Request,    \* requests being handled at once
  NoKey,      \* a key column that is NULL
  Body,       \* the bodies sent to POST /logs
  MaxActs     \* bound on what the owner does

ASSUME AccessAssumption ==
  /\ Owner \in Person /\ NoKey = 0 /\ MaxActs \in Nat
  /\ Body \subseteq RawBody

VARIABLES
  engine,     \* the database the installation runs on
  active,     \* projects.is_active
  ingestKey,  \* projects.ingest_key
  readKey,    \* projects.read_key
  usedBy,     \* the key whose use projects.read_key_last_used_at records
  keys,       \* keys minted so far
  members,    \* project_members
  invites,    \* project_invites; a row's token stands for its id too
  ids,        \* row ids minted so far
  invited,    \* history: the people the owner has invited
  acts,       \* what the owner has done so far
  req         \* the requests: the call each is at, and its locals

keyVars == <<active, ingestKey, readKey, usedBy, keys>>
peopleVars == <<members, invites, ids>>
vars == <<engine, keyVars, peopleVars, invited, acts, req>>

Row == [id : Nat, who : Person]
Idle == [at |-> "idle", who |-> Owner, id |-> 0, key |-> NoKey]
Calls == { "idle", "invite", "pending", "insertInvite", "removeInvite",
           "exists", "join", "dropInvite", "stamp", "answer", "store" }

Init ==
  /\ engine \in {"sqlite", "postgres"}
  /\ active = TRUE
  /\ ingestKey = 1 /\ keys = 1
  /\ readKey = NoKey /\ usedBy = NoKey
  /\ members = {} /\ invites = {} /\ ids = 0
  /\ invited = {} /\ acts = 0
  /\ req = [r \in Request |-> Idle]

RowsOf(table, p) == { m \in table : m.who = p }
At(r, call) == req[r].at = call
Goes(r, call) == req' = [req EXCEPT ![r].at = call]
Ends(r) == req' = [req EXCEPT ![r] = Idle]
Fresh(r) == At(r, "idle")
Starts(r, call, p, row, k) ==
  req' = [req EXCEPT ![r] = [at |-> call, who |-> p, id |-> row, key |-> k]]

\* The owner's requests are checked against owner_id, which nothing changes.
Act == acts < MaxActs /\ acts' = acts + 1

-----------------------------------------------------------------------------
(* Keys and the active flag: one UPDATE each.                                *)

RotateKey ==
  /\ Act
  /\ ingestKey' = keys + 1 /\ keys' = keys + 1
  /\ UNCHANGED <<engine, active, readKey, usedBy, peopleVars, invited, req>>

IssueReadKey ==
  /\ Act
  /\ readKey' = keys + 1 /\ keys' = keys + 1
  /\ usedBy' = NoKey
  /\ UNCHANGED <<engine, active, ingestKey, peopleVars, invited, req>>

RevokeReadKey ==
  /\ Act
  /\ readKey' = NoKey /\ usedBy' = NoKey
  /\ UNCHANGED <<engine, active, ingestKey, keys, peopleVars, invited, req>>

SetArchived(archived) ==
  /\ Act
  /\ active' = ~archived
  /\ UNCHANGED <<engine, ingestKey, readKey, usedBy, keys, peopleVars, invited, req>>

-----------------------------------------------------------------------------
(* Members and invites.                                                      *)

\* An email that is the owner's is turned away before any of the two tables.
InviteStarts(r, p) ==
  /\ Fresh(r) /\ Act
  /\ p # Owner
  /\ Starts(r, "invite", p, 0, NoKey)
  /\ invited' = invited \cup {p}
  /\ UNCHANGED <<engine, keyVars, peopleVars>>

InviteChecksMember(r) ==
  /\ At(r, "invite")
  /\ IF RowsOf(members, req[r].who) # {} THEN Ends(r) ELSE Goes(r, "pending")
  /\ UNCHANGED <<engine, keyVars, peopleVars, invited, acts>>

\* A pending invite is mailed again as it is.
InviteReadsPending(r) ==
  /\ At(r, "pending")
  /\ IF RowsOf(invites, req[r].who) # {} THEN Ends(r) ELSE Goes(r, "insertInvite")
  /\ UNCHANGED <<engine, keyVars, peopleVars, invited, acts>>

\* Mutant: the tables have no unique index.
UniqueUnchecked(table, p) == RowsOf(table, p) = RowsOf(table, p)

\* The unique index on (project, lower(email)) of either table.
Unique(table, p) == RowsOf(table, p) = {}

InsertInvite(r) ==
  /\ At(r, "insertInvite")
  /\ LET p == req[r].who IN
       IF Unique(invites, p)
       THEN /\ invites' = invites \cup {[id |-> ids + 1, who |-> p]}
            /\ ids' = ids + 1
       ELSE UNCHANGED <<invites, ids>>
  /\ Ends(r)
  /\ UNCHANGED <<engine, keyVars, members, invited, acts>>

Without(table, id) == { m \in table : m.id # id }

\* The owner removes by an id it has seen, in the first table that has it.
RemoveMember(r, id) ==
  /\ Fresh(r) /\ Act
  /\ members' = Without(members, id)
  /\ IF members' # members
     THEN UNCHANGED req
     ELSE Starts(r, "removeInvite", Owner, id, NoKey)
  /\ UNCHANGED <<engine, keyVars, invites, ids, invited>>

RemoveInvite(r) ==
  /\ At(r, "removeInvite")
  /\ invites' = Without(invites, req[r].id)
  /\ Ends(r)
  /\ UNCHANGED <<engine, keyVars, members, ids, invited, acts>>

\* Mutant: whoever has the link may accept.
AddressedToAnyone(i, p) == i.who = i.who

\* Read by token; the invite must be addressed to the person who presents it.
Addressed(i, p) == i.who = p

AcceptReads(r, p, token) ==
  /\ Fresh(r)
  /\ \E i \in invites : i.id = token /\ Addressed(i, p)
  /\ Starts(r, "exists", p, token, NoKey)
  /\ UNCHANGED <<engine, keyVars, peopleVars, invited, acts>>

AcceptChecksMember(r) ==
  /\ At(r, "exists")
  /\ Goes(r, IF RowsOf(members, req[r].who) # {} THEN "dropInvite" ELSE "join")
  /\ UNCHANGED <<engine, keyVars, peopleVars, invited, acts>>

\* An INSERT that the index refuses throws out of the handler.
Join(r) ==
  /\ At(r, "join")
  /\ LET p == req[r].who IN
       IF Unique(members, p)
       THEN /\ members' = members \cup {[id |-> ids + 1, who |-> p]}
            /\ ids' = ids + 1
            /\ Goes(r, "dropInvite")
       ELSE UNCHANGED <<members, ids>> /\ Ends(r)
  /\ UNCHANGED <<engine, keyVars, invites, invited, acts>>

DropInvite(r) ==
  /\ At(r, "dropInvite")
  /\ invites' = Without(invites, req[r].id)
  /\ Ends(r)
  /\ UNCHANGED <<engine, keyVars, members, ids, invited, acts>>

-----------------------------------------------------------------------------
(* Reading and ingest.  What is checked is the row as one SELECT saw it.     *)

\* Mutant: any key that was ever issued opens an active project.
AuthorizeReadOnce(k) == active /\ readKey # NoKey

\* authorizeRead: is_active is false or 0, whichever the engine answers.
AuthorizeRead(k) == active /\ readKey # NoKey /\ k = readKey

\* authorizeIngest: is_active === false, and SQLite answers 0.
AuthorizeIngest(k) == (active \/ engine = "sqlite") /\ k = ingestKey

\* access.ts: the owner, or a member by email.
OwnsProject(p) == p = Owner \/ RowsOf(members, p) # {}

\* A key never used is stamped at once, any other at most once a minute.
ReadByKey(r, k) ==
  /\ Fresh(r)
  /\ AuthorizeRead(k)
  /\ \E call \in IF usedBy = NoKey THEN {"stamp"} ELSE {"stamp", "answer"} :
       Starts(r, call, Owner, 0, k)
  /\ UNCHANGED <<engine, keyVars, peopleVars, invited, acts>>

\* By project id, whatever key the row holds by now; a failure is swallowed.
RecordReadKeyUse(r) ==
  /\ At(r, "stamp")
  /\ usedBy' \in {usedBy, req[r].key}
  /\ Goes(r, "answer")
  /\ UNCHANGED <<engine, active, ingestKey, readKey, keys, peopleVars, invited, acts>>

ReadByUser(r, p) ==
  /\ Fresh(r)
  /\ OwnsProject(p)
  /\ Starts(r, "answer", p, 0, NoKey)
  /\ UNCHANGED <<engine, keyVars, peopleVars, invited, acts>>

Answer(r) ==
  /\ At(r, "answer")
  /\ Ends(r)
  /\ UNCHANGED <<engine, keyVars, peopleVars, invited, acts>>

\* A body that is too large or has no entries never gets here.
IngestChecks(r, k) ==
  /\ Fresh(r)
  /\ AuthorizeIngest(k)
  /\ Starts(r, "store", Owner, 0, k)
  /\ UNCHANGED <<engine, keyVars, peopleVars, invited, acts>>

\* Stored, or refused by the project's quota.
Store(r) ==
  /\ At(r, "store")
  /\ Ends(r)
  /\ UNCHANGED <<engine, keyVars, peopleVars, invited, acts>>

\* The process that handles a request dies.
Dies(r) ==
  /\ ~Fresh(r)
  /\ Ends(r)
  /\ UNCHANGED <<engine, keyVars, peopleVars, invited, acts>>

-----------------------------------------------------------------------------
Continues(r) ==
  \/ InviteChecksMember(r) \/ InviteReadsPending(r) \/ InsertInvite(r)
  \/ RemoveInvite(r)
  \/ AcceptChecksMember(r) \/ Join(r) \/ DropInvite(r)
  \/ RecordReadKeyUse(r) \/ Answer(r) \/ Store(r)

OwnerActs ==
  \/ RotateKey \/ IssueReadKey \/ RevokeReadKey
  \/ \E archived \in BOOLEAN : SetArchived(archived)
  \/ \E r \in Request :
       \/ \E p \in Person : InviteStarts(r, p)
       \/ \E id \in 1 .. ids : RemoveMember(r, id)

Arrives(r) ==
  \/ \E p \in Person, token \in 1 .. ids : AcceptReads(r, p, token)
  \/ \E k \in 1 .. keys : ReadByKey(r, k)
  \/ \E p \in Person : ReadByUser(r, p)
  \/ \E k \in 1 .. keys : IngestChecks(r, k)

Next ==
  \/ OwnerActs
  \/ \E r \in Request : Arrives(r) \/ Continues(r) \/ Dies(r)

Spec == Init /\ [][Next]_vars

\* The runtime goes on with every handler it has started.
FairSpec == Spec /\ \A r \in Request : WF_vars(Continues(r))

-----------------------------------------------------------------------------
(* Properties.                                                               *)

\* Every variable has its type; a person has one row in each table, as the
\* unique indexes have it, and a row one id; an offer, and a request made on one,
\* is to somebody the owner has asked.
TypeOK ==
  /\ engine \in {"sqlite", "postgres"} /\ active \in BOOLEAN
  /\ ingestKey \in Nat /\ readKey \in Nat /\ usedBy \in Nat /\ keys \in Nat
  /\ members \subseteq Row /\ invites \subseteq Row
  /\ ids \in Nat /\ acts \in Nat /\ invited \subseteq Person
  /\ req \in [Request -> [at : Calls, who : Person, id : Nat, key : Nat]]

OneRowEach(table) ==
  /\ \A m, n \in table : m.who = n.who \/ m.id = n.id => m = n
  /\ \A m \in table : m.id <= ids

AllAsked ==
  /\ \A i \in invites : i.who \in invited
  /\ \A r \in Request :
       req[r].at \in {"invite", "pending", "insertInvite", "exists", "join"}
         => req[r].who \in invited

AccessInv == TypeOK /\ OneRowEach(members) /\ OneRowEach(invites) /\ AllAsked

\* projects.ts:357-373, "Access/offer is revoked immediately".  Two accepts of
\* one invite, a double click, may both find no membership; once the owner has
\* removed a row of somebody's, no other row of theirs is left in that table.
RemovalRevokes ==
  [][/\ \A m \in members \ members' : RowsOf(members', m.who) = {}
     /\ \A i \in invites \ invites' : RowsOf(invites', i.who) = {}]_vars

\* projects.ts:375-378, "a forwarded link can't be claimed by someone else".
\* Nobody is offered a place whom the owner has not asked, and nobody becomes a
\* member whom no offer stands for, one that a request has read included.
Offered(p) ==
  \/ RowsOf(invites, p) # {}
  \/ \E r \in Request : req[r].at \in {"exists", "join"} /\ req[r].who = p

StandingOf ==
  [p \in Person |-> IF RowsOf(members, p) # {} THEN "member"
                    ELSE IF Offered(p) THEN "offered" ELSE "none"]

AL == INSTANCE AccessList WITH asked <- invited, standing <- StandingOf
AccessIsOffered == AL!Spec

\* projects.ts:174-176 and 213-215, access.ts.  Whatever a credential gave
\* access to, a key replaced or revoked, a project archived (but for ingest on
\* SQLite), a member removed: once it is taken back for good, requests that
\* were let in by it end and no other follows.
NoneGranted(calls, k) == \A r \in Request : ~(req[r].at \in calls /\ req[r].key = k)

AccessDrains ==
  /\ \A k \in 1 .. MaxActs + 1 :
       /\ <>[](~active \/ readKey # k) => <>[]NoneGranted({"stamp", "answer"}, k)
       /\ <>[]((engine = "postgres" /\ ~active) \/ ingestKey # k)
            => <>[]NoneGranted({"store"}, k)
  /\ \A p \in Person \ {Owner} :
       <>[](RowsOf(members, p) = {})
         => <>[](\A r \in Request : ~(At(r, "answer") /\ req[r].who = p))

\* normalize.ts:83-89, "reporting what was lost", and 99-103, "the result is
\* guaranteed to fit".  Every entry of a body is stored, dropped or skipped, the
\* quota is charged for all that is stored, and no value a request is about to
\* store is too long for its column: Postgres would refuse the whole batch.
AllAccounted(body) ==
  LET batch == NormalizeBatch(body, 24) IN
    /\ Len(batch.rows) + batch.dropped + batch.skipped = Len(ExtractEntries(body))
    /\ Len(batch.rows) <= Charged(body) /\ Charged(body) <= MaxBatch

RowsFit(body) ==
  LET rows == NormalizeBatch(body, 24).rows IN
    \A i \in DOMAIN rows : FitsColumns(rows[i])

BatchKept ==
  (\E r \in Request : At(r, "store")) =>
    \A body \in Body : AllAccounted(body) /\ RowsFit(body)

=============================================================================
