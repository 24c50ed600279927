----------------------------- MODULE AccountsProofs -----------------------------
(***************************************************************************)
(* Proofs about the sign-in half of Accounts, for any number of requests   *)
(* at once, faults, slips, sign-outs and challenges: what a second-factor  *)
(* challenge is good for, what a provider's callback may link, and whose   *)
(* the sessions are; then about its rows and webhooks.                     *)
(***************************************************************************)
EXTENDS Accounts, FiniteSetTheorems, TLAPS

\* Where a request is, and under which challenge.
Steps == {"idle", "attempt", "factor", "challenge", "challenged", "mint", "token",
          "consume", "code", "register", "find", "create", "link", "refused"}
JobRecord == [kind : {"none", "login", "verify", "register", "social"},
              step : Steps, challenge : Nat, right : BOOLEAN,
              heard : BOOLEAN, token : Nat]
JobType ==
  /\ job \in [Jobs -> JobRecord]
  /\ asked \in Nat /\ challenges \subseteq 1..asked
  /\ form.challenge \in Nat /\ minted \in Nat
  /\ tried \in [1..MaxChallenges -> Nat]

\* A challenge that was spent is under at most one code, before or after it is
\* checked; one that was not is under none.
Checking(j, c) == job[j].step = "code" /\ job[j].challenge = c
ChallengeOf(c) ==
  /\ c > asked => tried[c] = 0
  /\ c \in challenges => tried[c] = 0 /\ \A j \in Jobs : ~Checking(j, c)
  /\ \A j \in Jobs : Checking(j, c) => tried[c] = 0
  /\ \A i, j \in Jobs : Checking(i, c) /\ Checking(j, c) => i = j
  /\ tried[c] <= 1
\* And only a challenge there is, or was, is checked.
CheckedInv == \A j \in Jobs : job[j].step = "code" => job[j].challenge \in 1..asked
CodeInv == JobType /\ CheckedInv /\ \A c \in 1..MaxChallenges : ChallengeOf(c)

\* An unverified e-mail only ever meets the account its own callback made.
LinkInv ==
  /\ linked = "unverified" => account = "social"
  /\ \A j \in Jobs : job[j].step = "link" /\ ~job[j].right => account = "social"

LEMMA CodeInit == Init => CodeInv
<1> SUFFICES ASSUME Init PROVE CodeInv
  OBVIOUS
<1>1. /\ \A j \in Jobs : job[j] = Idle
      /\ job = [j \in Jobs |-> Idle]
      /\ asked = 0 /\ challenges = {} /\ form = Blank /\ minted \in Nat
      /\ tried = [c \in 1..MaxChallenges |-> 0]
  BY DEF Init, SignInInit
<1>2. JobType
  BY <1>1 DEF JobType, JobRecord, Idle, Blank, Steps
<1>3. CheckedInv
  BY <1>1 DEF CheckedInv, Idle
<1>4. \A c \in 1..MaxChallenges : ChallengeOf(c)
  BY <1>1, SignInAssumption DEF ChallengeOf, Checking, Idle
<1> QED
  BY <1>2, <1>3, <1>4 DEF CodeInv

\* A request becomes another one, or another step of the same.
LEMMA JobFits ==
  ASSUME JobType, NEW j \in Jobs, NEW new \in JobRecord, job' = [job EXCEPT ![j] = new],
         form'.challenge \in Nat, minted' \in Nat, UNCHANGED <<asked, challenges, tried>>
  PROVE  JobType' /\ job'[j] = new /\ \A i \in Jobs \ {j} : job'[i] = job[i]
  BY DEF JobType

LEMMA StepFits ==
  ASSUME NEW old \in JobRecord, NEW step \in Steps
  PROVE  /\ [old EXCEPT !.step = step] \in JobRecord
         /\ [old EXCEPT !.step = step].step = step
  BY DEF JobRecord

LEMMA MintFits ==
  ASSUME NEW old \in JobRecord, NEW step \in Steps, NEW token \in Nat
  PROVE  /\ [old EXCEPT !.step = step, !.token = token] \in JobRecord
         /\ [old EXCEPT !.step = step, !.token = token].step = step
  BY DEF JobRecord

\* What a step without a challenge makes of a request.
LEMMA PlainSteps ==
  ASSUME JobType, NEW j \in Jobs,
         Attempt(j) \/ ReadFactor(j) \/ Mint(j) \/ Register(j) \/ Find(j) \/ Create(j)
           \/ Link(j) \/ Arrives(j)
  PROVE  \E new \in JobRecord :
           /\ job' = [job EXCEPT ![j] = new] /\ new.step # "code"
           /\ form'.challenge \in Nat /\ minted' \in Nat
           /\ UNCHANGED <<asked, challenges, tried>>
<1> USE DEF At, Goto
<1>1. job[j] \in JobRecord /\ minted + 1 \in Nat
  BY DEF JobType
<1>2. CASE Attempt(j) \/ ReadFactor(j) \/ Find(j) \/ Link(j)
  <2>1. PICK step \in Steps \ {"code"} : job' = [job EXCEPT ![j] = [job[j] EXCEPT !.step = step]]
    BY <1>2 DEF Attempt, ReadFactor, Find, Link, Steps
  <2>2. UNCHANGED <<form, minted, asked, challenges, tried>>
    BY <1>2 DEF Attempt, ReadFactor, Find, Link, Rest
  <2> QED
    BY <1>1, <2>1, <2>2, StepFits DEF JobType
<1>3. CASE Mint(j) \/ Register(j) \/ Create(j)
  <2>1. \/ \E step \in Steps \ {"code"} : job' = [job EXCEPT ![j] = [job[j] EXCEPT !.step = step]]
        \/ \E step \in Steps \ {"code"} :
             job' = [job EXCEPT ![j] = [job[j] EXCEPT !.step = step, !.token = minted + 1]]
    BY <1>3 DEF Mint, Register, Create, Steps
  <2>2. UNCHANGED <<form, asked, challenges, tried>> /\ minted' \in {minted, minted + 1}
    BY <1>3 DEF Mint, Register, Create, Rest
  <2>3. form'.challenge \in Nat /\ minted' \in Nat
    BY <1>1, <2>2 DEF JobType
  <2>4. CASE \E step \in Steps \ {"code"} : job' = [job EXCEPT ![j] = [job[j] EXCEPT !.step = step]]
    BY <1>1, <2>2, <2>3, <2>4, StepFits
  <2>5. CASE \E step \in Steps \ {"code"} :
               job' = [job EXCEPT ![j] = [job[j] EXCEPT !.step = step, !.token = minted + 1]]
    <3>1. PICK step \in Steps \ {"code"} :
            job' = [job EXCEPT ![j] = [job[j] EXCEPT !.step = step, !.token = minted + 1]]
      BY <2>5
    <3> DEFINE new == [job[j] EXCEPT !.step = step, !.token = minted + 1]
    <3>2. new \in JobRecord /\ new.step = step
      BY <1>1, MintFits
    <3> HIDE DEF new
    <3>3. job' = [job EXCEPT ![j] = new]
      BY <3>1 DEF new
    <3>4. new.step # "code"
      BY <3>1, <3>2
    <3>5. UNCHANGED <<asked, challenges, tried>>
      BY <1>3 DEF Mint, Register, Create, Rest
    <3> QED
      BY <2>3, <3>2, <3>3, <3>4, <3>5
  <2> QED
    BY <2>1, <2>4, <2>5
<1>4. CASE Arrives(j)
  <2>1. Idle \in JobRecord /\ Idle.step # "code"
    BY DEF Idle, JobRecord, Steps
  <2>2. job[j].challenge \in Nat
    BY <1>1 DEF JobRecord
  <2>3. CASE ~job[j].heard
    <3>1. form' = form
      BY <1>4, <2>3 DEF Arrives
    <3> QED
      BY <1>4, <2>1, <3>1 DEF Arrives, JobType
  <2>4. CASE job[j].heard
    <3>1. form' = IF job[j].step = "challenged"
                  THEN [Blank EXCEPT !.mode = "twofa", !.challenge = job[j].challenge]
                  ELSE Blank
      BY <1>4, <2>4 DEF Arrives
    <3>2. form'.challenge = IF job[j].step = "challenged" THEN job[j].challenge ELSE 0
      BY <3>1 DEF Blank
    <3>3. form'.challenge \in Nat
      BY <2>2, <3>2
    <3>4. job' = [job EXCEPT ![j] = Idle] /\ UNCHANGED <<minted, asked, challenges, tried>>
      BY <1>4 DEF Arrives
    <3> QED
      BY <2>1, <3>3, <3>4 DEF JobType
  <2> QED
    BY <2>3, <2>4
<1> QED
  BY <1>2, <1>3, <1>4

\* A request that moves on without a code, and spends and makes no challenge.
LEMMA CodeQuiet ==
  ASSUME CodeInv, JobType', NEW j \in Jobs,
         \A i \in Jobs \ {j} : job'[i].step = job[i].step /\ job'[i].challenge = job[i].challenge,
         job'[j].step # "code",
         UNCHANGED <<asked, challenges, tried>>
  PROVE  CodeInv'
<1>1. \A i \in Jobs, c \in Nat : Checking(i, c)' => Checking(i, c)
  BY DEF Checking
<1>2. CheckedInv'
  BY DEF CodeInv, CheckedInv
<1>3. ASSUME NEW c \in 1..MaxChallenges PROVE ChallengeOf(c)'
  <2>1. ChallengeOf(c) /\ c \in Nat
    BY DEF CodeInv
  <2> QED
    BY <1>1, <2>1 DEF ChallengeOf
<1> QED
  BY <1>2, <1>3 DEF CodeInv

\* The steps of a request, of which three touch the challenges.
LEMMA CodeJob ==
  ASSUME CodeInv, NEW j \in Jobs, SignInStep(j)
  PROVE  CodeInv'
<1> USE DEF At, Goto
<1>0. JobType /\ CheckedInv /\ job[j] \in JobRecord
  BY DEF CodeInv, JobType
<1>1. ASSUME NEW kind \in Ways, NEW right \in BOOLEAN, Send(j, kind, right) PROVE CodeInv'
  <2> DEFINE new == [kind |-> kind, step |-> FirstStep(kind), challenge |-> form.challenge,
                     right |-> right, heard |-> TRUE, token |-> 0]
  <2>1. kind \in {"login", "verify", "register", "social"}
    BY DEF Ways
  <2>2. FirstStep(kind) \in Steps \ {"code"}
    BY <2>1 DEF FirstStep, Steps
  <2>3. new \in JobRecord /\ new.step # "code"
    BY <1>0, <2>1, <2>2 DEF JobType, JobRecord
  <2>4. /\ job' = [job EXCEPT ![j] = new] /\ form'.challenge \in Nat /\ minted' \in Nat
        /\ UNCHANGED <<asked, challenges, tried>>
    BY <1>0, <1>1 DEF Send, JobType
  <2> HIDE DEF new
  <2>5. JobType' /\ job'[j] = new /\ \A i \in Jobs \ {j} : job'[i] = job[i]
    BY <1>0, <2>3, <2>4, JobFits
  <2> QED
    BY <2>3, <2>4, <2>5, CodeQuiet
<1>2. CASE Deafen(j)
  <2>1. JobType'
    <3>1. /\ job' = [job EXCEPT ![j] = [job[j] EXCEPT !.heard = FALSE]]
          /\ form'.challenge = form.challenge
          /\ UNCHANGED <<asked, challenges, tried, minted>>
      BY <1>2 DEF Deafen
    <3>2. [job[j] EXCEPT !.heard = FALSE] \in JobRecord
      BY <1>0 DEF JobRecord
    <3> QED
      BY <1>0, <3>1, <3>2 DEF JobType
  <2>2. \A i \in Jobs, c \in Nat : Checking(i, c)' <=> Checking(i, c)
    BY <1>0, <1>2 DEF Deafen, Checking, JobType
  <2>3. CheckedInv' /\ UNCHANGED <<asked, challenges, tried>>
    BY <1>0, <1>2 DEF Deafen, CheckedInv, JobType
  <2> QED
    BY <2>1, <2>2, <2>3 DEF CodeInv, ChallengeOf
<1>3. CASE Attempt(j) \/ ReadFactor(j) \/ Mint(j) \/ Register(j) \/ Find(j) \/ Create(j)
           \/ Link(j) \/ Arrives(j)
  <2>1. PICK new \in JobRecord :
          /\ job' = [job EXCEPT ![j] = new] /\ new.step # "code"
          /\ form'.challenge \in Nat /\ minted' \in Nat
          /\ UNCHANGED <<asked, challenges, tried>>
    BY <1>0, <1>3, PlainSteps
  <2>2. JobType' /\ job'[j] = new /\ \A i \in Jobs \ {j} : job'[i] = job[i]
    BY <1>0, <2>1, JobFits
  <2> QED
    BY <2>1, <2>2, CodeQuiet
<1>4. CASE Challenge(j)
  <2>1. /\ asked' = asked + 1 /\ challenges' = challenges \cup {asked + 1}
        /\ job' = [job EXCEPT ![j].step = "challenged", ![j].challenge = asked + 1]
        /\ UNCHANGED <<tried, form, minted>>
    BY <1>4 DEF Challenge, Rest
  <2>2. JobType'
    <3>0. job'[j] = [job[j] EXCEPT !.step = "challenged", !.challenge = asked + 1]
      BY <1>0, <2>1 DEF JobType
    <3>1. job'[j] \in JobRecord
      <4>1. asked + 1 \in Nat /\ "challenged" \in Steps
        BY <1>0 DEF JobType, Steps
      <4> QED
        BY <1>0, <3>0, <4>1 DEF JobRecord
    <3> QED
      BY <1>0, <2>1, <3>1 DEF JobType
  <2>3. \A i \in Jobs, c \in Nat : Checking(i, c)' => Checking(i, c)
    BY <1>0, <2>1 DEF Checking, JobType
  <2>4. CheckedInv'
    BY <1>0, <2>1 DEF CheckedInv, JobType
  <2>5. ASSUME NEW c \in 1..MaxChallenges PROVE ChallengeOf(c)'
    <3>1. ChallengeOf(c) /\ c \in Nat
      BY DEF CodeInv
    <3>2. CASE c = asked + 1
      <4>1. tried[c] = 0 /\ \A i \in Jobs : ~Checking(i, c)
        BY <1>0, <3>1, <3>2 DEF ChallengeOf, CheckedInv, Checking, JobType
      <4> QED
        BY <2>1, <2>3, <3>1, <4>1 DEF ChallengeOf
    <3>3. CASE c # asked + 1
      BY <1>0, <2>1, <2>3, <3>1, <3>3 DEF ChallengeOf, JobType
    <3> QED
      BY <3>2, <3>3
  <2> QED
    BY <2>2, <2>4, <2>5 DEF CodeInv
<1>5. CASE Consume(j)
  <2> DEFINE spent == job[j].challenge
  <2>1. /\ challenges' = challenges \ {spent} /\ UNCHANGED <<asked, tried, form, minted>>
        /\ job' = [job EXCEPT ![j].step = IF spent \in challenges THEN "code" ELSE "refused"]
        /\ job[j].step = "consume" /\ spent \in Nat
    BY <1>0, <1>5 DEF Consume, Rest, JobRecord
  <2>2. JobType'
    <3>1. job'[j] \in JobRecord
      BY <1>0, <2>1 DEF JobType, JobRecord, Steps
    <3> QED
      BY <1>0, <2>1, <3>1 DEF JobType
  <2>3. \A i \in Jobs, c \in Nat :
          Checking(i, c)' => Checking(i, c) \/ (i = j /\ c = spent /\ spent \in challenges)
    BY <1>0, <2>1 DEF Checking, JobType
  <2>4. CheckedInv'
    BY <1>0, <2>1 DEF CheckedInv, JobType
  <2>5. ASSUME NEW c \in 1..MaxChallenges PROVE ChallengeOf(c)'
    <3>1. ChallengeOf(c) /\ c \in Nat
      BY DEF CodeInv
    <3> HIDE DEF spent
    <3>2. CASE c = spent /\ spent \in challenges
      BY <1>0, <2>1, <2>3, <3>1, <3>2 DEF ChallengeOf, JobType
    <3>3. CASE ~(c = spent /\ spent \in challenges)
      BY <1>0, <2>1, <2>3, <3>1, <3>3 DEF ChallengeOf, JobType
    <3> QED
      BY <3>2, <3>3
  <2> QED
    BY <2>2, <2>4, <2>5 DEF CodeInv
<1>6. CASE Code(j)
  <2> DEFINE checked == job[j].challenge
  <2>1. /\ tried' = [tried EXCEPT ![checked] = @ + 1]
        /\ job' = [job EXCEPT ![j].step = IF job[j].right THEN "mint" ELSE "refused"]
        /\ UNCHANGED <<asked, challenges, form, minted>>
        /\ Checking(j, checked) /\ checked \in 1..asked
    BY <1>0, <1>6 DEF Code, Rest, Checking, CheckedInv
  <2>2. JobType'
    <3>1. job'[j] \in JobRecord
      BY <1>0, <2>1 DEF JobType, JobRecord, Steps
    <3> HIDE DEF checked
    <3>2. tried \in [1..MaxChallenges -> Nat] /\ tried' = [tried EXCEPT ![checked] = @ + 1]
      BY <1>0, <2>1 DEF JobType
    <3>3. \A c \in 1..MaxChallenges : tried[c] \in Nat /\ tried[c] + 1 \in Nat
      BY <3>2
    <3>4. tried' \in [1..MaxChallenges -> Nat]
      BY <3>2, <3>3
    <3> QED
      BY <1>0, <2>1, <3>1, <3>4 DEF JobType
  <2>3. \A i \in Jobs, c \in Nat : Checking(i, c)' => i # j /\ Checking(i, c)
    BY <1>0, <2>1 DEF Checking, JobType
  <2>4. CheckedInv'
    BY <1>0, <2>1 DEF CheckedInv, JobType
  <2>5. ASSUME NEW c \in 1..MaxChallenges PROVE ChallengeOf(c)'
    <3>1. ChallengeOf(c) /\ c \in Nat
      BY DEF CodeInv
    <3> HIDE DEF checked
    <3>2. CASE c = checked
      <4>1. tried[c] = 0 /\ c \notin challenges /\ c <= asked
            /\ \A i \in Jobs : Checking(i, c) => i = j
        BY <2>1, <3>1, <3>2 DEF ChallengeOf
      <4>2. tried'[c] = 1
        BY <1>0, <2>1, <3>2, <4>1 DEF JobType
      <4> QED
        BY <1>0, <2>1, <2>3, <3>1, <4>1, <4>2 DEF ChallengeOf, JobType
    <3>3. CASE c # checked
      <4>1. tried'[c] = tried[c]
        BY <1>0, <2>1, <3>3 DEF JobType
      <4> QED
        BY <1>0, <2>1, <2>3, <3>1, <4>1 DEF ChallengeOf
    <3> QED
      BY <3>2, <3>3
  <2> QED
    BY <2>2, <2>4, <2>5 DEF CodeInv
<1> QED
  BY <1>1, <1>2, <1>3, <1>4, <1>5, <1>6 DEF SignInStep, ServerStep

\* The steps of no request.
Elsewhere ==
  \/ Page \/ SignOut \/ Revoke \/ Cleared \/ LogoutFails \/ Expire \/ Switch \/ MeFails
  \/ UNCHANGED <<signIn, store, room>>

\* Nothing else touches a request, a challenge or the codes tried.
LEMMA CodeElsewhere ==
  ASSUME CodeInv, Elsewhere
  PROVE  CodeInv'
<1>1. UNCHANGED <<job, asked, challenges, tried, minted>> /\ form' \in {form, Blank}
  BY DEF Elsewhere, Page, LoadViewer, Me, MeArrives, Unload, Refused, SignOut, Revoke, Cleared,
     LogoutFails, Expire, Switch, MeFails, Fault, signIn, store
<1>2. JobType'
  BY <1>1 DEF CodeInv, JobType, Blank
<1> QED
  BY <1>1, <1>2 DEF CodeInv, CheckedInv, ChallengeOf, Checking

LEMMA CodeInductive == CodeInv /\ [Next]_all => CodeInv'
<1> SUFFICES ASSUME CodeInv, [Next]_all PROVE CodeInv'
  OBVIOUS
<1>1. CASE Entrance
  <2>1. (\E j \in Jobs : SignInStep(j)) \/ Elsewhere
    BY <1>1 DEF Entrance, Elsewhere
  <2> QED
    BY <2>1, CodeJob, CodeElsewhere
<1>2. CASE ~Entrance
  <2>1. Elsewhere
    BY <1>2 DEF Next, Elsewhere, all
  <2> QED
    BY <2>1, CodeElsewhere
<1> QED
  BY <1>1, <1>2

-----------------------------------------------------------------------------
(* The callback.                                                             *)

LEMMA LinkInit == Init => LinkInv
  BY DEF Init, SignInInit, LinkInv, Idle

LEMMA LinkJob ==
  ASSUME JobType, LinkInv, NEW j \in Jobs, SignInStep(j)
  PROVE  LinkInv'
<1> USE DEF At, Goto
\* A step of j to another place than the link, that makes and links no account.
<1>0. ASSUME UNCHANGED <<linked, account>>,
             \A i \in Jobs \ {j} : job'[i].step = job[i].step /\ job'[i].right = job[i].right,
             job'[j].step = "link" /\ ~job'[j].right => account = "social"
      PROVE  LinkInv'
  BY <1>0 DEF LinkInv
<1>1. ASSUME NEW kind \in Ways, NEW right \in BOOLEAN, Send(j, kind, right) PROVE LinkInv'
  <2>1. FirstStep(kind) # "link"
    BY DEF Ways, FirstStep
  <2> QED
    BY <1>0, <1>1, <2>1 DEF Send, JobType
<1>2. CASE Deafen(j)
  BY <1>0, <1>2 DEF Deafen, JobType, JobRecord, LinkInv
<1>3. CASE Attempt(j) \/ ReadFactor(j) \/ Challenge(j) \/ Mint(j) \/ Consume(j) \/ Code(j)
  <2>1. UNCHANGED <<linked, account>>
    BY <1>3 DEF Attempt, ReadFactor, Challenge, Mint, Consume, Code, Rest
  <2>2. job'[j].step # "link" /\ \A i \in Jobs \ {j} : job'[i] = job[i]
    BY <1>3 DEF Attempt, ReadFactor, Challenge, Mint, Consume, Code, JobType, JobRecord
  <2> QED
    BY <1>0, <2>1, <2>2
<1>4. CASE Register(j)
  <2>1. /\ linked' = linked /\ job'[j].step # "link"
        /\ \A i \in Jobs \ {j} : job'[i] = job[i]
    BY <1>4 DEF Register, JobType, JobRecord
  <2>2. account' = account \/ account = "none"
    BY <1>4 DEF Register
  <2> QED
    BY <2>1, <2>2 DEF LinkInv
<1>5. CASE Find(j)
  <2>1. UNCHANGED <<linked, account>>
    BY <1>5 DEF Find, Rest
  <2>2. /\ \A i \in Jobs \ {j} : job'[i] = job[i]
        /\ job'[j].step = "link" => job'[j].right
    BY <1>5 DEF Find, JobType, JobRecord
  <2> QED
    BY <1>0, <2>1, <2>2
<1>6. CASE Create(j)
  <2>1. /\ linked' = linked /\ \A i \in Jobs \ {j} : job'[i] = job[i]
    BY <1>6 DEF Create, JobType
  <2>2. \/ account' = "social"
        \/ account' = account /\ job'[j].step # "link"
    BY <1>6 DEF Create, JobType, JobRecord
  <2> QED
    BY <2>1, <2>2 DEF LinkInv
<1>7. CASE Link(j)
  <2>1. /\ account' = account /\ \A i \in Jobs \ {j} : job'[i] = job[i]
        /\ job[j].step = "link" /\ job'[j].step = "mint"
        /\ linked' = IF job[j].right THEN "verified" ELSE "unverified"
    BY <1>7 DEF Link, JobType, JobRecord
  <2> QED
    BY <2>1 DEF LinkInv
<1>8. CASE Arrives(j)
  BY <1>0, <1>8 DEF Arrives, Idle, JobType
<1> QED
  BY <1>1, <1>2, <1>3, <1>4, <1>5, <1>6, <1>7, <1>8 DEF SignInStep, ServerStep

LEMMA LinkElsewhere ==
  ASSUME LinkInv, Elsewhere
  PROVE  LinkInv'
<1>1. UNCHANGED <<job, account, linked>>
  BY DEF Elsewhere, Page, LoadViewer, Me, MeArrives, Unload, Refused, SignOut, Revoke, Cleared,
     LogoutFails, Expire, Switch, MeFails, Fault, signIn, store
<1> QED
  BY <1>1 DEF LinkInv

LEMMA LinkInductive == JobType /\ LinkInv /\ [Next]_all => LinkInv'
<1> SUFFICES ASSUME JobType, LinkInv, [Next]_all PROVE LinkInv'
  OBVIOUS
<1>1. CASE Entrance
  <2>1. (\E j \in Jobs : SignInStep(j)) \/ Elsewhere
    BY <1>1 DEF Entrance, Elsewhere
  <2> QED
    BY <2>1, LinkJob, LinkElsewhere
<1>2. CASE ~Entrance
  <2>1. Elsewhere
    BY <1>2 DEF Next, Elsewhere, all
  <2> QED
    BY <2>1, LinkElsewhere
<1> QED
  BY <1>1, <1>2

-----------------------------------------------------------------------------

\* VerifyTwoFactorLoginAction 39-47 (OneCodeEach).  A challenge allows one code
\* at most, however many requests present it and in whatever order.
THEOREM ChallengesAreSpent == FairSpec => []OneCodeEach
<1>1. CodeInv => OneCodeEach
  BY DEF CodeInv, ChallengeOf, OneCodeEach
<1> QED
  BY <1>1, CodeInit, CodeInductive, PTL DEF FairSpec

\* SocialCallbackAction 68-100 (NeverLinksUnverified).  No account made with a
\* password is linked to an unverified e-mail, however a sign-up and callbacks
\* interleave.
THEOREM LinksAreVerified == FairSpec => []NeverLinksUnverified
<1>1. CodeInv => JobType
  BY DEF CodeInv
<1>2. LinkInv => NeverLinksUnverified
  BY DEF LinkInv, NeverLinksUnverified
<1> QED
  BY <1>1, <1>2, CodeInit, CodeInductive, LinkInit, LinkInductive, PTL DEF FairSpec

-----------------------------------------------------------------------------
(* The sessions.                                                             *)

ViewRecord == [loaded : BOOLEAN, pro : BOOLEAN,
               me : {"none", "asked", "refused", "pro", "free", "failed"}]
LogoutRecord == [token : Nat, step : {"none", "sent", "done"}]
SessionType ==
  /\ minted \in Nat /\ live \subseteq 1..minted
  /\ cookie \in 0..minted
  /\ logout \in LogoutRecord /\ logout.token \in 0..minted /\ view \in ViewRecord
  /\ \A j \in Jobs : job[j].token \in 0..minted
  /\ faults \in Nat /\ spare \in Nat

\* One request at most is heard, the one the login page waits for; a page that
\* starts over has no viewer; a sign-out that was answered left no session.
PageInv ==
  /\ page \in {"login", "app"}
  /\ page = "login" => view.me = "none" /\ ~leaving
  /\ \A j \in Jobs : job[j].heard => form.waits = j /\ page = "login"
  /\ \A j \in Jobs : job[j].step = "idle" => ~job[j].heard
  /\ \A j \in Jobs : job[j].token # 0 => job[j].step = "token"
  /\ logout.step # "sent" => logout.token \notin live

\* A session is kept by the page on show unless it is leaving or told to, by the
\* sign-out that carries it, or by the request whose answer will bring it; a
\* request nobody listens to may still mint one.
Kept   == OnApp /\ ~leaving /\ view.me # "refused"
Heard  == {j \in Jobs : job[j].heard}
Keeps  == {logout.token} \cup {job[j].token : j \in Heard}
                         \cup (IF Kept THEN {cookie} ELSE {})
Unkept == live \ Keeps
Deaf   == {j \in Jobs : ~job[j].heard /\ job[j].step \notin {"idle", "token"}}

\* Each of these has a cause of its own.
DebtInv ==
  /\ IsFiniteSet(Unkept) /\ IsFiniteSet(Deaf)
  /\ Cardinality(Unkept) + Cardinality(Deaf) <= faults + spare

SessionInv == SessionType /\ PageInv /\ DebtInv

LEMMA Grows ==
  ASSUME NEW S, IsFiniteSet(S), NEW x, NEW T, T \subseteq S \cup {x}
  PROVE  IsFiniteSet(T) /\ Cardinality(T) <= Cardinality(S) + 1
<1>1. IsFiniteSet(S \cup {x}) /\ Cardinality(S \cup {x}) <= Cardinality(S) + 1
  <2>1. /\ IsFiniteSet(S \cup {x}) /\ Cardinality(S) \in Nat
        /\ Cardinality(S \cup {x}) = IF x \in S THEN Cardinality(S) ELSE Cardinality(S) + 1
    BY FS_AddElement, FS_CardinalityType
  <2> QED
    BY <2>1
<1>2. /\ IsFiniteSet(T) /\ Cardinality(T) <= Cardinality(S \cup {x})
  BY <1>1, FS_Subset
<1> QED
  BY <1>1, <1>2, FS_CardinalityType

LEMMA Shrinks ==
  ASSUME NEW S, IsFiniteSet(S), NEW T, T \subseteq S
  PROVE  IsFiniteSet(T) /\ Cardinality(T) <= Cardinality(S)
  BY FS_Subset

\* What a step may do to the sessions nobody keeps and the requests nobody hears.
Settles == Unkept' \subseteq Unkept /\ Deaf' \subseteq Deaf /\ faults + spare <= faults' + spare'
Loses   == /\ \E t : Unkept' \subseteq Unkept \cup {t}
           /\ Deaf' \subseteq Deaf /\ faults' + spare' = faults + spare + 1
Leaves  == /\ \E j : Deaf' \subseteq Deaf \cup {j}
           /\ Unkept' \subseteq Unkept /\ faults' + spare' = faults + spare + 1
Mints   == /\ \E t : Unkept' \subseteq Unkept \cup {t}
           /\ \E j \in Deaf : Deaf' \subseteq Deaf \ {j}
           /\ faults' + spare' = faults + spare

\* The same of two counts and their bound.
LEMMA Counts ==
  \A a, b, n, c, d, m \in Nat :
    /\ a + b <= n
    /\ \/ c <= a /\ d <= b /\ n <= m
       \/ c <= a + 1 /\ d <= b /\ m = n + 1
       \/ c <= a /\ d <= b + 1 /\ m = n + 1
       \/ c <= a + 1 /\ d <= b - 1 /\ m = n
    => c + d <= m
  OBVIOUS

LEMMA DebtStep ==
  ASSUME DebtInv, SessionType, SessionType', Settles \/ Loses \/ Leaves \/ Mints
  PROVE  DebtInv'
<1>1. Cardinality(Unkept) \in Nat /\ Cardinality(Deaf) \in Nat
  BY FS_CardinalityType DEF DebtInv
<1>2. faults \in Nat /\ spare \in Nat /\ faults' \in Nat /\ spare' \in Nat
  BY DEF SessionType
<1>7. faults + spare \in Nat /\ faults' + spare' \in Nat
  BY <1>2, \A m, n \in Nat : m + n \in Nat
<1>0. /\ IsFiniteSet(Unkept) /\ IsFiniteSet(Deaf)
      /\ Cardinality(Unkept) + Cardinality(Deaf) <= faults + spare
  BY DEF DebtInv
<1>3. CASE Settles
  <2>1. IsFiniteSet(Unkept') /\ Cardinality(Unkept') <= Cardinality(Unkept)
    BY <1>0, <1>3, Shrinks DEF Settles
  <2>2. IsFiniteSet(Deaf') /\ Cardinality(Deaf') <= Cardinality(Deaf)
    BY <1>0, <1>3, Shrinks DEF Settles
  <2>3. Cardinality(Unkept') \in Nat /\ Cardinality(Deaf') \in Nat
    BY <2>1, <2>2, FS_CardinalityType
  <2>4. Cardinality(Unkept') + Cardinality(Deaf') <= faults' + spare'
    BY <1>0, <1>1, <1>7, <1>3, <2>1, <2>2, <2>3, Counts DEF Settles
  <2> QED
    BY <2>1, <2>2, <2>4 DEF DebtInv
<1>4. CASE Loses
  <2>1. IsFiniteSet(Unkept') /\ Cardinality(Unkept') <= Cardinality(Unkept) + 1
    BY <1>0, <1>4, Grows DEF Loses
  <2>2. IsFiniteSet(Deaf') /\ Cardinality(Deaf') <= Cardinality(Deaf)
    BY <1>0, <1>4, Shrinks DEF Loses
  <2>3. Cardinality(Unkept') \in Nat /\ Cardinality(Deaf') \in Nat
    BY <2>1, <2>2, FS_CardinalityType
  <2>4. Cardinality(Unkept') + Cardinality(Deaf') <= faults' + spare'
    BY <1>0, <1>1, <1>7, <1>4, <2>1, <2>2, <2>3, Counts DEF Loses
  <2> QED
    BY <2>1, <2>2, <2>4 DEF DebtInv
<1>5. CASE Leaves
  <2>1. IsFiniteSet(Unkept') /\ Cardinality(Unkept') <= Cardinality(Unkept)
    BY <1>0, <1>5, Shrinks DEF Leaves
  <2>2. IsFiniteSet(Deaf') /\ Cardinality(Deaf') <= Cardinality(Deaf) + 1
    BY <1>0, <1>5, Grows DEF Leaves
  <2>3. Cardinality(Unkept') \in Nat /\ Cardinality(Deaf') \in Nat
    BY <2>1, <2>2, FS_CardinalityType
  <2>4. Cardinality(Unkept') + Cardinality(Deaf') <= faults' + spare'
    BY <1>0, <1>1, <1>7, <1>5, <2>1, <2>2, <2>3, Counts DEF Leaves
  <2> QED
    BY <2>1, <2>2, <2>4 DEF DebtInv
<1>6. CASE Mints
  <2>1. IsFiniteSet(Unkept') /\ Cardinality(Unkept') <= Cardinality(Unkept) + 1
    BY <1>0, <1>6, Grows DEF Mints
  <2>2. PICK j \in Deaf : Deaf' \subseteq Deaf \ {j}
    BY <1>6 DEF Mints
  <2>3. IsFiniteSet(Deaf \ {j}) /\ Cardinality(Deaf \ {j}) = Cardinality(Deaf) - 1
    BY <1>0, <2>2, FS_RemoveElement
  <2>4. IsFiniteSet(Deaf') /\ Cardinality(Deaf') <= Cardinality(Deaf \ {j})
    BY <2>2, <2>3, Shrinks
  <2>5. Cardinality(Unkept') \in Nat /\ Cardinality(Deaf') \in Nat
    BY <2>1, <2>4, FS_CardinalityType
  <2>7. Cardinality(Deaf') <= Cardinality(Deaf) - 1
    BY <2>3, <2>4
  <2>6. Cardinality(Unkept') + Cardinality(Deaf') <= faults' + spare'
    BY <1>0, <1>1, <1>7, <1>6, <2>1, <2>7, <2>5, Counts DEF Mints
  <2> QED
    BY <2>1, <2>4, <2>6 DEF DebtInv
<1> QED
  BY <1>3, <1>4, <1>5, <1>6

LEMMA SessionInit == Init => SessionInv
<1> SUFFICES ASSUME Init PROVE SessionInv
  OBVIOUS
<1>1. /\ \A j \in Jobs : job[j] = Idle
      /\ view = Unviewed /\ leaving = FALSE /\ logout = NoLogout
      /\ faults = 0 /\ spare = 0
      /\ \/ live = {} /\ minted = 0 /\ cookie = 0 /\ page = "login"
         \/ live = {1} /\ minted = 1 /\ cookie = 1 /\ page = "app"
  BY DEF Init, SignInInit, StoreInit
<1>2. SessionType
  BY <1>1 DEF SessionType, ViewRecord, LogoutRecord, Idle, NoLogout, Unviewed
<1>3. PageInv
  BY <1>1 DEF PageInv, Idle, NoLogout, Unviewed
<1>4. Deaf = {}
  BY <1>1 DEF Deaf, Idle
<1>5. Unkept = {}
  BY <1>1 DEF Unkept, Keeps, Kept, OnApp, Unviewed, NoLogout
<1>6. DebtInv
  BY <1>1, <1>4, <1>5, FS_EmptySet DEF DebtInv
<1> QED
  BY <1>2, <1>3, <1>6 DEF SessionInv

\* A step of a request at the server: it mints a session, or it does not.
Moves(j) ==
  /\ job[j].step \notin {"idle", "token"} /\ job'[j].heard = job[j].heard
  /\ \A i \in Jobs \ {j} : job'[i] = job[i]
  /\ UNCHANGED <<cookie, page, form>>
Onward(j) ==
  /\ Moves(j) /\ job'[j].step \notin {"idle", "token"} /\ job'[j].token = job[j].token
  /\ live' = live /\ minted' = minted /\ spare' = spare /\ faults' \in {faults, faults + 1}
Issues(j) ==
  /\ Moves(j) /\ job'[j].step = "token" /\ job'[j].token = minted + 1
  /\ live' = live \cup {minted + 1} /\ minted' = minted + 1
  /\ spare' = spare /\ faults' = faults
Drops(j) ==
  /\ Moves(j) /\ job'[j].step \notin {"idle", "token"} /\ job'[j].token = job[j].token
  /\ live' = live \cup {minted + 1} /\ minted' = minted + 1
  /\ spare' = spare + 1 /\ faults' = faults

LEMMA ServerMoves ==
  ASSUME JobType, NEW j \in Jobs, ServerStep(j)
  PROVE  Onward(j) \/ Issues(j) \/ Drops(j)
<1> USE DEF At, Goto, Moves, Rest, JobType, JobRecord
<1>1. CASE Attempt(j) \/ Find(j) \/ Link(j)
  BY <1>1 DEF Attempt, Find, Link, Onward
<1>2. CASE ReadFactor(j)
  BY <1>2 DEF ReadFactor, Fault, Onward
<1>3. CASE Challenge(j) \/ Consume(j) \/ Code(j)
  BY <1>3 DEF Challenge, Consume, Code, Onward
<1>4. CASE Mint(j)
  BY <1>4 DEF Mint, Issues
<1>5. CASE Register(j)
  BY <1>5 DEF Register, Onward, Issues
<1>6. CASE Create(j)
  BY <1>6 DEF Create, Onward, Drops
<1> QED
  BY <1>1, <1>2, <1>3, <1>4, <1>5, <1>6 DEF ServerStep

\* A step keeps what was kept, of the sessions there were.
LEMMA Keeping ==
  ASSUME live' \subseteq live, \A t \in live : t \in Keeps => t \in Keeps'
  PROVE  Unkept' \subseteq Unkept
  BY DEF Unkept

LEMMA SessionServer ==
  ASSUME JobType, SessionInv, NEW j \in Jobs, ServerStep(j), UNCHANGED store
  PROVE  SessionInv'
<1>0. SessionType /\ PageInv /\ DebtInv
  BY DEF SessionInv
<1>1. Onward(j) \/ Issues(j) \/ Drops(j)
  BY ServerMoves
<1>2. Moves(j) /\ UNCHANGED <<view, leaving, logout>>
  BY <1>1 DEF Onward, Issues, Drops, store
<1>3. SessionType'
  <2>1. CASE Onward(j)
    BY <1>0, <1>2, <2>1 DEF SessionType, Onward, Moves
  <2>2. CASE Issues(j) \/ Drops(j)
    <3>1. /\ minted' = minted + 1 /\ live' = live \cup {minted + 1}
          /\ UNCHANGED <<cookie, logout, faults>> /\ spare' \in {spare, spare + 1}
          /\ \A i \in Jobs : job'[i].token \in {job[i].token, minted + 1}
      BY <1>2, <2>2 DEF Issues, Drops, Moves
    <3>2. \A n \in 0..minted : n \in 0..(minted + 1)
      BY <1>0 DEF SessionType
    <3>3. minted + 1 \in 1..(minted + 1) /\ 1..minted \subseteq 1..(minted + 1)
      BY <1>0 DEF SessionType
    <3>4. minted + 1 \in 0..(minted + 1) /\ minted + 1 \in Nat
      BY <1>0 DEF SessionType
    <3>5. spare' \in Nat
      BY <1>0, <3>1 DEF SessionType
    <3>6. live' \subseteq 1..minted' /\ minted' \in Nat
      BY <1>0, <3>1, <3>3, <3>4 DEF SessionType
    <3>7. cookie' \in 0..minted' /\ logout'.token \in 0..minted'
      BY <1>0, <3>1, <3>2 DEF SessionType
    <3>8. \A i \in Jobs : job'[i].token \in 0..minted'
      BY <1>0, <3>1, <3>2, <3>4 DEF SessionType
    <3> QED
      BY <1>0, <1>2, <3>1, <3>5, <3>6, <3>7, <3>8 DEF SessionType
  <2> QED
    BY <1>1, <2>1, <2>2
<1>4. PageInv'
  <2>1. \A i \in Jobs : /\ job'[i].heard = job[i].heard
                        /\ job'[i].step = "idle" => job[i].step = "idle"
                        /\ job'[i].token # 0 => job'[i].step = "token"
    BY <1>0, <1>1, <1>2 DEF PageInv, Moves, Onward, Issues, Drops
  <2>2. live' \subseteq live \cup {minted + 1} /\ logout.token # minted + 1
    BY <1>0, <1>1 DEF SessionType, Onward, Issues, Drops
  <2>3. UNCHANGED <<page, form, view, leaving, logout>>
    BY <1>2 DEF Moves
  <2> QED
    BY <1>0, <2>1, <2>2, <2>3 DEF PageInv
<1>5. Heard' = Heard /\ Kept' = Kept
  BY <1>2 DEF Heard, Kept, OnApp, Moves
<1>6. CASE Onward(j)
  <2>1. \A i \in Jobs : job'[i].token = job[i].token
    BY <1>2, <1>6 DEF Onward, Moves
  <2>2. Keeps' = Keeps
    BY <1>2, <1>5, <2>1 DEF Keeps, Heard, Moves
  <2>3. Unkept' \subseteq Unkept
    BY <1>6, <2>2 DEF Unkept, Onward
  <2>4. Deaf' \subseteq Deaf
    BY <1>2, <1>6 DEF Deaf, Moves, Onward
  <2>5. faults + spare <= faults' + spare'
    BY <1>0, <1>6 DEF Onward, SessionType
  <2> QED
    BY <1>0, <1>3, <1>4, <2>3, <2>4, <2>5, DebtStep DEF SessionInv, Settles
<1>7. CASE Issues(j)
  <2>1. \A i \in Jobs : job[i].token # 0 => job'[i].token = job[i].token
    BY <1>0, <1>2, <1>7 DEF PageInv, Issues, Moves
  <2>2. ASSUME NEW t \in live, t \in Keeps PROVE t \in Keeps'
    <3>1. t # 0 /\ UNCHANGED <<logout, cookie>>
      BY <1>0, <1>2 DEF SessionType, Moves
    <3>2. ASSUME NEW i \in Heard, t = job[i].token PROVE t \in Keeps'
      BY <1>5, <2>1, <3>1, <3>2 DEF Heard, Keeps
    <3> QED
      BY <1>5, <2>2, <3>1, <3>2 DEF Keeps
  <2>3. Unkept' \subseteq Unkept \cup {minted + 1}
    BY <1>7, <2>2 DEF Unkept, Issues
  <2>4. CASE job[j].heard
    <3>1. minted + 1 \in Keeps'
      BY <1>5, <1>7, <2>4 DEF Keeps, Heard, Issues
    <3>2. Unkept' \subseteq Unkept
      BY <2>3, <3>1 DEF Unkept
    <3>3. Deaf' \subseteq Deaf
      BY <1>2, <1>7 DEF Deaf, Moves, Issues
    <3>4. faults + spare <= faults' + spare'
      BY <1>0, <1>7 DEF Issues, SessionType
    <3> QED
      BY <1>0, <1>3, <1>4, <3>2, <3>3, <3>4, DebtStep DEF SessionInv, Settles
  <2>5. CASE ~job[j].heard
    <3>1. j \in Deaf /\ Deaf' \subseteq Deaf \ {j}
      BY <1>2, <1>7, <2>5 DEF Deaf, Moves, Issues
    <3>2. faults' + spare' = faults + spare
      BY <1>7 DEF Issues
    <3> QED
      BY <1>0, <1>3, <1>4, <2>3, <3>1, <3>2, DebtStep DEF SessionInv, Mints
  <2> QED
    BY <2>4, <2>5
<1>8. CASE Drops(j)
  <2>1. \A i \in Jobs : job'[i].token = job[i].token
    BY <1>2, <1>8 DEF Drops, Moves
  <2>2. Keeps' = Keeps
    BY <1>2, <1>5, <2>1 DEF Keeps, Heard, Moves
  <2>3. Unkept' \subseteq Unkept \cup {minted + 1}
    BY <1>8, <2>2 DEF Unkept, Drops
  <2>4. Deaf' \subseteq Deaf
    BY <1>2, <1>8 DEF Deaf, Moves, Drops
  <2>5. faults' + spare' = faults + spare + 1
    BY <1>0, <1>8 DEF Drops, SessionType
  <2> QED
    BY <1>0, <1>3, <1>4, <2>3, <2>4, <2>5, DebtStep DEF SessionInv, Loses
<1> QED
  BY <1>1, <1>6, <1>7, <1>8

\* The page sends, stops listening, or hears the answer.
LEMMA SessionPage ==
  ASSUME JobType, SessionInv, NEW j \in Jobs, UNCHANGED store,
         \/ \E kind \in Ways, right \in BOOLEAN : Send(j, kind, right)
         \/ Deafen(j) \/ Arrives(j)
  PROVE  SessionInv'
<1> USE DEF At, JobType
<1>0. SessionType /\ PageInv /\ DebtInv /\ UNCHANGED <<view, leaving, logout>>
  BY DEF SessionInv, store
<1>1. ASSUME NEW kind \in Ways, NEW right \in BOOLEAN, Send(j, kind, right) PROVE SessionInv'
  <2>1. /\ page = "login" /\ form.waits = NoJob /\ job[j].step = "idle"
        /\ \A i \in Jobs \ {j} : job'[i] = job[i]
        /\ form'.waits = j
        /\ UNCHANGED <<live, minted, cookie, page, spare, faults>>
    BY <1>1 DEF Send
  <2>2. job'[j].step \notin {"idle", "token"} /\ job'[j].heard = TRUE /\ job'[j].token = 0
    BY <1>1 DEF Send, FirstStep, Ways
  <2>3. \A i \in Jobs : ~job[i].heard
    BY <1>0, <2>1, SignInAssumption DEF PageInv
  <2>4. SessionType'
    BY <1>0, <2>1, <2>2 DEF SessionType
  <2>5. PageInv'
    BY <1>0, <2>1, <2>2, <2>3 DEF PageInv
  <2>6. \A t \in live : t \in Keeps => t \in Keeps'
    BY <1>0, <2>1, <2>3 DEF Keeps, Heard, Kept, OnApp
  <2>7. Unkept' \subseteq Unkept /\ Deaf' \subseteq Deaf
    BY <2>1, <2>2, <2>6, Keeping DEF Deaf
  <2>8. faults + spare <= faults' + spare'
    BY <1>0, <2>1 DEF SessionType
  <2> QED
    BY <1>0, <2>4, <2>5, <2>7, <2>8, DebtStep DEF SessionInv, Settles
<1>2. CASE Deafen(j)
  <2>1. /\ job[j].heard /\ job'[j].heard = FALSE /\ job[j].step # "idle"
        /\ job'[j].step = job[j].step /\ job'[j].token = job[j].token
        /\ \A i \in Jobs \ {j} : job'[i] = job[i]
        /\ faults' = faults + 1
        /\ UNCHANGED <<live, minted, cookie, page, spare>>
    BY <1>2 DEF Deafen, Fault, JobRecord
  <2>2. \A i \in Jobs \ {j} : ~job[i].heard
    BY <1>0, <2>1 DEF PageInv
  <2>3. SessionType'
    <3>1. faults + 1 \in Nat
      BY <1>0 DEF SessionType
    <3> QED
      BY <1>0, <2>1, <3>1 DEF SessionType
  <2>4. PageInv'
    BY <1>0, <2>1, <2>2 DEF PageInv
  <2>5. Kept' = Kept /\ Heard = {j}
    BY <1>0, <2>1, <2>2 DEF Kept, OnApp, Heard
  <2>6. \A t \in live : t \in Keeps => t \in Keeps' \/ t = job[j].token
    BY <1>0, <2>1, <2>5 DEF Keeps
  <2>7. faults' + spare' = faults + spare + 1
    BY <1>0, <2>1 DEF SessionType
  <2>8. CASE job[j].step = "token"
    <3>1. Unkept' \subseteq Unkept \cup {job[j].token}
      BY <2>1, <2>6 DEF Unkept
    <3>2. Deaf' \subseteq Deaf
      BY <2>1, <2>8 DEF Deaf
    <3> QED
      BY <1>0, <2>3, <2>4, <2>7, <3>1, <3>2, DebtStep DEF SessionInv, Loses
  <2>9. CASE job[j].step # "token"
    <3>1. job[j].token = 0 /\ 0 \notin live
      BY <1>0, <2>9 DEF PageInv, SessionType
    <3>2. Unkept' \subseteq Unkept
      BY <2>1, <2>6, <3>1, Keeping
    <3>3. Deaf' \subseteq Deaf \cup {j}
      BY <2>1 DEF Deaf
    <3> QED
      BY <1>0, <2>3, <2>4, <2>7, <3>2, <3>3, DebtStep DEF SessionInv, Leaves
  <2> QED
    BY <2>8, <2>9
<1>3. CASE Arrives(j)
  <2>1. /\ job'[j] = Idle /\ job[j].step # "idle"
        /\ \A i \in Jobs \ {j} : job'[i] = job[i]
        /\ UNCHANGED <<live, minted, spare, faults>>
    BY <1>3 DEF Arrives, Final
  <2>2. Deaf' \subseteq Deaf
    BY <2>1 DEF Deaf, Idle
  <2>3. faults + spare <= faults' + spare'
    BY <1>0, <2>1 DEF SessionType
  <2>4. CASE ~job[j].heard
    <3>1. UNCHANGED <<cookie, page, form>>
      BY <1>3, <2>4 DEF Arrives
    <3>2. SessionType'
      BY <1>0, <2>1, <3>1 DEF SessionType, Idle
    <3>3. PageInv'
      BY <1>0, <2>1, <3>1 DEF PageInv, Idle
    <3>4. Heard' = Heard /\ Kept' = Kept /\ \A i \in Heard : job'[i] = job[i]
      BY <1>0, <2>1, <2>4, <3>1 DEF Heard, Idle, Kept, OnApp
    <3>5. Unkept' \subseteq Unkept
      BY <1>0, <2>1, <3>1, <3>4, Keeping DEF Keeps
    <3> QED
      BY <1>0, <2>2, <2>3, <3>2, <3>3, <3>5, DebtStep DEF SessionInv, Settles
  <2>5. CASE job[j].heard
    <3>1. /\ page = "login" /\ view.me = "none" /\ ~leaving
          /\ \A i \in Jobs \ {j} : ~job[i].heard
      BY <1>0, <2>5 DEF PageInv
    <3>2. \A i \in Jobs : ~job'[i].heard
      BY <2>1, <3>1 DEF Idle
    <3>3. /\ cookie' = IF job[j].step = "token" THEN job[j].token ELSE cookie
          /\ page' = IF job[j].step = "token" THEN "app" ELSE page
      BY <1>3, <2>5 DEF Arrives
    <3>4. SessionType'
      BY <1>0, <2>1, <3>3 DEF SessionType, Idle
    <3>5. PageInv'
      BY <1>0, <2>1, <3>1, <3>2, <3>3 DEF PageInv, Idle
    <3>6. ~Kept /\ Heard = {j} /\ (job[j].step = "token" => Kept')
      BY <1>0, <2>5, <3>1, <3>3 DEF Kept, OnApp, Heard
    <3>7. job[j].token \in live => job[j].step = "token"
      BY <1>0 DEF PageInv, SessionType
    <3>8. \A t \in live : t \in Keeps => t \in Keeps'
      BY <1>0, <3>3, <3>6, <3>7 DEF Keeps
    <3>9. Unkept' \subseteq Unkept
      BY <2>1, <3>8, Keeping
    <3> QED
      BY <1>0, <2>2, <2>3, <3>4, <3>5, <3>9, DebtStep DEF SessionInv, Settles
  <2> QED
    BY <2>4, <2>5
<1> QED
  BY <1>1, <1>2, <1>3

\* What is no step of a request.
LEMMA SessionElsewhere ==
  ASSUME SessionInv, Elsewhere
  PROVE  SessionInv'
<1>0. SessionType /\ PageInv /\ DebtInv
  BY DEF SessionInv
<1>1. UNCHANGED <<job, minted>> /\ live' \subseteq live /\ Heard' = Heard
  BY DEF Elsewhere, Page, LoadViewer, Me, MeArrives, Unload, Refused, SignOut, Revoke, Cleared,
     LogoutFails, Expire, Switch, MeFails, Fault, signIn, store, Heard
<1>2. Deaf' = Deaf /\ 0 \notin live
  BY <1>0, <1>1 DEF Deaf, SessionType
\* Nothing is lost: the numbers stay, and what was kept is kept.
<1>3. ASSUME SessionType', PageInv', faults' = faults, spare' = spare,
             \A t \in live' : t \in Keeps => t \in Keeps'
      PROVE  SessionInv'
  <2>1. Unkept' \subseteq Unkept
    BY <1>1, <1>3 DEF Unkept
  <2>2. faults + spare <= faults' + spare'
    BY <1>0, <1>3 DEF SessionType
  <2> QED
    BY <1>0, <1>2, <1>3, <2>1, <2>2, DebtStep DEF SessionInv, Settles
\* One session is lost, and says why.
<1>4. ASSUME SessionType', PageInv', NEW lost, faults' + spare' = faults + spare + 1,
             \A t \in live' : t \in Keeps => t \in Keeps' \/ t = lost
      PROVE  SessionInv'
  <2>1. Unkept' \subseteq Unkept \cup {lost}
    BY <1>1, <1>4 DEF Unkept
  <2> QED
    BY <1>0, <1>2, <1>4, <2>1, DebtStep DEF SessionInv, Loses
<1>5. CASE LoadViewer \/ Me(HasActive) \/ MeArrives \/ Refused \/ Switch
           \/ UNCHANGED <<signIn, store, room>>
  <2>1. UNCHANGED <<live, minted, cookie, page, form, job, spare, faults, logout>>
    BY <1>5 DEF LoadViewer, Me, MeArrives, Refused, Switch, signIn, store
  <2>2. SessionType'
    <3>1. HasActive \in BOOLEAN
      BY DEF HasActive
    <3>2. view' \in ViewRecord
      <4>1. view \in ViewRecord
        BY <1>0 DEF SessionType
      <4>2. CASE LoadViewer \/ Refused \/ Switch \/ UNCHANGED <<signIn, store, room>>
        BY <4>1, <4>2 DEF ViewRecord, LoadViewer, Refused, Switch, store
      <4>3. CASE Me(HasActive)
        BY <4>1, <4>3 DEF ViewRecord, Me
      <4>4. CASE MeArrives
        BY <4>1, <4>4 DEF ViewRecord, MeArrives
      <4> QED
        BY <1>5, <4>2, <4>3, <4>4
    <3> QED
      BY <1>0, <2>1, <3>2 DEF SessionType
  <2>3. page = "login" => view'.me = "none" /\ ~leaving'
    BY <1>0, <1>5 DEF LoadViewer, Me, MeArrives, Refused, Switch, OnApp, PageInv, store
  <2>4. PageInv'
    BY <1>0, <2>1, <2>3 DEF PageInv
  <2>5. Kept /\ cookie \in live => Kept'
    <3>1. view \in ViewRecord
      BY <1>0 DEF SessionType
    <3>2. CASE LoadViewer \/ Refused \/ Switch \/ UNCHANGED <<signIn, store, room>>
      BY <2>1, <3>1, <3>2 DEF ViewRecord, Kept, OnApp, SignedIn, LoadViewer, Refused, Switch, store
    <3>3. CASE Me(HasActive)
      BY <2>1, <3>1, <3>3 DEF ViewRecord, Kept, OnApp, SignedIn, Me
    <3>4. CASE MeArrives
      BY <2>1, <3>4 DEF Kept, OnApp, MeArrives
    <3> QED
      BY <1>5, <3>2, <3>3, <3>4
  <2>6. \A t \in live' : t \in Keeps => t \in Keeps'
    BY <1>1, <2>1, <2>5 DEF Keeps
  <2> QED
    BY <1>3, <2>1, <2>2, <2>4, <2>6
<1>6. CASE Unload
  <2>1. /\ page = "app" /\ page' = IF leaving THEN "login" ELSE "app"
        /\ view' = Unviewed /\ leaving' = FALSE
        /\ UNCHANGED <<live, minted, cookie, job, spare, faults, logout>>
    BY <1>6 DEF Unload, OnApp
  <2>2. SessionType'
    BY <1>0, <2>1 DEF SessionType, Unviewed, ViewRecord
  <2>3. \A i \in Jobs : ~job[i].heard
    BY <1>0, <2>1 DEF PageInv
  <2>4. PageInv'
    BY <1>0, <2>1, <2>3 DEF PageInv, Unviewed
  <2>5. Kept => Kept'
    BY <2>1 DEF Kept, OnApp, Unviewed
  <2>6. \A t \in live' : t \in Keeps => t \in Keeps'
    BY <1>1, <2>1, <2>5 DEF Keeps
  <2> QED
    BY <1>3, <2>1, <2>2, <2>4, <2>6
<1>7. CASE SignOut
  <2>1. /\ page = "app" /\ logout = NoLogout /\ logout' = [token |-> cookie, step |-> "sent"]
        /\ UNCHANGED <<live, minted, cookie, page, form, job, spare, faults>>
    BY <1>7 DEF SignOut, OnApp, signIn
  <2>2. SessionType'
    <3>1. view' \in ViewRecord
      BY <1>0, <1>7 DEF SignOut, SessionType, ViewRecord
    <3>2. cookie \in Nat
      BY <1>0 DEF SessionType
    <3> QED
      BY <1>0, <2>1, <3>1, <3>2 DEF SessionType, LogoutRecord
  <2>3. PageInv'
    <3>1. view' = [view EXCEPT !.loaded = FALSE, !.pro = FALSE] /\ page # "login"
      BY <1>7, <2>1 DEF SignOut
    <3> QED
      BY <1>0, <2>1, <3>1 DEF PageInv
  <2>4. \A t \in live' : t \in Keeps => t \in Keeps'
    BY <1>1, <1>2, <2>1 DEF Keeps, NoLogout
  <2> QED
    BY <1>3, <2>1, <2>2, <2>3, <2>4
<1>8. CASE Revoke
  <2>1. /\ live' = live \ {logout.token} /\ logout' = [logout EXCEPT !.step = "done"]
        /\ UNCHANGED <<minted, cookie, page, form, job, spare, faults, view, leaving>>
    BY <1>8 DEF Revoke
  <2>2. /\ logout' \in LogoutRecord
        /\ logout'.token = logout.token /\ logout'.step = "done" /\ logout.token \notin live'
    BY <1>0, <2>1 DEF SessionType, LogoutRecord
  <2>3. SessionType'
    BY <1>0, <2>1, <2>2 DEF SessionType
  <2>4. PageInv'
    BY <1>0, <1>1, <2>1, <2>2 DEF PageInv
  <2>5. \A t \in live' : t \in Keeps => t \in Keeps'
    BY <1>1, <2>1, <2>2 DEF Keeps, Kept, OnApp
  <2> QED
    BY <1>3, <2>1, <2>3, <2>4, <2>5
<1>9. CASE Cleared
  <2>1. /\ logout.step = "done" /\ logout' = NoLogout /\ cookie' = 0
        /\ spare' = IF cookie \in live THEN spare + 1 ELSE spare
        /\ UNCHANGED <<live, minted, page, form, job, faults, view, leaving>>
    BY <1>9 DEF Cleared
  <2>2. SessionType'
    <3>1. 0 \in 0..minted /\ spare + 1 \in Nat
      BY <1>0 DEF SessionType
    <3> QED
      BY <1>0, <2>1, <3>1 DEF SessionType, NoLogout, LogoutRecord
  <2>3. PageInv'
    BY <1>0, <1>2, <2>1 DEF PageInv, NoLogout
  <2>4. \A t \in live' : t \in Keeps => t \in Keeps' \/ t = cookie
    BY <1>0, <1>1, <2>1 DEF Keeps, PageInv
  <2>5. CASE cookie \in live
    <3>1. faults' + spare' = faults + spare + 1
      BY <1>0, <2>1, <2>5 DEF SessionType
    <3> QED
      BY <1>4, <2>2, <2>3, <2>4, <3>1
  <2>6. CASE cookie \notin live
    BY <1>3, <2>1, <2>2, <2>3, <2>4, <2>6
  <2> QED
    BY <2>5, <2>6
<1>10. CASE LogoutFails
  <2>1. /\ logout' = NoLogout /\ faults' = faults + 1
        /\ UNCHANGED <<live, minted, cookie, page, form, job, spare, view, leaving>>
    BY <1>10 DEF LogoutFails, Fault
  <2>2. SessionType' /\ faults' + spare' = faults + spare + 1
    <3>1. 0 \in 0..minted /\ faults + 1 \in Nat /\ faults + 1 + spare = faults + spare + 1
      BY <1>0 DEF SessionType
    <3> QED
      BY <1>0, <2>1, <3>1 DEF SessionType, NoLogout, LogoutRecord
  <2>3. PageInv'
    BY <1>0, <1>2, <2>1 DEF PageInv, NoLogout
  <2>4. Kept' = Kept
    BY <2>1 DEF Kept, OnApp
  <2>5. \A t \in live' : t \in Keeps => t \in Keeps' \/ t = logout.token
    BY <1>1, <2>1, <2>4 DEF Keeps
  <2> QED
    BY <1>4, <2>2, <2>3, <2>5
<1>11. CASE Expire
  <2>1. /\ faults' = faults + 1
        /\ UNCHANGED <<minted, cookie, page, form, job, spare, view, leaving, logout>>
    BY <1>11 DEF Expire, Fault, store
  <2>2. SessionType' /\ faults' + spare' = faults + spare + 1
    <3>1. faults + 1 \in Nat /\ faults + 1 + spare = faults + spare + 1
      BY <1>0 DEF SessionType
    <3> QED
      BY <1>0, <1>1, <2>1, <3>1 DEF SessionType
  <2>3. PageInv'
    BY <1>0, <1>1, <2>1 DEF PageInv
  <2>4. Kept' = Kept
    BY <2>1 DEF Kept, OnApp
  <2>5. \A t \in live' : t \in Keeps => t \in Keeps'
    BY <1>1, <2>1, <2>4 DEF Keeps
  <2> QED
    BY <1>4, <2>2, <2>3, <2>5
<1>12. CASE MeFails
  <2>1. /\ faults' = faults + 1 /\ view.me = "asked"
        /\ UNCHANGED <<live, minted, cookie, page, form, job, spare, leaving, logout>>
    BY <1>12 DEF MeFails, Fault
  <2>2. SessionType' /\ faults' + spare' = faults + spare + 1
    <3>1. faults + 1 \in Nat /\ faults + 1 + spare = faults + spare + 1
      BY <1>0 DEF SessionType
    <3>2. view' \in ViewRecord
      BY <1>0, <1>12 DEF MeFails, SessionType, ViewRecord
    <3> QED
      BY <1>0, <2>1, <3>1, <3>2 DEF SessionType
  <2>3. page # "login"
    BY <1>0, <2>1 DEF PageInv
  <2>4. PageInv'
    BY <1>0, <2>1, <2>3 DEF PageInv
  <2>5. \A t \in live' : t \in Keeps => t \in Keeps' \/ t = cookie
    BY <1>1, <2>1 DEF Keeps
  <2> QED
    BY <1>4, <2>2, <2>4, <2>5
<1> QED
  BY <1>5, <1>6, <1>7, <1>8, <1>9, <1>10, <1>11, <1>12 DEF Elsewhere, Page

LEMMA SessionInductive == CodeInv /\ SessionInv /\ [Next]_all => SessionInv'
<1> SUFFICES ASSUME CodeInv, SessionInv, [Next]_all PROVE SessionInv'
  OBVIOUS
<1>1. JobType
  BY DEF CodeInv
<1>2. CASE Entrance
  <2>1. ((\E j \in Jobs : SignInStep(j)) /\ UNCHANGED store) \/ Elsewhere
    BY <1>2 DEF Entrance, Elsewhere
  <2>2. ASSUME NEW j \in Jobs, SignInStep(j), UNCHANGED store PROVE SessionInv'
    BY <1>1, <2>2, SessionServer, SessionPage DEF SignInStep
  <2> QED
    BY <2>1, <2>2, SessionElsewhere
<1>3. CASE ~Entrance
  <2>1. Elsewhere
    BY <1>3 DEF Next, Elsewhere, all
  <2> QED
    BY <2>1, SessionElsewhere
<1> QED
  BY <1>2, <1>3

\* LogoutAction, buildAuthCookie, login.stx (SessionsHeld).  The sessions the
\* server accepts and nobody holds are no more than the faults, the callbacks that
\* registered an account and the late sign-outs so far: for any number of
\* requests at once, sign-ins, sign-outs and challenges, no race mints another.
THEOREM SessionsAreHeld == FairSpec => []SessionsHeld
<1>1. SessionInv => SessionsHeld
  <2> SUFFICES ASSUME SessionInv PROVE SessionsHeld
    OBVIOUS
  <2>1. live \ Held \subseteq Unkept
    BY DEF Held, Unkept, Keeps, Heard
  <2>2. Cardinality(live \ Held) <= Cardinality(Unkept) /\ IsFiniteSet(live \ Held)
    BY <2>1, Shrinks DEF SessionInv, DebtInv
  <2>3. /\ Cardinality(live \ Held) \in Nat /\ Cardinality(Unkept) \in Nat
        /\ Cardinality(Deaf) \in Nat
    BY <2>2, FS_CardinalityType DEF SessionInv, DebtInv
  <2>4. faults + spare \in Nat /\ 0 \in Nat
    BY \A m, n \in Nat : m + n \in Nat DEF SessionInv, SessionType
  <2>5. Cardinality(live \ Held) + 0 <= faults + spare
    BY <2>2, <2>3, <2>4, Counts DEF SessionInv, DebtInv
  <2> QED
    BY <2>3, <2>5 DEF SessionsHeld
<1> QED
  BY <1>1, CodeInit, CodeInductive, SessionInit, SessionInductive, PTL DEF FairSpec

-----------------------------------------------------------------------------
(* The rows and the webhooks.                                                *)

Tasks == [ev : Event, step : {"find", "insert", "update", "cancel", "answer"}]
WebhookType ==
  /\ sent \in [Subs -> Nat] /\ written \in [Subs -> Nat] /\ events \subseteq Event
  /\ stripe \in [Subs -> Status \cup {"none"}] /\ row \in [Subs -> Status \cup {"none"}]
  /\ hook \in [Hooks -> {Free} \cup Tasks]

\* An event is one Stripe made, and the last one says what is so.
EventOf(e) ==
  /\ e.no <= sent[e.sub]
  /\ e.no = sent[e.sub] => e.status = stripe[e.sub]
  /\ e.kind = "deleted" => e.status = "canceled"

\* What is about to be answered was written; if that left no row, it was an end.
TaskOf(h) ==
  LET e == hook[h].ev IN
  hook[h] # Free =>
    /\ EventOf(e)
    /\ hook[h].step = "cancel" => e.kind = "deleted"
    /\ hook[h].step = "answer" /\ e.sub \notin Strangers =>
         e.no <= written[e.sub] /\ (row[e.sub] = "none" => e.kind # "created")

\* Stripe still has the last event until it was written, and the first until
\* there is a row; the newest write is what the row says.
SubOf(s) ==
  /\ written[s] <= sent[s]
  /\ sent[s] = 0 => row[s] = "none" /\ stripe[s] = "none"
  /\ written[s] < sent[s] => \E e \in events : e.sub = s /\ e.no = sent[s]
  /\ sent[s] > 0 /\ row[s] = "none" => \E e \in events : e.sub = s /\ e.kind = "created"
  /\ s \notin overtaken /\ written[s] = sent[s] /\ row[s] # "none" => row[s] = stripe[s]

RowInv ==
  /\ WebhookType
  /\ \A e \in events : EventOf(e)
  /\ \A h \in Hooks : TaskOf(h)
  /\ \A s \in Subs \ Strangers : SubOf(s)

LEMMA RowInit == Init => RowInv
<1> SUFFICES ASSUME Init PROVE RowInv
  OBVIOUS
<1>1. BillingInit
  BY DEF Init
<1>2. WebhookType
  BY <1>1 DEF BillingInit, WebhookType
<1>3. \A h \in Hooks : TaskOf(h)
  BY <1>1 DEF BillingInit, TaskOf
<1>4. \A s \in Subs \ Strangers : SubOf(s)
  BY <1>1 DEF BillingInit, SubOf
<1> QED
  BY <1>1, <1>2, <1>3, <1>4 DEF BillingInit, RowInv

\* Stripe makes an event of a subscription.
LEMMA ReportKeeps ==
  ASSUME RowInv, NEW s \in Subs, NEW kind \in {"created", "updated", "deleted"},
         NEW status \in Status, Report(s, kind, status),
         kind = "deleted" => status = "canceled",
         kind = "created" \/ stripe[s] # "none"
  PROVE  RowInv'
<1> DEFINE e == [sub |-> s, no |-> sent[s] + 1, kind |-> kind, status |-> status]
<1>1. e \in Event /\ events' = events \cup {e} /\ UNCHANGED <<row, hook, written, overtaken>>
  BY DEF Report, Event, RowInv, WebhookType
<1>2. /\ sent' = [sent EXCEPT ![s] = sent[s] + 1] /\ stripe' = [stripe EXCEPT ![s] = status]
      /\ sent[s] \in Nat
  BY DEF Report, RowInv, WebhookType
<1>3. WebhookType'
  BY <1>1, <1>2 DEF WebhookType, RowInv
<1>4. /\ sent'[s] = sent[s] + 1 /\ stripe'[s] = status
      /\ \A t \in Subs \ {s} : sent'[t] = sent[t] /\ stripe'[t] = stripe[t]
  BY <1>2 DEF RowInv, WebhookType
<1>5. ASSUME NEW f \in Event, EventOf(f) PROVE EventOf(f)'
  BY <1>4, <1>2, <1>5 DEF EventOf, Event
<1>6. \A f \in events' : EventOf(f)'
  <2> SUFFICES ASSUME NEW f \in events' PROVE EventOf(f)'
    OBVIOUS
  <2>1. CASE f = e
    <3>1. /\ f.sub = s /\ f.no = sent'[s] /\ f.status = stripe'[s]
          /\ f.kind = "deleted" => f.status = "canceled"
      BY <1>4, <2>1
    <3>2. sent'[s] <= sent'[s]
      BY <1>2, <1>4
    <3> QED
      BY <3>1, <3>2 DEF EventOf
  <2>2. CASE f \in events
    BY <1>5, <2>2 DEF RowInv, WebhookType
  <2> QED
    BY <1>1, <2>1, <2>2
<1>7. ASSUME NEW h \in Hooks PROVE TaskOf(h)'
  <2>1. hook[h] # Free => hook[h].ev \in Event /\ TaskOf(h)
    BY DEF RowInv, WebhookType, Tasks
  <2> QED
    BY <1>1, <1>5, <2>1 DEF TaskOf
<1>8. ASSUME NEW t \in Subs \ Strangers PROVE SubOf(t)'
  <2>1. SubOf(t) /\ written[t] \in Nat /\ sent[t] \in Nat
    BY DEF RowInv, WebhookType
  <2>2. CASE t = s
    <3>1. e \in events' /\ e.sub = s /\ e.no = sent'[s] /\ e.kind = kind
      BY <1>1, <1>4
    <3>2. written'[s] < sent'[s] /\ sent'[s] > 0
      BY <1>1, <1>2, <1>4, <2>1, <2>2 DEF SubOf
    <3>3. kind = "created" \/ (row[s] = "none" => \E f \in events : f.sub = s /\ f.kind = "created")
      BY <1>2, <2>1, <2>2 DEF SubOf
    <3>4. row'[s] = "none" => \E f \in events' : f.sub = s /\ f.kind = "created"
      BY <1>1, <3>1, <3>3
    <3> HIDE DEF e
    <3>5. sent'[s] \in Nat /\ written'[s] \in Nat /\ sent'[s] # 0 /\ written'[s] # sent'[s]
      BY <1>1, <1>2, <1>4, <2>1, <2>2, <3>2
    <3> QED
      BY <2>2, <3>1, <3>2, <3>4, <3>5 DEF SubOf
  <2>3. CASE t # s
    BY <1>1, <1>4, <2>1, <2>3 DEF SubOf
  <2> QED
    BY <2>2, <2>3
<1> QED
  BY <1>3, <1>6, <1>7, <1>8 DEF RowInv

\* A request's step that writes nothing.
LEMMA TaskKeeps ==
  ASSUME RowInv, NEW h \in Hooks, NEW new \in {Free} \cup Tasks,
         hook' = [hook EXCEPT ![h] = new], UNCHANGED <<stripe, sent, events, row, written, overtaken>>,
         TaskOf(h)'
  PROVE  RowInv'
<1>1. WebhookType'
  BY DEF RowInv, WebhookType
<1>2. ASSUME NEW g \in Hooks \ {h} PROVE TaskOf(g)'
  BY DEF RowInv, WebhookType, TaskOf, EventOf
<1> QED
  BY <1>1, <1>2 DEF RowInv, EventOf, SubOf

\* A write of what a request has in hand.
LEMMA WriteKeeps ==
  ASSUME RowInv, NEW h \in Hooks, hook[h] # Free, Step(h, "answer"),
         NEW value, Written(hook[h].ev, value),
         \/ value = hook[h].ev.status
         \/ hook[h].ev.kind = "deleted" /\ row[hook[h].ev.sub] = "none" /\ value = "none"
  PROVE  RowInv'
<1> DEFINE e == hook[h].ev
           s == e.sub
<1>1. /\ hook[h] \in Tasks /\ e \in Event /\ s \in Subs /\ e.no \in Nat
      /\ e.status \in Status /\ "none" \notin Status
  BY DEF RowInv, WebhookType, Tasks, Event, Status, Paid
<1>2. EventOf(e) /\ written[s] \in Nat /\ sent[s] \in Nat
  BY <1>1 DEF RowInv, TaskOf, WebhookType
<1>3. /\ UNCHANGED <<stripe, sent, events>>
      /\ row'[s] = value /\ \A t \in Subs \ {s} : row'[t] = row[t]
      /\ written'[s] = IF e.no > written[s] THEN e.no ELSE written[s]
      /\ \A t \in Subs \ {s} : written'[t] = written[t]
      /\ overtaken' = IF e.no < written[s] THEN overtaken \cup {s} ELSE overtaken
  BY <1>1 DEF Written, RowInv, WebhookType
<1>4. value \in Status \cup {"none"}
  BY <1>1
<1>5. /\ hook'[h].ev = e /\ hook'[h].step = "answer" /\ hook'[h] \in Tasks
      /\ \A g \in Hooks \ {h} : hook'[g] = hook[g]
      /\ hook' \in [Hooks -> {Free} \cup Tasks]
  BY <1>1 DEF Step, RowInv, WebhookType, Tasks
<1>6. WebhookType'
  <2>1. row' \in [Subs -> Status \cup {"none"}]
    BY <1>1, <1>4 DEF Written, RowInv, WebhookType
  <2>2. written' \in [Subs -> Nat]
    BY <1>1, <1>2 DEF Written, RowInv, WebhookType
  <2> QED
    BY <1>3, <1>5, <2>1, <2>2 DEF RowInv, WebhookType
<1>7. \A f \in events' : EventOf(f)'
  BY <1>3 DEF RowInv, EventOf
<1>8. value = "none" => row[s] = "none" /\ e.kind = "deleted"
  BY <1>1
<1>9. ASSUME NEW g \in Hooks PROVE TaskOf(g)'
  <2>1. CASE g = h
    BY <1>1, <1>2, <1>3, <1>5, <1>8, <2>1 DEF TaskOf, EventOf
  <2>2. CASE g # h
    <3>1. hook'[g] = hook[g] /\ TaskOf(g) /\ (hook[g] # Free => hook[g].ev \in Event)
      BY <1>5, <2>2 DEF RowInv, WebhookType, Tasks
    <3>2. hook[g] # Free => EventOf(hook[g].ev)'
      BY <1>3, <3>1 DEF TaskOf, EventOf
    <3>3. CASE hook[g] # Free /\ hook[g].ev.sub = s
      BY <1>1, <1>2, <1>3, <1>8, <3>1, <3>2, <3>3 DEF TaskOf, Event
    <3>4. CASE hook[g] # Free /\ hook[g].ev.sub # s
      BY <1>3, <3>1, <3>2, <3>4 DEF TaskOf, Event
    <3>5. CASE hook[g] = Free
      BY <3>1, <3>5 DEF TaskOf
    <3> QED
      BY <3>3, <3>4, <3>5
  <2> QED
    BY <2>1, <2>2
<1>10. ASSUME NEW t \in Subs \ Strangers PROVE SubOf(t)'
  <2>1. CASE t # s
    BY <1>3, <2>1 DEF RowInv, SubOf
  <2>2. CASE t = s
    <3>0. SubOf(s)
      BY <2>2 DEF RowInv
    <3>1. written'[s] <= sent'[s] /\ written[s] <= written'[s] /\ e.no <= written'[s]
      BY <1>1, <1>2, <1>3, <3>0 DEF EventOf, SubOf
    <3>2. sent[s] = 0 => value = "none"
      <4>1. sent[s] = 0 => e.no = 0 /\ stripe[s] = "none"
        BY <1>1, <1>2, <3>0 DEF EventOf, SubOf
      <4> QED
        BY <1>1, <1>2, <4>1 DEF EventOf
    <3>3. s \notin overtaken' /\ written'[s] = sent'[s] /\ value # "none" => value = stripe[s]
      BY <1>1, <1>2, <1>3, <3>0 DEF EventOf, SubOf
    <3>4. written'[s] < sent'[s] => \E f \in events' : f.sub = s /\ f.no = sent'[s]
      <4>1. written'[s] < sent'[s] => written[s] < sent[s]
        BY <1>1, <1>2, <1>3
      <4> QED
        BY <1>3, <3>0, <4>1 DEF SubOf
    <3>5. sent'[s] > 0 /\ value = "none" => \E f \in events' : f.sub = s /\ f.kind = "created"
      BY <1>2, <1>3, <1>8, <3>0 DEF SubOf
    <3>6. row'[s] = value /\ UNCHANGED <<stripe, sent, events>>
      BY <1>3
    <3>7. sent'[s] = 0 => row'[s] = "none" /\ stripe'[s] = "none"
      BY <3>0, <3>2, <3>6 DEF SubOf
    <3>8. s \notin overtaken' /\ written'[s] = sent'[s] /\ row'[s] # "none" => row'[s] = stripe'[s]
      BY <3>3, <3>6
    <3> HIDE DEF e, s
    <3> QED
      BY <2>2, <3>1, <3>4, <3>5, <3>6, <3>7, <3>8 DEF SubOf
  <2> QED
    BY <2>1, <2>2
<1> QED
  BY <1>6, <1>7, <1>9, <1>10 DEF RowInv

\* An event is answered once it was written, or is about a stranger's.
LEMMA AnswerKeeps ==
  ASSUME RowInv, NEW h \in Hooks, Answer(h)
  PROVE  RowInv'
<1> DEFINE e == hook[h].ev
<1>1. /\ hook[h] # Free /\ hook[h] \in Tasks /\ hook[h].step = "answer" /\ e \in Event
  BY DEF Answer, In, Free, RowInv, WebhookType, Tasks
<1>2. /\ events' = events \ {e} /\ UNCHANGED <<stripe, sent, row, written, overtaken>>
      /\ hook' = [hook EXCEPT ![h] = Free]
  BY DEF Answer
<1>3. WebhookType' /\ \A f \in events' : EventOf(f)'
  BY <1>2 DEF RowInv, WebhookType, EventOf
<1>4. ASSUME NEW g \in Hooks PROVE TaskOf(g)'
  BY <1>2 DEF RowInv, WebhookType, TaskOf, EventOf
<1>5. ASSUME NEW t \in Subs \ Strangers PROVE SubOf(t)'
  <2>1. SubOf(t) /\ TaskOf(h) /\ written[t] \in Nat /\ sent[t] \in Nat
    BY DEF RowInv, WebhookType
  <2>2. CASE e.sub # t
    BY <1>2, <2>1, <2>2 DEF SubOf
  <2>3. CASE e.sub = t
    <3>1. e.no <= written[t] /\ (row[t] = "none" => e.kind # "created") /\ e.no \in Nat
      BY <1>1, <2>1, <2>3 DEF TaskOf, Event
    <3> QED
      BY <1>2, <2>1, <2>3, <3>1 DEF SubOf
  <2> QED
    BY <2>2, <2>3
<1> QED
  BY <1>3, <1>4, <1>5 DEF RowInv

LEMMA HookKeeps ==
  ASSUME RowInv, NEW h \in Hooks, Deliver(h) \/ HookStep(h) \/ HookFails(h)
  PROVE  RowInv'
<1>1. CASE Deliver(h)
  <2>1. PICK e \in events :
          hook' = [hook EXCEPT ![h] =
                     [ev |-> e, step |-> IF e.kind = "deleted" THEN "cancel"
                                         ELSE IF e.sub \in Strangers THEN "answer" ELSE "find"]]
    BY <1>1 DEF Deliver
  <2>2. e \in Event /\ EventOf(e)
    BY DEF RowInv, WebhookType
  <2>3. UNCHANGED <<stripe, sent, events, row, written, overtaken>>
    BY <1>1 DEF Deliver
  <2>4. hook'[h] \in Tasks /\ TaskOf(h)'
    BY <2>1, <2>2, <2>3 DEF TaskOf, EventOf, RowInv, WebhookType, Tasks
  <2> QED
    BY <2>1, <2>3, <2>4, TaskKeeps DEF RowInv, WebhookType
<1>2. CASE HookFails(h)
  BY <1>2, TaskKeeps DEF HookFails, TaskOf, RowInv, WebhookType
<1>3. CASE FindRow(h)
  <2>1. /\ hook[h] # Free /\ hook[h] \in Tasks /\ UNCHANGED <<stripe, sent, events, row, written, overtaken>>
    BY <1>3 DEF FindRow, In, Free, RowInv, WebhookType
  <2>2. PICK at \in {"insert", "update"} : hook' = [hook EXCEPT ![h] = [hook[h] EXCEPT !.step = at]]
    BY <1>3 DEF FindRow, Step
  <2>3. [hook[h] EXCEPT !.step = at] \in Tasks
    BY <2>1 DEF Tasks
  <2>4. hook'[h] = [hook[h] EXCEPT !.step = at]
    BY <2>2 DEF RowInv, WebhookType
  <2>5. hook'[h].ev = hook[h].ev /\ hook'[h].step = at
    BY <2>1, <2>4 DEF Tasks
  <2>6. TaskOf(h)'
    BY <2>1, <2>5 DEF TaskOf, EventOf, RowInv
  <2> QED
    BY <2>1, <2>2, <2>3, <2>6, TaskKeeps
<1>4. CASE Update(h)
  BY <1>4, WriteKeeps DEF Update, In, Free
<1>5. CASE Insert(h) /\ row[hook[h].ev.sub] = "none"
  BY <1>5, WriteKeeps DEF Insert, In, Free
<1>6. CASE Insert(h) /\ row[hook[h].ev.sub] # "none"
  BY <1>6, TaskKeeps DEF Insert, TaskOf, RowInv, WebhookType
<1>7. CASE CancelRow(h)
  <2> DEFINE e == hook[h].ev
  <2>1. hook[h] # Free /\ Step(h, "answer") /\ e.kind = "deleted" /\ e.status = "canceled"
    BY <1>7 DEF CancelRow, In, Free, RowInv, TaskOf, EventOf
  <2>2. Written(e, IF row[e.sub] = "none" THEN "none" ELSE "canceled")
    BY <1>7 DEF CancelRow
  <2> QED
    BY <2>1, <2>2, WriteKeeps
<1> QED
  BY <1>1, <1>2, <1>3, <1>4, <1>5, <1>6, <1>7, AnswerKeeps DEF HookStep

LEMMA RowInductive == RowInv /\ [Next]_all => RowInv'
<1> SUFFICES ASSUME RowInv, [Next]_all PROVE RowInv'
  OBVIOUS
<1>1. CASE UNCHANGED <<stripe, sent, events, row, hook, written, overtaken>>
  BY <1>1 DEF RowInv, WebhookType, EventOf, TaskOf, SubOf
<1>2. CASE AtStripe
  <2>1. PICK s \in Subs : Checkout(s) \/ Pay(s) \/ Change(s) \/ Cancel(s)
    BY <1>2 DEF AtStripe
  <2>2. CASE Checkout(s)
    BY <1>1, <2>2 DEF Checkout, OpenCheckout
  <2>3. CASE Pay(s)
    BY <2>3, SubsAssumption, ReportKeeps DEF Pay
  <2>4. CASE Change(s)
    BY <2>4, ReportKeeps DEF Change
  <2>5. CASE Cancel(s)
    <3>1. "canceled" \in Status /\ stripe[s] # "none" /\ Report(s, "deleted", "canceled")
      BY <2>5 DEF Cancel, Status
    <3> QED
      BY <3>1, ReportKeeps
  <2> QED
    BY <2>1, <2>2, <2>3, <2>4, <2>5
<1>3. CASE \E h \in Hooks : Deliver(h) \/ HookStep(h) \/ HookFails(h)
  BY <1>3, HookKeeps
<1> QED
  BY <1>1, <1>2, <1>3 DEF Next, Billing, all, billing

\* StripeWebhook.ts 24-71 (RowTracksStripe).  Once Stripe has no event of a
\* subscription left and no request works on one, the row says what Stripe says,
\* or an older event was written last; whatever was delivered twice, raced for
\* the insert, failed or lost its answer, for any number of subscriptions,
\* requests, events and faults.
THEOREM RowsTrackStripe == FairSpec => []RowTracksStripe
<1>1. RowInv => RowTracksStripe
  <2> SUFFICES ASSUME RowInv, NEW s \in Subs \ Strangers, Settled(s), s \notin overtaken
               PROVE  row[s] = stripe[s]
    BY DEF RowTracksStripe
  <2>1. SubOf(s) /\ sent[s] \in Nat /\ written[s] \in Nat
    BY DEF RowInv, WebhookType
  <2>2. \A e \in events : e.sub # s
    BY DEF Settled
  <2>3. ~(written[s] < sent[s]) /\ written[s] <= sent[s] /\ (sent[s] > 0 => row[s] # "none")
    BY <2>1, <2>2 DEF SubOf
  <2>4. written[s] = sent[s] /\ (sent[s] = 0 \/ sent[s] > 0)
    BY <2>1, <2>3
  <2> QED
    BY <2>1, <2>3, <2>4 DEF SubOf
<1> QED
  BY <1>1, RowInit, RowInductive, PTL DEF FairSpec
=============================================================================
