------------------------------- MODULE SignIn -------------------------------
(***************************************************************************)
(* One visitor, one browser and one e-mail address: the account, the ways  *)
(* to sign in to it and the sessions they issue.  A request of the browser *)
(* is a job of the server: the login form and its second step              *)
(* (resources/views/login.stx, LoginAction, VerifyTwoFactorLoginAction),   *)
(* the sign-up form (RegisterAction) and a provider's callback             *)
(* (SocialCallbackAction), one step per await that matters.  The browser   *)
(* may give up on a request that the server goes on with, so two jobs can  *)
(* be at work.  The framework (challenges, tokens, register) is modelled   *)
(* from how the actions call it: register makes the account and its token  *)
(* or throws on a duplicate, a challenge is consumed at most once.         *)
(***************************************************************************)
EXTENDS Naturals, FiniteSets

CONSTANTS Jobs,         \* requests that can be in flight at once
          MaxFaults,    \* bound: read errors, lost answers, expiries
          MaxSlips,     \* bound: wrong passwords, codes, unverified e-mails
          MaxChallenges \* bound: second-factor challenges created

NoJob == "none"

ASSUME SignInAssumption == MaxFaults \in Nat /\ MaxSlips \in Nat
                           /\ MaxChallenges \in Nat /\ NoJob \notin Jobs

VARIABLES account,    \* how the account was made: "none", "form" or "social"
          linked,     \* the provider link: "none", "verified", "unverified"
          enrolled,   \* is a second factor on?
          challenges, \* challenges not yet consumed
          asked,      \* how many challenges were created
          tried,      \* history: codes checked under each challenge
          live,       \* tokens the server accepts
          minted,     \* how many tokens were issued
          cookie,     \* the browser's auth-token cookie; 0 is none
          page,       \* the page on show: "login" or "app"
          form,       \* the login page's own state
          job,        \* job[j]: the request j is working on
          spare,      \* history: sessions nobody was handed, with a cause
          faults, slips

signIn == <<account, linked, enrolled, challenges, asked, tried, live, minted,
            cookie, page, form, job, spare, faults, slips>>

Idle  == [kind |-> "none", step |-> "idle", challenge |-> 0, right |-> TRUE,
          heard |-> FALSE, token |-> 0]
Blank == [mode |-> "credentials", waits |-> NoJob, challenge |-> 0]

SignInInit ==
  /\ account = "none" /\ linked = "none" /\ enrolled = FALSE
  /\ challenges = {} /\ asked = 0 /\ tried = [c \in 1..MaxChallenges |-> 0]
  /\ live = {} /\ minted = 0 /\ cookie = 0
  /\ page = "login" /\ form = Blank
  /\ job = [j \in Jobs |-> Idle]
  /\ spare = 0 /\ faults = 0 /\ slips = 0

At(j, step)   == job[j].step = step
Goto(j, step) == job' = [job EXCEPT ![j].step = step]
SignedIn      == cookie \in live

\* A fault, while the bound allows one.
Fault == faults < MaxFaults /\ faults' = faults + 1

(***************************************************************************)
(* The browser sends: step one or step two of the login form, the sign-up  *)
(* form, or the callback a provider redirects to.  right is a good         *)
(* password, a good code, or an e-mail the provider has verified.          *)
(***************************************************************************)
FirstStep(kind) == CASE kind = "login"    -> "attempt"
                     [] kind = "verify"   -> "consume"
                     [] kind = "register" -> "register"
                     [] kind = "social"   -> "find"

Ways == IF form.mode = "twofa" THEN {"verify"}
        ELSE {"social"} \cup (IF account = "none" THEN {"register"} ELSE {})
                        \cup (IF account = "form" THEN {"login"} ELSE {})

Send(j, kind, right) ==
  /\ page = "login" /\ form.waits = NoJob /\ At(j, "idle")
  /\ kind \in Ways
  /\ right \/ slips < MaxSlips
  /\ slips' = IF right THEN slips ELSE slips + 1
  /\ job' = [job EXCEPT ![j] = [kind |-> kind, step |-> FirstStep(kind),
                                challenge |-> form.challenge, right |-> right,
                                heard |-> TRUE, token |-> 0]]
  /\ form' = [form EXCEPT !.waits = j]
  /\ UNCHANGED <<account, linked, enrolled, challenges, asked, tried, live,
                 minted, cookie, page, spare, faults>>

\* The fetch rejects, or the visitor turns back from the provider: the page is
\* free to send again (finally, login.stx), the server goes on.
Deafen(j) ==
  /\ ~At(j, "idle") /\ job[j].heard /\ Fault
  /\ job' = [job EXCEPT ![j].heard = FALSE]
  /\ form' = [form EXCEPT !.waits = NoJob]
  /\ UNCHANGED <<account, linked, enrolled, challenges, asked, tried, live,
                 minted, cookie, page, spare, slips>>

(***************************************************************************)
(* The server: LoginAction checks the password, reads the second factor (a *)
(* failed read is none) and creates a challenge or mints a token.          *)
(***************************************************************************)
Rest == <<account, linked, enrolled, cookie, page, form, slips>>

Attempt(j) ==
  /\ At(j, "attempt")
  /\ Goto(j, IF job[j].right THEN "factor" ELSE "refused")
  /\ UNCHANGED <<Rest, challenges, asked, tried, live, minted, spare, faults>>

ReadFactor(j) ==
  /\ At(j, "factor")
  /\ \/ Goto(j, IF enrolled THEN "challenge" ELSE "mint") /\ UNCHANGED faults
     \/ Goto(j, "mint") /\ enrolled /\ Fault
  /\ UNCHANGED <<Rest, challenges, asked, tried, live, minted, spare>>

Challenge(j) ==
  /\ At(j, "challenge") /\ asked < MaxChallenges
  /\ asked' = asked + 1 /\ challenges' = challenges \cup {asked + 1}
  /\ job' = [job EXCEPT ![j].step = "challenged", ![j].challenge = asked + 1]
  /\ UNCHANGED <<Rest, tried, live, minted, spare, faults>>

\* Auth.loginUsingId.
Mint(j) ==
  /\ At(j, "mint")
  /\ minted' = minted + 1 /\ live' = live \cup {minted + 1}
  /\ job' = [job EXCEPT ![j].step = "token", ![j].token = minted + 1]
  /\ UNCHANGED <<Rest, challenges, asked, tried, spare, faults>>

\* Variant: the challenge is looked up here and spent after a good code.
ConsumeLate(j) ==
  /\ At(j, "consume")
  /\ Goto(j, IF job[j].challenge \in challenges THEN "code" ELSE "refused")
  /\ UNCHANGED <<Rest, challenges, asked, tried, live, minted, spare, faults>>

\* Step two spends the challenge before it looks at the code.
Consume(j) ==
  /\ At(j, "consume")
  /\ Goto(j, IF job[j].challenge \in challenges THEN "code" ELSE "refused")
  /\ challenges' = challenges \ {job[j].challenge}
  /\ UNCHANGED <<Rest, asked, tried, live, minted, spare, faults>>

Code(j) ==
  /\ At(j, "code")
  /\ tried' = [tried EXCEPT ![job[j].challenge] = @ + 1]
  /\ Goto(j, IF job[j].right THEN "mint" ELSE "refused")
  /\ UNCHANGED <<Rest, challenges, asked, live, minted, spare, faults>>

(***************************************************************************)
(* Sign-up, and the callback: it looks the address up, refuses to link an  *)
(* unverified address to an account it found, and otherwise registers one; *)
(* register throws on a duplicate, and the token it issues is not the one  *)
(* the callback hands out.  An expired link or a provider that fails is    *)
(* refused before anything is read.                                        *)
(***************************************************************************)
Register(j) ==
  /\ At(j, "register")
  /\ IF account # "none"
     THEN Goto(j, "refused") /\ UNCHANGED <<account, live, minted>>
     ELSE /\ account' = "form"
          /\ minted' = minted + 1 /\ live' = live \cup {minted + 1}
          /\ job' = [job EXCEPT ![j].step = "token", ![j].token = minted + 1]
  /\ UNCHANGED <<linked, enrolled, challenges, asked, tried, cookie, page, form,
                 spare, faults, slips>>

Find(j) ==
  /\ At(j, "find")
  /\ \/ ~job[j].right /\ Goto(j, "refused")
     \/ account = "none" /\ Goto(j, "create")
     \/ account # "none" /\ job[j].right /\ Goto(j, "link")
  /\ UNCHANGED <<Rest, challenges, asked, tried, live, minted, spare, faults>>

\* Variant: a duplicate found by register is not an error.
CreateTolerant(j) ==
  /\ At(j, "create") /\ Goto(j, "link")
  /\ IF account # "none" THEN UNCHANGED <<account, live, minted, spare>>
     ELSE /\ account' = "social" /\ spare' = spare + 1
          /\ minted' = minted + 1 /\ live' = live \cup {minted + 1}
  /\ UNCHANGED <<linked, enrolled, challenges, asked, tried, cookie, page, form,
                 faults, slips>>

Create(j) ==
  /\ At(j, "create")
  /\ IF account # "none"
     THEN Goto(j, "refused") /\ UNCHANGED <<account, live, minted, spare>>
     ELSE /\ Goto(j, "link") /\ account' = "social" /\ spare' = spare + 1
          /\ minted' = minted + 1 /\ live' = live \cup {minted + 1}
  /\ UNCHANGED <<linked, enrolled, challenges, asked, tried, cookie, page, form,
                 faults, slips>>

Link(j) ==
  /\ At(j, "link") /\ Goto(j, "mint")
  /\ linked' = IF job[j].right THEN "verified" ELSE "unverified"
  /\ UNCHANGED <<account, enrolled, challenges, asked, tried, live, minted,
                 cookie, page, form, spare, faults, slips>>

(***************************************************************************)
(* The answer reaches the page, or nobody: a challenge opens step two, a   *)
(* token is the cookie and the app, a refusal goes back to step one.       *)
(***************************************************************************)
Final == {"challenged", "token", "refused"}

\* Variant: a refused code leaves the page on step two.
ArrivesStuck(j) ==
  /\ job[j].step \in Final
  /\ job' = [job EXCEPT ![j] = Idle]
  /\ IF ~job[j].heard THEN UNCHANGED <<cookie, page, form>>
     ELSE /\ cookie' = IF At(j, "token") THEN job[j].token ELSE cookie
          /\ page' = IF At(j, "token") THEN "app" ELSE page
          /\ form' = IF At(j, "challenged")
                     THEN [Blank EXCEPT !.mode = "twofa",
                                        !.challenge = job[j].challenge]
                     ELSE [form EXCEPT !.waits = NoJob]
  /\ UNCHANGED <<account, linked, enrolled, challenges, asked, tried, live,
                 minted, spare, faults, slips>>

Arrives(j) ==
  /\ job[j].step \in Final
  /\ job' = [job EXCEPT ![j] = Idle]
  /\ IF ~job[j].heard THEN UNCHANGED <<cookie, page, form>>
     ELSE /\ cookie' = IF At(j, "token") THEN job[j].token ELSE cookie
          /\ page' = IF At(j, "token") THEN "app" ELSE page
          /\ form' = IF At(j, "challenged")
                     THEN [Blank EXCEPT !.mode = "twofa",
                                        !.challenge = job[j].challenge]
                     ELSE Blank
  /\ UNCHANGED <<account, linked, enrolled, challenges, asked, tried, live,
                 minted, spare, faults, slips>>

ServerStep(j) == \/ Attempt(j) \/ ReadFactor(j) \/ Challenge(j) \/ Mint(j)
                 \/ Consume(j) \/ Code(j) \/ Register(j) \/ Find(j)
                 \/ Create(j) \/ Link(j)

SignInStep(j) == \/ \E kind \in Ways, right \in BOOLEAN : Send(j, kind, right)
                 \/ Deafen(j) \/ ServerStep(j) \/ Arrives(j)

(***************************************************************************)
(* One code may be tried under a challenge, however often step two is sent *)
(* again and whichever request is first (VerifyTwoFactorLoginAction 39-47).*)
(***************************************************************************)
OneCodeEach == \A c \in 1..MaxChallenges : tried[c] <= 1

(***************************************************************************)
(* An account made with a password is never linked to a provider whose     *)
(* e-mail is not verified, even when it was made after the callback looked *)
(* for it (SocialCallbackAction 68-100).                                   *)
(***************************************************************************)
NeverLinksUnverified == account = "form" => linked # "unverified"

SignInTypeOK ==
  /\ account \in {"none", "form", "social"}
  /\ linked \in {"none", "verified", "unverified"}
  /\ enrolled \in BOOLEAN
  /\ asked \in 0..MaxChallenges /\ challenges \subseteq 1..asked
  /\ minted \in Nat /\ live \subseteq 1..minted /\ cookie \in 0..minted
  /\ page \in {"login", "app"} /\ form.waits \in Jobs \cup {NoJob}
  /\ \A j \in Jobs : job[j].token \in 0..minted /\ job[j].challenge \in 0..asked
  /\ faults \in 0..MaxFaults /\ slips \in 0..MaxSlips
=============================================================================
