----------------------------- MODULE SessionStore -----------------------------
(***************************************************************************)
(* The signed-in page: the session store that fetches the viewer from      *)
(* /api/me once per page load and caches it (resources/stores/session.ts,  *)
(* app/Actions/MeAction.ts, app/Support/request-auth.ts), signing out      *)
(* (LogoutAction) and the two-factor switches of the account page.         *)
(* signOut does not wait for /logout: the revoke may be cut off by the     *)
(* navigation, and its answer, which clears the cookie, may come late.     *)
(***************************************************************************)
EXTENDS SignIn

CONSTANT MaxOuts        \* bound: sign-outs

ASSUME StoreAssumption == MaxOuts \in Nat

VARIABLES view,     \* the store: viewerLoaded with pro, and the request
          leaving,  \* a navigation to /login with a reload is under way
          logout,   \* the /logout request: its token and its step
          outs

store == <<view, leaving, logout, outs>>

Unviewed == [loaded |-> FALSE, pro |-> FALSE, me |-> "none"]
NoLogout == [token |-> 0, step |-> "none"]

StoreInit == view = Unviewed /\ leaving = FALSE /\ logout = NoLogout /\ outs = 0

OnApp == page = "app"

\* loadViewer: the cache, then the request in flight, then a request.
LoadViewer ==
  /\ OnApp /\ ~leaving /\ ~view.loaded /\ view.me = "none"
  /\ view' = [view EXCEPT !.me = "asked"]
  /\ UNCHANGED <<signIn, leaving, logout, outs>>

\* MeAction: 401 without a user; pro is what hasActiveSubscription answers.
Me(pro) ==
  /\ view.me = "asked"
  /\ view' = [view EXCEPT !.me = IF ~SignedIn THEN "refused"
                                 ELSE IF pro THEN "pro" ELSE "free"]
  /\ UNCHANGED <<signIn, leaving, logout, outs>>

\* A failed token lookup is no user, a failed plan lookup is free, and the
\* request itself can fail.
MeFails ==
  /\ view.me = "asked" /\ Fault
  /\ \E answer \in {"refused", "failed"} \cup (IF SignedIn THEN {"free"} ELSE {}) :
       view' = [view EXCEPT !.me = answer]
  /\ UNCHANGED <<account, linked, enrolled, challenges, asked, tried, live,
                 minted, cookie, page, form, job, spare, slips, leaving, logout,
                 outs>>

\* fetchViewer's batch; a 401 leaves for /login, any other failure is nothing.
MeArrives ==
  /\ view.me \in {"refused", "pro", "free", "failed"}
  /\ view' = [loaded |-> view.loaded \/ view.me \in {"pro", "free"},
              pro    |-> IF view.me \in {"pro", "free"} THEN view.me = "pro"
                         ELSE view.pro,
              me     |-> "none"]
  /\ leaving' = (leaving \/ view.me = "refused")
  /\ UNCHANGED <<signIn, logout, outs>>

SignOut ==
  /\ OnApp /\ ~leaving /\ logout = NoLogout /\ outs < MaxOuts
  /\ outs' = outs + 1
  /\ logout' = [token |-> cookie, step |-> "sent"]
  /\ view' = [view EXCEPT !.loaded = FALSE, !.pro = FALSE]
  /\ leaving' = TRUE
  /\ UNCHANGED signIn

\* The reload drops every signal; the same page loaded again is the same.
Unload ==
  /\ OnApp
  /\ page' = IF leaving THEN "login" ELSE "app"
  /\ form' = Blank
  /\ view' = Unviewed /\ leaving' = FALSE
  /\ UNCHANGED <<account, linked, enrolled, challenges, asked, tried, live,
                 minted, cookie, job, spare, faults, slips, logout, outs>>

\* Variant: the cookie is cleared and the token is left as it is.
RevokeNothing ==
  /\ logout.step = "sent" /\ logout' = [logout EXCEPT !.step = "done"]
  /\ UNCHANGED <<signIn, view, leaving, outs>>

\* LogoutAction: Auth.logout revokes the token the request came with.
Revoke ==
  /\ logout.step = "sent"
  /\ logout' = [logout EXCEPT !.step = "done"]
  /\ live' = live \ {logout.token}
  /\ UNCHANGED <<account, linked, enrolled, challenges, asked, tried, minted,
                 cookie, page, form, job, spare, faults, slips, view, leaving,
                 outs>>

\* Its answer clears whatever auth-token cookie the browser has by then.
Cleared ==
  /\ logout.step = "done"
  /\ logout' = NoLogout /\ cookie' = 0
  /\ spare' = IF cookie \in live THEN spare + 1 ELSE spare
  /\ UNCHANGED <<account, linked, enrolled, challenges, asked, tried, live,
                 minted, page, form, job, faults, slips, view, leaving, outs>>

\* The fire-and-forget request is cut off, throws, or its answer is lost.
LogoutFails ==
  /\ logout # NoLogout /\ Fault
  /\ logout' = NoLogout
  /\ UNCHANGED <<account, linked, enrolled, challenges, asked, tried, live,
                 minted, cookie, page, form, job, spare, slips, view, leaving,
                 outs>>

\* A token's expires_at passes.
Expire ==
  /\ Fault
  /\ \E t \in live : live' = live \ {t}
  /\ UNCHANGED <<account, linked, enrolled, challenges, asked, tried, minted,
                 cookie, page, form, job, spare, slips, store>>

\* The account page's switches, behind the auth middleware.
Switch ==
  /\ OnApp /\ SignedIn /\ ~leaving /\ account = "form"
  /\ enrolled' = ~enrolled
  /\ UNCHANGED <<account, linked, challenges, asked, tried, live, minted, cookie,
                 page, form, job, spare, faults, slips, store>>

(***************************************************************************)
(* Every session the server still accepts is the browser's, on its way to  *)
(* it or being revoked; one that is nobody's is paid for by a fault, by a  *)
(* callback that registered the account, or by a sign-out whose answer     *)
(* came after the next sign-in (LogoutAction, buildAuthCookie).            *)
(***************************************************************************)
Held == {cookie, logout.token} \cup {job[j].token : j \in {i \in Jobs : job[i].heard}}
SessionsHeld == Cardinality(live \ Held) <= faults + spare

StoreTypeOK ==
  /\ view.loaded \in BOOLEAN /\ view.pro \in BOOLEAN
  /\ view.me \in {"none", "asked", "refused", "pro", "free", "failed"}
  /\ view.pro => view.loaded
  /\ leaving \in BOOLEAN /\ logout.token \in 0..minted /\ outs \in 0..MaxOuts
=============================================================================
