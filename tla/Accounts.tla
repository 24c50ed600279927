------------------------------- MODULE Accounts -------------------------------
(***************************************************************************)
(* An account with its sessions and its subscription together: a checkout  *)
(* needs the session, /api/me needs the session and the subscription row,  *)
(* and the page shows what /api/me answered.  A behaviour starts in one of *)
(* two rooms, which bound it: a visitor without an account, who signs up,  *)
(* in and out while billing rests; or one who has just signed up, whose    *)
(* subscription then goes through MaxEvents events.                        *)
(***************************************************************************)
EXTENDS SessionStore, Subscriptions, FiniteSetsExt

CONSTANT MaxEvents      \* bound: events Stripe makes in all
CONSTANT Rooms          \* of {"entrance", "billing"}

ASSUME AccountsAssumption == MaxEvents \in Nat /\ Rooms \subseteq {"entrance", "billing"}

VARIABLE room

all == <<signIn, store, billing, room>>

Init ==
  /\ room \in Rooms
  /\ StoreInit /\ BillingInit
  /\ \/ room = "entrance" /\ SignInInit
     \/ /\ room = "billing"
        /\ account = "form" /\ linked = "none" /\ enrolled = FALSE
        /\ challenges = {} /\ asked = 0 /\ tried = [c \in 1..MaxChallenges |-> 0]
        /\ live = {1} /\ minted = 1 /\ cookie = 1
        /\ page = "app" /\ form = Blank
        /\ job = [j \in Jobs |-> Idle]
        /\ spare = 0 /\ faults = 0 /\ slips = 0

(***************************************************************************)
(* pricing.stx upgrade: the viewer first, then POST /payments/checkout     *)
(* behind the auth middleware.  There, as anywhere, a 401 clears the       *)
(* viewer and leaves for /login (onResponseError).                         *)
(***************************************************************************)
Checkout(s) == OnApp /\ view.loaded /\ SignedIn /\ OpenCheckout(s)

Refused ==
  /\ OnApp /\ ~SignedIn /\ ~leaving
  /\ view' = [view EXCEPT !.loaded = FALSE, !.pro = FALSE]
  /\ leaving' = TRUE
  /\ UNCHANGED <<signIn, logout, outs>>

Total == MapThenSumSet(LAMBDA s : sent[s], Subs)

AtStripe == /\ room = "billing" /\ Total < MaxEvents
            /\ \/ \E s \in Subs : Checkout(s) \/ Pay(s)
               \/ \E s \in Subs \ Strangers : Change(s) \/ Cancel(s)

Entrance == room = "entrance" /\ (\/ (\E j \in Jobs : SignInStep(j)) /\ UNCHANGED store
                                  \/ SignOut \/ Revoke \/ Cleared \/ LogoutFails
                                  \/ Expire \/ Switch \/ MeFails)

Page == LoadViewer \/ Me(HasActive) \/ MeArrives \/ Unload \/ Refused

Billing == AtStripe \/ \E h \in Hooks : Deliver(h) \/ HookStep(h) \/ HookFails(h)

Next == \/ (Entrance \/ Page) /\ UNCHANGED <<billing, room>>
        \/ Billing /\ UNCHANGED <<signIn, store, room>>

(***************************************************************************)
(* Fairness: a request the server has is worked on and answered; the       *)
(* visitor goes on trying to sign in with the right password and code and  *)
(* goes on opening pages, some of which stay long enough to load; Stripe   *)
(* delivers an event until it is answered.                                 *)
(***************************************************************************)
Others == UNCHANGED <<billing, room>>
SignInPart(A) == room = "entrance" /\ A /\ UNCHANGED store /\ Others

FairSpec ==
  /\ Init /\ [][Next]_all
  /\ \A j \in Jobs : WF_all(SignInPart(ServerStep(j) \/ Arrives(j)))
  /\ WF_all(SignInPart(\E j \in Jobs, kind \in Ways : Send(j, kind, TRUE)))
  /\ WF_all((Revoke \/ Cleared) /\ Others)
  /\ WF_all(LoadViewer /\ Others) /\ WF_all(Unload /\ Others)
  /\ SF_all(Me(HasActive) /\ Others) /\ SF_all(MeArrives /\ Others)
  /\ \A h \in Hooks : WF_all((HookStep(h) \/ Deliver(h))
                            /\ UNCHANGED <<signIn, store, room>>)

(***************************************************************************)
(* A visitor who keeps trying gets in, whatever was lost, mistyped or      *)
(* spent on the way: no step of the login page is a dead end (login.stx).  *)
(***************************************************************************)
SignsIn == ~SignedIn ~> SignedIn

(***************************************************************************)
(* Whoever stays signed in and paid up is shown Pro again and again, when  *)
(* no older event was written last (StripeWebhook.ts, MeAction, session.ts)*)
(***************************************************************************)
PaidUp == \E s \in Subs \ Strangers : stripe[s] \in Paid /\ s \notin overtaken
PaidIsShown == (<>[](PaidUp /\ SignedIn)) => []<>view.pro

TypeOK == SignInTypeOK /\ StoreTypeOK /\ BillingTypeOK
=============================================================================
