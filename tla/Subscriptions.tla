--------------------------- MODULE Subscriptions ---------------------------
(***************************************************************************)
(* Billing: a checkout session is opened at Stripe for a signed-in user    *)
(* (app/Actions/Payment/CreateCheckoutAction.ts), the user pays there, and *)
(* Stripe reports what becomes of the subscription to the webhook          *)
(* (app/Actions/StripeWebhook.ts), which keeps one row per subscription.   *)
(* Stripe keeps an event until it is answered with a 2xx, delivers it      *)
(* again when it is not, may deliver it twice and promises no order.  One  *)
(* user pays; Strangers are subscriptions of customers no user has.        *)
(***************************************************************************)
EXTENDS Naturals

CONSTANTS Subs,         \* subscriptions, by their id at Stripe
          Strangers,    \* those whose customer is nobody's users.stripe_id
          Hooks,        \* webhook requests the server can be busy with
          FirstStatus,  \* what a paid checkout can start as
          MaxHookFaults \* bound: database errors and lost answers


VARIABLES stripe,     \* stripe[s]: the subscription's status at Stripe
          offered,    \* subscriptions a hosted checkout page was opened for
          sent,       \* sent[s]: how many events Stripe made for s
          events,     \* events not yet answered with a 2xx
          row,        \* row[s]: provider_status in our table, or "none"
          hook,       \* hook[h]: the event a request works on and its step
          written,    \* history: the newest event of s whose write was made
          overtaken,  \* history: subscriptions written by an older event last
          hookFaults

billing == <<stripe, offered, sent, events, row, hook, written, overtaken,
             hookFaults>>

Paid   == {"active", "trialing"}
Status == Paid \cup {"past_due", "canceled"}
ASSUME SubsAssumption == /\ Strangers \subseteq Subs /\ MaxHookFaults \in Nat
                         /\ FirstStatus \subseteq Status
Event  == [sub : Subs, no : Nat, kind : {"created", "updated", "deleted"},
           status : Status]
Free   == [step |-> "idle"]

BillingInit ==
  /\ stripe = [s \in Subs |-> "none"] /\ offered = {}
  /\ sent = [s \in Subs |-> 0] /\ events = {}
  /\ row = [s \in Subs |-> "none"]
  /\ hook = [h \in Hooks |-> Free]
  /\ written = [s \in Subs |-> 0] /\ overtaken = {} /\ hookFaults = 0

\* Variant: a trial is not Pro.
HasActiveNoTrial == \E s \in Subs : row[s] = "active"

\* Payment.hasActiveSubscription(user, 'default') as MeAction describes it.
HasActive == \E s \in Subs : row[s] \in Paid

(***************************************************************************)
(* Stripe's side.                                                          *)
(***************************************************************************)
\* user.checkout: a hosted page for a new subscription of this customer.
OpenCheckout(s) ==
  /\ s \notin offered \cup Strangers
  /\ offered' = offered \cup {s}
  /\ UNCHANGED <<stripe, sent, events, row, hook, written, overtaken, hookFaults>>

Report(s, kind, status) ==
  /\ stripe' = [stripe EXCEPT ![s] = status]
  /\ sent' = [sent EXCEPT ![s] = @ + 1]
  /\ events' = events \cup
       {[sub |-> s, no |-> sent[s] + 1, kind |-> kind, status |-> status]}
  /\ UNCHANGED <<offered, row, hook, written, overtaken, hookFaults>>

Pay(s) == stripe[s] = "none" /\ s \in offered \cup Strangers
          /\ \E st \in FirstStatus : Report(s, "created", st)

Change(s) == stripe[s] \notin {"none", "canceled"}
             /\ \E st \in Status \ {stripe[s], "trialing", "canceled"} :
                  Report(s, "updated", st)

Cancel(s) == stripe[s] \notin {"none", "canceled"}
             /\ Report(s, "deleted", "canceled")

(***************************************************************************)
(* The webhook.  syncSubscription finds the user by stripe_id (nobody: the *)
(* event is answered and forgotten), reads the row by provider_id, then    *)
(* updates it or inserts it; provider_id is unique.  A 'deleted' event is  *)
(* one UPDATE, which finds no row when none was written yet.               *)
(***************************************************************************)
In(h, step) == hook[h].step = step
Step(h, step) == hook' = [hook EXCEPT ![h].step = step]

Deliver(h) ==
  /\ In(h, "idle")
  /\ \E e \in events :
       hook' = [hook EXCEPT ![h] = [ev   |-> e,
                                    step |-> IF e.kind = "deleted" THEN "cancel"
                                             ELSE IF e.sub \in Strangers
                                             THEN "answer" ELSE "find"]]
  /\ UNCHANGED <<stripe, offered, sent, events, row, written, overtaken, hookFaults>>

FindRow(h) ==
  /\ In(h, "find")
  /\ Step(h, IF row[hook[h].ev.sub] = "none" THEN "insert" ELSE "update")
  /\ UNCHANGED <<stripe, offered, sent, events, row, written, overtaken, hookFaults>>

\* The write of event e: it left the row of its subscription at value.
Written(e, value) ==
  /\ row' = [row EXCEPT ![e.sub] = value]
  /\ written' = [written EXCEPT ![e.sub] = IF e.no > @ THEN e.no ELSE @]
  /\ overtaken' = IF e.no < written[e.sub] THEN overtaken \cup {e.sub}
                  ELSE overtaken
  /\ UNCHANGED <<stripe, offered, sent, events, hookFaults>>

Update(h) == In(h, "update") /\ Step(h, "answer")
             /\ Written(hook[h].ev, hook[h].ev.status)

\* Variant: the unique violation is swallowed and the event answered.
InsertSwallowed(h) ==
  LET e == hook[h].ev IN
  /\ In(h, "insert") /\ Step(h, "answer")
  /\ IF row[e.sub] = "none" THEN Written(e, e.status)
     ELSE UNCHANGED <<stripe, offered, sent, events, row, written, overtaken,
                      hookFaults>>

\* The unique index lets one of two first events in; the other throws and is
\* answered with a 400, so Stripe keeps it.
Insert(h) ==
  LET e == hook[h].ev IN
  /\ In(h, "insert")
  /\ IF row[e.sub] = "none"
     THEN Step(h, "answer") /\ Written(e, e.status)
     ELSE /\ hook' = [hook EXCEPT ![h] = Free]
          /\ UNCHANGED <<stripe, offered, sent, events, row, written, overtaken,
                         hookFaults>>

CancelRow(h) ==
  LET e == hook[h].ev IN
  /\ In(h, "cancel") /\ Step(h, "answer")
  /\ Written(e, IF row[e.sub] = "none" THEN "none" ELSE "canceled")

Answer(h) ==
  /\ In(h, "answer")
  /\ hook' = [hook EXCEPT ![h] = Free]
  /\ events' = events \ {hook[h].ev}
  /\ UNCHANGED <<stripe, offered, sent, row, written, overtaken, hookFaults>>

\* Any throw before the answer is a 400; an answer can also be lost.
HookFails(h) ==
  /\ ~In(h, "idle") /\ hookFaults < MaxHookFaults
  /\ hookFaults' = hookFaults + 1
  /\ hook' = [hook EXCEPT ![h] = Free]
  /\ UNCHANGED <<stripe, offered, sent, events, row, written, overtaken>>

HookStep(h) == \/ FindRow(h) \/ Update(h) \/ Insert(h) \/ CancelRow(h)
               \/ Answer(h)

(***************************************************************************)
(* Once Stripe has no event left and no request is at work, the row of a   *)
(* subscription says what Stripe says, unless an older event was written   *)
(* after a newer one: the 400 of a lost insert race, a database error, a   *)
(* lost answer and a second delivery all heal (StripeWebhook.ts 24-71).    *)
(***************************************************************************)
Settled(s) == /\ \A e \in events : e.sub # s
              /\ \A h \in Hooks : In(h, "idle") \/ hook[h].ev.sub # s
RowTracksStripe ==
  \A s \in Subs \ Strangers : Settled(s) /\ s \notin overtaken => row[s] = stripe[s]

BillingTypeOK ==
  /\ stripe \in [Subs -> Status \cup {"none"}] /\ offered \subseteq Subs
  /\ sent \in [Subs -> Nat] /\ events \subseteq Event
  /\ row \in [Subs -> Status \cup {"none"}]
  /\ \A h \in Hooks : In(h, "idle") \/ hook[h].ev \in Event
  /\ \A s \in Strangers : row[s] = "none"
  /\ hookFaults \in 0..MaxHookFaults
=============================================================================
