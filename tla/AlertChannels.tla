---------------------------- MODULE AlertChannels ----------------------------
(* The alert channels of a project: their rows, the routes that add, toggle, *)
(* test and remove one (routes/projects.ts), and the list on the settings    *)
(* page that calls them.  Calls are answered in any order; the page keeps    *)
(* one timer for all channels and changes a switch before it is answered.    *)
EXTENDS Naturals, FiniteSets

CONSTANTS
  Channel,      \* ids of channels, each given out once
  Call,         \* calls under way at once
  MaxClicks,    \* bound: clicks, reloads and changes made elsewhere
  MaxLost       \* bound: calls that fail, do not arrive or whose answer does not

ASSUME ChannelsAssumption == MaxClicks \in Nat /\ MaxLost \in Nat

VARIABLES
  row,          \* row[c]: "none", "gone", "on" or "off"
  listed,       \* the channels the page shows
  switch,       \* switch[c]: shown as on
  busy,         \* busy[c]: the text in place of the button's, "" for none
  busyChannel,  \* the channel whose text the timer clears
  armed,        \* the timer runs
  adding,       \* the form is being sent
  call,         \* the calls: what each asks of which channel and how far it is
  clicks, lost, \* so far
  disturbed     \* history: channels about which the page was not told all

pageVars == <<listed, switch, busy, busyChannel, armed, adding>>
channelVars == <<row, pageVars, call, clicks, lost, disturbed>>

\* A call is heard as long as the page that made it waits for its answer.
Free == [kind |-> "none", of |-> "none", next |-> FALSE, at |-> "free", heard |-> FALSE]

Stored(c) == row[c] \in {"on", "off"}

ChannelsInit ==
  /\ row \in [Channel -> {"none", "on"}]
  /\ listed = { c \in Channel : Stored(c) }
  /\ switch = [c \in Channel |-> row[c] = "on"]
  /\ busy = [c \in Channel |-> ""] /\ busyChannel = "none"
  /\ armed = FALSE /\ adding = FALSE
  /\ call = [k \in Call |-> Free]
  /\ clicks = 0 /\ lost = 0 /\ disturbed = {}

Clicked == clicks < MaxClicks /\ clicks' = clicks + 1 /\ UNCHANGED lost

Sends(k, kind, c, next) ==
  /\ call[k].at = "free"
  /\ call' = [call EXCEPT ![k] = [kind |-> kind, of |-> c, next |-> next,
                                  at |-> "sent", heard |-> TRUE]]

-----------------------------------------------------------------------------
(* Clicks on the page.                                                       *)

Waiting(kind, c) == \E k \in Call : call[k].heard /\ call[k].kind = kind /\ call[k].of = c

\* The switch is moved at once, and may be moved again before the answer.
Toggle(k, c) ==
  /\ c \in listed /\ Clicked
  /\ Sends(k, "toggle", c, ~switch[c])
  /\ switch' = [switch EXCEPT ![c] = ~@]
  /\ disturbed' = IF Waiting("toggle", c) THEN disturbed \cup {c} ELSE disturbed
  /\ UNCHANGED <<row, listed, busy, busyChannel, armed, adding>>

\* Both buttons are guarded by one text, so neither works until it is cleared.
Press(k, c, kind, text) ==
  /\ c \in listed /\ busy[c] = "" /\ Clicked
  /\ Sends(k, kind, c, FALSE)
  /\ busy' = [busy EXCEPT ![c] = text]
  /\ UNCHANGED <<row, listed, switch, busyChannel, armed, adding, disturbed>>

Test(k, c) == Press(k, c, "test", "sending")
Remove(k, c) == Press(k, c, "remove", "removing")

\* The button takes no click while it spins.
Add(k) ==
  /\ ~adding /\ Clicked
  /\ Sends(k, "add", "none", FALSE)
  /\ adding' = TRUE
  /\ UNCHANGED <<row, listed, switch, busy, busyChannel, armed, disturbed>>

\* The page is rendered anew, as after a 401 too: nothing that is still on its way is heard, and
\* what it has yet to change will not show.
Rendered ==
  /\ listed' = { c \in Channel : Stored(c) }
  /\ switch' = [c \in Channel |-> row[c] = "on"]
  /\ busy' = [c \in Channel |-> ""] /\ armed' = FALSE /\ adding' = FALSE
  /\ disturbed' = { c \in Channel : \E k \in Call : /\ call[k].at = "sent" /\ call[k].of = c
                                                    /\ call[k].kind \in {"toggle", "remove"} }
  /\ UNCHANGED <<row, busyChannel>>

Reload ==
  /\ Clicked /\ Rendered
  /\ call' = [k \in Call |-> [call[k] EXCEPT !.heard = FALSE]]

-----------------------------------------------------------------------------
(* The routes, one statement each but for the test's message.                *)

Answered(k, answer) == call' = [call EXCEPT ![k].at = answer]

Serve(k) ==
  LET c == call[k].of IN
  /\ call[k].at = "sent"
  /\ CASE call[k].kind \in {"toggle", "test", "remove"} /\ ~Stored(c) ->
            Answered(k, "refused") /\ UNCHANGED row
       [] call[k].kind = "toggle" /\ Stored(c) ->
            /\ Answered(k, "done")
            /\ row' = [row EXCEPT ![c] = IF call[k].next THEN "on" ELSE "off"]
       [] call[k].kind = "remove" /\ Stored(c) ->
            Answered(k, "done") /\ row' = [row EXCEPT ![c] = "gone"]
       [] call[k].kind = "test" /\ Stored(c) -> Answered(k, "posting") /\ UNCHANGED row
       [] call[k].kind = "add" ->
            \/ Answered(k, "refused") /\ UNCHANGED row        \* validateWebhook
            \/ \E new \in Channel :
                 /\ row[new] = "none"
                 /\ Answered(k, "done") /\ row' = [row EXCEPT ![new] = "on"]
  /\ UNCHANGED <<pageVars, clicks, lost, disturbed>>

\* sendTestAlert: the provider answers, or its five seconds are over.
Posted(k) ==
  /\ call[k].at = "posting"
  /\ \E answer \in {"done", "refused"} : Answered(k, answer)
  /\ UNCHANGED <<row, pageVars, clicks, lost, disturbed>>

\* The route throws before its statement has an effect.
Fails(k) ==
  /\ call[k].at = "sent" /\ lost < MaxLost /\ lost' = lost + 1
  /\ Answered(k, "refused")
  /\ UNCHANGED <<row, pageVars, clicks, disturbed>>

\* Another page, or another member, changes or removes the channel.
Elsewhere(c) ==
  /\ Stored(c) /\ Clicked
  /\ \E value \in {"on", "off", "gone"} : row' = [row EXCEPT ![c] = value]
  /\ disturbed' = disturbed \cup {c}
  /\ UNCHANGED <<pageVars, call>>

-----------------------------------------------------------------------------
(* Answers on the page.                                                      *)

\* Mutant: the switch stays where it was moved.
ShownAsMoved(k, ok) == switch[call[k].of]

\* A toggle that succeeded leaves the switch alone, whatever has become of it;
\* one that did not shows the opposite of what was asked.
ShownAfter(k, ok) == IF ok THEN switch[call[k].of] ELSE ~call[k].next

\* What the handler that waits for the call makes of its answer, or of none.
Told(k, ok) ==
  LET c == call[k].of IN
  CASE call[k].kind = "toggle" ->
         /\ switch' = [switch EXCEPT ![c] = ShownAfter(k, ok)]
         /\ UNCHANGED <<listed, busy, busyChannel, armed, adding>>
    [] call[k].kind = "test" ->
         /\ busy' = [busy EXCEPT ![c] = IF ok THEN "sent" ELSE "failed"]
         /\ busyChannel' = c /\ armed' = TRUE
         /\ UNCHANGED <<listed, switch, adding>>
    [] call[k].kind = "remove" ->
         /\ busy' = [busy EXCEPT ![c] = ""]
         /\ listed' = IF ok THEN listed \ {c} ELSE listed
         /\ UNCHANGED <<switch, busyChannel, armed, adding>>
    [] call[k].kind = "add" ->
         /\ adding' = FALSE
         /\ UNCHANGED <<listed, switch, busy, busyChannel, armed>>

\* clearBusy starts the timer again, for this channel and no longer the last.
Overtaken(k) ==
  { c \in Channel : call[k].kind = "test" /\ armed /\ busyChannel = c /\ call[k].of # c }

\* A channel that was added is shown by a page of its own.
Arrives(k) ==
  /\ call[k].at \in {"done", "refused"}
  /\ CASE ~call[k].heard -> UNCHANGED <<pageVars, disturbed>> /\ call' = [call EXCEPT ![k] = Free]
       [] call[k].heard /\ call[k].kind = "add" /\ call[k].at = "done" ->
            /\ Rendered
            /\ call' = [i \in Call |-> IF i = k THEN Free ELSE [call[i] EXCEPT !.heard = FALSE]]
       [] OTHER -> /\ Told(k, call[k].at = "done")
                   /\ call' = [call EXCEPT ![k] = Free]
                   /\ disturbed' = disturbed \cup Overtaken(k)
  /\ UNCHANGED <<row, clicks, lost>>

\* The network fails, before the call got there or on the way back.
Unanswered(k) ==
  /\ call[k].at \in {"sent", "done"} /\ call[k].heard
  /\ lost < MaxLost /\ lost' = lost + 1
  /\ Told(k, FALSE)
  /\ call' = [call EXCEPT ![k] = Free]
  /\ disturbed' = disturbed \cup Overtaken(k)
                    \cup { c \in Channel : call[k].at = "done" /\ call[k].of = c }
  /\ UNCHANGED <<row, clicks>>

ResetBusy ==
  /\ armed /\ armed' = FALSE
  /\ busy' = [busy EXCEPT ![busyChannel] = ""]
  /\ UNCHANGED <<row, listed, switch, busyChannel, adding, call, clicks, lost, disturbed>>

-----------------------------------------------------------------------------
CallStep(k) == Serve(k) \/ Posted(k) \/ Arrives(k)

ChannelsNext ==
  \/ \E k \in Call : \/ \E c \in Channel : Toggle(k, c) \/ Test(k, c) \/ Remove(k, c)
                     \/ Add(k) \/ CallStep(k)
                     \/ Fails(k) \/ Unanswered(k)
  \/ Reload \/ ResetBusy
  \/ \E c \in Channel : Elsewhere(c)

\* The server works on what it has and answers it, and the page's timer fires.
ChannelsFairness ==
  (\A k \in Call : WF_channelVars(CallStep(k))) /\ WF_channelVars(ResetBusy)

ChannelsSpec == ChannelsInit /\ [][ChannelsNext]_channelVars /\ ChannelsFairness

-----------------------------------------------------------------------------
\* Nothing of c is on its way, its buttons work, and what is shown is stored.
SettledOn(c) ==
  /\ \A k \in Call : ~(call[k].heard /\ call[k].of = c)
  /\ busy[c] = ""
  /\ c \in listed => row[c] = IF switch[c] THEN "on" ELSE "off"

\* settings.stx:1078, "so the switch never claims a state the server rejected",
\* and :701, "Clear a channel's transient status label shortly after it is
\* shown": however a channel's calls interleave with those of the others and
\* whatever is refused, its buttons come back and its switch ends on what is
\* stored.  Not so after two toggles of it at once, an answer lost on the way
\* back, a change made elsewhere, or the text of another channel that took the
\* one timer from it.
ChannelsSettle == \A c \in Channel : []<>(c \in disturbed \/ SettledOn(c))

=============================================================================
