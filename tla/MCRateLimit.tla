---------------------------- MODULE MCRateLimit ----------------------------
(* Two processes, each with a request; and, in behaviours of their own, two *)
(* alert channels on a settings page with two calls under way.  Nothing is  *)
(* shared between the two.                                                  *)
EXTENDS RateLimit, AlertChannels, TLC

CONSTANTS d, e, x, y

VARIABLE looking     \* at "limits" or at "channels"

TwoNodes == (x :> d) @@ (y :> e)

\* What is not looked at stays as it is when nothing has happened.
SmallInit ==
  /\ Init /\ ChannelsInit
  /\ looking \in {"limits", "channels"}
  /\ looking = "limits" => \A c \in Channel : row[c] = "none"

SmallNext ==
  \/ looking = "limits" /\ Next /\ UNCHANGED <<channelVars, looking>>
  \/ looking = "channels" /\ ChannelsNext /\ UNCHANGED <<vars, looking>>

SmallSpec ==
  /\ SmallInit /\ [][SmallNext]_<<vars, channelVars, looking>>
  /\ Fairness /\ ChannelsFairness
=============================================================================
