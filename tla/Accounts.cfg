SPECIFICATION FairSpec
CONSTANTS
  Jobs = {j1, j2}
  Subs = {s, t}
  Strangers = {t}
  Hooks = {h1, h2}
  Rooms = {"entrance", "billing"}
  MaxFaults = 1
  MaxSlips = 1
  MaxOuts = 1
  MaxChallenges = 5
  FirstStatus = {"trialing"}
  MaxEvents = 3
  MaxHookFaults = 1
INVARIANT RowTracksStripe
INVARIANT OneCodeEach
INVARIANT NeverLinksUnverified
INVARIANT SessionsHeld
PROPERTY SignsIn
PROPERTY PaidIsShown
