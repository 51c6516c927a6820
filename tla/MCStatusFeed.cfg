\* Two transitions and two toasts on a channel that holds two events.
SPECIFICATION FairSpec
CONSTANTS
  BROADCAST_CAP = 2
  MaxFlips = 3
  MaxToasts = 2
  MaxRestarts = 1
INVARIANT NoTransitionMissed
PROPERTY StatusSettles
