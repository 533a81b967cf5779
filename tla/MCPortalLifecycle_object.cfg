\* The portal is started, asked, stopped and started again.
SPECIFICATION LifeSpec
CONSTANTS
  home = home
  NoCreds = NoCreds
  Networks = {home}
  Accepted = {home}
  Open = {}
  Stored = {NoCreds}
  MaxAttempts = 1
  MaxPosts = 1
  MaxRuns = 2
INVARIANT LifeInv
PROPERTIES
  Spec
  Lifecycle
