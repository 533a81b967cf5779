\* A new device: the portal comes and goes.
SPECIFICATION FairSpec
CONSTANTS
  home = home
  wrong = wrong
  cafe = cafe
  NoCreds = NoCreds
  Networks = {home, cafe}
  Accepted = {home, cafe}
  Open = {cafe}
  Stored = {NoCreds}
  MaxAttempts = 2
  MaxPosts = 1
INVARIANTS
  ErasedAfterPolls
  PortalOpenUntilConnected
PROPERTIES
  PortalComesUp
  ConnectedClosesPortal
  
