\* A portal after the portal was stopped.
SPECIFICATION FairSpec
CONSTANTS
  home = home
  wrong = wrong
  cafe = cafe
  NoCreds = NoCreds
  Networks = {home, wrong}
  Accepted = {home}
  Open = {}
  Stored = {home}
  MaxAttempts = 2
  MaxPosts = 1
PROPERTY PortalServesAgain
