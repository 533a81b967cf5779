\* The station is switched off while the portal is up.
SPECIFICATION FairSpec
CONSTANTS
  home = home
  wrong = wrong
  cafe = cafe
  NoCreds = NoCreds
  Networks = {home, wrong}
  Accepted = {home}
  Open = {}
  Stored = {wrong}
  MaxAttempts = 2
  MaxPosts = 1
PROPERTY OffIsRecovered
