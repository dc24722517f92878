SPECIFICATION FairSpec
CONSTANTS
  Requests = {r1, r2, r3, r4}
  MaxWrong = 4
  Cooldown = 2
  MaxLinks = 2
INVARIANTS TypeOK AttemptsBounded FreshLinkUncooled
PROPERTY CooldownEnds
