SPECIFICATION FairSpec
CONSTANTS
  k1 = k1  k2 = k2  a = a  b = b  c = c
  NoKid = NoKid  NoToken = NoToken
  Requests = {r1, r2}
  MaxRotations = 2
  NoKeys <- NoKeysDef
  KeySets <- KeySetsDef
  Tokens <- TokensDef
INVARIANT TypeOK
INVARIANT PublishedKeyFound
INVARIANT OnlyPublishedKeys
PROPERTY RefusalsEnd
