SPECIFICATION FairSpec
CONSTANTS
  Data = {d0}
  FirstData = d0
  Secrets = {s1}
  NoSecret = none
  Events = {e1, e2}
  MaxEvents = 1
  Writers = {w1, w2}
  Readers = {r1}
  NoWriter = nobody
  Partial = partial
INVARIANTS TypeOK FileIsSnapshot
PROPERTIES ImplementsAtomicStore CallsReturn
