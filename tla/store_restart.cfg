SPECIFICATION Spec
CONSTANTS
  Data = {d0}
  FirstData = d0
  Secrets = {s1}
  NoSecret = none
  Events = {e1}
  MaxEvents = 1
  Writers = {w1}
  Readers = {r1}
  NoWriter = nobody
  Partial = partial
INVARIANT RestartRestoresMemory
