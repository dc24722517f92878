SPECIFICATION Spec
CONSTANTS
  Guest = Guest  NoInput = NoInput
  Requests = {r1, r2}
  Half = 128  Minute = 3  DefaultLife = 5
  SuffixLen = 1
  MaxRoomLen = 5
  Users <- UsersDef
  Minutes <- MinutesDef
  Inputs <- InputsDef
  Texts <- TextsDef
  Folded <- FoldedDef
  Ids <- IdsDef
  ShortIds <- ShortIdsDef
INVARIANT TypeOK
INVARIANT AdminTokensManage
INVARIANT SeesWhatHeEnters
INVARIANT CreatorInControl
INVARIANT OwnNameFinds
INVARIANT TokensExpire
PROPERTY PatchesMerge
