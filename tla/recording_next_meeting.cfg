SPECIFICATION Spec
CONSTANTS
  MaxMeetings = 2
  MaxEgress = 1
  Requests = {r1}
  Finals = {"COMPLETE", "FAILED"}
  RoomFields = {TRUE}
  AttachFirst = TRUE
INVARIANT RecordingsSettle
