SPECIFICATION Spec
CONSTANTS
  MaxMeetings = 1
  MaxEgress = 2
  Requests = {r1, r2}
  Finals = {"COMPLETE", "FAILED"}
  RoomFields = {TRUE}
  AttachFirst = TRUE
SYMMETRY Symmetry
INVARIANTS TypeOK OneEntryPerEgress RecordingsSettle
PROPERTY StopStopsAll
