SPECIFICATION Spec
CONSTANTS
  Parties <- MCParties
  NoteCount = 3
  LimitValue = 2
  LimitTotal = 3
  LimitCount = 2
  Absent = Absent
INVARIANTS NoSpoofing NothingMissed NotesFit
PROPERTIES Settles OthersKept RevertRestores SupersededExpires
