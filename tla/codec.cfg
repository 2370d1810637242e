SPECIFICATION Spec
CONSTANTS
  Lines <- MCLines
  Numerals <- MCNumerals
  Announced <- MCAnnounced
  Room = 22
  MaxTexts = 4
INVARIANTS
  CommandSurvives
  ReplicasAgree
  FieldsSurvive
CHECK_DEADLOCK FALSE
