SPECIFICATION Spec
CONSTANTS
  Answers = {"old", "part", "whole"}
  NoAnswer = "none"
  Valid = {"old", "whole"}
  Stall = 2
  Hard = 5
  Whole = 5
  MaxPoll = 1
INVARIANTS
  AnswerSettled
  AnswerNotMissed
  StallIsStall
  GivenUpInTime
CHECK_DEADLOCK FALSE
