SPECIFICATION Spec
CONSTANTS
  CHUNK = 2
  Sizes = {3, 5, 6}
  Numbers = {0, 1, 4}
  MaxFaults = 2
INVARIANTS TypeOK PassMeansSelected CountsAgree
PROPERTIES AnswersMatch SessionEnds Recovers
