\* Both modes; streams may end early or hold text back.
SPECIFICATION FairSpec
CONSTANTS
  expected_output_len = 5
  MaxWithheld = 2
  MaxFaults = 4
INVARIANTS TypeOK CompleteIsWhole CountIsClose CompleteIsEnough
PROPERTIES NothingForgotten EventuallyComplete
