SPECIFICATION ChatSpec
CONSTANTS
  q1 = q1
  q2 = q2
  Question = {q1, q2}
  Agent = {"research", "alert"}
  MaxRounds = 2
CHECK_DEADLOCK FALSE
INVARIANTS
  RefusalStands
