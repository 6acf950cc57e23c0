SPECIFICATION Spec
CONSTANTS
  MaxPlans = 1
  PlanLen = 2
  MaxChanges = 1
  MaxDeaths = 0
  None = None
PROPERTIES DriftAsksAgain
CHECK_DEADLOCK FALSE
