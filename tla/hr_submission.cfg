SPECIFICATION Spec
CONSTANTS
  Contents = {1, 2}
  MaxForms = 2
  MaxKeys = 4
  LossForms = {"thrown"}
  RolloutSeen = FALSE
INVARIANTS
  TypeOK
  OneRequestPerForm
  ToldTheTruth
  NoKeyConflict
\* The user may stop at any time, and does after the last form.
CHECK_DEADLOCK FALSE
