CONSTANTS
  Requests = {r1, r2}
  Apps = {"a", "b"}
  Devices <- MC_Devices
  ExecMayFail = TRUE
  FreedNameReused = FALSE
  GarbageVersions = {0}
SPECIFICATION Spec
INVARIANT TypeOK
INVARIANT AnswerMatchesPolicy
PROPERTY ImplementsAbstract
