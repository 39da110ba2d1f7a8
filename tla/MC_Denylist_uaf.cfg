CONSTANTS
  Requests = {r1, r2}
  Apps = {"a", "b"}
  Devices <- MC_Devices
  ExecMayFail = FALSE
  FreedNameReused = TRUE
  GarbageVersions = {0}
SYMMETRY Sym
SPECIFICATION Spec
INVARIANT AnswerMatchesPolicy
