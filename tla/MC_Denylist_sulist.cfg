CONSTANTS
  Requests = {r1, r2}
  Apps = {"a", "b"}
  Devices <- MC_SulistDevices
  ExecMayFail = FALSE
  FreedNameReused = FALSE
  GarbageVersions = {0}
SYMMETRY Sym
SPECIFICATION Spec
INVARIANT AnswerMatchesPolicy
