\* Two claimers race, crash and fail over four jobs.
SPECIFICATION Spec
CONSTANTS
  Job = {j1, j2, j3, j4}
  NoJob = NoJob
  Claimer = {c1, c2}
  MayFail = TRUE
  MayCrash = TRUE
SYMMETRY Symmetry
INVARIANTS NoneSkipped OncePerClaimer
