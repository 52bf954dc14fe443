SPECIFICATION Spec
CONSTANTS
  Names = {a, b}
  Routes = {r}
  Labels = {L, M}
  MaxOps = 4
  MaxRoutes = 2
  MaxRuns = 2
INVARIANTS
  IndexesAgree
  OnlyBulkWritesTear
PROPERTY
  GraphStoreSpec
