CONSTANTS
  E = E  I1 = I1  I2 = I2  P = P  A = A  B = B  c1 = c1  c2 = c2  c3 = c3
  L1 = L1  L2 = L2
  Modules <- MCModules
  Layouts <- MCLayouts
  Layout <- MCLayout
  Provider <- MCProvider
  Exporter = E
  Cells <- MCCells
  ConstructBeforeUse = TRUE
  LazyCommit = FALSE
  FlatFits <- MCFlatFits
  Leaves <- MCLeaves
  LeafOf <- MCLeafOf
SPECIFICATION Spec
INVARIANTS
  TypeOK
  NoLayoutConfusion
  NoNullPagemapUse
  NoSetLost
