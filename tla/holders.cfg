SPECIFICATION Spec
CONSTANTS
  acme = acme  ops = ops  depot = depot  annex = annex
  Entities = {acme, ops, depot, annex}
  Handlers = {h1, h2}
  Assets = {a1}
  Columns = {"home"}
  Founding <- OldTree
  Elsewhere = Elsewhere  NoParent = NoParent  Blank = Blank
  Idle = Idle  Unborn = Unborn  Deleted = Deleted
SYMMETRY Symmetry
CHECK_DEADLOCK FALSE
INVARIANTS TypeOK TreeIsProper DefaultStockIsOneLocation
