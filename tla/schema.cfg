SPECIFICATION MCSpec
CONSTANTS
  racks = racks  blades = blades  sn1 = sn1  sn2 = sn2  label = label
  kSn = kSn  kLabel = kLabel
  Category = {racks, blades}
  Field = {sn1, sn2, label}
  Model = {m1}
  Vendor = {v1}
  Key = {kSn, kLabel}
  KeyOf <- TwoKeys
  Computed = {label}
  Unique = {sn1}
  Template <- SmallTemplates
  MaxPath = 2
  MaxRows = 4
  MaxBatch = 2
  Absent = Absent  NoParent = NoParent  NoVendor = NoVendor  NoModel = NoModel
  NoKey = NoKey  Idle = Idle
  mine = mine  theirs = theirs  old = old  new = new  branch = branch
  office = office  gateway = gateway  maker = maker  w1 = w1  w2 = w2
  FieldDialog = {mine, theirs}
  Rule = {old, new}
  Shelves = {branch, office}
  Makes = {gateway, maker}
  Relatives <- ModelAndVendor
  Call = {w1, w2}
  MaxEdits = 2
  Closed = Closed
SYMMETRY Symmetry
CHECK_DEADLOCK FALSE
INVARIANTS FieldsTypeOK SidesExclude  TicksAreTrue
PROPERTIES KeysStayDistinct InputsStayBound DisplayKeysStayUsable
