SPECIFICATION Spec
CONSTANTS
  racks = racks  blades = blades  cages = cages  sn1 = sn1
  kSn = kSn
  Category = {racks, blades, cages}
  Field = {sn1}
  Model = {}
  Vendor = {}
  Key = {kSn}
  KeyOf <- OneKey
  Computed = {}
  Unique = {sn1}
  Template = {}
  MaxPath = 3
  MaxRows = 4
  MaxBatch = 1
  Absent = Absent  NoParent = NoParent  NoVendor = NoVendor  NoModel = NoModel
  NoKey = NoKey  Idle = Idle
CHECK_DEADLOCK FALSE
INVARIANT FieldsComeFromAncestors
