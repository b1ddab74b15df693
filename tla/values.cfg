SPECIFICATION MCSpec
CONSTANTS
  racks = racks  blades = blades  sn = sn  label = label  m1 = m1  kSn = kSn  kLabel = kLabel
  lower = lower  upper = upper  other = other
  Category = {racks, blades}
  Field = {sn, label}
  Model = {m1}
  Vendor = {}
  Key = {kSn, kLabel}
  KeyOf <- SnAndLabel
  Computed = {label}
  Unique = {sn}
  Template <- SnOrNothing
  MaxPath = 2
  MaxRows = 4
  MaxBatch = 1
  Absent = Absent  NoParent = NoParent  NoVendor = NoVendor  NoModel = NoModel
  NoKey = NoKey  Idle = Idle
  Asset = {a1, a2}
  Session = {s1}
  Value = {upper, other}
  Typed = {lower, other}
  Normal <- OneSpelling
  Render <- Show
  Nothing = Nothing
  MaxVersion = 2
  MaxEdits = 1
SYMMETRY Symmetry
CHECK_DEADLOCK FALSE
INVARIANTS StoreTypeOK
PROPERTIES IndexesStayBacked ValuesChangeWhenAsked 
