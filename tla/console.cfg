SPECIFICATION MCSpec
CONSTANTS
  d1 = d1  d2 = d2  d3 = d3  c1 = c1  m1 = m1  k1 = k1  k2 = k2  x = x
  u1 = u1  u2 = u2  u3 = u3  h1 = h1  h2 = h2  l1 = l1  l2 = l2
  Newest <- ThreeDevices
  Unborn = {d3}
  Category = {c1}
  Model = {m1}
  CategoryOf <- OneCategory
  ModelOf <- TwoOfTheModel
  PageSizes <- OneOrTwo
  WalkPage = 1
  MaxClicks = 5
  MaxStirs = 1
  None = None
  Key = {k1, k2}
  Value = {x}
  FormModel = {m1}
  Defaults <- OneDefault
  Place = {"stock", "desk"}
  Nothing = Nothing  Blank = Blank
  MaxChanges = 2
  User = {u1, u2, u3}
  Role = {administrators, users, stocktakers}
  Permission = {manage, print}
  AdminRole = administrators  UserRole = users  UserSwitches = {print}  Manage = manage
  Handler = {h1, h2}
  MaxRequests = 3
  Vacant = Vacant  Gone = Gone
  Order <- TwoCategories
  Label = {l1, l2}
  LabelLists <- UpToTwoLabels
  NoLabel = NoLabel
  MaxOpenings = 1
  MaxPresses = 2
  MaxSettings = 1
  Shelf = {s1}
  File = {f1, f2}
  Unrepeatable = {f2}
  Absent = Absent
  MaxChoices = 4
  MaxUploads = 4
SYMMETRY Symmetry
CHECK_DEADLOCK FALSE
INVARIANTS ConsoleTypeOK AdminRemains RolesStayWhileUsed 
PROPERTIES CountIsHonest QuietWalksTakeAll  NothingUnseenIsOverwritten SwitchesAreExplained  ImportsAreExplained
