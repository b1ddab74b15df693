SPECIFICATION Spec
CONSTANTS
  a1 = a1  a2 = a2  shelf = shelf  desk = desk  ann = ann
  Assets = {a1}
  Workers = {w1, w2}
  Clients = {c1}
  Batches = {}
  Locations = {}
  Holders = {shelf}
  Users = {ann}
  CustomKeys = {"on_loan"}
  Requests <- RaceRequests
  Corrections <- RaceCorrections
  EntryStates <- RaceEntries
  HomeInputs <- NoHomes
  HomeOwnerInputs <- NoHomes
  Keep = Keep  Clear = Clear
  NoState = NoState  NoBatch = NoBatch  NoHolder = NoHolder  NoUser = NoUser
  Idle = Idle  Unborn = Unborn  Deleted = Deleted
  MaxClock = 2  MaxEvents = 3  MaxVersion = 3
SYMMETRY Symmetry
CHECK_DEADLOCK FALSE
PROPERTIES DeletedStatusIsUnused
