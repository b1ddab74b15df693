SPECIFICATION Spec
CONSTANTS
  a1 = a1  a2 = a2  shelf = shelf  desk = desk  ann = ann
  Assets = {a1, a2}
  Workers = {w1}
  Clients = {c1}
  Batches = {b1, b2}
  Locations = {shelf}
  Holders = {shelf, desk}
  Users = {ann}
  CustomKeys = {}
  Requests <- BatchRequests
  Corrections <- BatchCorrections
  EntryStates <- BatchEntries
  HomeInputs <- BatchHomes
  HomeOwnerInputs <- NoHomes
  Keep = Keep  Clear = Clear
  NoState = NoState  NoBatch = NoBatch  NoHolder = NoHolder  NoUser = NoUser
  Idle = Idle  Unborn = Unborn  Deleted = Deleted
  MaxClock = 0  MaxEvents = 3  MaxVersion = 4
CHECK_DEADLOCK FALSE
INVARIANTS BatchCorrectedTogether
PROPERTIES BatchMovesAllOrNone CheckInGoesHome KeepsCustody
