SPECIFICATION AwakeSpec
CONSTANTS
  Players = {a, b}
  RoomIDs = {r1}
  ShareKeys = {key}
  CallIDs = {k1}
  Peoples = 2
  NoDoc = NoDoc
  NoCall = NoCall
  NoRoom = NoRoom
  NoProfile = NoProfile
  NoListener = NoListener
  MaxUpdates = 1
SYMMETRY Symmetry
PROPERTY StoreUsed
CHECK_DEADLOCK FALSE
