SPECIFICATION Spec
CONSTANTS
  Players = {a}
  RoomIDs = {r1, r2}
  ShareKeys = {key}
  CallIDs = {k1, k2}
  Peoples = 2
  NoDoc = NoDoc
  NoCall = NoCall
  NoRoom = NoRoom
  NoProfile = NoProfile
  NoListener = NoListener
  MaxUpdates = 1
SYMMETRY Symmetry
PROPERTY RefusedCreateMakesNoRoom
