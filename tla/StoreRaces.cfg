SPECIFICATION Spec
CONSTANTS
  Players = {a, b, c}
  RoomIDs = {r1}
  ShareKeys = {key}
  CallIDs = {k1, k2}
  Peoples = 2
  NoDoc = NoDoc
  NoCall = NoCall
SYMMETRY Symmetry
INVARIANTS TypeOK RoomsWellFormed OnlyEntrants
