SPECIFICATION OrderlySpec
CONSTANTS
  Players = {a, b, c}
  RoomIDs = {r1, r2}
  ShareKeys = {key}
  CallIDs = {k1, k2}
  Peoples = 2
  NoDoc = NoDoc
  NoCall = NoCall
INVARIANTS OwnerIsMember
SYMMETRY Symmetry
PROPERTY Membership
