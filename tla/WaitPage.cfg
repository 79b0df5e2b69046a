SPECIFICATION Spec
CONSTANTS
  Players = {me, a, b, c}
  Me = me
  Pictureless = {c}
  Peoples = 3
  Nobody = Nobody
  MaxReads = 2
INVARIANTS TypeOK EndsOnlyDisturbed MembersShown
PROPERTY EveryMemberAppears
CHECK_DEADLOCK FALSE
