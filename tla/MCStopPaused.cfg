SPECIFICATION Spec
CONSTANTS
  Workers = {w1, w2}
  GuestMain = w1
  UserActs = {"toggle", "menu"}
PROPERTY JoinEnds
CHECK_DEADLOCK FALSE
