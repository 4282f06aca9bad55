SPECIFICATION FairSpec
CONSTANTS
  Users = {u1}
  Instances = {i1, i2}
  Tabs = {t1}
  Events = {"leave", "join", "redeem", "dropEarly", "fail", "age", "crash"}

PROPERTIES PresenceEnds
CHECK_DEADLOCK FALSE
