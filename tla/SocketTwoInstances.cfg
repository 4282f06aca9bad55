SPECIFICATION Spec
CONSTANTS
  Users = {u1}
  Instances = {i1, i2}
  Tabs = {t1}
  Events = {}

INVARIANTS OnlineWhileConnected
CHECK_DEADLOCK FALSE
