SPECIFICATION Spec
CONSTANTS
  Users = {u1}
  Instances = {i1, i2}
  Tabs = {t1, t2}
  Events = {"join", "leave", "dropEarly"}
SYMMETRY Symmetry
INVARIANTS TypeOK OnlineAtOneInstance OfflineAfterLast SubscribedMembers
CHECK_DEADLOCK FALSE
