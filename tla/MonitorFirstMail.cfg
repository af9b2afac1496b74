SPECIFICATION Spec
CONSTANTS
  a = a
  b = b
  foreign = foreign
  Null = Null
  Absent = Absent
  NoSlot = NoSlot
  Key <- MCKey
  Fragment <- MCFragment
  Value = {v, w, Null}
  Slot = {s1, s2, s3}
  ClientSlot = s3
  ClientData = {v}
  Signature = {e1}
  MaxTrouble = 0
PROPERTY
  FirstMailListsAll
