CONSTANTS
  sub1 = sub1
  sub2 = sub2
  leaf1 = leaf1
  leaf2 = leaf2
  Fields = {"field"}
  Subfields = {sub1, sub2}
  Leaves = {leaf1, leaf2}
  Absent = Absent
  NoSave = NoSave
  MaxOperations = 3
  MaxOthers = 1
  MaxSaves = 1
SPECIFICATION EditingSpec
CHECK_DEADLOCK FALSE
PROPERTIES
  UnrelatedEditsCompose
