CONSTANTS
  alice = alice
  bob = bob
  a1 = a1
  b1 = b1
  Principals = {alice, bob}
  Keys = {"k1"}
  Values = {a1, b1}
  None = None
  Same = Same
  NoRequest = NoRequest
  NoPage = NoPage
  MaxOrphans = 1
  Choosable <- MCChoosable
  Elsewhere <- MCElsewhere
  op1 = op1
  op2 = op2
  Operations = {op1, op2}
  MaxCalls = 2
  Retention = 1
  MaxEntries = 1
  MaxKeys = 3
  MaxIntents = 2
  NoLease = NoLease
  NoCall = NoCall
  sub1 = sub1
  sub2 = sub2
  leaf1 = leaf1
  leaf2 = leaf2
  Fields = {"field"}
  Subfields = {sub1, sub2}
  Leaves = {leaf1, leaf2}
  Absent = Absent
  NoSave = NoSave
  MaxOperations = 3
  MaxOthers = 1
  MaxSaves = 1
  list1 = list1
  list2 = list2
  Lists = {list1, list2}
  FirstPage = FirstPage
  LastPage = 2
  MaxHistory = 1
  MaxGoing = 2
  MaxTasks = 3
  Window = 2
  item1 = item1
  item2 = item2
  Items = {item1, item2}
  NoQuestion = NoQuestion
  MaxBatches = 2
  backup1 = backup1
  backup2 = backup2
  Backups = {backup1, backup2}
  NoBackup = NoBackup
  MaxStagings = 2
SPECIFICATION BrowserSpec
CHECK_DEADLOCK FALSE
INVARIANTS
  TypeOK
  EditsSurvive
  EditsShown
  OwnAccountOnly
  PendingHasTrigger
  OneTaskPerIntent
  NewIntentNewTask
  HistoryComesBack
  AnnouncedOnce
  DeletesAsAsked
  PhraseIsForStaged
PROPERTIES
  SaveMerges
  KeepsPromise
