SPECIFICATION FairSpec
CONSTANTS
  fa = fa
  fb = fb
  da = da
  top = top
  me = me
  other = other
  File <- MCFile
  Dir <- MCDir
  Root = top
  In <- MCIn
  Ip <- MCIp
  Me = me
  Scripts <- MCScripts
  OnDisk <- MCOnDisk
  DirsOnDisk <- MCDirsOnDisk
  Now = 5
  Editable <- MCFile
  MaxEdit = 2
  MaxTask = 3
INVARIANTS TypeOK OneWriter NoEcho ToldHeld   OneEntryPerName
PROPERTIES Handled 
CHECK_DEADLOCK FALSE
