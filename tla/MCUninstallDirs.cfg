SPECIFICATION Spec
CONSTANTS
  a = a  b = b  dll = dll  exe = exe  dat1 = dat1
  root = root  vendor = vendor  appA = appA  appB = appB  sub = sub  common = common
  NoTmp = NoTmp  NoLog = NoLog  Reserved = Reserved
  Apps <- SharedApps
  Files <- VendorFiles
  Dirs <- VendorDirs
  Root = root
  Parent <- VendorParent
  DirOf <- VendorDirOf
  AppDir <- SharedAppDir
  ExtraDirs <- VendorExtraDirs
  Entries <- VendorEntries
  MaxSessions = 2
  MaxFaults = 1
  CrashIn <- None
INVARIANT UninstallLeavesNoEmptyDir
PROPERTY RestartRemovesDirs
CHECK_DEADLOCK FALSE
