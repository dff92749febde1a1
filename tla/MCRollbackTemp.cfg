SPECIFICATION Spec
CONSTANTS
  a = a  b = b  dll = dll  exe = exe  dat1 = dat1
  root = root  vendor = vendor  appA = appA  appB = appB  sub = sub  common = common
  NoTmp = NoTmp  NoLog = NoLog  Reserved = Reserved
  Apps <- AssemblyApps
  Files <- AssemblyFiles
  Dirs <- SharedDirs
  Root = root
  Parent <- SharedParent
  DirOf <- AssemblyDirOf
  AppDir <- AssemblyAppDir
  ExtraDirs <- SharedExtraDirs
  Entries <- AssemblyEntries
  MaxSessions = 1
  MaxFaults = 2
  CrashIn <- None
INVARIANT RollbackLeavesNothing
CHECK_DEADLOCK FALSE
