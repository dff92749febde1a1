SPECIFICATION Spec
CONSTANTS
  a = a  b = b  dll = dll  exe = exe  dat1 = dat1
  root = root  vendor = vendor  appA = appA  appB = appB  sub = sub  common = common
  NoTmp = NoTmp  NoLog = NoLog  Reserved = Reserved
  Apps <- SharedApps
  Files <- SharedFiles
  Dirs <- SharedDirs
  Root = root
  Parent <- SharedParent
  DirOf <- SharedDirOf
  AppDir <- SharedAppDir
  ExtraDirs <- SharedExtraDirs
  Entries <- SharedEntries
  MaxSessions = 2
  MaxFaults = 2
  CrashIn <- Installs
INVARIANT NoReferencesLeaked
INVARIANT RollbackLeavesNothing
PROPERTY SharedFileKept
PROPERTY RollbackSparesOthers
CHECK_DEADLOCK FALSE
