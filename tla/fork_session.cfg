SPECIFICATION Spec
CONSTANTS
  f1 = f1
  f2 = f2
  Forks = {f1, f2}
  Tools = {t1}
  Configs <- MCConfigs
  Reports <- MCReports
  Pinned = {f1}
  MaxCut = 1
CHECK_DEADLOCK FALSE
INVARIANT ExitMatchesReport
INVARIANT DiskMatchesExit
INVARIANT BrokenFilesHaveCulprits
