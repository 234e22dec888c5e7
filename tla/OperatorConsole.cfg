SPECIFICATION ConsoleSpec
CONSTANTS
  writer = writer
  scout = scout
  search = search
  browser = browser
  draft = draft
  crawler = crawler
  Requests = {r1, r2}
  Sessions = {s1, s2}
  Agents = {scout, writer}
  BuildOrder <- MCBuildOrder
  Refs <- MCRefs
  Servers <- MCServers
  Function <- MCFunction
  SideEffect <- MCSideEffect
  Toolkit <- MCToolkit
  Exposes <- MCExposes
  Configs <- MCConfigs
  Filings <- MCFilings
  ServedConfigs <- MCServedConfigs
  MaxRestarts = 1
INVARIANTS OverStaysOver  RunsAreGranted AgentsAreWhole PagesResolve
SYMMETRY Symmetry
CHECK_DEADLOCK FALSE
