CONSTANTS
  INPUT_BUF = 2
  Width = 4
  NPROC = 2
  NCPU = 2
  Settings <- MCSettings
  None = None
SPECIFICATION FairSpec
INVARIANTS  NoOversleep
PROPERTIES TerminalSpec CallsReturn
