SPECIFICATION Spec
CONSTANTS
  short = short
  long = long
  Topos = {t1}
  Docs = {short, long}
  Length <- MCLength
  Writers = {w1, w2}
  Ticker = ticker
  Main = main
  NoDoc = NoDoc
  NoFile = NoFile
  NoTopo = NoTopo
  Free = Free
  MaxFaults = 0
INVARIANTS
  FilesAlwaysLoadable
CHECK_DEADLOCK FALSE
