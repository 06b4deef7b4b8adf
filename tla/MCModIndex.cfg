CONSTANTS
  Uses = {"loops"}
  PrePrograms <- ThePrePrograms
  PreFiles <- ThePreFiles
  LexTexts <- TheLexTexts
  SynSources <- TheSources
  SynParsing <- TheParsing
  Declared <- TheDeclared
  DclReading <- TheReading
  UnsetPrograms <- TheUnsetPrograms
  CallPrograms <- TheCallPrograms
  CtlPrograms <- TheCtlPrograms
  FixPrograms <- TheFixPrograms
  LoopPrograms <- TheLoopPrograms
  DriverVersions <- TheDriverVersions
  DriverCommands <- TheDriverCommands
  DriverRuns = {p, q}
  Jobs <- TheJobs
  StrLiterals <- TheLiterals
SPECIFICATION MCSpec
INVARIANTS ModExact
CHECK_DEADLOCK FALSE
