CONSTANTS
  Uses = {"preprocessor", "lexer", "syntax", "declare", "unset", "calls",
          "controlled", "fixed", "loops", "driver", "numbers", "strings"}
  PrePrograms <- ThePrePrograms
  PreFiles <- ThePreFiles
  LexTexts <- TheLexTexts
  SynSources <- TheSources
  SynParsing <- TheParsing
  Declared <- TheDeclared
  DclReading <- TheReading
  UnsetPrograms <- TheUnsetPrograms
  CallPrograms <- TheCallPrograms
  CtlPrograms <- TheCtlPrograms
  FixPrograms <- TheFixPrograms
  LoopPrograms <- TheLoopPrograms
  DriverVersions <- TheDriverVersions
  DriverCommands <- TheDriverCommands
  DriverRuns = {p, q}
  Jobs <- TheJobs
  StrLiterals <- TheLiterals
SYMMETRY DriverSymmetry
SPECIFICATION MCSpec
INVARIANTS
  PreprocessExact
  LexExact
  ParserExact
  UnsetExact
  CallsSound
  ReferencesExact
  FixedExact
  DoExact
  DriverSound
  NumbersExact
  
CHECK_DEADLOCK FALSE
