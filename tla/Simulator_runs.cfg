SPECIFICATION FairSpec
CONSTANTS
  CommandLines <- SomeCommandLines
  Unknown = {"-x"}
  FileSystem <- SomeFiles
  RunLengths = {1, 9}
  Answers <- SomeAnswers
  Enter = Enter
  Junk = Junk
  StepModulus = 8
INVARIANTS
  TypeOK
  ConfigAsWritten
  StepsAsAsked
  DumpsWritten
  FilesKept
PROPERTIES
  AcceptsExactly
  Exited
CHECK_DEADLOCK FALSE
