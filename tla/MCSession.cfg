SPECIFICATION SessionSpec
CONSTANTS
  Enabled = {"max", "slow"}
  Token <- Alphabet
  BufSize = 4
  Modules <- Table
  Motd <- Greeting
  Scripts <- Peers
INVARIANTS
  NoCutOff
  RightModule
  StreamsIntact
PROPERTIES
  TerminationCompletes
  SessionBounded
CHECK_DEADLOCK FALSE
