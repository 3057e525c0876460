SPECIFICATION Spec
CONSTANTS
  Slots = 2
  Params = 2
  Texts <- FourTexts
  Capacity = 3
  MaxMessages = 2
  MaxCuts = 1
INVARIANTS ConfOfOneCommand
PROPERTIES
  OnlyThisPollsText
  EachCommandRuns
  ImplementsMailbox
  ResetsEnd
