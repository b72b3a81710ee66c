\* Two machines and one invocation, with every kind of body and answer, and Close.
SPECIFICATION RestSpec
CONSTANTS
  Machine = {m1, m2}
  Address = {a1, a2}
  NoAddress = NoAddress
  NoMachine = NoMachine
  Call = {c1}
  Data <- MCData
  Response <- MCResponse
SYMMETRY Symmetry
CONSTRAINT PlainForMany
INVARIANTS RestTypeOK AstrayOnlyAfterFree ChosenWasGiven AnswerTellsOutcome RequestConveyed ResponseConveyed
PROPERTIES AnsweredOnce
CHECK_DEADLOCK FALSE
