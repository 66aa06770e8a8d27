\* A human against an AI: three objects on the stack, split second, a time limit.
CONSTANTS
  Humans = {0}
  INTERRUPT_SECONDS = 1
  InterruptMyOwn = TRUE
  SplitSecondCards = TRUE
  MaxObjects = 3
  MaxTriggers = 1

SPECIFICATION FairSpec

INVARIANTS
  TypeOK
  AnswerGoesToAsked
  AgreedMeansFree

PROPERTIES
  HolderKeepsStack
  ImplementsPriorityStack
  GameMovesOn
