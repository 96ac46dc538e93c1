SPECIFICATION Spec
CONSTANTS
  App = app
  Servicer = servicer
  Repliers = repliers
  Others = {other}
  Questions = 3
  Nobody = Nobody
CHECK_DEADLOCK FALSE
INVARIANT
  AnswersInOrder
PROPERTIES
  QueueIsMailbox
  EveryPushIsPopped
  EveryQuestionReturns
