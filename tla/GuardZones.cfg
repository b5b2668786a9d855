CONSTANTS
  CONTROL_STACK_START = 100
  control_stack_size = 24
  FrameSizes = {1, 2, 3}
  Slack = 3
SPECIFICATION Spec
INVARIANTS
  TypeOK
  GuardFaultsHandled
  StackInsideWhileRedGuarded
PROPERTIES
  YellowBeforeRed
