SPECIFICATION Spec
CONSTANTS
  Texts = {"a", "b"}
  Invalid = Invalid
INVARIANT OneAttemptAtATime
CHECK_DEADLOCK FALSE
