SPECIFICATION Spec
CONSTANTS
  Texts = {"a"}
  Invalid = Invalid
INVARIANT TypeOK
INVARIANT OnlyCompleteForms
INVARIANT HomeNeedsLogin
INVARIANT PendingIsShown
INVARIANT LoadingIsFollowed
PROPERTY LoadingEnds
CHECK_DEADLOCK FALSE
