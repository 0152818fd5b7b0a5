SPECIFICATION Spec
CONSTANTS
  CommandLines <- MCCommandLines
  Sizes = {1, 2}
  Typed = {"0", "a", "b"}
INVARIANTS
  PaintedWhole
  NoUseAfterDestroy
  SessionConfig
PROPERTY
  CloseEnds
