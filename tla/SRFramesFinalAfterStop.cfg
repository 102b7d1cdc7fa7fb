SPECIFICATION Spec
CONSTANTS
  Kinds = {"video", "shared", "audio"}
INVARIANT FramesFinalAfterStop
CHECK_DEADLOCK FALSE
