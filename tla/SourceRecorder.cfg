SPECIFICATION Spec
CONSTANTS
  Kinds = {"video", "shared", "audio"}
INVARIANTS CallbacksAreSafe OwnStopIsNoFailure EncodersAreSafe FramesCountedAtTheEnd OwnLeavesNothing
 
CHECK_DEADLOCK FALSE
