SPECIFICATION Spec
CONSTANTS
  cam = cam
  mic = mic
  Scene = Scene
  Source = {cam, mic}
  Video = {cam}
  RecordComposite = FALSE
  MaxGames = 1
  MaxSegments = 2
  Events = {"dies", "resizes", "picture", "deleted", "crash"}
INVARIANTS IdleHoldsNothing 
PROPERTY PendingIsServed
