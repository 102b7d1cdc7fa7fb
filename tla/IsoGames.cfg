SPECIFICATION Spec
CONSTANTS
  cam = cam
  Scene = Scene
  Source = {cam}
  Video = {cam}
  RecordComposite = TRUE
  MaxGames = 2
  MaxSegments = 2
  Events = {"dies", "resizes", "deleted", "crash"}
INVARIANTS TypeOK OneRecordPerFile EndedMeansFinal
PROPERTIES VerdictsStay ImplementsControl
