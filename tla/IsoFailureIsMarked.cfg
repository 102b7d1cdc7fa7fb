SPECIFICATION Spec
CONSTANTS
  cam = cam
  game = game
  Scene = Scene
  Source = {cam, game}
  Video = {cam, game}
  RecordComposite = FALSE
  MaxGames = 1
  MaxSegments = 1
  Events = {"dies"}
PROPERTY FailureIsMarked
