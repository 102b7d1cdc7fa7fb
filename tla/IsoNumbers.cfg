SPECIFICATION Spec
CONSTANTS
  cam = cam
  game = game
  Scene = Scene
  Source = {cam, game}
  Video = {cam, game}
  RecordComposite = FALSE
  MaxGames = 2
  MaxSegments = 2
  Events = {"resizes"}
  Kept = {"a", "2"}
  Other = {" ", "_"}
  Numeral <- ToString
  Names <- Awkward
  MaxLength = 5
SYMMETRY Alike
INVARIANTS UniqueFiles NumberingAgrees ListedIsRight
