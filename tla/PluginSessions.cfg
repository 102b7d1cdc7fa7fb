SPECIFICATION Spec
CONSTANTS
  home = home
  away = away
  cam = cam
  game = game
  nvenc = nvenc
  None = None
  Collection = {home, away}
  Name = {cam, game}
  Content <- Scenes
  EarlyName = {}
  Edits = {}
  Encoder = {nvenc}
  Option = {"withStream", "withRecording", "sameAsStream"}
  DefaultOptions = {"withStream", "withRecording", "sameAsStream"}
  Toggles = {"withStream", "withRecording"}
  Events = {"stream", "recording", "collection"}
  Threshold = 1
  Profiles <- TwoProfiles
INVARIANTS SessionFollowsItsStarter ReferencesAreBack
PROPERTIES StartUsesWhatIsShown OthersLeaveItAlone
