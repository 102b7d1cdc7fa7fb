SPECIFICATION Spec
CONSTANTS
  home = home
  away = away
  cam = cam
  game = game
  nvenc = nvenc
  None = None
  Collection = {home, away}
  Name = {cam, game}
  Content <- Scenes
  EarlyName = {game}
  Edits = {game}
  Encoder = {nvenc}
  Option = {"withStream", "withRecording", "sameAsStream"}
  DefaultOptions = {"withStream", "withRecording", "sameAsStream"}
  Toggles = {}
  Events = {"collection", "crash", "disk full"}
  Threshold = 1
  Profiles <- TwoProfiles
INVARIANTS  FileIsCurrent DockTellsTruth
PROPERTY TimerServes
