SPECIFICATION Spec
CONSTANTS
  TargetWidth = 18
  TargetHeight = 32
  Marks = 5
  Vertical <- VerticalRatio
  Unset = Unset
  HardMaxClips = 20
  DefaultMaxClips = 10
  Floor = 5
  Ceiling = 180
  DefaultMin = 15
  DefaultMax = 90
  StyleBounds <- Bounds
  StyleDefaults <- Defaults
  Second = 1
  MaxGap = 2
  SearchWindow = 2
  MaxSubwindows = 5
  MaxParts = 3
  MaxSuggestions = 2
  KeyGrain = 2
  Whole = 60
  Caps <- CapsOf4
  PauseBeat = 1
  HookWindow = 3
  MinChunk = 4
  MaxChunk = 10
  CutSearch = 4
  Framings <- SomeFramings
  Sizes <- SomeSizes
  Forms <- SomeForms
  Requests <- SomeRequests
  Cued <- SomeCues
  Texts <- SomeTexts
  Speeches <- SomeSpeeches
  Replies <- SomeReplies
  Weightings <- SomeWeightings
  Stitches <- SomeStitches
  Candidacies <- SomeCandidacies
  Files <- SomeFiles
  Sounds <- SoundsWithin
INVARIANTS CropsFit AcceptedIsCarriedOut CaptionsFit CandidatesFit ScoresCompare BestAreRendered ChunksFit PiecesFit
CHECK_DEADLOCK FALSE
