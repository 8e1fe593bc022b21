SPECIFICATION Spec
CONSTANTS
  camOld = camOld
  cam = cam
  desk = desk
  Sources = {camOld, cam, desk}
  Legacy = camOld
  Current = cam
  Transforms <- MCTransforms
  NoTransform <- Identity
  Styles <- MCStyles
  AllTransforms <- MCAllTransforms
  AllStyles <- MCAllStyles
  Names = {1, 2}
  Imports <- MCImports
  Initial <- MCInitial
  HistoryLimit = 2
  SceneLimit = 1
  MaxEdits = 3
  Frames <- MCFrames
  Outputs <- MCOutputs
  PreviewLimits <- MCPreviewLimits
  None = None
  Described <- MCDescribed
  Junk = Junk
  DefaultSources <- MCDefaultSources
  MaxSources = 3
  SceneElements = 40
  StoredElements = 90
INVARIANTS SceneInv CompositionInv DocumentsInv
PROPERTIES LinearHistory
