CONSTANTS
  TempFolder = "temp"
  ExtOf <- MCExtOf
  GARBAGE = GARBAGE
  Scene <- MCScene
  Values <- MCValues
  Arrays <- MCArrays
  Image <- MCImage
  Name <- MCName
  Disk <- MCDisk
  MaxCalls = 2
  MaxSize = 3
  FREED <- MCFreed
  NONE = NONE
SPECIFICATION BMSpec
INVARIANTS EntitiesKept MaterialsKept MeshesKept ImagesKept FilesFound LinkedClasses LinksAlive TargetsMarked SaveStable CastsSound
CHECK_DEADLOCK FALSE
