\* Two textures of two mips, loaded one at a time, and two meshes, loaded
\* together; two command buffers are fewer than the loads could use.
SPECIFICATION StreamingSpec
CONSTANTS
  CmdBufs = {1, 2}
  HwQueues = {0, 1}
  Textures = {bark, leaf}
  Meshes = {tree, rock}
  VertexBytes = 2
  IndexBytes = 3
  TextureLimit = 1
  MeshLimit = 2
  MipCount = 2
  BufferSizes = {6, 7}
INVARIANTS
  StreamingSound
PROPERTIES
  EveryAssetArrives
\* the streamers may have been destroyed
CHECK_DEADLOCK FALSE
