\* The instance of AssetStreaming.cfg, and what a comment of the destructor says.
SPECIFICATION StreamingSpec
CONSTANTS
  CmdBufs = {1, 2}
  HwQueues = {0, 1}
  Textures = {bark, leaf}
  Meshes = {tree, rock}
  VertexBytes = 2
  IndexBytes = 3
  TextureLimit = 1
  MeshLimit = 2
  MipCount = 2
  BufferSizes = {6, 7}
INVARIANTS
  LayoutOutlivesLoads
\* the streamers may have been destroyed
CHECK_DEADLOCK FALSE
