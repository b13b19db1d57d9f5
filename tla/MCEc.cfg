CONSTANTS
  BufSize <- MCBufSize
  Width <- MCWidth
  IntWidth <- MCIntWidth
  HashLen <- MCHashLen
  DigestInfoLen <- MCDigestInfoLen
  Pkcs1PadLen <- MCPkcs1PadLen
  SigLen <- MCSigLen
  Mechanisms <- MCEcMechs
  ParamIds <- MCDecParams
  DataLens <- MCDataLens
  SaltLens <- MCSaltLens

SPECIFICATION Spec

INVARIANT ContextsReleasedOnce
INVARIANT BufferWithinBounds
PROPERTY LifecycleRefined
