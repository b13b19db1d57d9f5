CONSTANTS
  BufSize <- MCBufSize
  Width <- MCWidth
  IntWidth <- MCIntWidth
  HashLen <- MCHashLen
  DigestInfoLen <- MCDigestInfoLen
  Pkcs1PadLen <- MCPkcs1PadLen
  SigLen <- MCSigLen
  Mechanisms <- MCDecMechs
  ParamIds <- MCDecParams
  DataLens <- MCWrapLens
  SaltLens <- MCSaltLens

SPECIFICATION Spec

INVARIANT BufferWithinBounds
