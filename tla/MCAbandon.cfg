CONSTANTS
  BufSize <- MCBufSize
  Width <- MCWidth
  IntWidth <- MCIntWidth
  HashLen <- MCHashLen
  DigestInfoLen <- MCDigestInfoLen
  Pkcs1PadLen <- MCPkcs1PadLen
  SigLen <- MCSigLen
  Mechanisms <- MCDecMechs
  ParamIds <- MCDecParams
  DataLens <- MCDataLens
  SaltLens <- MCSaltLens

SPECIFICATION Spec

INVARIANT AbandonedResourcesReleased
