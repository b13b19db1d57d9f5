CONSTANTS
  BufSize <- MCBufSize
  Width <- MCWidth
  IntWidth <- MCIntWidth
  HashLen <- MCHashLen
  DigestInfoLen <- MCDigestInfoLen
  Pkcs1PadLen <- MCPkcs1PadLen
  SigLen <- MCSigLen
  Mechanisms <- MCSignMechs
  ParamIds <- MCSignParams
  DataLens <- MCDataLens
  SaltLens <- MCWideSaltLens

SPECIFICATION Spec

INVARIANT SaltAsDeclared
