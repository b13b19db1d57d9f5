CONSTANTS
  BufSize <- MCBufSize
  Width <- MCWidth
  IntWidth <- MCIntWidth
  HashLen <- MCHashLen
  DigestInfoLen <- MCDigestInfoLen
  Pkcs1PadLen <- MCPkcs1PadLen
  SigLen <- MCSigLen
  Mechanisms <- MCPssMechs
  ParamIds <- MCSignParams
  DataLens <- MCDataLens
  SaltLens <- MCSaltLens

SPECIFICATION Spec

INVARIANT TypeOK
INVARIANT PssDigestConsistent
INVARIANT RsaBlockFullWidth
