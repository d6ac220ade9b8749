CONSTANTS
    BlockLen = 5
    MaxByte = 7
    CryptKeys = {1, 2}
    ByteXor <- MCByteXor
    Aes <- MCAes
    AesInverse <- MCAesInverse
    Keys = {"a", "b"}
    KeyText <- MCKeyText
    Vals <- MCVals
    Ahead = 3
    Medium = 3
    MaxRegion = 25
    IVs <- MCIVs

SPECIFICATION Spec

INVARIANTS TypeOK RegionIsText CrypterAtEnd ValuesReadBack BufferIsPlain AssertsHold
