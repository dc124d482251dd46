CONSTANTS
    n1 = n1
    n2 = n2
    c1 = c1
    c2 = c2
    None = None
    Locals <- MCLocals
    Wants <- MCWants
    Names = {n1, n2}
    Contents = {c1, c2}
    Readable = {c1}
    Concurrency = 2
    Retries = 2
    Keys <- MCKeys
    KeyId <- MCKeyId
    Messages = {"m1", "m2"}
    Nobody = "nobody"
    Unparsed = "unparsed"
    GPGKeys = {"g1", "s1", "g2"}
    Primary <- MCPrimary
    Existing <- MCExisting
    Fold <- MCFold
    BundlePath <- MCBundlePath
    KeySources <- MCSources
    Blocks <- MCBlocks
    Own = "k1"
    GPGSigner = "s1"
    PrivateFiles <- MCPrivate
    MaxSigns = 2
    MaxResponses = 2
    PipeRoom = 1
SPECIFICATION MCSpec
INVARIANTS InputsAreAccountedFor VerdictIsOfTheKey SignedBlockVerifies
PROPERTY PluginStops
CHECK_DEADLOCK FALSE
