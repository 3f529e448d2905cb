\* Requests of each class, of URLs that are read, changed, or added to at any time by up to
\* two calls, sent twice; and the replies.
SPECIFICATION Spec
CONSTANTS
    Written <- SomeUrls
    Schemes <- SomeSchemes
    Hosts <- SomeHosts
    Ports <- SomePorts
    Paths <- SomePaths
    NewParams <- SomeParams
    NewHeaders <- SomeHeaders
    Bodies <- SomeBodies
    Heads <- SomeHeads
    MaxCalls = 2
    MaxSent = 2
INVARIANTS
    ServerReadsGivenRequest
    EncryptedExactlyForHttps
    ComposedUrlReadsBack
    ClientReadsReply
