\* A Url that is resolved up to twice, renamed at will, then taken by a request,
\* with the datagrams of every lookup.
SPECIFICATION LookupSpec
CONSTANTS
    Hosts <- SomeHosts
    Bare <- BareHosts
    NoHost <- NoName
    Servers = 3
    MaxCalls = 2
    Id <- OurId
    Contents <- SomeContents
INVARIANTS
    TypeOK
    MissingAddressIsTold
    OwnLookupIsSound
    ResponseDecodesReply
    FirstAliasHasAddresses
PROPERTIES
    ResolvedWithoutTrouble
    LookupEnds
