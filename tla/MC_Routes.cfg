\* Any continuation of a pattern after the url, the bare space included.
CONSTANTS
    Methods = {"GET", "POST"}
    Urls <- MCUrls
    Tails <- MemoryTails
SPECIFICATION Spec
INVARIANTS
    ResolveByMemoryPrefix
