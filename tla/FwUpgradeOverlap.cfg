SPECIFICATION Spec
CONSTANTS
    Downloader = {d1, d2}
    u1 = u1
    u2 = u2
    bad = bad
    Url <- MCUrl
    Reachable <- MCReachable
    NoUrl = NoUrl
INVARIANT OneDownloadAtATime
