SPECIFICATION MCSpec
CONSTANTS
    d1 = d1
    d2 = d2
    d3 = d3
    Device = {d1, d2, d3}
    Leases <- MCLeases
    MaxMoves = 2
    Length <- MCLength
    DnsLists <- MCDnsLists
    Word = 128
    MaxTime = 9
INVARIANTS RowsTrue  WiredListed AnswerTrue
