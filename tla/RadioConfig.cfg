SPECIFICATION MCSpec
CONSTANTS
    Channel <- MCChannel
    Mode <- MCMode
    Default <- MCDefault
    PublicChannel <- MCPublicChannel
    RateLists <- MCRateLists
    DefaultRates <- MCDefaultRates
    HwMode <- MCHwMode
    MaxRate = 10000
INVARIANTS InUse WidthReported AutoReported OwnChannel ExtAgrees RatesReported
