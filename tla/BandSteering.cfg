SPECIFICATION MCSpec
CONSTANTS
    Ssid <- MCSsid
    Key <- MCKey
    Vap <- MCVap
    Default <- MCDefault
    DefaultMode <- MCDefaultMode
    TwoFour = 0
    MaxLines = 2
INVARIANTS Applied SecureOnAir SteeringRestores SteeredTogether VapReadBack
