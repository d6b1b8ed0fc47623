-------------------------- MODULE MCRadioConfig --------------------------
(***************************************************************************)
(* TLC instance of RadioConfig.  The radios meet only in Radio_flag and in *)
(* the restarts, and channel and width only in the choice of the second    *)
(* channel, so each behaviour makes all channel calls or all width calls   *)
(* for one radio, and for the rest those that set one channel; or it makes *)
(* all calls for the rates, and no others.  One call is cut.               *)
(***************************************************************************)
EXTENDS Rates

VARIABLES busy, channels, cuts

MCChannel == 0 :> {1, 6, 11} @@ 1 :> {36, 40, 44, 48, 161, 165}
MCMode == {"11NGHT20", "11NAHT40PLUS", "11ACVHT80"}
MCDefault == 0 :> [channel |-> 6, mode |-> "11NGHT20"]
             @@ 1 :> [channel |-> 36, mode |-> "11ACVHT80"]
MCPublicChannel == 0 :> 6 @@ 1 :> 36

MCRateLists == {<<10, 20, 55, 110>>, <<60, 120, 240>>, <<240>>}
MCDefaultRates == [r \in {0, 1} |-> [basic |-> <<60, 120>>, supported |-> <<60, 90, 240>>]]
MCHwMode == 0 :> "g" @@ 1 :> "a"

MaxCuts == 1

\* The channels of a behaviour; with a single one it makes width calls, and with none
\* those for the rates.
Channels == 0 :> {{1, 11}, {1}, {}} @@ 1 :> {{36, 165}, {44, 161}, {48}, {}}
Other(r) == IF r = 0 THEN 40 ELSE 11

MCInit == Init /\ RatesInit /\ busy \in Radio /\ channels \in Channels[busy] /\ cuts = 0

RadioNext ==
    \/ Step
    \/ \E c \in channels :
         IF channels = {c}
         THEN \/ ChannelCall(busy, channels, FALSE) \/ WidthCall(busy)
              \/ OperatingCall(busy, channels)
         ELSE \/ \E hotspot \in BOOLEAN : ChannelCall(busy, channels, hotspot)
              \/ ExtCall(busy)
              \/ ChannelCall(1 - busy, {Other(busy)}, FALSE)
    \/ FactoryReset(busy, <<>>)
    \/ HostapdRestarts
    \/ ProcessRestarts

BusyRatesNext ==
    RatesStep \/ RatesCall(busy) \/ HostapdRestartsRates \/ ProcessRestartsRates

MCNext ==
    /\ \/ channels # {} /\ RadioNext /\ UNCHANGED rateVars
       \/ channels = {} /\ BusyRatesNext
    /\ cuts' = IF todo # <<>> /\ todo' # Tail(todo) THEN cuts + 1 ELSE cuts
    /\ cuts' <= MaxCuts
    /\ UNCHANGED <<busy, channels>>

MCSpec == MCInit /\ [][MCNext]_<<vars, rateVars, busy, channels, cuts>>
=============================================================================
