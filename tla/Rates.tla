-------------------------------- MODULE Rates --------------------------------
(***************************************************************************)
(* The data rates of a radio (source/wifi/wifi_hal.c).  Callers give and   *)
(* get lists of Mbps; the file and hostapd count in 100 kbps.  A setter    *)
(* writes the converted list back into the caller's buffer, so that a      *)
(* caller who repeats the call asks for something else.  All rates here    *)
(* are in 100 kbps, and those of a buffer are what its text says in Mbps.  *)
(***************************************************************************)
EXTENDS RadioConfig, Sequences

CONSTANTS
    RateLists,      \* lists that callers ask for
    DefaultRates,   \* DefaultRates[r]: both lists in the default parameters
    HwMode,         \* HwMode[r]: hw_mode in the radio's file
    MaxRate         \* bound on a rate that is repeated

Kind == {"basic", "supported"}

\* A rate in the file as a getter shows it: without its last digit, and 5 taken for 5.5.
Shown(rate)     == IF rate \div 10 = 5 THEN 55 ELSE (rate \div 10) * 10
ShownList(list) == [i \in DOMAIN list |-> Shown(list[i])]

\* Callers and default files name at least one rate, and only rates that a getter can show.
ASSUME RatesAssumption ==
    /\ RateLists \subseteq Seq(Nat) \ {<<>>}
    /\ DefaultRates \in [Radio -> [Kind -> Seq(Nat) \ {<<>>}]]
    /\ \A list \in RateLists : ShownList(list) = list
    /\ \A r \in Radio, kind \in Kind : ShownList(DefaultRates[r][kind]) = DefaultRates[r][kind]
    /\ DOMAIN HwMode = Radio /\ \A r \in Radio : HwMode[r] \in {"a", "b", "g", "n"}
    /\ MaxRate \in Nat

VARIABLES
    rates,      \* rates[r][kind] in /nvram/hostapd<r>.conf
    toldRates,  \* what hostapd was given
    airRates,   \* what the interface was enabled with
    buffer,     \* buffer[kind]: {} or {the text a setter has left to its caller}
    wanted,     \* history: wanted[r][kind]: the list last asked for, but for repeats
    open        \* history: lists that a cut call or a repeat has left open

rateVars == <<rates, toldRates, airRates, buffer, wanted, open>>

SupportedRates(r) ==
    CASE HwMode[r] = "b" -> {10, 20, 55, 110}
      [] HwMode[r] = "a" -> {60, 90, 110, 120, 180, 240, 360, 480, 540}
      [] HwMode[r] \in {"n", "g"} ->
            {10, 20, 55, 60, 90, 110, 120, 180, 240, 360, 480, 540}

Comma(list) == [by |-> ",", rates |-> list]
Space(list) == [by |-> " ", rates |-> list]

\* What a getter reports of the file.
Reported(r, kind) == ShownList(rates[r][kind])

GetBasicRates(r)       == Comma(Reported(r, "basic"))
GetOperationalRates(r) == Comma(Reported(r, "supported"))

\* The rates of wifi_getRadioOperatingParameters, those of its table.
Bitrate == {10, 20, 55, 60, 90, 110, 120, 180, 240, 360, 480, 540}
RateSet(text) == {text.rates[i] : i \in DOMAIN text.rates} \cap Bitrate

-----------------------------------------------------------------------------
WriteRates(r, kind, list) == [do |-> "rates", r |-> r, kind |-> kind, to |-> list]
TellRates(r, list)        == [do |-> "tellRates", r |-> r, to |-> list]
ReturnRates(r, kind, sure) == [do |-> "returnRates", r |-> r, kind |-> kind, sure |-> sure]

\* The list in the file's unit; the buffer holds its text from then on.
Converted(list) == [i \in DOMAIN list |-> list[i] * 10]

\* Without a separator that the setter knows a list is one number, which ends in a 0.
ConvertedBy(separator, text) ==
    IF text.by = separator THEN text.rates
    ELSE [i \in DOMAIN text.rates |-> IF i = Len(text.rates) THEN text.rates[i]
                                      ELSE text.rates[i] \div 10]

\* Faulty variant: any rate is taken.
MutBasicAccepted(r, text) == TRUE

\* Whole Mbps are compared with those of the supported rates; of a list with other
\* separators only the first.
BasicAccepted(r, text) ==
    LET whole == {rate \div 10 : rate \in SupportedRates(r)}
        last  == IF text.by = "," THEN Len(text.rates) ELSE 1
    IN  \A i \in 1 .. last : text.rates[i] \div 10 \in whole

\* Commas are refused, and on 5 GHz the rates of 802.11b.
OperationalAccepted(r, text) ==
    /\ text.by = " " \/ Len(text.rates) = 1
    /\ r = 1 => \A i \in DOMAIN text.rates : text.rates[i] \notin {10, 20, 55}

\* hostapd is not told of basic rates.
BasicCommands(r, list, sure) ==
    <<WriteRates(r, "basic", list), ReturnRates(r, "basic", sure)>>

OperationalCommands(r, list, sure) ==
    <<WriteRates(r, "supported", list), TellRates(r, list), Restart(r),
      ReturnRates(r, "supported", sure)>>

\* A setter, for a list that is asked for anew or for the buffer once more.
SetRates(r, kind, text, list, commands, again) ==
    /\ \A i \in DOMAIN list : list[i] < MaxRate
    /\ Call(commands)
    /\ buffer' = [buffer EXCEPT ![kind] = {Space(Converted(list))}]
    /\ wanted' = IF again THEN wanted ELSE [wanted EXCEPT ![r][kind] = text.rates]
    /\ UNCHANGED <<rates, toldRates, airRates, open, unset, asked, auto>>

\* A setter that refuses its list; its caller lets go of it.
Refuse(kind) ==
    /\ todo = <<>>
    /\ buffer' = [buffer EXCEPT ![kind] = {}]
    /\ UNCHANGED <<rates, toldRates, airRates, wanted, open, vars>>

SetBasicRates(r, text, again) ==
    LET list == ConvertedBy(",", text) IN
    IF BasicAccepted(r, text)
    THEN SetRates(r, "basic", text, list, BasicCommands(r, list, TRUE), again)
    ELSE Refuse("basic")

SetOperationalRates(r, text, again) ==
    IF OperationalAccepted(r, text)
    THEN SetRates(r, "supported", text, text.rates,
                  OperationalCommands(r, text.rates, ~again), again)
    ELSE Refuse("supported")

\* wifi_factoryResetRadio, whose other commands are RadioConfig's.
FactoryResetRates(r) ==
    /\ FactoryReset(r, <<WriteRates(r, "basic", DefaultRates[r].basic),
                         WriteRates(r, "supported", DefaultRates[r].supported),
                         ReturnRates(r, "basic", TRUE)>>)
    /\ wanted' = [wanted EXCEPT ![r] = DefaultRates[r]]
    /\ open' = open \cup {<<r, "supported">>}
    /\ UNCHANGED <<rates, toldRates, airRates, buffer>>

RatesStep ==
    LET c == Head(todo) IN
    \/ /\ Step
       /\ airRates' = IF c.do = "restart" /\ c.ap \in Radio
                      THEN [airRates EXCEPT ![c.ap] = toldRates[c.ap]] ELSE airRates
       /\ UNCHANGED <<rates, toldRates, buffer, wanted, open>>
    \/ /\ todo # <<>>
       /\ todo' = Tail(todo)
       /\ \/ /\ c.do = "rates"
             /\ rates' = [rates EXCEPT ![c.r][c.kind] = c.to]
             /\ UNCHANGED <<toldRates, open>>
          \/ /\ c.do = "tellRates"
             /\ toldRates' = [toldRates EXCEPT ![c.r].supported = c.to]
             /\ UNCHANGED <<rates, open>>
          \/ /\ c.do = "returnRates"
             /\ open' = IF c.sure THEN open \ {<<c.r, c.kind>>} ELSE open \cup {<<c.r, c.kind>>}
             /\ UNCHANGED <<rates, toldRates>>
       /\ UNCHANGED <<fileVars, unset, apVars, history, airRates, buffer, wanted>>

RatesCall(r) ==
    \/ \E list \in RateLists : \/ SetBasicRates(r, Comma(list), FALSE)
                               \/ SetOperationalRates(r, Space(list), FALSE)
    \/ \E text \in buffer["basic"]     : SetBasicRates(r, text, TRUE)
    \/ \E text \in buffer["supported"] : SetOperationalRates(r, text, TRUE)
    \/ SetBasicRates(r, GetBasicRates(r), FALSE)
    \/ SetOperationalRates(r, GetOperationalRates(r), FALSE)
    \/ FactoryResetRates(r)

\* hostapd reads both lists.
HostapdRestartsRates ==
    /\ HostapdRestarts
    /\ toldRates' = rates /\ airRates' = rates
    /\ UNCHANGED <<rates, buffer, wanted, open>>

\* The caller's buffers are gone with the process.
ProcessRestartsRates ==
    /\ ProcessRestarts
    /\ buffer' = [kind \in Kind |-> {}]
    /\ open' = IF todo = <<>> THEN open ELSE Radio \X Kind
    /\ UNCHANGED <<rates, toldRates, airRates, wanted>>

RatesInit ==
    /\ rates = DefaultRates /\ toldRates = rates /\ airRates = rates
    /\ buffer = [kind \in Kind |-> {}]
    /\ wanted = rates /\ open = {}

\* Calls that leave the rates alone.
OtherCall(r) ==
    /\ \/ \E hotspot \in BOOLEAN : ChannelCall(r, Channel[r], hotspot)
       \/ ExtCall(r) \/ WidthCall(r) \/ OperatingCall(r, Channel[r])
    /\ UNCHANGED rateVars

RatesNext ==
    \/ RatesStep
    \/ \E r \in Radio : RatesCall(r) \/ OtherCall(r)
    \/ HostapdRestartsRates
    \/ ProcessRestartsRates

RatesSpec == Init /\ RatesInit /\ [][RatesNext]_<<vars, rateVars>>

-----------------------------------------------------------------------------
\* The rates that wifi_getRadioBasicDataTransmitRates and the operating parameters
\* report are the ones last asked for, even where a caller repeats a call with the
\* buffer that the first one has converted; of the operational ones, which hostapd then
\* also runs with, this holds until such a repeat, a reset or a cut call.
RatesReported ==
    todo = <<>> =>
        \A r \in Radio, kind \in Kind :
            <<r, kind>> \notin open =>
                /\ Reported(r, kind) = wanted[r][kind]
                /\ RateSet(Comma(Reported(r, kind))) = RateSet(Comma(wanted[r][kind]))
                /\ kind = "supported" => airRates[r][kind] = rates[r][kind]
=============================================================================
