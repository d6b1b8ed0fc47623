------------------------------ MODULE ApEnable ------------------------------
(***************************************************************************)
(* Enabling of access points and radios: the calls of                      *)
(* source/wifi/wifi_hal.c that start and stop hostapd and its interfaces,  *)
(* and the backhaul networks of source/wifi/client_wifi_hal.c, a change of *)
(* which disables the access points of the band.  What is enabled is kept  *)
(* in files under /var, and what is on the air is kept by hostapd: a call  *)
(* writes the one and drives the other by a list of shell commands.  The   *)
(* hotspot and PreferPrivate settings belong to another process, and are   *)
(* read by each call: they are parameters.                                 *)
(***************************************************************************)
EXTENDS Naturals, Sequences

CONSTANTS
    Sta,         \* backhaul stations that are configured
    Networks     \* network lists a client may set

ASSUME ApEnableAssumption == Sta \subseteq {0, 1} /\ "none" \notin Networks

Radio   == {0, 1}
Private == {0, 1}
Public  == {4, 5}
Ap      == Private \cup Public

RadioOf(ap) == ap % 4

VARIABLES
    apFlag,      \* /var/Get*ssidEnable.txt
    radioFlag,   \* /var/Get*RadioEnable.txt
    hostapd,     \* the hostapd service runs
    nic,         \* an access point is "off", "on", or on with its interface "down"
    conf,        \* /tmp/<sta>.conf: its networks, and whether lines have a second end
    running,     \* networks wpa_supplicant runs with
    todo,        \* commands the running call has left
    stale,       \* history: access points that a later call has touched without
                 \* regard to their flags, or whose last call was cut
    staStale     \* history: stations of which a call was cut

airVars == <<hostapd, nic>>
staVars == <<conf, running>>
staleVars == <<stale, staStale>>
vars == <<apFlag, radioFlag, airVars, staVars, todo, staleVars>>

File(networks, ended) == [networks |-> networks, ended |-> ended]

\* After the first start of the HAL.
Init ==
    /\ apFlag    = [ap \in Ap |-> TRUE]
    /\ radioFlag = [r \in Radio |-> TRUE]
    /\ hostapd   = TRUE /\ nic = [ap \in Ap |-> "on"]
    /\ conf      = [s \in Sta |-> File("none", FALSE)]
    /\ running   = [s \in Sta |-> "none"]
    /\ todo = <<>> /\ stale = {} /\ staStale = {}

-----------------------------------------------------------------------------
(* The commands of a call.                                                 *)

SetFlag(ap, b)      == [do |-> "apFlag", ap |-> ap, to |-> b]
SetRadioFlag(r, b)  == [do |-> "radioFlag", r |-> r, to |-> b]
Disable(ap)         == [do |-> "nic", ap |-> ap, to |-> "off"]
Enable(ap)          == [do |-> "nic", ap |-> ap, to |-> "on"]
Down(ap)            == [do |-> "down", ap |-> ap]
WriteConf(s, n)     == [do |-> "conf", s |-> s, to |-> n]
Reconfigure(s)      == [do |-> "reconfigure", s |-> s]

\* The end of a call: what it has driven to the end, and what it has left behind.
Return(driven, left) == [do |-> "return", driven |-> driven, left |-> left]
ReturnSta(s) == [do |-> "returnSta", s |-> s]

Restart(ap) == <<Disable(ap), Enable(ap)>>
When(condition, commands) == IF condition THEN commands ELSE <<>>

\* hostapd_cli reaches only a running hostapd.
Driven(ap, to) == IF hostapd THEN [nic EXCEPT ![ap] = to] ELSE nic

Step ==
    /\ todo # <<>>
    /\ todo' = Tail(todo)
    /\ LET c == Head(todo) IN
         \/ /\ c.do = "apFlag"
            /\ apFlag' = [apFlag EXCEPT ![c.ap] = c.to]
            /\ UNCHANGED <<radioFlag, nic, staVars, staleVars>>
         \/ /\ c.do = "radioFlag"
            /\ radioFlag' = [radioFlag EXCEPT ![c.r] = c.to]
            /\ UNCHANGED <<apFlag, nic, staVars, staleVars>>
         \/ /\ c.do = "nic"
            /\ nic' = Driven(c.ap, c.to)
            /\ UNCHANGED <<apFlag, radioFlag, staVars, staleVars>>
         \/ /\ c.do = "down"
            /\ nic' = [nic EXCEPT ![c.ap] = IF @ = "on" THEN "down" ELSE @]
            /\ UNCHANGED <<apFlag, radioFlag, staVars, staleVars>>
         \/ /\ c.do = "conf"
            /\ conf' = [conf EXCEPT ![c.s] = c.to]
            /\ UNCHANGED <<apFlag, radioFlag, nic, running, staleVars>>
         \/ /\ c.do = "reconfigure"
            /\ running' = [running EXCEPT ![c.s] =
                               IF @ = "none" THEN @ ELSE conf[c.s].networks]
            /\ UNCHANGED <<apFlag, radioFlag, nic, conf, staleVars>>
         \/ /\ c.do = "return"
            /\ stale' = (stale \ c.driven) \cup c.left
            /\ UNCHANGED <<apFlag, radioFlag, nic, staVars, staStale>>
         \/ /\ c.do = "returnSta"
            /\ staStale' = staStale \ {c.s}
            /\ UNCHANGED <<apFlag, radioFlag, nic, staVars, stale>>
    /\ UNCHANGED hostapd

Call(commands) ==
    /\ todo = <<>>
    /\ todo' = commands
    /\ UNCHANGED <<apFlag, radioFlag, airVars, staVars, staleVars>>

-----------------------------------------------------------------------------
(* wifi_setApEnable.                                                       *)

DisableAp(ap, hotspot) ==
    <<SetFlag(ap, FALSE)>>
    \o When(hotspot /\ ap \in Public, Restart(ap))
    \o <<Down(ap)>>

\* The access point's radio is disabled.
RadioIsOff(r) ==
    IF r = 0 THEN <<Disable(0)>> \o Restart(4) \o <<Down(4)>>
             ELSE <<Disable(1), Disable(5)>>

PublicDown == Restart(4) \o <<Down(4)>> \o Restart(5) \o <<Down(5)>>

\* Faulty variant: the private access point that was restarted along stays up.
MutEnableAp(ap, hotspot, prefer) ==
    <<SetFlag(ap, TRUE)>>
    \o When(hotspot /\ ap \in Public, Restart(ap))
    \o When(hotspot /\ ap = 5, Restart(1))
    \o When(ap \in Private, Restart(ap))
    \o When(hotspot /\ ap = 1, Restart(5))
    \o When(hotspot /\ ap = 1 /\ ~apFlag[5], <<Down(5)>>)
    \o When(~radioFlag[RadioOf(ap)], RadioIsOff(RadioOf(ap)))
    \o When(prefer, PublicDown)

\* The fifth access point shares the adapter of the first, so that enabling one
\* restarts the other, which is then put down again if it is not enabled.
EnableAp(ap, hotspot, prefer) ==
    <<SetFlag(ap, TRUE)>>
    \o When(hotspot /\ ap \in Public, Restart(ap))
    \o When(hotspot /\ ap = 5, Restart(1))
    \o When(ap \in Private, Restart(ap))
    \o When(hotspot /\ ap = 1, Restart(5))
    \o When(hotspot /\ ap = 1 /\ ~apFlag[5], <<Down(5)>>)
    \o When(hotspot /\ ap = 5 /\ ~apFlag[1], <<Down(1)>>)
    \o When(~radioFlag[RadioOf(ap)], RadioIsOff(RadioOf(ap)))
    \o When(prefer, PublicDown)

\* Without the hotspot a public access point is not enabled, whatever its flag,
\* and a preferred private connection turns both of them off.
SetApEnable(ap, enable, hotspot, prefer) ==
    IF enable
    THEN Call(EnableAp(ap, hotspot, prefer) \o
              <<Return(IF ap \in Private \/ hotspot THEN {ap} ELSE {},
                       (IF prefer THEN Public ELSE {}) \cup
                       (IF ap \in Private \/ hotspot THEN {} ELSE {ap}))>>)
    ELSE Call(DisableAp(ap, hotspot) \o <<Return({ap}, {})>>)

-----------------------------------------------------------------------------
(* wifi_setRadioEnable. The public access point is driven with the hotspot.  *)

RadioOn(r, hotspot) ==
    <<SetRadioFlag(r, TRUE)>> \o Restart(r)
    \o When(hotspot, Restart(r + 4) \o When(~apFlag[r + 4], <<Down(r + 4)>>))
    \o When(~apFlag[r], <<Down(r)>>)

RadioOff(r, hotspot) ==
    <<SetRadioFlag(r, FALSE), Disable(r)>>
    \o When(hotspot /\ r = 0, Restart(4))
    \o When(hotspot, <<Disable(r + 4)>>)
    \o When(hotspot /\ r = 0, <<Down(4)>>)

SetRadioEnable(r, enable, hotspot) ==
    Call((IF enable THEN RadioOn(r, hotspot) ELSE RadioOff(r, hotspot)) \o
         <<Return(IF hotspot THEN {r, r + 4} ELSE {r},
                  IF hotspot THEN {} ELSE {r + 4})>>)

-----------------------------------------------------------------------------
(* Calls that do not look at the flags.                                    *)

SetPreferPrivateConnection(enable) ==
    Call((IF enable THEN PublicDown ELSE Restart(4) \o Restart(5)) \o
         <<Return({}, Public)>>)

Reset ==
    Call(Restart(0) \o Restart(1) \o Restart(4) \o Restart(5) \o
         <<Return({}, Ap)>>)

\* systemctl start does nothing when hostapd runs.
Started == IF hostapd THEN nic ELSE [ap \in Ap |-> "on"]

StartHostApd ==
    /\ todo = <<>>
    /\ hostapd' = TRUE /\ nic' = Started
    /\ apFlag'    = [ap \in Ap |-> TRUE]
    /\ radioFlag' = [r \in Radio |-> TRUE]
    /\ stale' = IF hostapd THEN stale \cup Ap ELSE stale \ Ap
    /\ UNCHANGED <<staVars, todo, staStale>>

StopHostApd ==
    /\ todo = <<>>
    /\ hostapd' = FALSE /\ nic' = [ap \in Ap |-> "off"]
    /\ apFlag'    = [ap \in Ap |-> FALSE]
    /\ radioFlag' = [r \in Radio |-> FALSE]
    /\ stale' = stale \ Ap
    /\ UNCHANGED <<staVars, todo, staStale>>

\* Starts hostapd only if it does not run, and leaves the flags alone.
RestartHostApd ==
    /\ todo = <<>>
    /\ ~hostapd
    /\ hostapd' = TRUE /\ nic' = Started
    /\ stale' = stale \cup Ap
    /\ UNCHANGED <<apFlag, radioFlag, staVars, todo, staStale>>

-----------------------------------------------------------------------------
(* The backhaul stations.                                                  *)

\* wifi_setApEnable(s + 2, false) is the third call; there is no such access point.
DisableBand(s, hotspot) ==
    DisableAp(s, hotspot) \o DisableAp(s + 4, hotspot) \o <<Return({s, s + 4}, {})>>

\* wifi_getSTANetworks: the key management and the ciphers come with the end of their
\* line, which wifi_setSTANetworks writes along with its own.
GetSTANetworks(s) == File(conf[s].networks, TRUE)

\* Faulty variant: wpa_supplicant is told before the file is written.
MutSetSTANetworks(s, f, hotspot) ==
    Call(When(f # conf[s], <<Reconfigure(s)>>) \o <<WriteConf(s, f)>>
         \o When(f # conf[s], DisableBand(s, hotspot) \o <<ReturnSta(s)>>))

\* A copy of the file is compared with the file written anew; only if they differ
\* is wpa_supplicant told, and the access points of the band are disabled: also when a
\* list is set as it was read.
SetSTANetworks(s, f, hotspot) ==
    Call(<<WriteConf(s, f)>>
         \o When(f # conf[s],
                 <<Reconfigure(s)>> \o DisableBand(s, hotspot) \o <<ReturnSta(s)>>))

\* interface_add reads the file; there must be one.
SetSTAEnabled(s, enable) ==
    /\ todo = <<>>
    /\ running[s] = "none" <=> enable
    /\ running' = [running EXCEPT ![s] = IF enable THEN conf[s].networks ELSE "none"]
    /\ staStale' = staStale \ {s}
    /\ UNCHANGED <<apFlag, radioFlag, airVars, conf, todo, stale>>

-----------------------------------------------------------------------------
\* The HAL's process ends in the middle of a call.
AgentDies ==
    /\ todo # <<>>
    /\ todo' = <<>>
    /\ stale' = Ap /\ staStale' = Sta
    /\ UNCHANGED <<apFlag, radioFlag, airVars, staVars>>

ApiCall(radios) ==
    \/ \E hotspot \in BOOLEAN :
         \/ \E ap \in Ap, enable \in BOOLEAN, prefer \in BOOLEAN :
              RadioOf(ap) \in radios /\ SetApEnable(ap, enable, hotspot, prefer)
         \/ \E r \in radios, enable \in BOOLEAN : SetRadioEnable(r, enable, hotspot)
         \/ \E s \in Sta \cap radios, n \in Networks :
              SetSTANetworks(s, File(n, FALSE), hotspot)
         \/ \E s \in Sta \cap radios :
              conf[s].networks # "none" /\ SetSTANetworks(s, GetSTANetworks(s), hotspot)
    \/ \E enable \in BOOLEAN : SetPreferPrivateConnection(enable)
    \/ Reset \/ StartHostApd \/ StopHostApd \/ RestartHostApd
    \/ \E s \in Sta \cap radios, enable \in BOOLEAN : SetSTAEnabled(s, enable)

Next == Step \/ ApiCall(Radio) \/ AgentDies

Spec == Init /\ [][Next]_vars

-----------------------------------------------------------------------------
OnAir(ap) == nic[ap] = "on"

\* wifi_getApEnable and wifi_getRadioEnable, of adapters that are there.
GetApEnable(ap)   == apFlag[ap]
GetRadioEnable(r) == radioFlag[r]

\* Between calls an access point is on the air exactly if it and its radio are
\* enabled, which is what wifi_getApStatus and wifi_getRadioStatus report without
\* looking at the driver: whichever call was the last, for this access point, for
\* the one that shares its adapter, or for the radio, and however it left the
\* others. It is not so only for those that `stale` names.
FlagsAgree ==
    todo = <<>> /\ hostapd =>
        \A ap \in Ap \ stale : OnAir(ap) <=> GetApEnable(ap) /\ GetRadioEnable(RadioOf(ap))

\* A station runs with the networks last set, which wifi_getSTANetworks reads, also when
\* a client has set the list it has read, unless a call was cut: only a file that
\* differs is passed on, so what was not passed on then never is.
NetworksInUse ==
    todo = <<>> =>
        \A s \in Sta \ staStale : running[s] \in {"none", GetSTANetworks(s).networks}
=============================================================================
