-------------------------- MODULE MCBandSteering --------------------------
(***************************************************************************)
(* TLC instance of BandSteering and the settings under it.  A behaviour    *)
(* makes the calls that set one access point's name and key, those of its  *)
(* security, those of one other parameter, or steering calls with setters  *)
(* of what steering copies, or with one of a parameter that it does not    *)
(* copy: the parameters of these groups meet only in resets and restarts.  *)
(* Another sets all of one access point at once, as MCVap lists them, and  *)
(* cuts no call.  At most MaxCuts calls are cut, in a steering behaviour   *)
(* only those that enable or disable steering.                             *)
(***************************************************************************)
EXTENDS BandSteering, VapMap, TLC

VARIABLES group, cuts

MCSsid == {"home", "guest"}
MCKey  == {"k1", "k2"}
MCFile(ssid, key) ==
    [name \in Name |->
        CASE name = "ssid"           -> <<ssid>>
          [] name = "wpa_passphrase" -> <<key>>
          [] name = "wpa"            -> <<"2">>
          [] name = "wpa_key_mgmt"   -> <<"WPA-PSK">>
          [] name \in {"wpa_pairwise", "rsn_pairwise"} -> <<"CCMP">>
          [] name = "wps_state"      -> <<"2">>
          [] name = "config_methods" -> <<"push_button">>
          [] name = "ap_pin"         -> <<"1234">>
          [] name = "ignore_broadcast_ssid" -> <<"0">>
          [] OTHER -> <<>>]
MCDefault == 0 :> MCFile("home", "k1") @@ 1 :> MCFile("guest", "k2")
MCDefaultMode == [ap \in {0, 1} |-> [beacon |-> "11i", auth |-> "PSK"]]
MaxCuts == 1

\* Modes and encryptions in every order, one without a counterpart, a key that is too
\* short, and settings that are left alone.
MCVapOf(mode, encr, key) ==
    [enabled |-> TRUE, ssid |-> "home", showSsid |-> TRUE, isolation |-> TRUE,
     bssMaxSta |-> "0", transition |-> TRUE, neighbor |-> FALSE, mfp |-> "1",
     mode |-> mode, encr |-> encr, key |-> key,
     wps |-> TRUE, pin |-> "", methods |-> "", wmm |-> TRUE]
MCMode(beacon, auth) == [beacon |-> beacon, auth |-> auth]
MCVap == {
    MCVapOf(MCMode("11i", "PSK"), "TKIP CCMP", "k1"),
    [MCVapOf(MCMode("WPA", "PSK"), "TKIP", "k2")
        EXCEPT !.ssid = "guest", !.showSsid = FALSE, !.isolation = FALSE,
               !.bssMaxSta = "10", !.transition = FALSE, !.mfp = "2", !.wps = FALSE,
               !.pin = "5678", !.methods = "push_button keypad label display"],
    [MCVapOf(MCMode("WPAand11i", "EAP"), "CCMP", "k1")
        EXCEPT !.methods = "keypad", !.wmm = FALSE],
    MCVapOf(NoMode, "CCMP", "k1"),
    MCVapOf(WPA3, "CCMP", "k1"),
    MCVapOf(MCMode("11i", "PSK"), "TKIP", "short"),
    [MCVapOf(MCMode("11i", "PSK"), "CCMP", "k1") EXCEPT !.enabled = FALSE]}

Single == RpiName \cup {"ignore_broadcast_ssid", "wps_state", "config_methods", "ap_pin"}
Groups == {"name", "security", "steering", "uncopied", "vap"} \cup Single

\* The modes that a steering behaviour sets: a 2.4 GHz one that can be copied and one
\* that the check refuses; 5 GHz one that can be taken back and one that cannot.
SteeringModes ==
    index2G :> {[beacon |-> "11i", auth |-> "PSK"], [beacon |-> "WPAand11i", auth |-> "PSK"]}
    @@ index5G :> {[beacon |-> "WPA", auth |-> "PSK"], [beacon |-> "11i", auth |-> "EAP"]}

\* A call that enables or disables steering is under way.
Steering == \E i \in DOMAIN todo : todo[i].do \in {"check", "reapply", "flag"}

MCInit == SteeringInit /\ VapInit /\ group \in Groups /\ cuts = 0

Settings5G ==
    \/ SteeringCommand
    \/ HostapdRestarts /\ UNCHANGED steeringVars
    \/ OtherCall(ProcessRestarts)
    \/ group \in {"steering", "uncopied"} /\ SteeringCall
    \/ group = "uncopied" /\ OtherCall(\E on \in BOOLEAN : SetWmmEnable(index5G, on))
    \/ group = "steering" /\ OtherCall(\E ap \in Ap : ModeCall(ap, SteeringModes[ap]))
    \/ group = "steering" /\ OtherCall(FactoryReset)
    \/ group = "steering" /\ OtherCall(SetSSIDName(index5G, "home"))
    \/ group = "name" /\ OtherCall(NameCall(index5G) /\ todo'[1].name # "ignore_broadcast_ssid")
    \/ group = "name" /\ OtherCall(ResetCall(index5G))
    \/ group = "security" /\ OtherCall(\/ SecurityCall(index2G) \/ FactoryReset
                                         \/ FactoryResetAp(index2G, "home", "k1"))
    \/ /\ group \in Single
       /\ OtherCall(/\ \/ NameCall(index5G) \/ WpsCall(index5G)
                       \/ ParameterCall(index5G)
                    /\ todo'[1].name = group)
    \/ group \in Single /\ OtherCall(FactoryReset)

SettingsOfVap ==
    \/ VapCommand
    \/ \E vap \in MCVap, junk \in Junk : CreateVap(index5G, vap, junk)
    \/ HostapdRestarts /\ UNCHANGED vapVars
    \/ OtherChange(ProcessRestarts)
    \/ OtherChange(FactoryReset)
    \/ OtherChange(SetMFPConfig(index5G, ""))

MCNext ==
    /\ IF group = "vap" THEN SettingsOfVap /\ UNCHANGED steeringVars
                         ELSE Settings5G /\ UNCHANGED vapVars
    /\ cuts' = IF todo # <<>> /\ todo' = <<>> /\ Len(todo) > 1 THEN cuts + 1 ELSE cuts
    /\ cuts' <= MaxCuts
    /\ group \in {"steering", "uncopied"} /\ cuts' > cuts => Steering
    /\ group = "vap" => cuts' = 0
    /\ UNCHANGED group

MCSpec == MCInit /\ [][MCNext]_<<steeringAll, vapVars, group, cuts>>
=============================================================================
