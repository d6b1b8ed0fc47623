----------------------------- MODULE ApConfig -----------------------------
(***************************************************************************)
(* Settings of the access points (source/wifi/wifi_hal.c and               *)
(* wifi_hostapd_interface.c).  A setter edits /nvram/hostapd<ap>.conf, and *)
(* for the security mode also /etc/sec_file.txt, gives hostapd the value   *)
(* over its control socket and restarts the interface; the getters read    *)
(* the files.  A setter is a list of commands, and the process may end     *)
(* between any two of them.                                                *)
(***************************************************************************)
EXTENDS Naturals, Sequences

CONSTANTS
    Ssid, Key,      \* names and passphrases that callers set
    Default,        \* Default[ap]: the access point's file as it is shipped
    DefaultMode,    \* DefaultMode[ap]: security mode in the default parameters
    TwoFour,        \* wifi_getApIndexForWiFiBand(band_2_4)
    MaxLines        \* bound on the lines of one parameter

Ap == {0, 1}

\* Parameters that sed replaces in place, and those a setter inserts if absent.
SedName == {"ssid", "wpa_passphrase", "wpa", "wpa_key_mgmt", "wpa_pairwise",
            "rsn_pairwise", "ignore_broadcast_ssid", "wps_state", "config_methods",
            "ap_pin"}
RpiName == {"wmm_enabled", "uapsd_advertisement_enabled", "ap_isolate",
            "max_num_sta", "ieee80211w", "bss_transition", "rrm_neighbor_report"}
Name    == SedName \cup RpiName

VARIABLES
    file,    \* file[ap][name]: values of the lines of /nvram/hostapd<ap>.conf
    sec,     \* AP_SECMODE<ap> in /etc/sec_file.txt
    told,    \* told[ap][name]: what hostapd was given
    air,     \* air[ap][name]: what the interface was enabled with
    todo,    \* commands the running call has left
    open     \* history: parameters of which file and hostapd may differ

configVars == <<file, sec, told, air, open>>

Absent == [name \in Name |-> <<>>]

\* hostapd_cli, cat and grep deliver the first line; hostapd uses the last one.
Value(ap, name)  == IF file[ap][name] = <<>> THEN "" ELSE Head(file[ap][name])
Loaded(ap, name) ==
    IF file[ap][name] = <<>> THEN "" ELSE file[ap][name][Len(file[ap][name])]

-----------------------------------------------------------------------------
(* Security modes: a beacon type, kept in the security file, and a key     *)
(* management, kept in hostapd's.                                          *)

NoMode == [beacon |-> "None", auth |-> "None"]
Mode   == [beacon : {"WPA", "11i", "WPAand11i"}, auth : {"PSK", "EAP"}] \cup {NoMode}

\* wifi_getApSecurityModeEnabled, with wifi_getApBasicAuthenticationMode
SecurityMode(ap) ==
    IF sec[ap] = "None" THEN NoMode
    ELSE [beacon |-> sec[ap],
          auth |-> IF Value(ap, "wpa_key_mgmt") = "WPA-EAP" THEN "EAP" ELSE "PSK"]

\* What the buffer for the value of wpa may hold when nothing was written to it.
Junk == {"0", "2"}

\* The value of wpa that stands for a beacon type; "None" writes the buffer as it is.
WpaWritten(ap, beacon, junk) ==
    CASE beacon = "WPA" -> "1"
      [] beacon = "11i" -> "2"
      [] beacon = "WPAand11i" -> IF ap = TwoFour THEN "2" ELSE "3"
      [] beacon = "None" -> junk

WpaTold(beacon) == CASE beacon = "None" -> "0" [] beacon = "WPA" -> "1"
                     [] beacon = "11i" -> "2" [] beacon = "WPAand11i" -> "3"

\* The files are shipped with one line for each parameter that sed replaces, and the
\* value of wpa in them is that of the security mode in the default parameters.
ASSUME ApConfigAssumption ==
    /\ Ssid \subseteq STRING /\ Key \subseteq STRING
    /\ Default \in [Ap -> [Name -> Seq(STRING)]] /\ DefaultMode \in [Ap -> Mode]
    /\ \A ap \in Ap, name \in Name :
          /\ Len(Default[ap][name]) <= 1
          /\ name \in SedName \ {"config_methods"} => Len(Default[ap][name]) = 1
    /\ \A ap \in Ap :
          LET wpa == Head(Default[ap]["wpa"])
              beacon == DefaultMode[ap].beacon
          IN  /\ beacon \in {"None", "WPA", "11i"} => wpa = WpaTold(beacon)
              /\ beacon = "WPAand11i" => wpa # "0"
    /\ TwoFour \in Ap /\ MaxLines \in Nat \ {0}

Encryption == {"TKIP", "CCMP", "TKIP CCMP"}

\* Parameters that hold the encryption of a beacon type.
Pairwise(beacon) == CASE beacon = "WPAand11i" -> <<"wpa_pairwise", "rsn_pairwise">>
                      [] beacon = "11i"  -> <<"rsn_pairwise">>
                      [] beacon = "WPA"  -> <<"wpa_pairwise">>
                      [] beacon = "None" -> <<>>

-----------------------------------------------------------------------------
(* The commands of a call.                                                 *)

FileLines(ap, name, lines) == [do |-> "file", ap |-> ap, name |-> name, to |-> lines]

\* wifi_hostapdWrite, which replaces the value where there is a line
HostapdWrite(ap, name, v) ==
    FileLines(ap, name, [i \in DOMAIN file[ap][name] |-> v])

\* rpi_hostapdWrite, which adds a line if there is none with a value
RpiWrite(ap, name, v) ==
    FileLines(ap, name, IF Value(ap, name) = "" THEN Append(file[ap][name], v)
                        ELSE [i \in DOMAIN file[ap][name] |-> v])

WriteSecMode(ap, beacon) == [do |-> "sec", ap |-> ap, to |-> beacon]
Told(ap, name, v)   == [do |-> "told", ap |-> ap, name |-> name, to |-> v]
Replace(ap, f)      == [do |-> "replace", ap |-> ap, to |-> f]
Restart(ap)         == [do |-> "restart", ap |-> ap]

\* The end of a call: parameters it has given to hostapd, and those it has not.
Return(ap, given, not) == [do |-> "return", given |-> {ap} \X given, not |-> {ap} \X not]

When(condition, commands) == IF condition THEN commands ELSE <<>>

ConfigStep(c) ==
    \/ /\ c.do = "file"
       /\ file' = [file EXCEPT ![c.ap][c.name] = c.to]
       /\ UNCHANGED <<sec, told, air, open>>
    \/ /\ c.do = "replace"
       /\ file' = [file EXCEPT ![c.ap] = c.to]
       /\ UNCHANGED <<sec, told, air, open>>
    \/ /\ c.do = "sec"
       /\ sec' = [sec EXCEPT ![c.ap] = c.to]
       /\ UNCHANGED <<file, told, air, open>>
    \/ /\ c.do = "told"
       /\ told' = [told EXCEPT ![c.ap][c.name] = c.to]
       /\ UNCHANGED <<file, sec, air, open>>
    \/ /\ c.do = "restart"
       /\ air' = [air EXCEPT ![c.ap] = told[c.ap]]
       /\ UNCHANGED <<file, sec, told, open>>
    \/ /\ c.do = "return"
       /\ open' = (open \ c.given) \cup c.not
       /\ UNCHANGED <<file, sec, told, air>>

Call(commands) == todo = <<>> /\ todo' = commands /\ UNCHANGED configVars

-----------------------------------------------------------------------------
(* Name, key and advertisement.                                            *)

SsidCommands(ap, ssid, key) ==
    <<HostapdWrite(ap, "ssid", ssid), Told(ap, "ssid", ssid),
      Told(ap, "wpa_passphrase", key), Restart(ap)>>

SetSSIDName(ap, ssid) ==
    Call(SsidCommands(ap, ssid, Value(ap, "wpa_passphrase"))
         \o <<Return(ap, {"ssid", "wpa_passphrase"}, {})>>)

\* Only keys of 8 to 63 characters are taken, which those of Key have.
KeyCommands(ap, key) ==
    <<HostapdWrite(ap, "wpa_passphrase", key), Told(ap, "wpa_passphrase", key),
      Restart(ap)>>

SetPreSharedKey(ap, key) ==
    Call(KeyCommands(ap, key) \o <<Return(ap, {"wpa_passphrase"}, {})>>)

SetKeyPassphrase(ap, key) == SetPreSharedKey(ap, key)

AdvertisementCommands(ap, enable) ==
    LET v == IF enable THEN "0" ELSE "1" IN
    <<HostapdWrite(ap, "ignore_broadcast_ssid", v),
      Told(ap, "ignore_broadcast_ssid", v), Restart(ap)>>

SetSsidAdvertisement(ap, enable) ==
    Call(AdvertisementCommands(ap, enable) \o <<Return(ap, {"ignore_broadcast_ssid"}, {})>>)

-----------------------------------------------------------------------------
(* Security.                                                               *)

Security == {"wpa", "wpa_key_mgmt", "wpa_pairwise", "rsn_pairwise"}

\* hostapd is always given the key management of a pre-shared key.
TellKey(ap, key) == <<Told(ap, "wpa_passphrase", key), Told(ap, "wpa_key_mgmt", "WPA-PSK")>>

\* The cipher told with a mode is CCMP for whichever the file names.  An enterprise mode
\* sends no wpa of its own.
TellMode(ap, mode, key) ==
    (IF mode.beacon = "None" THEN <<Told(ap, "wpa", "0")>>
     ELSE When(mode.auth = "PSK", <<Told(ap, "wpa", WpaTold(mode.beacon))>>)
          \o <<Told(ap, "wpa_pairwise", "CCMP"), Told(ap, "rsn_pairwise", "CCMP")>>
          \o TellKey(ap, key))
    \o <<Restart(ap)>>

BeaconCommands(ap, beacon, key, junk) ==
    <<WriteSecMode(ap, beacon), HostapdWrite(ap, "wpa", WpaWritten(ap, beacon, junk))>>
    \o TellMode(ap, [beacon |-> beacon, auth |-> "PSK"], key)

\* After a change of mode hostapd need not run with the key management and the
\* ciphers of its file.
ReturnMode(ap, mode) ==
    Return(ap, IF mode.beacon = "None" THEN {"wpa"} ELSE {"wpa", "wpa_passphrase"},
           Security \ {"wpa"})

SetBeaconType(ap, beacon, junk) ==
    Call(BeaconCommands(ap, beacon, Value(ap, "wpa_passphrase"), junk)
         \o <<ReturnMode(ap, [beacon |-> beacon, auth |-> "PSK"])>>)

\* "None" leaves the key management as it is.
AuthCommands(ap, auth) ==
    When(auth # "None",
         <<HostapdWrite(ap, "wpa_key_mgmt", IF auth = "EAP" THEN "WPA-EAP" ELSE "WPA-PSK")>>)

SetBasicAuthenticationMode(ap, auth) ==
    Call(AuthCommands(ap, auth) \o <<Return(ap, {}, {"wpa_key_mgmt"})>>)

\* Faulty variant: hostapd is told only by the setter of the beacon type, which an
\* earlier one of the key management has left out.
MutModeCommands(ap, mode, key, junk) ==
    <<WriteSecMode(ap, mode.beacon),
      HostapdWrite(ap, "wpa", WpaWritten(ap, mode.beacon, junk))>>
    \o AuthCommands(ap, mode.auth)
    \o TellMode(ap, mode, key)

\* hostapd is told twice, the second time with the name of the mode.
ModeCommands(ap, mode, key, junk) ==
    BeaconCommands(ap, mode.beacon, key, junk)
    \o AuthCommands(ap, mode.auth)
    \o TellMode(ap, mode, key)

SetSecurityMode(ap, mode, junk) ==
    Call(ModeCommands(ap, mode, Value(ap, "wpa_passphrase"), junk)
         \o <<ReturnMode(ap, mode)>>)

\* TKIP alone is written to the file and told as CCMP.
EncryptionCommands(ap, mode, e, key) ==
    LET names  == Pairwise(mode.beacon)
        cipher == IF e = "TKIP CCMP" THEN e ELSE "CCMP"
    IN  [i \in DOMAIN names |-> HostapdWrite(ap, names[i], e)]
        \o <<Told(ap, "wpa_pairwise", cipher), Told(ap, "rsn_pairwise", cipher)>>
        \o When(mode.auth = "PSK", <<Told(ap, "wpa", WpaTold(mode.beacon))>>)
        \o TellKey(ap, key)
        \o <<Restart(ap)>>

SetEncryptionMode(ap, e) ==
    LET names == Pairwise(sec[ap])
        given == {names[i] : i \in {j \in DOMAIN names : e # "TKIP"}}
    IN  Call(EncryptionCommands(ap, SecurityMode(ap), e, Value(ap, "wpa_passphrase"))
             \o <<Return(ap, given, Security \ ({"wpa"} \cup given))>>)

-----------------------------------------------------------------------------
(* WPS.                                                                    *)

\* Disabling comments the line out, which is a value of 0.
WpsEnableCommands(ap, enable) ==
    LET v == IF enable THEN "2" ELSE "0" IN
    <<HostapdWrite(ap, "wps_state", v), Told(ap, "wps_state", v), Restart(ap)>>

SetWpsEnable(ap, enable) ==
    Call(WpsEnableCommands(ap, enable) \o <<Return(ap, {"wps_state"}, {})>>)

Method == {"push_button", "keypad label display",
           "push_button keypad label display", "keypad"}

\* The line is removed; it is added again only for some lists of methods.
Kept(m) == m # "keypad"

WpsMethodCommands(ap, m) ==
    <<FileLines(ap, "config_methods", <<>>)>>
    \o When(Kept(m), <<FileLines(ap, "config_methods", <<m>>)>>)
    \o <<Told(ap, "config_methods", m), Restart(ap)>>

SetWpsConfigMethods(ap, m) ==
    Call(WpsMethodCommands(ap, m)
         \o <<IF Kept(m) THEN Return(ap, {"config_methods"}, {})
                         ELSE Return(ap, {}, {"config_methods"})>>)

WpsPinCommands(ap, pin) ==
    <<HostapdWrite(ap, "ap_pin", pin), Told(ap, "ap_pin", pin), Restart(ap)>>

SetWpsDevicePIN(ap, pin) == Call(WpsPinCommands(ap, pin) \o <<Return(ap, {"ap_pin"}, {})>>)

-----------------------------------------------------------------------------
(* Parameters that are inserted if absent.                                 *)

\* Faulty variant: the interface is not restarted.
MutRpiCommands(ap, name, v) == <<RpiWrite(ap, name, v), Told(ap, name, v)>>

\* A value that hostapd_cli refuses to send, and the reload and restart all the same.
RpiCommands(ap, name, v) ==
    <<RpiWrite(ap, name, v)>> \o When(v # "", <<Told(ap, name, v)>>) \o <<Restart(ap)>>

SetParameter(ap, name, v) ==
    LET read == v # "" /\ \A i \in DOMAIN file[ap][name] : file[ap][name][i] # "" IN
    /\ Len(file[ap][name]) < MaxLines
    /\ Call(RpiCommands(ap, name, v)
            \o <<IF read THEN Return(ap, {name}, {}) ELSE Return(ap, {}, {name})>>)

Flag(enable) == IF enable THEN "1" ELSE "0"

SetWmmEnable(ap, enable)      == SetParameter(ap, "wmm_enabled", Flag(enable))
SetWmmUapsdEnable(ap, enable) == SetParameter(ap, "uapsd_advertisement_enabled", Flag(enable))
SetMaxAssociatedDevices(ap, n) == SetParameter(ap, "max_num_sta", n)
SetBSSTransition(ap, activate) == SetParameter(ap, "bss_transition", Flag(activate))
SetNeighborReport(ap, activate) == SetParameter(ap, "rrm_neighbor_report", Flag(activate))

\* A name that is none of the three becomes an empty value.
SetMFPConfig(ap, v) == SetParameter(ap, "ieee80211w", v)

\* hostapd is not told.
SetIsolation(ap, enable) ==
    Call(<<RpiWrite(ap, "ap_isolate", Flag(enable)), Return(ap, {}, {"ap_isolate"})>>)

-----------------------------------------------------------------------------
(* Factory reset, restarts.                                                *)

\* One access point, from the default parameters; hostapd is not told.
FactoryResetAp(ap, ssid, key) ==
    LET mode  == DefaultMode[ap]
        names == Pairwise(mode.beacon)
    IN  Call(<<HostapdWrite(ap, "ssid", ssid), HostapdWrite(ap, "wpa_passphrase", key),
               WriteSecMode(ap, mode.beacon),
               HostapdWrite(ap, "wpa", WpaWritten(ap, mode.beacon, ""))>>
             \o [i \in DOMAIN names |-> HostapdWrite(ap, names[i], "CCMP")]
             \o AuthCommands(ap, mode.auth)
             \o <<Return(ap, {}, {"ssid", "wpa_passphrase"} \cup Security)>>)

\* Both files anew; neither hostapd nor the security file takes part.
FactoryReset ==
    Call(<<Replace(0, Absent), Replace(1, Absent),
           Replace(0, Default[0]), Replace(1, Default[1]),
           Return(0, {}, Name), Return(1, {}, Name)>>)

\* A security file that differs from hostapd's stays so.
HostapdRestarts ==
    /\ todo = <<>>
    /\ told' = [ap \in Ap |-> [name \in Name |-> Loaded(ap, name)]]
    /\ air' = told'
    /\ open' = {an \in Ap \X Name : \/ an[2] = "wpa" /\ an \in open
                                   \/ Len(file[an[1]][an[2]]) > 1}
    /\ UNCHANGED <<file, sec, todo>>

\* wifi_init of the next process makes the files that are not there.
ProcessRestarts ==
    /\ todo # <<>>
    /\ todo' = <<>>
    /\ file' = [ap \in Ap |-> IF file[ap] = Absent THEN Default[ap] ELSE file[ap]]
    /\ open' = Ap \X Name
    /\ UNCHANGED <<sec, told, air>>

ConfigInit ==
    /\ file = Default
    /\ sec  = [ap \in Ap |-> DefaultMode[ap].beacon]
    /\ told = [ap \in Ap |-> [name \in Name |-> Loaded(ap, name)]]
    /\ air  = told
    /\ todo = <<>> /\ open = {}

NameCall(ap) ==
    \/ \E ssid \in Ssid : SetSSIDName(ap, ssid)
    \/ \E key \in Key : SetPreSharedKey(ap, key) \/ SetKeyPassphrase(ap, key)
    \/ \E enable \in BOOLEAN : SetSsidAdvertisement(ap, enable)

ModeCall(ap, modes) ==
    \E mode \in modes, junk \in Junk : SetSecurityMode(ap, mode, junk)

SecurityCall(ap) ==
    \/ ModeCall(ap, Mode)
    \/ \E mode \in Mode, junk \in Junk : SetBeaconType(ap, mode.beacon, junk)
    \/ \E mode \in Mode : SetBasicAuthenticationMode(ap, mode.auth)
    \/ \E e \in Encryption : SetEncryptionMode(ap, e)

WpsCall(ap) ==
    \/ \E enable \in BOOLEAN : SetWpsEnable(ap, enable)
    \/ \E m \in Method : SetWpsConfigMethods(ap, m)
    \/ \E pin \in {"1234", "5678"} : SetWpsDevicePIN(ap, pin)

ParameterCall(ap) ==
    \/ \E enable \in BOOLEAN :
         \/ SetWmmEnable(ap, enable) \/ SetWmmUapsdEnable(ap, enable)
         \/ SetBSSTransition(ap, enable) \/ SetNeighborReport(ap, enable)
         \/ SetIsolation(ap, enable)
    \/ \E n \in {"5", "10"} : SetMaxAssociatedDevices(ap, n)
    \/ \E v \in {"0", "1", "2", ""} : SetMFPConfig(ap, v)

ResetCall(ap) ==
    \/ \E ssid \in Ssid, key \in Key : FactoryResetAp(ap, ssid, key)
    \/ FactoryReset

ConfigCommand ==
    /\ todo # <<>>
    /\ ConfigStep(Head(todo))
    /\ todo' = Tail(todo)

ConfigNext ==
    \/ ConfigCommand \/ HostapdRestarts \/ ProcessRestarts
    \/ \E ap \in Ap : \/ NameCall(ap) \/ SecurityCall(ap) \/ WpsCall(ap)
                      \/ ParameterCall(ap) \/ ResetCall(ap)

configAll == <<file, sec, told, air, todo, open>>

ConfigSpec == ConfigInit /\ [][ConfigNext]_configAll

-----------------------------------------------------------------------------
(* Properties.                                                             *)

\* A parameter that the last call to set it has given to hostapd is the same for a
\* getter, for hostapd when it next starts, and on air, whatever other calls came
\* between (wifi_hostapdWrite, rpi_hostapdWrite and the Dynamically_Updated functions).
\* The file holds no wpa for "None", and for both modes that of 11i on 2.4 GHz.
Applied ==
    todo = <<>> =>
        \A ap \in Ap, name \in Name :
            <<ap, name>> \notin open =>
                /\ told[ap][name] = air[ap][name]
                /\ Value(ap, name) = Loaded(ap, name)
                /\ (name = "wpa" => sec[ap] \in {"WPA", "11i"}) => told[ap][name] = Value(ap, name)

\* An access point whose security mode is read as one with a key is never on air
\* without one, unless a call was cut or a reset has not reached hostapd: the two
\* files and hostapd's own settings follow each other (wifi_setApSecurityModeEnabled).
SecureOnAir ==
    todo = <<>> =>
        \A ap \in Ap :
            <<ap, "wpa">> \notin open /\ SecurityMode(ap) # NoMode => air[ap]["wpa"] # "0"
=============================================================================
