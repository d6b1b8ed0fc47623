------------------------------- MODULE VapMap -------------------------------
(***************************************************************************)
(* The VAP interface (source/wifi/rpi_wifi_hal_version_3.c): one call      *)
(* takes all settings of an access point and makes the calls of ApConfig   *)
(* one after another, and one call reads them all back.  The calls that    *)
(* enable an access point are those of ApEnable; here they write its flag. *)
(***************************************************************************)
EXTENDS ApConfig

CONSTANT
    Vap   \* settings of one access point that callers ask for

VARIABLES
    flag,   \* flag[ap]: what /var/Get2gssidEnable.txt and _5g say
    taken   \* history: taken[ap]: {} or {settings that a call took last}

vapVars == <<flag, taken>>

\* A mode of the interface that the access points have no counterpart of.
WPA3 == [beacon |-> "WPA3", auth |-> "PSK"]

\* The PIN is one without zeros in front, with which it would not read as it was given.
VapSettings ==
    [enabled : BOOLEAN, ssid : Ssid, showSsid : BOOLEAN, isolation : BOOLEAN,
     bssMaxSta : STRING \ {""}, transition : BOOLEAN, neighbor : BOOLEAN,
     mfp : {"0", "1", "2"}, mode : Mode \cup {WPA3}, encr : Encryption, key : STRING,
     wps : BOOLEAN, pin : STRING, methods : Method \cup {""}, wmm : BOOLEAN]

ASSUME VapAssumption == Vap \subseteq VapSettings

VapFlag(ap, enable) == [do |-> "enable", ap |-> ap, to |-> enable]
Taken(ap, vap)      == [do |-> "taken", ap |-> ap, to |-> vap]

\* wifi_setApSecurityModeEnabled takes a name it does not know for "None", and then
\* gives hostapd the key and the cipher all the same, as for an enterprise mode.
VapModeCommands(ap, mode, key, junk) ==
    IF mode \in Mode THEN ModeCommands(ap, mode, key, junk)
    ELSE BeaconCommands(ap, "None", key, junk)
         \o TellMode(ap, [mode EXCEPT !.auth = "EAP"], key)

\* Only a mode with a pre-shared key sets one, and a key that is too short ends the call.
SetsKey(vap) == vap.mode.auth = "PSK"
Fails(vap)   == SetsKey(vap) /\ vap.key \notin Key

\* Faulty variant: the encryption is set before the mode.
MutUpdateApSecurity(ap, vap, key, junk) ==
    RpiCommands(ap, "ieee80211w", vap.mfp)
    \o When(vap.mode # NoMode, EncryptionCommands(ap, SecurityMode(ap), vap.encr, key))
    \o VapModeCommands(ap, vap.mode, key, junk)
    \o When(SetsKey(vap) /\ ~Fails(vap), KeyCommands(ap, vap.key))

\* wifi_updateApSecurity
UpdateApSecurity(ap, vap, key, junk) ==
    LET mode == IF vap.mode \in Mode THEN vap.mode ELSE NoMode IN
    RpiCommands(ap, "ieee80211w", vap.mfp)
    \o VapModeCommands(ap, vap.mode, key, junk)
    \o When(vap.mode # NoMode, EncryptionCommands(ap, mode, vap.encr, key))
    \o When(SetsKey(vap) /\ ~Fails(vap), KeyCommands(ap, vap.key))

\* No PIN and no methods leave those that are set.
WpsConfiguration(ap, vap) ==
    WpsEnableCommands(ap, vap.wps)
    \o When(vap.pin # "", WpsPinCommands(ap, vap.pin))
    \o When(vap.methods # "", WpsMethodCommands(ap, vap.methods))

Given(vap) ==
    {"ssid", "wpa_passphrase", "ignore_broadcast_ssid", "max_num_sta", "bss_transition",
     "rrm_neighbor_report", "ieee80211w", "wpa"}
    \cup IF Fails(vap) THEN {}
         ELSE {"wps_state", "wmm_enabled"} \cup (IF vap.pin # "" THEN {"ap_pin"} ELSE {})
              \cup (IF vap.methods # "" /\ Kept(vap.methods) THEN {"config_methods"} ELSE {})

NotGiven(vap) ==
    {"ap_isolate"} \cup (Security \ {"wpa"})
    \cup (IF ~Fails(vap) /\ ~Kept(vap.methods) THEN {"config_methods"} ELSE {})

\* An empty value stays in front of what is written after it (rpi_hostapdWrite).
Hidden(ap) == {name \in RpiName : \E i \in DOMAIN file[ap][name] : file[ap][name][i] = ""}

\* A limit of 0 is one of 75.
Limit(vap) == IF vap.bssMaxSta = "0" THEN "75" ELSE vap.bssMaxSta

\* mgmtPowerControl has no effect, and the mode of the MAC filter is MacFilter's.
VapSetters(ap, vap, junk) ==
    LET key == Value(ap, "wpa_passphrase") IN
    SsidCommands(ap, vap.ssid, key)
    \o AdvertisementCommands(ap, vap.showSsid)
    \o <<RpiWrite(ap, "ap_isolate", Flag(vap.isolation))>>
    \o RpiCommands(ap, "max_num_sta", Limit(vap))
    \o RpiCommands(ap, "bss_transition", Flag(vap.transition))
    \o RpiCommands(ap, "rrm_neighbor_report", Flag(vap.neighbor))
    \o UpdateApSecurity(ap, vap, key, junk)
    \o When(~Fails(vap), WpsConfiguration(ap, vap)
                         \o RpiCommands(ap, "wmm_enabled", Flag(vap.wmm)))

\* The end of the call, which one that fails does not reach.
VapCommands(ap, vap, junk) ==
    VapSetters(ap, vap, junk)
    \o <<Return(ap, Given(vap) \ Hidden(ap), NotGiven(vap) \cup (Given(vap) \cap Hidden(ap)))>>
    \o When(~Fails(vap), <<Taken(ap, vap)>>)

\* wifi_createVAP with one of them; the next of a map would follow in the same way.
CreateVap(ap, vap, junk) ==
    /\ \A name \in RpiName : Len(file[ap][name]) < MaxLines
    /\ Call(<<VapFlag(ap, vap.enabled)>>
            \o IF vap.enabled THEN VapCommands(ap, vap, junk) ELSE <<>>)
    /\ taken' = [taken EXCEPT ![ap] = IF vap.enabled THEN {}
                                      ELSE {[t EXCEPT !.enabled = FALSE] : t \in @}]
    /\ UNCHANGED flag

VapCommand ==
    LET c == Head(todo) IN
    /\ todo # <<>>
    /\ todo' = Tail(todo)
    /\ \/ ConfigStep(c) /\ UNCHANGED vapVars
       \/ /\ c.do = "enable"
          /\ flag' = [flag EXCEPT ![c.ap] = c.to]
          /\ UNCHANGED <<configVars, taken>>
       \/ /\ c.do = "taken"
          /\ taken' = [taken EXCEPT ![c.ap] = {c.to}]
          /\ UNCHANGED <<configVars, flag>>

\* Calls and restarts that change settings in another way.
OtherChange(change) ==
    /\ change
    /\ taken' = [ap \in Ap |-> {}]
    /\ UNCHANGED flag

VapInit ==
    /\ ConfigInit
    /\ flag = [ap \in Ap |-> FALSE] /\ taken = [ap \in Ap |-> {}]

VapNext ==
    \/ VapCommand
    \/ \E ap \in Ap, vap \in Vap, junk \in Junk : CreateVap(ap, vap, junk)
    \/ HostapdRestarts /\ UNCHANGED vapVars
    \/ OtherChange(ProcessRestarts)
    \/ \E ap \in Ap : OtherChange(\/ NameCall(ap) \/ SecurityCall(ap) \/ WpsCall(ap)
                                  \/ ParameterCall(ap) \/ ResetCall(ap))

VapSpec == VapInit /\ [][VapNext]_<<configAll, vapVars>>

-----------------------------------------------------------------------------
(* Reading.                                                                *)

\* wifi_getApWpaEncryptionMode; both ciphers together read as CCMP.
ReadEncryption(ap) ==
    LET e == Value(ap, IF sec[ap] \in {"WPAand11i", "11i"} THEN "rsn_pairwise"
                                                            ELSE "wpa_pairwise")
    IN  IF e = "TKIP CCMP" THEN "CCMP" ELSE e

\* wifi_getApSecurity
ReadSecurity(ap) ==
    [mfp  |-> Value(ap, "ieee80211w"),
     mode |-> SecurityMode(ap),
     encr |-> ReadEncryption(ap),
     key  |-> Value(ap, "wpa_passphrase")]

\* wifi_getApWpsConfiguration.  The list of methods is put together in a buffer that was
\* not cleared: it is left out.
ReadWps(ap) ==
    [wps |-> Value(ap, "wps_state") # "0",
     pin |-> Value(ap, "ap_pin")]

\* wifi_getRadioVapInfoMap.  The MAC filter's mode is read where no call writes it: it is
\* left out.
ReadVap(ap) ==
    LET security == ReadSecurity(ap)
        setup    == ReadWps(ap)
    IN  [enabled    |-> flag[ap],
         ssid       |-> Value(ap, "ssid"),
         showSsid   |-> Value(ap, "ignore_broadcast_ssid") # "1",
         isolation  |-> Value(ap, "ap_isolate") = "1",
         bssMaxSta  |-> Value(ap, "max_num_sta"),
         transition |-> Value(ap, "bss_transition") = "1",
         neighbor   |-> Value(ap, "rrm_neighbor_report") = "1",
         mfp        |-> security.mfp,
         mode       |-> security.mode,
         encr       |-> security.encr,
         key        |-> security.key,
         wps        |-> setup.wps,
         pin        |-> setup.pin,
         wmm        |-> Value(ap, "wmm_enabled") = "1"]

-----------------------------------------------------------------------------
(* Properties.                                                             *)

\* The fields of a VAP that parameters inserted by rpi_hostapdWrite hold.
Parameter == [isolation |-> "ap_isolate", bssMaxSta |-> "max_num_sta",
              transition |-> "bss_transition", neighbor |-> "rrm_neighbor_report",
              mfp |-> "ieee80211w", wmm |-> "wmm_enabled"]

\* The settings that wifi_createVAP took to its end are those wifi_getRadioVapInfoMap
\* reads, whatever the files held before, until another call changes them: neither a
\* restart of hostapd nor disabling the access point loses one.  A mode without a
\* counterpart reads as none, a limit of 0 as 75, both ciphers as CCMP, and what the
\* call leaves alone (the key without a mode that has one, the encryption of none, no
\* PIN) or an empty value hides is not compared.
VapReadBack ==
    todo = <<>> =>
        \A ap \in Ap : \A vap \in taken[ap] :
            LET read == ReadVap(ap) IN
            /\ \A name \in {"enabled", "ssid", "showSsid", "wps"} : read[name] = vap[name]
            /\ \A name \in DOMAIN Parameter : Parameter[name] \notin Hidden(ap) =>
                    read[name] = IF name = "bssMaxSta" THEN Limit(vap) ELSE vap[name]
            /\ read.mode = IF vap.mode \in Mode THEN vap.mode ELSE NoMode
            /\ SetsKey(vap) => read.key = vap.key
            /\ vap.mode \in Mode \ {NoMode} =>
                    read.encr = IF vap.encr = "TKIP CCMP" THEN "CCMP" ELSE vap.encr
            /\ vap.pin # "" => read.pin = vap.pin
=============================================================================
