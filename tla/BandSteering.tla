---------------------------- MODULE BandSteering ----------------------------
(***************************************************************************)
(* Band steering (source/wifi/wifi_hal.c).  Enabling gives the 5 GHz       *)
(* access point the name, security mode and key of the 2.4 GHz one with    *)
(* the setters of ApConfig, compares what the getters read, and either     *)
(* sets a flag or takes everything back; disabling takes it back.  The     *)
(* file of the 5 GHz access point is kept beside it in between.            *)
(***************************************************************************)
EXTENDS ApConfig

VARIABLES
    enabled,   \* band_steering_enable of syscfg
    backup,    \* {} or {contents of /nvram/hostapd1.conf_bck}
    before     \* history: {} or {settings that the backup was made of}

steeringVars == <<enabled, backup, before>>
steeringAll  == <<configAll, steeringVars>>

index2G == 0
index5G == 1

Settings(ap) == [file |-> file[ap], sec |-> sec[ap]]

\* The mode chosen for a value of wpa is one of those with a pre-shared key.
PersonalMode(wpa) ==
    CASE wpa = "1" -> [beacon |-> "WPA", auth |-> "PSK"]
      [] wpa = "2" -> [beacon |-> "11i", auth |-> "PSK"]
      [] wpa = "3" -> [beacon |-> "WPAand11i", auth |-> "PSK"]
      [] OTHER     -> NoMode

\* The 5 GHz settings become those of an access point: name, mode, key.
CopySettings(from, junk) ==
    LET key == Value(from, "wpa_passphrase")
        mode == PersonalMode(Value(from, "wpa"))
    IN  SsidCommands(index5G, Value(from, "ssid"), Value(index5G, "wpa_passphrase"))
        \o ModeCommands(index5G, mode, Value(index5G, "wpa_passphrase"), junk)
        \o KeyCommands(index5G, key)
        \o <<Return(index5G, {"ssid", "wpa", "wpa_passphrase"}, Security \ {"wpa"})>>

Backup   == [do |-> "backup"]
Check    == [do |-> "check"]
Restore  == [do |-> "restore"]
Reapply  == [do |-> "reapply"]
SteeringFlag(v) == [do |-> "flag", to |-> v]

\* wifi_setBandSteeringSSIDSecurityParams
SetBandSteeringParams(junk) == <<Backup>> \o CopySettings(index2G, junk)

\* Faulty variant: the backup is copied, and the settings on air are left.
MutResetBandSteeringParams == <<Restore>>

\* wifi_resetBandSteeringSSIDSecurityParams
ResetBandSteeringParams == <<Restore, Reapply>>

\* Faulty variant: only name and key are compared.
MutSameSettings ==
    \A name \in {"ssid", "wpa_passphrase"} : Value(index2G, name) = Value(index5G, name)

\* wifi_checkSSIDSecurityParams
SameSettings ==
    /\ \A name \in {"ssid", "wpa_passphrase"} : Value(index2G, name) = Value(index5G, name)
    /\ SecurityMode(index2G) = SecurityMode(index5G)

\* dual: wifi_getBandSteeringCapability.  Without it the call returns an error at once.
EnableBandSteering(dual, junk) ==
    /\ dual
    /\ Call(SetBandSteeringParams(junk) \o <<Check>>)
    /\ UNCHANGED steeringVars

DisableBandSteering ==
    /\ Call(ResetBandSteeringParams \o <<SteeringFlag(FALSE)>>)
    /\ UNCHANGED steeringVars

\* The getter clears the flag of a device that cannot steer.
GetBandSteeringEnable(dual) ==
    /\ todo = <<>> /\ ~dual
    /\ enabled' = FALSE
    /\ UNCHANGED <<configAll, backup, before>>

\* hostapd is not told the other settings that the restored file takes back.
SteeringCommand ==
    LET c == Head(todo) IN
    /\ todo # <<>>
    /\ \/ /\ ConfigStep(c)
          /\ todo' = Tail(todo)
          /\ UNCHANGED steeringVars
       \/ /\ c.do = "backup"
          /\ backup' = {file[index5G]}
          /\ before' = {Settings(index5G)}
          /\ todo' = Tail(todo)
          /\ UNCHANGED <<configVars, enabled>>
       \/ /\ c.do = "check"
          /\ \/ SameSettings /\ todo' = <<SteeringFlag(TRUE)>>
             \/ ~SameSettings /\ todo' = ResetBandSteeringParams
          /\ UNCHANGED <<configVars, steeringVars>>
       \/ /\ c.do = "restore"
          /\ file' = [file EXCEPT ![index5G] = IF backup = {} THEN @
                                               ELSE CHOOSE f \in backup : TRUE]
          /\ open' = open \cup {index5G} \X {name \in Name :
                                  file'[index5G][name] # file[index5G][name]}
          /\ backup' = {}
          /\ todo' = Tail(todo)
          /\ UNCHANGED <<sec, told, air, enabled, before>>
       \/ /\ c.do = "reapply"
          /\ \E junk \in Junk : todo' = CopySettings(index5G, junk) \o Tail(todo)
          /\ UNCHANGED <<configVars, steeringVars>>
       \/ /\ c.do = "flag"
          /\ enabled' = c.to
          /\ todo' = Tail(todo)
          /\ UNCHANGED <<configVars, backup, before>>

\* Once the backup is gone, what it was made of counts until the next call.
Forget == before' = IF backup = {} THEN {} ELSE before

OtherCall(call) == call /\ Forget /\ UNCHANGED <<enabled, backup>>

SteeringInit == ConfigInit /\ enabled = FALSE /\ backup = {} /\ before = {}

SteeringCall ==
    \E dual \in BOOLEAN :
        \/ GetBandSteeringEnable(dual)
        \/ \E junk \in Junk : EnableBandSteering(dual, junk)
        \/ DisableBandSteering

SteeringNext ==
    \/ SteeringCommand
    \/ SteeringCall
    \/ OtherCall(ProcessRestarts)
    \/ HostapdRestarts /\ UNCHANGED steeringVars
    \/ \E ap \in Ap : OtherCall(\/ NameCall(ap) \/ SecurityCall(ap) \/ WpsCall(ap)
                                \/ ParameterCall(ap) \/ ResetCall(ap))

SteeringSpec == SteeringInit /\ [][SteeringNext]_steeringAll

-----------------------------------------------------------------------------
(* Properties.                                                             *)

\* Settings that the value of wpa describes: those of a mode with a pre-shared key.
\* Without security the file holds a value of wpa that no call has chosen.
Described(settings) ==
    /\ settings.sec # "None"
    /\ PersonalMode(Head(settings.file["wpa"])) = [beacon |-> settings.sec, auth |-> "PSK"]
    /\ Head(settings.file["wpa_key_mgmt"]) = "WPA-PSK"

\* When a call has taken the steering back, because it was disabled or because the
\* check after enabling failed, the 5 GHz access point has the settings it had when
\* the backup was made, in its files and on air, whatever was set in between
\* (wifi_resetBandSteeringSSIDSecurityParams).
SteeringRestores ==
    todo = <<>> /\ backup = {} =>
        \A settings \in before :
            Described(settings) =>
                /\ Settings(index5G) = settings
                /\ \A name \in {"ssid", "wpa", "wpa_passphrase"} :
                        air[index5G][name] = Head(settings.file[name])

\* Steering is only declared enabled with one name, one key and one kind of security on
\* air in both bands, unless the 2.4 GHz hostapd differs from its files
\* (wifi_setBandSteeringEnable).
SteeredTogether ==
    todo = <<SteeringFlag(TRUE)>> =>
        \A name \in {"ssid", "wpa", "wpa_passphrase"} :
            <<index2G, name>> \notin open => air[index2G][name] = air[index5G][name]
=============================================================================
