---------------------------- MODULE RadioConfig ----------------------------
(***************************************************************************)
(* Channel, width and mode of the radios (source/wifi/wifi_hal.c).  A      *)
(* setting has up to four places: the configuration file of the radio, a   *)
(* file of its own under /etc or /var for what hostapd's file cannot say,  *)
(* the value hostapd was given over its control socket, and the value the  *)
(* interface was last enabled with.  A call visits them one command after  *)
(* another, and the process may end between any two.  Radio_flag, which    *)
(* lets the first call of a process remember a channel, belongs to both    *)
(* radios.  Public access point r + 4 shares the adapter of radio r.       *)
(***************************************************************************)
EXTENDS Integers, Sequences, TLC

CONSTANTS
    Channel,      \* Channel[r]: channels a caller sets on radio r
    Mode,         \* channel modes a caller sets
    Default,      \* Default[r]: channel and mode in the default parameter file
    PublicChannel \* PublicChannel[r]: channel in the file of access point r + 4

Radio == {0, 1}

\* A file of a remembered channel that is not there, and one that is empty.
NoFile == -1
Empty  == -2

VARIABLES
    file,    \* file[r]: channel, width, n and ht in /nvram/hostapd<r>.conf
    bw,      \* SET_BW<r> in /etc/bw_file.txt
    prev,    \* /var/prevchanval*_AutoChannelEnable
    unset,   \* Radio_flag
    told,    \* told[ap]: channel and width hostapd was given
    air,     \* air[ap]: channel and width the interface was enabled with
    todo,    \* commands the running call has left
    asked,   \* history: the width last asked for
    auto,    \* history: radios last set to a remembered channel
    unsure   \* history: what a cut call, a factory reset or a restart has left open

fileVars == <<file, bw, prev>>
apVars   == <<told, air>>
history  == <<asked, auto, unsure>>
vars     == <<fileVars, unset, apVars, todo, history>>

Ap == Radio \cup {r + 4 : r \in Radio}

-----------------------------------------------------------------------------
(* Widths, modes and the second channel of 40 MHz.                         *)

Width == {"20MHz", "40MHz", "80MHz", "160MHz", "80+80"}

\* vht_oper_chwidth
Code(w) == CASE w \in {"20MHz", "40MHz"} -> 0
             [] w = "80MHz" -> 1
             [] w = "160MHz" -> 2
             [] w = "80+80" -> 3

ModeWidth ==
    [m \in {"11A", "11NAHT20", "11ACVHT20", "11B", "11G", "11NGHT20"} |-> "20MHz"]
    @@ [m \in {"11NAHT40PLUS", "11NAHT40MINUS", "11ACVHT40PLUS", "11ACVHT40MINUS",
               "11NGHT40PLUS", "11NGHT40MINUS"} |-> "40MHz"]
    @@ ("11ACVHT80" :> "80MHz") @@ ("11ACVHT160" :> "160MHz")

ASSUME RadioConfigAssumption ==
    /\ \A r \in Radio : Channel[r] \subseteq Nat \ {0}
    /\ \A r \in Radio : PublicChannel[r] \in Nat \ {0}
    /\ \A r \in Radio : Default[r].channel \in Nat \ {0} /\ ModeWidth[Default[r].mode] \in Width
    /\ \A m \in Mode : ModeWidth[m] \in Width

\* Faulty variant: one channel in the wrong list.
MutExtOf(channel) ==
    CASE channel \in {40, 44, 48, 56, 64, 104, 112, 120, 128, 136, 153, 161} -> {"HT40-"}
      [] channel \in {36, 52, 60, 100, 108, 116, 124, 132, 149, 157} -> {"HT40+"}
      [] OTHER -> {}

\* ht_capab that wifi_setRadioChannel writes for a channel of the 5 GHz radio.
ExtOf(channel) ==
    CASE channel \in {40, 48, 56, 64, 104, 112, 120, 128, 136, 153, 161} -> {"HT40-"}
      [] channel \in {36, 44, 52, 60, 100, 108, 116, 124, 132, 149, 157} -> {"HT40+"}
      [] OTHER -> {}

ReadBandWidth(r) == IF bw[r] \in {"20MHz", "40MHz"} THEN bw[r] ELSE "undefined"

\* wifi_getRadioOperatingChannelBandwidth
GetWidth(r) ==
    IF file[r].width = 0 THEN ReadBandWidth(r)
    ELSE CHOOSE w \in Width : Code(w) = file[r].width

GetChannel(r) == file[r].channel

\* wifi_getRadioExtChannel
GetExt(r) == IF r = 1 /\ GetWidth(r) = "40MHz" THEN file[r].ht ELSE "Auto"

\* wifi_getRadioAutoChannelEnable
GetAuto(r) == prev[r] \notin {NoFile, Empty} /\ prev[r] = GetChannel(r)

\* wifi_getRadioOperatingFrequencyBand: iwlist finds the frequency of the channel.
FrequencyBand(r) == CASE file[r].channel \in 1 .. 14 -> 0
                      [] file[r].channel > 14 -> 1
                      [] OTHER -> 2

-----------------------------------------------------------------------------
(* The commands of a call.                                                 *)

WriteBandWidth(r, w) == [do |-> "bw", r |-> r, to |-> w]
HostapdWrite(r, name, value) == [do |-> "file", r |-> r, name |-> name, to |-> value]
Truncate(r)          == [do |-> "truncate", r |-> r]
StorePrev(r) == [do |-> "prev", r |-> r]
Told(ap, name, value) == [do |-> "told", ap |-> ap, name |-> name, to |-> value]
Restart(ap)          == [do |-> "restart", ap |-> ap]

\* The end of a call, and what is certain and open after it.
Return(sure, open) == [do |-> "return", sure |-> sure, open |-> open]

When(condition, commands) == IF condition THEN commands ELSE <<>>

Step ==
    /\ todo # <<>>
    /\ todo' = Tail(todo)
    /\ LET c == Head(todo) IN
         \/ /\ c.do = "bw"
            /\ bw' = [bw EXCEPT ![c.r] = c.to]
            /\ UNCHANGED <<file, prev, apVars, unsure>>
         \/ /\ c.do = "file"
            /\ file' = [file EXCEPT ![c.r][c.name] = c.to]
            /\ UNCHANGED <<bw, prev, apVars, unsure>>
         \/ /\ c.do \in {"truncate", "prev"}
            /\ prev' = [prev EXCEPT ![c.r] =
                            IF c.do = "prev" THEN file[c.r].channel ELSE Empty]
            /\ UNCHANGED <<file, bw, apVars, unsure>>
         \/ /\ c.do = "told"
            /\ told' = [told EXCEPT ![c.ap][c.name] = c.to]
            /\ UNCHANGED <<fileVars, air, unsure>>
         \/ /\ c.do = "restart"
            /\ air' = [air EXCEPT ![c.ap] = told[c.ap]]
            /\ UNCHANGED <<fileVars, told, unsure>>
         \/ /\ c.do = "return"
            /\ unsure' = (unsure \ c.sure) \cup c.open
            /\ UNCHANGED <<fileVars, apVars>>
    /\ UNCHANGED <<unset, asked, auto>>

Call(commands) ==
    /\ todo = <<>>
    /\ todo' = commands
    /\ UNCHANGED <<fileVars, apVars, unsure>>

-----------------------------------------------------------------------------
(* Channel.                                                                *)

\* Faulty variant: the interface is restarted before hostapd has the channel.
MutApplyChannel(r, channel, hotspot) ==
    <<Restart(r), Told(r, "channel", channel), Told(r + 4, "channel", channel)>>
    \o When(hotspot, <<Restart(r + 4)>>)

\* The public access point gets the channel too; it is restarted with the hotspot.
ApplyChannel(r, channel, hotspot) ==
    <<Told(r, "channel", channel), Told(r + 4, "channel", channel), Restart(r)>>
    \o When(hotspot, <<Restart(r + 4)>>)

SetExt(r, channel, width) ==
    IF r = 0
    THEN When(width = "40MHz" /\ channel \notin 5 .. 7,
              <<HostapdWrite(0, "ht", "HT40")>>)
    ELSE When(ExtOf(channel) # {},
              <<HostapdWrite(1, "ht", CHOOSE ht \in ExtOf(channel) : TRUE)>>)

\* width: what wifi_getRadioOperatingChannelBandwidth reads when the channel is set.
ChannelCommands(r, channel, hotspot, width) ==
    SetExt(r, channel, width)
    \o <<HostapdWrite(r, "channel", channel)>>
    \o ApplyChannel(r, channel, hotspot)
    \o <<Return({<<"channel", r>>, <<"public", r>>}
                \cup (IF ExtOf(channel) # {} THEN {<<"ext", r>>} ELSE {}),
                IF ExtOf(channel) # {} THEN {} ELSE {<<"ext", r>>})>>

\* Only the first call of the process, for whichever radio, remembers a channel.
SetChannel(r, channel, hotspot) ==
    /\ Call(When(unset, <<Truncate(r), StorePrev(r)>>)
            \o ChannelCommands(r, channel, hotspot, GetWidth(r)))
    /\ unset' = FALSE
    /\ auto' = auto \ {r}
    /\ UNCHANGED asked

\* Faulty variant: one default for both radios.
MutRemembered(r) == CASE prev[r] = NoFile -> 6
                      [] prev[r] = Empty  -> 0
                      [] OTHER            -> prev[r]

\* The remembered channel, 0 if its file is empty, or a fixed one without a file.
Remembered(r) == CASE prev[r] = NoFile -> IF r = 0 THEN 6 ELSE 36
                   [] prev[r] = Empty  -> 0
                   [] OTHER             -> prev[r]

\* Faulty variant: Radio_flag is left as it is, and the current channel remembered.
MutSetAutoChannel(r, hotspot) ==
    /\ Call(When(unset, <<Truncate(r), StorePrev(r)>>)
            \o ChannelCommands(r, Remembered(r), hotspot, GetWidth(r)))
    /\ unset' = FALSE
    /\ auto' = IF prev[r] \in {NoFile, Empty} THEN auto \ {r} ELSE auto \cup {r}
    /\ UNCHANGED asked

\* wifi_setRadioAutoChannelEnable(r, TRUE); FALSE is refused.
SetAutoChannel(r, hotspot) ==
    /\ Call(ChannelCommands(r, Remembered(r), hotspot, GetWidth(r)))
    /\ unset' = FALSE
    /\ auto' = IF prev[r] \in {NoFile, Empty} THEN auto \ {r} ELSE auto \cup {r}
    /\ UNCHANGED asked

\* wifi_setRadioExtChannel, which writes the file only.
SetExtChannel(r, ht) ==
    /\ Call(<<HostapdWrite(r, "ht", IF r = 0 THEN "HT40" ELSE ht),
              Return({}, {<<"ext", r>>})>>)
    /\ UNCHANGED <<unset, asked, auto>>

-----------------------------------------------------------------------------
(* Width and mode.                                                         *)

\* For the 5 GHz radio ieee80211n is written too, and hostapd is then given that
\* value as its vht_oper_chwidth: with 40 MHz it runs with 80.
WidthCommands(r, w) ==
    LET n == IF w = "20MHz" THEN 0 ELSE 1
        narrow == r = 1 /\ w \in {"20MHz", "40MHz"}
    IN  <<WriteBandWidth(r, w), HostapdWrite(r, "width", Code(w))>>
        \o When(narrow, <<HostapdWrite(r, "n", n)>>)
        \o <<Told(r, "width", IF narrow THEN n ELSE Code(w)), Restart(r),
             Return({<<"report", r>>, <<"width", r>>},
                    IF r = 1 /\ w = "40MHz" THEN {<<"width", r>>} ELSE {})>>

SetWidth(r, w) ==
    /\ Call(WidthCommands(r, w))
    /\ asked' = [asked EXCEPT ![r] = w]
    /\ UNCHANGED <<unset, auto>>

SetChannelMode(r, m) ==
    LET w == ModeWidth[m] IN
    /\ Call(When(Code(w) = 0, <<WriteBandWidth(r, w)>>) \o WidthCommands(r, w))
    /\ asked' = [asked EXCEPT ![r] = w]
    /\ UNCHANGED <<unset, auto>>

\* wifi_getRadioOperatingParameters.  It knows the widths up to 80 MHz, and returns
\* with what it has so far for another.
GetOperatingParameters(r) ==
    IF GetWidth(r) \in {"20MHz", "40MHz", "80MHz"}
    THEN [width |-> GetWidth(r), channel |-> GetChannel(r), automatic |-> GetAuto(r)]
    ELSE [width |-> "", channel |-> 0, automatic |-> FALSE]

\* wifi_setRadioOperatingParameters: the remembered channel if asked for, the width, and
\* then the channel in any case.  A width without a name ends it.  The call that
\* enables the radio is ApEnable's.
SetOperatingParameters(r, p, hotspot) ==
    LET same == prev[r] \notin {NoFile, Empty} /\ (p.width \in Width => p.channel = prev[r])
    IN
    /\ Call(When(p.automatic, ChannelCommands(r, Remembered(r), hotspot, GetWidth(r)))
            \o When(p.width \in Width,
                    WidthCommands(r, p.width)
                    \o When(unset /\ ~p.automatic, <<Truncate(r), StorePrev(r)>>)
                    \o ChannelCommands(r, p.channel, hotspot, p.width)))
    /\ unset' = (unset /\ ~p.automatic /\ p.width \notin Width)
    /\ auto' = IF p.automatic THEN (IF same THEN auto \cup {r} ELSE auto \ {r})
               ELSE IF p.width \in Width THEN auto \ {r} ELSE auto
    /\ asked' = IF p.width \in Width THEN [asked EXCEPT ![r] = p.width] ELSE asked

\* Faulty variant: the file for 20 and 40 MHz is left as it is.
MutFactoryReset(r, rates) ==
    LET w == ModeWidth[Default[r].mode] IN
    /\ Call(rates \o
            <<HostapdWrite(r, "channel", Default[r].channel),
              HostapdWrite(r, "width", Code(w)),
              Return({<<"report", r>>},
                     {"channel", "public", "width", "ext"} \X {r})>>)
    /\ asked' = [asked EXCEPT ![r] = w]
    /\ auto' = auto \ {r}
    /\ UNCHANGED unset

\* Writes the file only; the commands that write the rates come from Rates.
FactoryReset(r, rates) ==
    LET w == ModeWidth[Default[r].mode] IN
    /\ Call(When(Code(w) = 0, <<WriteBandWidth(r, w)>>)
            \o rates
            \o <<HostapdWrite(r, "channel", Default[r].channel),
                 HostapdWrite(r, "width", Code(w)),
                 Return({<<"report", r>>},
                        {"channel", "public", "width", "ext"} \X {r})>>)
    /\ asked' = [asked EXCEPT ![r] = w]
    /\ auto' = auto \ {r}
    /\ UNCHANGED unset

-----------------------------------------------------------------------------
(* hostapd and the process.                                                *)

\* hostapd reads its files; the public ones never learn of a channel.
InFile(ap) ==
    IF ap \in Radio THEN [channel |-> file[ap].channel, width |-> file[ap].width]
                    ELSE [channel |-> PublicChannel[ap - 4], width |-> 0]

HostapdRestarts ==
    /\ todo = <<>>
    /\ told' = [ap \in Ap |-> InFile(ap)]
    /\ air'  = told'
    /\ unsure' = (unsure \ {<<what, r>> : what \in {"channel", "width"}, r \in Radio})
                 \cup {<<"public", r>> : r \in Radio}
    /\ UNCHANGED <<fileVars, unset, todo, asked, auto>>

\* The process ends, in a call or between two, and is started again.
ProcessRestarts ==
    /\ unset' = TRUE
    /\ todo' = <<>>
    /\ \/ todo = <<>> /\ UNCHANGED <<auto, unsure>>
       \/ /\ todo # <<>>
          /\ auto' = {}
          /\ unsure' = {"channel", "public", "width", "report", "ext", "remembered"} \X Radio
    /\ UNCHANGED <<fileVars, apVars, asked>>

\* As after the factory reset of both radios and a start of the box.
Init ==
    /\ file = [r \in Radio |-> [channel |-> Default[r].channel,
                                width |-> Code(ModeWidth[Default[r].mode]),
                                n |-> 1, ht |-> IF r = 0 THEN "HT40" ELSE "HT40+"]]
    /\ bw = [r \in Radio |-> ModeWidth[Default[r].mode]]
    /\ prev = [r \in Radio |-> NoFile]
    /\ unset = TRUE
    /\ told = [ap \in Ap |-> InFile(ap)] /\ air = told
    /\ todo = <<>>
    /\ asked = bw /\ auto = {}
    /\ unsure = {<<what, r>> : what \in {"public", "ext"}, r \in Radio}

ChannelCall(r, channels, hotspot) ==
    \/ \E channel \in channels : SetChannel(r, channel, hotspot)
    \/ SetAutoChannel(r, hotspot)

ExtCall(r) == \E ht \in {"HT40+", "HT40-"} : SetExtChannel(r, ht)

WidthCall(r) ==
    \/ \E m \in Mode : SetChannelMode(r, m)
    \/ \E w \in {ModeWidth[m] : m \in Mode} : SetWidth(r, w)

OperatingCall(r, channels) ==
    \/ \E channel \in channels, automatic \in BOOLEAN, w \in {"40MHz", "160MHz"} :
          SetOperatingParameters(r, [width |-> w, channel |-> channel,
                                     automatic |-> automatic], FALSE)
    \/ SetOperatingParameters(r, GetOperatingParameters(r), FALSE)

Next ==
    \/ Step
    \/ \E r \in Radio :
         \/ \E hotspot \in BOOLEAN : ChannelCall(r, Channel[r], hotspot)
         \/ ExtCall(r) \/ WidthCall(r) \/ FactoryReset(r, <<>>)
         \/ OperatingCall(r, Channel[r])
    \/ HostapdRestarts
    \/ ProcessRestarts

Spec == Init /\ [][Next]_vars

-----------------------------------------------------------------------------
Sure(what, r) == todo = <<>> /\ <<what, r>> \notin unsure

\* Between calls the channel and the width in a radio's file, which the getters
\* report as the running ones, are what hostapd was given and what the interface
\* was enabled with, and the public access point on the adapter was given the same
\* channel: in whatever order calls for both radios followed one another. It is not
\* so after a factory reset, for the public access point after a restart of hostapd,
\* or for a 5 GHz radio set to 40 MHz.
InUse ==
    \A r \in Radio :
        /\ Sure("channel", r) => file[r].channel = told[r].channel
                                 /\ file[r].channel = air[r].channel
        /\ Sure("width", r)   => file[r].width = told[r].width
                                 /\ file[r].width = air[r].width
        /\ Sure("public", r)  => file[r].channel = told[r + 4].channel

\* wifi_getRadioOperatingChannelBandwidth, which puts the width together from two
\* files that a call writes one after the other, reports the width last asked for,
\* through whichever of the three calls, unless the call was cut: then the one file
\* may say 20 or 40 MHz and the other 80, and what is reported is not even defined.
WidthReported == \A r \in Radio : Sure("report", r) => GetWidth(r) = asked[r]

\* A radio that was set to its remembered channel is reported as automatic until its
\* channel is set again: no call for the other radio, no new process and no restart
\* of hostapd replaces what is remembered, and setting all parameters to what was
\* read changes nothing (wifi_setRadioOperatingParameters).
AutoReported == todo = <<>> => \A r \in auto : GetAuto(r)

\* Both radios share Radio_flag, yet the channel of a radio never becomes one of the
\* other's band, and it becomes 0 (left to hostapd) only if a call was cut while it
\* remembered a channel.
OwnChannel ==
    \A r \in Radio : \/ FrequencyBand(r) = r
                     \/ file[r].channel = 0 /\ <<"remembered", r>> \in unsure

\* The second channel lies above the lower channel of a 40 MHz pair and below the
\* upper one (5 GHz channels pair up every 40 MHz, from 36 and from 149).
ExtAgrees ==
    Sure("ext", 1) =>
        file[1].ht = IF file[1].channel % 8 \in {4, 5} THEN "HT40+" ELSE "HT40-"
=============================================================================
