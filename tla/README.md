# Verification of the Raspberry Pi RDK-B HAL

This directory specifies the hardware abstraction layer in `../src` in TLA+. The
HAL is a set of C libraries that other RDK-B processes link: each call reads and
writes files, runs shell commands (`hostapd_cli`, `iptables`, `syscfg`, `curl`)
and returns. There is next to no state in memory, and no lock anywhere: what can
go wrong lies in the order of the commands, in what a crash or a reboot leaves
behind, in calls of several threads, and in files that outlive what they describe.

Paths below are relative to `src/source`.

## Contents

| Module | What it is |
| --- | --- |
| `MacFilter` | MAC access control of an access point (`wifi/wifi_hal.c`) |
| `MacFilterProofs` | theorems about `MacFilter`, checked by TLAPS |
| `StaReports` | abstract: what the client event callback promises |
| `WpaCtrl` | control connections to wpa_supplicant (`wifi/client_wifi_hal.c`), implements `StaReports` |
| `WpaCtrlProofs` | theorems about `WpaCtrl`, and that it implements `StaReports` |
| `FwUpgrade` | firmware download, flashing and reboot (`fwupgrade/fwupgrade_hal.c`) |
| `FwUpgradeProofs` | theorems about `FwUpgrade` |
| `EthLink` | Ethernet link events (`json-ethsw/hal-json-ethsw.c`, `hal-ethsw/ccsp_hal_ethsw.c`) |
| `EthLinkProofs` | theorems about `EthLink`, checked by TLAPS |
| `ApEnable` | enabling of access points and radios, and the backhaul networks (`wifi/wifi_hal.c`, `wifi/client_wifi_hal.c`) |
| `ApEnableProofs` | theorems about `ApEnable` |
| `RadioConfig` | channel, width and mode of the radios (`wifi/wifi_hal.c`, `wifi/rpi_wifi_hal_version_3.c`) |
| `RadioConfigProofs` | theorems about `RadioConfig` and `Rates` |
| `Rates` | data rates of the radios; extends `RadioConfig` |
| `ApConfig` | name, key, security, WPS and other parameters of an access point, on hostapd's files (`wifi/wifi_hal.c`, `wifi/wifi_hostapd_interface.c`) |
| `ApConfigProofs` | theorems about `ApConfig`, `BandSteering` and `VapMap` |
| `BandSteering` | enabling and disabling band steering; extends `ApConfig` |
| `VapMap` | the VAP map of version 3 (`wifi/rpi_wifi_hal_version_3.c`); extends `ApConfig` |
| `Clients` | readers of connected devices, and the steering of one of them (`wifi/rpi_wifi_hal_assoc_devices_details.c`, `wifi/wifi_hal.c`, `hal-ethsw/ccsp_hal_ethsw.c`) |
| `DhcpLease` | what is left of the DHCP lease, and its name servers (`dhcpv4c/dhcpv4c_api.c`) |
| `ClientsProofs` | theorems about `Clients` and `DhcpLease` |
| `MC...` | instances for TLC, one for each configuration; `MCBandSteering` composes `BandSteering` and `VapMap`, `MCClients` composes `Clients` and `DhcpLease`, `MCRadioConfig` instantiates `Rates` |

Run `tlc -config MacFilter.cfg MCMacFilter` (and likewise for each configuration) and
`tlapm MacFilterProofs.tla` (and likewise for each module of proofs; the longest takes
four minutes). `PROJECT.json` lists components,
runs, the lines each definition models, findings, hazards and, for every property, a
faulty variant of a definition (`Mut...`) that violates it.

## Inventory

| Component | Source | State | Operations | Hard behaviour | Correct when |
| --- | --- | --- | --- | --- | --- |
| MAC filter | `wifi/wifi_hal.c` 1190-1257, 4555-4867 | `/tmp/wifi_acl_list_<ap>`, syscfg `blockall`, `countfilter`, `macfilterK`, iptables chain | add, delete, set mode, kick, boot | a kick is some ten commands per address; crash or reboot between any two | the chain, the list and what a reboot restores agree |
| Backhaul connections | `wifi/client_wifi_hal.c` 58-301, 417-456 | `struct ctrl`: connection, io, retry, watchdog and stat watchers | register, libev callbacks | supplicant restarts, silent death, events in front of a PONG | always reopened, events in order, none lost while attached |
| Backhaul configuration | `wifi/client_wifi_hal.c` 547-676 | `/tmp/<sta>.conf` and `.old` | set networks, enable | change detection through a copied file; calls `wifi_setApEnable` | networks in use are those set |
| AP and radio enabling | `wifi/wifi_hal.c` 1498-1664, 4806-5251, 612-649 | `/var/Get*Enable.txt`, hostapd run state, `xfinity_wifi`, `PreferPrivate` | enable or disable AP and radio, start, stop, restart, reset | flag and process change separately; an AP depends on its radio | flag, hostapd and radio agree |
| Radio settings | `wifi/wifi_hal.c` 838-913, 2038-2323, 2617-2730, 1060-1164 | hostapd conf and running channel, width files, remembered channel, `Radio_flag` | set channel, auto channel, width, mode, factory reset | two copies, one global for both radios | configured equals running |
| Security and WPS | `wifi/wifi_hal.c` 720-835, 4280-4540, 5613-6180, 2352-2514 | hostapd conf, `SEC_FNAME` | beacon type, encryption, authentication, keys, WPS, factory reset | several dependent lines written one by one | conf, mode file and running AP agree |
| hostapd files | `wifi/wifi_hostapd_interface.c` | the conf files | read, write | substitution of a missing line does nothing | a read returns what was written |
| Band steering | `wifi/wifi_hal.c` 7086-7240 | `band_steering_enable`, backup of the 5 GHz file | enable, disable | multi-step copy, partial failure, restore | bands agree, or the backup is back |
| VAP interface v3 | `wifi/rpi_wifi_hal_version_3.c` | none of its own | create VAP, VAP map, radio parameters | a long sequence of calls with early returns | what was set is what is read back |
| Associated devices | `wifi/rpi_wifi_hal_assoc_devices_details.c`, `wifi/wifi_hal.c` 6372-6615 | `/tmp` lists of devices, file of devices seen | diagnostics, list, inactive devices, switch band | a list counted, then read line by line while devices come and go | a row is about the device it names |
| Firmware upgrade | `fwupgrade/fwupgrade_hal.c` | `/tmp/httpDwnld.conf`, `gDwdInProgressFlag`, `dload_status`, image | set URL, download, status, reboot | a long call polled and interfered with by other threads | what is flashed is what was asked for, complete |
| Ethernet HAL | `hal-ethsw/ccsp_hal_ethsw.c` | `hal_init_done`, callbacks, last link state in the thread | init, register, link thread, wired devices, port getters | thread against registration; leases against station lists | the last event told is that of the link; wired devices are the ones without a radio |
| Ethernet JSON server | `json-ethsw/hal-json-ethsw.c` | subscriptions (5), callbacks | subscribe, own link thread, publish | two link threads, start before registration | as above, for subscribers |
| DHCP client queries | `dhcpv4c/dhcpv4c_api.c` | none | getters | one time put together from three reads while the lease is renewed | it was right at some moment of the call |
| Platform | `platform/platform_hal.c` | none | getters, SSH switch | | |

Interactions: `wifi_init` runs `macfilter_init` and starts hostapd; version 3 and
band steering are sequences of the setters of `wifi_hal.c`; the setters share
`wifi_hostapdRead`/`Write`; a new backhaul network list disables access points;
the JSON server drives the Ethernet HAL, which calls it back; `wifi_switchBand`
disassociates the devices of the list it reads. Everything else
meets in files, in syscfg and in the processes behind the command line tools.

## What is modelled

### MacFilter

| State | In the code |
| --- | --- |
| `acl` | the file `/tmp/wifi_acl_list_<ap>` |
| `live`, `saved` | syscfg values as `syscfg get` returns them, and as committed |
| `chain` | the iptables chain `WifiServices<ap>`, rules in order |
| `sta` | the stations `hostapd_cli all_sta` lists |
| `call` | where `wifi_kickApAclAssociatedDevices` is, with its local copy of the list |

`AddAclDevice`, `DelAclDevice` and `SetControlMode` are one action each: they have
one effect that others see. A kick is one action per command that changes state
(`KickBegin`, then `KickRule`, `KickSetMac`, `KickSetCount`, `KickDevice` for each
address, then `DenyReturn` or `AllowReturn`), because `AgentDies` and `Reboot` may
come between any two. `KickBegin` joins the reading of the list and the five
commands that empty the chain: between them the chain has no rule, which is the
state the action ends in. The HAL takes no lock; the model assumes, as the code
does, that its caller serialises these calls. `Reboot` is `macfilter_init` and the script it writes.

Addresses are model values; the case-insensitive search for an address in the file
is membership. `aclArray[512]` holds 28 addresses of 18 characters; this is the
constant `AclArrayEntries`, and an address cut off at its end is skipped because it
is shorter than 17 characters. The station lines of `hostapd_cli` are kept as
`key=value` records (`StaLine`): the allow kick compares and disassociates the
whole line, so it disconnects nobody, whatever the list.

What holds (run `MacFilter`): `ListedOnce`, `EntriesFilled`, `DenyRegistered`,
`DenyApplied`, `AllowApplied`, `BootRestores`. Read together: a deny kick first
blocks, then registers and commits, then disassociates, address by address, and
may be cut anywhere without registering an address that was never written.

What does not (runs `MacFilterDelete`, `MacFilterAllow`): deleting an unlisted
address erases the list; the allow list is registered without a commit.

Met while modelling, without a statement in the code to compare with: the allow
list of no address lets everybody in, or, at boot, on the second access point, all
but the last address of the first (`CarriedTmp`); emptying a deny list and kicking
leaves the old entries registered for the next boot; the setter of the control
mode writes `blockall` while the getter reads hostapd's `macaddr_acl`;
`wifi_delApAclDevices` truncates another file than the list.

### WpaCtrl and StaReports

One record of `struct ctrl` per backhaul station: `conn` is `ctrl->wpa`, `retry`,
`watchdog` and `stat` are its watchers, `queue` is what lies unread in the socket.
Each libev callback is one action, since libev runs them one at a time; a callback
may find any number of events queued. wpa_supplicant is the environment: it starts
and stops (with or without the HAL noticing) and reports the n-th association
change of a station as the event `n`. `base` and `opened` are history variables.

`WatchdogPong` is `wpa_ctrl_request` with an answer; events in front of it go to
`ctrl_msg_cb`. `WatchdogFails` is the request without one: the supplicant is gone
or was too slow. `Register` keeps the order of `init_client_wpa`: the first station
that cannot be opened ends it, without a retry timer.

`ReportsSpec` is the refinement: `Reports == INSTANCE StaReports WITH ...` maps the
association of a station and the last event told to the abstract variables, and
every step is a change, a report of a newer change, or a stutter of `StaReports`.
`Recovers` and `EventTold` are liveness.

Fairness: `WF` of `IoEvent` (the loop handles a readable socket), `WF` of the watchdog
of a connection whose supplicant is gone (a repeating 30 s timer whose PING nobody
answers; a live supplicant is never forced to miss one), `SF` of `RetryOpens`: the retry
timer repeats every 5 s, and while the supplicant comes and goes the attempt is enabled
again and again; strong fairness says that an attempt does not time out for ever. No
fairness is assumed for the API, for the socket-file watcher, for error detection on the
socket, or for wpa_supplicant. `Recovers` therefore rests on the watchdog and the retry
timer alone. What is told between a close and the next attach is lost, and nothing is
claimed about it.

### FwUpgrade

`fwupgrade_hal_download` blocks for the whole transfer, so it is one action per
shell command or file access, with a program counter per calling thread. Other
threads set the URL (in two steps: truncate, write), poll the status, reboot. The
image carries which transfers wrote it, for which URL, and whether it is complete.
The redirection `echo $? > dload_status` is two steps too, and the file may be
removed by `fwupgrade_hal_set_download_url` between them. URL and file name are one
value; a host either resolves or not. Reading the URL from an empty file does not
return (the loop looks for a newline for ever): the call is not enabled then, and
the death it may cause is `AgentDies`.

The run `FwUpgrade` has one downloading thread; URL changes, polls, crashes and
reboots interleave with it. With two (run `FwUpgradeOverlap`) the second transfer
starts while the first runs, against the documented `RETURN_ERR`; the properties of
the first run then have nothing to stand on, which is why they are stated for one.
`FwUpgradeReason` shows that a registered reboot reason is always overwritten.
Also met: during flashing, and until the old status file is wiped, the status says
200 (completed); `fwupgrade_hal_update_and_factoryreset` resets nothing. No
run checks `TypeOK`, which is proved.

### EthLink

| State | In the code |
| --- | --- |
| `link` | what `ethtool erouter0` reports: yes, no, or nothing without the interface |
| `pc`, `prev`, `buff` | where a link thread is, its `previousLinkDetected` and `buff` |
| `initDone`, `callbacks` | `hal_init_done`; `ethWanCallbacks` is set |
| `handler`, `subs` | where `subs_event_cb` is; `evt_subs_index + 1` |
| `told`, `ups` | history: the last event published, `LINK_UP`s since the last `LINK_DOWN` |

The server starts a link thread in `main` (after the socket is open, so that a
request may come first), and the first subscription starts another one through
`CcspHalEthSwInit`. Both files define `ethsw_thread_main`: with ordinary dynamic
linking the second thread runs the server's function too, which publishes by itself;
with function symbols bound locally it runs the HAL's, which calls the registered
callbacks. `HalInit` chooses (`publishes`). A thread's sampling (`Sample`) and its
publication (`Tell`) are two actions, since the link and the other thread may move
between them; a sample equal to the previous one changes nothing and is no action.
`RegisterCallbacks` joins the two assignments of `GWP_RegisterEthWan_Callback`.
A callback that is not registered yet ends the process (`NullCall`), and systemd
starts it again (`Restart=always`); the process may end in any other way too.
`MaxSubs` keeps the subscriptions within the five entries of `gsubs_event_list`,
beyond which the code writes out of bounds.

`SettledAgrees` and `UpsBounded` say what two uncoordinated publishers can and
cannot do: an old event may follow a newer one and an event may be repeated, but
neither for good. `Converges` says that if the link stays, the process stays and
the server has its thread, the right event is the last. It does not say that a
client which was told "up" before a restart learns that the link is down: it does
not, because the new process starts from "no". Fairness: `WF` of each link
thread (its loop sleeps five seconds and runs), of `main` and of the handler.

### ApEnable

| State | In the code |
| --- | --- |
| `apFlag`, `radioFlag` | `/var/Get*ssidEnable.txt`, `/var/Get*RadioEnable.txt` |
| `hostapd`, `nic` | the service runs; each access point off, on, or on with its interface down |
| `conf`, `running` | `/tmp/<sta>.conf`; the networks wpa_supplicant runs with |
| `todo` | the commands that the running call has left |
| `stale`, `staStale` | history: what calls have left behind without regard to a flag |

In this module and the next ones a call is a sequence of commands (`todo`) that `Step`
runs one by one, so that `AgentDies` may cut it anywhere; what a call reads first decides
which commands there are. The model assumes one caller at a time, as in `MacFilter`. The
settings of the hotspot (`xfinity_wifi`) and of `PreferPrivate` belong to another process
and are parameters of the calls that read them. A flag file that is not there reads as
disabled, a truncated one as enabled; the write is one command.

`FlagsAgree` excludes what the code leaves alone, and `stale` names it: without the
hotspot a public access point is not enabled although its flag is set;
`wifi_restartHostApd` leaves all flags 0; `wifi_startHostApd` sets all flags also if
hostapd was running; `wifi_reset` and `wifi_setPreferPrivateConnection` restart access
points without looking at a flag. `NetworksInUse` likewise excludes a cut
`wifi_setSTANetworks`, which no later call with the same list repairs, because only a
file that differs is passed on. The list that `wifi_getSTANetworks` returns carries
the ends of its lines (`ended`), so that setting what was read differs from the file and
disables the access points of the band. A BSSID beginning with a zero byte, which is
written as a comment, is left out, and so are `brctl addif` (no property is about the
bridge), the reset counters, and the misspelt `SET ignoe_broadcast_ssid`, which hostapd
refuses.

### RadioConfig and Rates

| State | In the code |
| --- | --- |
| `file` | channel, `vht_oper_chwidth`, `ieee80211n`, `ht_capab` in `/nvram/hostapd<r>.conf` |
| `bw` | `SET_BW<r>` in `/etc/bw_file.txt` |
| `prev`, `unset` | the remembered channel under `/var`; `Radio_flag` |
| `told`, `air` | what hostapd was given, and what the interface was last enabled with |
| `asked`, `auto`, `unsure` | history, for the properties |
| `rates`, `toldRates`, `airRates`, `buffer` | both lists of rates in the file, in hostapd and on air, and the text a setter leaves in its caller's buffer |

`told` and `air` are apart because hostapd takes over a value only when the interface is
disabled and enabled again. `ProcessRestarts` resets `Radio_flag` and cuts the running
call. `HostapdRestarts` makes hostapd read its files. The public access point on a
radio's adapter has a file of its own, which never learns of a channel.

`InUse`, `WidthReported`, `AutoReported`, `OwnChannel` and `ExtAgrees` relate these
places; `unsure` says which of them a cut call, a factory reset (which writes the file
and tells nobody) or a restart has left open. It also names a 5 GHz radio set to
40 MHz: `wifi_setRadioOperatingChannelBandwidth` gives hostapd the value of
`ieee80211n` as `vht_oper_chwidth`, so that it runs with 80 MHz. A crash while a channel
is being remembered leaves an empty file, which is restored as channel 0. The factory
reset keeps the `ht_capab` of the old channel. `wifi_setRadioOperatingParameters` sets
the automatic channel first and the channel after it; its counterpart returns early,
with success, for more than 80 MHz. The enabling it ends with is `ApEnable`'s.

Rates are in units of 100 kbit/s. The setters write the converted list into the caller's
buffer: a repeat of the basic ones is refused, and a repeat of the operational ones asks
for ten times the rates. Rate 5 is read as 5.5; on 5 GHz 1, 2 and 5.5 are refused; the
basic rates go to the file only. `RatesReported` holds with these limits.

`RatesAssumption` says that callers and default files name at least one rate, and only
rates that a getter shows as they are: any of the hardware is one, 5 Mbps is not, and a
list with it would be reported as 5.5. `RatesSpec` has the calls for the rates and all
other calls of `RadioConfig`; the instance for TLC takes either of them in a behaviour.

### ApConfig

| State | In the code |
| --- | --- |
| `file[ap][name]` | the lines of the parameter in `/nvram/hostapd<ap>.conf`: none, one or two |
| `sec` | the security mode in `SEC_FNAME` |
| `told`, `air` | what hostapd was given, and what the interface was enabled with |
| `open` | history: parameters of which file and hostapd may differ |

A parameter is a sequence of lines because `wifi_hostapdWrite` replaces every line of a
name and does nothing without one, while `rpi_hostapdWrite` and its callers insert one
first; an empty value makes the next call add a second line, which is never read. sed's
patterns are not anchored; that one name may end in another one is left out.

`Applied` says that getter, next start of hostapd and air agree, `SecureOnAir` that
nothing is open that reads as secured. What the code does otherwise is part of the
model: "None" writes a buffer that was never set (`Junk`); the encryption TKIP is told
as CCMP; an enterprise mode is told as WPA-PSK; both modes on 2.4 GHz are written as 2
and told as 3; disabling WPS turns lines into comments; a factory reset leaves
`SEC_FNAME`; `config_methods` is only kept for three combinations; a PIN with a leading
zero is not replaced. The security of access points 4 and 5 is never written.

The files the image ships are not in the repository. `ApConfigAssumption` says of them
what the code relies on: one line for each parameter that sed replaces in place, since
without it a setter changes nothing; at most one for the others; and a `wpa` that is the
one of the default parameters, 0 without security, since `SEC_FNAME` is first written
from those. With a shipped `wpa` of another mode `SecureOnAir` is false before the first call.

### BandSteering

`SetBandSteeringParams` copies the 2.4 GHz settings to 5 GHz after a backup of the file,
the check compares both, and a failed check or disabling moves the backup back and
applies it again (`Reapply`). `SteeringRestores`: what is taken back is what was there
when the backup was made. `SteeredTogether`: steering is enabled only with equal
settings on air. Met, and excluded by `Described`: taking back a 5 GHz mode "None" may switch
security on; taking back an enterprise mode makes it a personal one. A second enable
overwrites the backup by the copied settings; a factory reset keeps it; disabling without
a backup applies the access point's own settings. The encryption is not copied. The file
that is moved back takes every other 5 GHz parameter with it that was set since the
backup; hostapd is not told, and runs with the newer values until it starts again or
they are set again. Those parameters are in `open`.

### VapMap

`CreateVap` is `wifi_createVAP` for one access point, with its setters in their order and
its early returns: a key that is too short ends it after the mode was changed, a disabled
access point after its flag. `ReadVap` is `wifi_getRadioVapInfoMap`. `VapReadBack` says
what survives the round trip and what does not: a WPA3 mode reads as none, both ciphers
read as CCMP, a limit of 0 stations reads as 75, no PIN or no method leaves the old one.
A parameter that was once set to the empty string has an empty line, which
`rpi_hostapdRead` takes for none: the map appends its value behind that line, getters go
on reading the first one, and hostapd runs with the new one until it starts again. Those
are the parameters `Hidden`: the call leaves them `open`, and they are not compared.
`MaxLines` bounds how many lines a parameter has when the call comes.
The buffer of the enabled WPS methods, which is not initialised, and the mode of the
MAC filter, which is read and never written, are left out.

### Clients

`stations[r]` is what `hostapd_cli all_sta` lists on a radio, in order; `answers`, `weak`,
`met`, `arp` are whether a device answers a ping, its signal against the threshold,
whether 5 GHz has seen it, and its neighbour entry. `known` is the file of devices ever
seen. Each reader is a sequence of commands (`pc`, `lines`): it counts the stations, and
then runs one command per line number, so that whoever joins or leaves in between shifts
the lines, and a device is skipped, listed twice, or leaves an empty row. `changed` names
the devices that have changed since the call began.

`RowsTrue`, `MovedBySignal` and `WiredListed` say what is right nevertheless. A row
without an address may carry the signal of the first station; a reader of the list
repeats the previous address. A device that left 2.4 GHz reads 0, which is not below any
threshold, and is disassociated if it has come back before the command (it is in
`changed`). `WiredListed` rests on the longest common subsequence that diff prints,
which depends on the order of both lists (`EthernetDiff`); the comparison of the status
with `DELAY` lacks its `== 0`, so that such a device is never pinged and not listed,
while one in any other doubtful state is pinged. Thresholds are negative, there is one
ARP entry per device, and `wifi_state` is that the ping was answered. Packets, bytes and
rates are part of a row's values, not values of their own. `ClientsAssumption`: dnsmasq
keeps one lease for a device, and no device has the address of none.

### DhcpLease

A query is a sequence of reads (`Reads`: length, start, uptime; or one per name server)
while `Tick` lets time pass and `Renew` replaces the lease. udhcpc and sysevent are
external: a renewal changes its values at once. `AnswerTrue`: if the lease time stays,
each answer was right for the old or the new lease at a moment of the call, because the
start is read before the uptime; in the other order a start in the future would be
subtracted. If the server changes the lease time too, the parts may be of two leases, and
nothing is claimed. A time that has passed wraps around modulo `Word`; a lease longer
than `Word / 7`, whose rebinding time overflows, is excluded by `DhcpLeaseAssumption`. A
name server that vanished during the query is reported as the one before it, or, if it
is the first, as whatever the buffer holds (`Garbage`); the list is cut to four.

## Runs and bounds

| Run | Instance | Shows |
| --- | --- | --- |
| `MacFilter` | 1 access point, 3 addresses, 2 entries in `aclArray` | every property above; a list of three overflows `aclArray`; addresses are symmetric |
| `MacFilterDelete`, `MacFilterAllow` | 2 addresses | the two findings |
| `WpaCtrl` | 2 stations (as in the code), 2 changes each | every property above; two changes give a queue with an older and a newer event |
| `FwUpgrade` | 1 thread, 2 good URLs, 1 that does not resolve | every property above; two URLs allow a change during a transfer and a change back |
| `EthLink` | 2 threads (as in the code), at most 3 subscriptions | every property above; the second and later requests find the HAL initialised |
| `FwUpgradeOverlap`, `FwUpgradeReason` | 2 threads, 1 thread | the two findings |
| `ApEnable` | 2 stations, 2 network lists; calls for one band per behaviour, and those for all access points | `FlagsAgree`, `NetworksInUse`; calls cut without a bound |
| `RadioConfig` | one radio and one kind of call per behaviour; 2.4 GHz channels 1 and 11, 5 GHz pairs 36 and 165, 44 and 161; widths 20, 40, 80 MHz; 3 lists of rates; 1 cut call | every property of `RadioConfig` and `Rates` |
| `BandSteering` | one group of parameters, steering alone or with a parameter it does not copy, or the VAP map per behaviour, with an empty management-frame value among the other calls; 2 names, 2 keys, at most 2 lines per parameter; 1 cut call | every property of `ApConfig`, `BandSteering` and `VapMap` |
| `Clients` | 3 devices, 2 with a lease; 2 changes during a reader; leases of 4 or 8, clock up to 9 | every property of `Clients` and `DhcpLease` |

One access point is enough for `MacFilter` because the access points share nothing
but `tmp` in `macfilter_init`, which matters only for an empty allow list, excluded
by `BootRestores`; the theorems hold for both. Two entries allow a kick cut before,
between and after them, and an address registered by an earlier kick in a later
slot. `MaxChanges` bounds only the environment. No run has a state constraint, and
deadlock is checked in all of them.

The last four runs split their behaviours into groups (`busy`, `channels`, `group` of
the MC modules), because the full product of settings is too large. Groups only meet
in operations that every group has: resets, restarts and, between the radios,
`Radio_flag`, for which the other radio keeps one channel call. What is lost is an
interplay of parameters that the code keeps in different lines and commands. Two
channels allow a remembered channel to be replaced and restored; 36 and 165 are a
channel with and one without a second channel, 44 and 161 one above and one below.
One cut is enough to leave every intermediate state of every call and then to make any
calls; no operation reads what a second cut would leave in another place, except
`ApEnable`, whose cuts are unbounded. Three devices allow one that stays, one that
leaves and one that joins in front of it; two changes, that a device leaves and
comes back. `MaxTime` 9 passes the end of a lease of 4 twice and of a lease of 8 once;
`Word`, 2^32 in the code, is 128, above every time that can occur.

## What is proved

Each theorem holds for every value of the constants that the named assumption of the
module admits (`MacFilterAssumption` and so on; `WpaCtrl` needs none), and for histories
of any length. TLC evaluates the assumptions on the instances. What is assumed beyond
them is said below.

**`MacFilterProofs`**, for any subset of access points and any addresses:

* `TypeCorrect`: `Spec => []TypeOK`. The one part that is not immediate is that a
  kick stays within its list and the list within `aclArray`, from which the indices
  of `macfilterK` are in range.
* `NoUnregisteredEntry`: `Spec => []EntriesFilled`, and `DenySurvivesReboot`:
  `Spec => []DenyRegistered`. Neither is inductive: when `KickSetCount` raises the
  count to `k`, slot `k` must hold an address already, and `DenyRegistered` needs
  that the slots below `k` still hold this kick's addresses. `KickProgress` says so
  (slots up to the one being written equal the list in the live syscfg), and
  `IInv` is `TypeOK`, `EntriesFilled`, `KickProgress` and `DenyRegistered`.
* `DenyDropsHandled`: `Spec => []DenyApplied`, and `AllowDropsOthers`:
  `Spec => AllowApplied`. iptables takes the first rule that matches, so both need to
  know where each rule is, and not only which there are: `RulesInPlace` says that during
  a kick rule `i` of the chain is the one for address `i`. `ChainInv` is `TypeOK`,
  `RulesInPlace` and `DenyApplied`. That a non-empty set of matching rules has a first
  one is a lemma, from the well-foundedness of the finite subsets.
* `BootFiltersAsRegistered`: `Spec => BootRestores`. It follows from `EntriesFilled`
  (every entry that the script counts is an address, so no rule is refused) and the
  first matching rule of the script.
* `NoRepetition`: `Spec => []ListedOnce`, since taking one address out keeps the others
  in their order.

**`EthLinkProofs`**, for any `MaxSubs` within the list: `TypeCorrect`,
`LastEventIsTheLink` (`Spec => []SettledAgrees`) and `OneUpTooMany`
(`Spec => []UpsBounded`). Neither property is inductive, because nothing records
which thread told the last event. `LastTeller` says that one of them still has the
sample of that event as its previous one, `OwnHistory` that a thread in front of a
publication has seen a change and that one that has not sampled still assumes
"no", and `UpsCounted` that `ups` is at most the number of threads whose previous
sample is "yes"; `IInv` is their conjunction with `TypeOK`.

**`WpaCtrlProofs`**, for any stations and any number of changes: `TypeCorrect`,
`AlwaysGuarded` (`WatchdogGuards`), `AlwaysRetried` (`NeverOrphaned`), `NothingLost`
(`NoGap`) and `ImplementsReports` (`Spec => ReportsSpec`, the refinement of
`StaReports`: the initial states map to initial ones, and each action of `Next` to a
change, a report or a stutter). The properties are inductive together except that
a report must be of a newer change than the one before, also across a closed connection:
`InOrder` adds that `seen` and `base` never run ahead of `truth`, and that what an
open connection still holds in its socket is in order and newer than what was seen.

**`FwUpgradeProofs`**: `TypeCorrect` for any number of downloading threads. The
others, `FlagIsTrue` (`FlagTracksTransfer`), `PollsSeeTransfer` (`TransferIsReported`),
`StatusIsTrue` (`StatusAgrees`), `FlashIsComplete` (`FlashesCompleteImage`) and
`RebootIsFlashed` (`UpdateRebootsFlashed`), are stated under `OneDownloader`: with two,
which the code does not keep out, they are false (run `FwUpgradeOverlap`). Any URLs,
and any other calls of other threads, may interleave. `Progress` says at each place of
a call what the image and the status file hold by then, `Returned` what is left of it
after the call; both are needed because the status file may be removed under a running
call, and the URL file may change, at any place.

**`ClientsProofs`**, for any devices and any leases without repetition:

* `ReadersTypes`: `Spec => []ReadersTypeOK`.
* `RowsAreTrue`: `Spec => []RowsTrue`. While a reader runs, its line numbers and the
  stations drift apart as soon as a device changes. `Counted` therefore speaks of an
  undisturbed call only: the lines that are left are those behind the complete rows, and
  each of these is that of its station. `Heard` and `RowValues` hold of any call: an
  address in a row was associated, or its device is in `changed`. `RowsInv` is their
  conjunction with the types.
* `SteeredBySignal`: `Spec => []MovedBySignal`, by `SteeredOne` of each device that has
  not changed: while it is in the lines it is on the radio or listed already, after that
  it has been judged by a signal that is still its own, and between the judgement and
  the command to leave the judgement stays true.
* `WiredAreListed`: `Spec => []WiredListed`. What the stations of the first radio say is
  old when those of the second are read: `Wired` says that a device among them is
  associated or has changed. From `EthernetDiff` on, `Asked` says that the lines and the
  rows share out the leases. The theorem needs of diff only that it marks as added what
  the other list lacks, and not that the subsequence is the longest.
* `QueriesAnswerTrue`: `LeaseSpec => []AnswerTrue`, for any clients' clock and lease
  lengths. `Pending` ties the reads that are left to those made, `TimeRead` says that a
  start or a length that was read is that of a lease of the time of the query and that
  the clock has not gone back since, `DnsRead` the same of the name servers. The
  assumption on the word size is that of the code: no lease of more than `Word / 7`.

All four of `Clients` rest on what a world step does (`WorldDoes`): it puts one device
into `changed` and leaves every other one where it is (`Others`), whether it is listed
in front or behind. The lemmas about `Kept` and `SetToSeq` replace an induction over
lists by the rank of a position (`RankOfPosition`).

**`ApEnableProofs`**, for any stations and lists of networks:

* `FlagsAlwaysAgree`: `Spec => []FlagsAgree`. Between the commands of a call the flags
  do not agree with the air, so the invariant is about where the commands that are left
  lead. `Net(s, what, of)` is what the last command of `s` that writes a value writes,
  and `Heading` says that for each access point air, flag, radio and the note that it is
  stale, each overwritten by what `todo` will write, agree. A step takes one command away
  and writes what it wrote, which leaves the overwritten values as they are (`NetBoth`,
  `NetOne`); a call, for which there is a lemma each on what it writes, must start a list
  that leads to agreement; a crash cuts the list and notes what may be wrong.
* `NetworksAlwaysInUse`: `Spec => []NetworksInUse`. `PassedOn` says that a file that
  differs from what the station runs with is passed on by a command that is left, and that
  a file that is written anew is passed on by the very next command.

`IInv` is `TypeOK`, `Heading` and `PassedOn`.

**`RadioConfigProofs`**, for any channels of the callers, any table of modes and any
default files; `RadioConfigAssumption` says that channels are positive and that each mode
has one of the widths.

* `RadioInvariant`: `Spec => []IInv`. The argument is that of `ApEnable`, with more
  places: a channel or a width is in the file, with hostapd and on the air, the width also in
  `/etc/bw_file.txt`, and the second channel follows the channel. `Now(what, of)` is
  what a place holds, `After(what, of)` what it holds once `todo` is done. `Heading` says
  that afterwards the places agree, or that one of them is left open. `AutoLeads`
  adds that for an automatic radio the remembered channel is there and not about to be
  replaced. `IInv` is `TypeOK`, `Heading` and `AutoLeads`. What each list of commands
  writes in each place is a lemma of its own (`ChannelTable`, `WidthTable`,
  `FileDoes`, `OperatingDoes`), and `Does` is what the invariant asks of a call.
* `ChannelInUse` (`InUse`), `WidthAskedFor` (`WidthReported`), `AutomaticReported`
  (`AutoReported`) and `ExtChannelAgrees` (`ExtAgrees`) follow, since between calls
  `After` is `Now`.
* `ChannelOfOwnBand` (`OwnChannel`) is stated under `OwnBand`: callers and default files
  name channels of the radio's own band. The setters do not look at that, and with
  a channel of the other band the property is false at once; the theorem says that the
  flag both radios share never brings one. `Bands` says so of the file, of what is
  remembered and of what the commands will write, and that the file of the remembered
  channel is empty only until the next command, or after a cut.
* `RatesAreReported`: `RatesSpec => []RatesReported`, for any `RateLists`,
  `DefaultRates`, `HwMode` and `MaxRate` that `RatesAssumption` admits. A call has few
  commands for the rates, so the invariant names the nine shapes of what can be left of
  one (`Left`): each says which commands come first, that those behind them are
  `RadioConfig`'s (`Behind`), and how the list in question stands in the file, with
  hostapd and on air, while every other list agrees (`Agrees`). A step leads from each
  shape to the next, and a call begins in one. `TenfoldBasic` says that what a setter of
  basic rates leaves in a buffer begins with ten times a rate that can be shown. That is
  no rate of the hardware (`RepeatRefused`), so the repeat of a basic call is
  refused; a repeat of an operational one is not, and leaves the list open.
  `OtherCallDoes` shows of every other call that its commands leave the rates alone.

**`ApConfigProofs`**, for any names, keys and shipped files that `ApConfigAssumption`
admits, and for calls that are cut any number of times:

* `ConfigTypes`: `ConfigSpec => []Typed`.
* `SettingsAreApplied`: `ConfigSpec => []Applied`, and `SecuredIsOnAir`:
  `ConfigSpec => []SecureOnAir`. The argument is again that of `ApEnable`: what a list of
  commands writes in the end, `Net`, laid over what there is now, `After`, must agree at
  every moment (`Leads`). Three things are new. A place holds a list of lines and not a
  value, and what sed writes depends on how many there are, so `Filed` says that the
  parameters replaced in place have one line. `wpa` is written in another form than it is
  told, so for it `Leads` asks for `WpaAgrees`, a relation of the security file, the line
  and hostapd, instead of equality; `SecureOnAir` rests on it alone. And a reset of both
  files leaves them without lines in between, so `IInv` is `Typed`, `Leads` for every
  parameter, and one of `OfOne` (a call of one access point, with `Filed`) and `OfBoth`
  (the reset, whose commands put a whole file or none and end with whole ones). What each
  setter writes is a lemma (`Writes...`), that this leads to agreement another
  (`...Leads`), and `Begins` is what a call needs to keep the invariant.
* `SteeredSettingsApplied`: `SteeringSpec => []Applied`, `SteeredIsSecure`:
  `SteeringSpec => []SecureOnAir`, and `SteeringTogether`: `SteeringSpec => []SteeredTogether`.
  A call of steering is a list of setters between commands of its own, so `SteeringInv`
  names the commands s that are those of the setters, keeps the invariant of `ApConfig`
  for them (`Bound`), and says how far the call has come: the backup is to be made
  (`Enabling`), the check is to come (`Checking`), only the flag is (`Enabled`), the backup
  is to be moved back (`Taking`), or nothing but s and a flag is left (`Settling`). While
  copying, `Copies` says where s leads: what hostapd has for name, mode and key is certain,
  and the security mode is the one that the 2.4 GHz `wpa` stands for. With equal files
  this is equality on air (`CheckedTogether`), also for both modes, where 2.4 GHz has 2 in
  the file, or a shipped 3, and 5 GHz 3.
* `SteeringTakenBack`: `SteeringSpec => []SteeringRestores`, if 2.4 GHz is access point 0
  (`TwoFour = index2G`). `wifi_getApIndexForWiFiBand` answers so unless wlan0 is an 802.11a
  interface; then both modes on 5 GHz are written as 2, and a file with a 3 does not come
  back. Once the backup has gone to the file, the file has its lines (`FileBack`), and the
  commands that apply it again lead to the same lines and to hostapd (`Back`), since a mode
  that `wpa` describes is written as it was read (`CopyBack`).
* `VapSettingsApplied`: `VapSpec => []Applied`, `VapIsSecure`: `VapSpec => []SecureOnAir`,
  and `VapReadsBack`: `VapSpec => []VapReadBack`. The settings are any of `VapSettings`
  (`VapAssumption`). The setters of a map follow each other without a state between them
  that is at rest, so `VapWrites` says what the whole call writes in the end of each
  parameter, whatever the order in which two of its setters write the same one, and that
  this leads to agreement; `Hidden` parameters are the ones where it does not. `VapInv`
  splits what is left into the flag, the setters, which keep the invariant of `ApConfig`
  (`Bound`), and the note that the call has come to its end. `Reads` says of a map that its
  settings are what the getters will read once the setters are through; it holds of the
  map that is being made and of the one each access point took last (`WillTake`,
  `HasTaken`), and every command of an access point carries it on.

Model-checked and not proved:

* `Recovers`, `EventTold` and `Converges`: liveness under fairness, which the prover does
  not reach.
* The properties of the runs that find a violation, which are false.

## Plan

Every safety property that a passing run checks is proved. Next would be the parts of a
component that are still left out: more than one access point per VAP map, the MAC filter
mode of a map, and the settings of `RadioConfig` and `ApConfig` in one behaviour.

Each module keeps parameters as CONSTANTS with a named assumption where one is needed,
one action per operation or command, and no RECURSIVE operator.

## Not modelled

* Statistics, capabilities and the other getters of `wifi_hal.c`, `dhcpv4c_api.c` and
  `rpi_wifi_hal_version_3.c` that read one value: they keep no state, and their content
  is the parsing of other programs' output. Many setters are stubs that return a
  constant.
* `platform_hal.c`: as above; SSH is started and stopped by one command each.
* The ports of the Ethernet switch: one `ifconfig` command, or one `ioctl`, per call.
* WPS by button and by the PIN of an enrollee, RADIUS settings, transmit power,
  guard interval and thresholds: one command or one line that no other operation of
  the HAL reads.
* Every place where the C code leaves a buffer's bounds.
