------------------------------ MODULE Clients ------------------------------
(***************************************************************************)
(* Readers of the connected devices                                        *)
(* (source/wifi/rpi_wifi_hal_assoc_devices_details.c, wifi_hal.c and       *)
(* source/hal-ethsw/ccsp_hal_ethsw.c).  A reader runs one command for the  *)
(* number of devices and then commands for each of them, while devices     *)
(* associate, leave and change their ARP entries between the commands.     *)
(***************************************************************************)
EXTENDS SequencesExt

CONSTANTS
    Device,    \* devices, by their address
    Leases     \* /nvram/dnsmasq.leases: a sequence of devices

Radio == {0, 1}
None  == "no device"

\* dnsmasq keeps one lease for a device.
ASSUME ClientsAssumption ==
    /\ Leases \in Seq(Device) /\ IsInjective(Leases)
    /\ None \notin Device /\ IsFiniteSet(Device)

Arp   == {"REACHABLE", "STALE", "DELAY", "FAILED"}   \* FAILED: also without an entry

VARIABLES
    stations,  \* stations[r]: devices on a radio, in the order a command lists them
    answers,   \* devices that answer a ping
    weak,      \* devices whose signal lies below the threshold of their band
    met,       \* devices that /tmp/event_count.txt shows on 5 GHz
    arp,       \* arp[d]: state of a device's entry in brlan0's ARP table
    known,     \* /tmp/AllAssociated_Devices_2G.txt and _5G.txt
    call,      \* the last reader called
    pc,        \* its next command, "idle" when it has returned
    radio,     \* radio it reads
    lines,     \* lines it has still to handle: numbers of lines, or devices
    rows,      \* rows of its result
    changed    \* history: devices that have changed since it was called

world  == <<stations, answers, weak, met, arp>>
reader == <<call, pc, radio, lines, rows>>
vars   == <<world, known, reader, changed>>

Associated == ToSet(stations[0]) \cup ToSet(stations[1])

Init ==
    /\ stations = [r \in Radio |-> <<>>]
    /\ answers = {} /\ weak = {} /\ met = {} /\ arp = [d \in Device |-> "FAILED"]
    /\ known = [r \in Radio |-> {}]
    /\ call = "none" /\ pc = "idle" /\ radio = 0 /\ lines = <<>> /\ rows = <<>>
    /\ changed = {}

-----------------------------------------------------------------------------
(* Commands.                                                               *)

\* What stands at some positions of a list, and which of some devices do, in its order.
Picked(s, kept) == [i \in 1..Cardinality(kept) |->
                       s[CHOOSE n \in kept : Cardinality({m \in kept : m <= n}) = i]]
Kept(s, devices) == Picked(s, {n \in DOMAIN s : s[n] \in devices})

\* all_sta or station dump, cut to one line: empty behind the last.
Line(n) == IF n \in DOMAIN stations[radio] THEN stations[radio][n] ELSE None

\* hostapd_cli sta <address>
Counters(d) == IF d \in ToSet(stations[radio]) THEN d ELSE None

\* Faulty variant: the signal is taken from the line of the same number.
MutSignal(d) == Line(Head(lines))

\* station dump from the line of a device on; every line has an empty address.
Signal(d) == IF d = None THEN Line(1) ELSE Counters(d)

Row(d) == [device |-> d, signal |-> None, counters |-> None]

Start(name, next, r, todo) ==
    /\ pc = "idle" /\ call' = name
    /\ pc' = IF todo = <<>> THEN "idle" ELSE next
    /\ radio' = r /\ lines' = todo /\ rows' = <<>> /\ changed' = {}
    /\ UNCHANGED <<world, known>>

\* The row is complete; the next line begins with the command named.
Finish(row, next) ==
    /\ rows' = rows \o row
    /\ lines' = Tail(lines)
    /\ pc' = IF Len(lines) = 1 THEN "idle" ELSE next
    /\ UNCHANGED <<world, known, call, radio, changed>>

Continue(next) ==
    /\ pc' = next
    /\ UNCHANGED <<world, call, radio, lines, changed>>

Numbers(n) == [i \in 1..n |-> i]

-----------------------------------------------------------------------------
(* associated_clients_diagnostic_helper                                    *)

DiagnosticCount(r) == Start("diagnostic", "append", r, Numbers(Len(stations[r])))

\* The line is added to the file of all devices ever seen; sort -u keeps one of each.
DiagnosticAppend ==
    /\ pc = "append"
    /\ known' = [known EXCEPT ![radio] = @ \cup ({Line(Head(lines))} \ {None})]
    /\ Continue("address") /\ UNCHANGED rows

DiagnosticAddress ==
    /\ pc = "address"
    /\ rows' = Append(rows, Row(Line(Head(lines))))
    /\ Continue("signal") /\ UNCHANGED known

DiagnosticSignal ==
    /\ pc = "signal"
    /\ rows' = [rows EXCEPT ![Len(rows)].signal = Signal(Last(rows).device)]
    /\ Continue("counters") /\ UNCHANGED known

\* Packets, bytes, rates and state are read by address too.
DiagnosticCounters ==
    /\ pc = "counters"
    /\ rows' = [rows EXCEPT ![Len(rows)].counters = Counters(Last(rows).device)]
    /\ lines' = Tail(lines)
    /\ pc' = IF Len(lines) = 1 THEN "idle" ELSE "append"
    /\ UNCHANGED <<world, known, call, radio, changed>>

-----------------------------------------------------------------------------
(* rpi_WiFiAPAssociatedDevicesGet                                          *)

ListCount(r) == Start("list", "list", r, Numbers(Len(stations[r])))

\* The buffer keeps the previous address where the line is empty.
ListLine ==
    LET d == Line(Head(lines))
        previous == IF rows = <<>> THEN None ELSE Last(rows).device
    IN  /\ pc = "list"
        /\ Finish(<<Row(IF d = None THEN previous ELSE d)>>, "list")

-----------------------------------------------------------------------------
(* wifi_getApInactiveAssociatedDeviceDiagnosticResult                      *)

InactiveCount(r) == Start("inactive", "inactive", r, SetToSeq(known[r]))

\* A device without a lease leaves its row empty; one that answers is active.
InactivePing ==
    LET d == Head(lines) IN
    /\ pc = "inactive"
    /\ IF d \in ToSet(Leases) /\ d \in answers
       THEN Continue("strength") /\ UNCHANGED <<known, rows>>
       ELSE Finish(<<Row(IF d \in ToSet(Leases) THEN d ELSE None)>>, "inactive")

InactiveSignal ==
    LET d == Head(lines) IN
    /\ pc = "strength"
    /\ Finish(<<[Row(d) EXCEPT !.signal = Counters(d)]>>, "inactive")

-----------------------------------------------------------------------------
(* wifi_switchBand, which disassociates devices from a band with a view to *)
(* the other one.                                                          *)

SwitchStart(r) == Start("switch", "level", r, SetToSeq(ToSet(stations[r])))

\* Faulty variant: the signal of the first station of the dump is compared.
MutMoves(d) == Line(1) \in weak

\* A device that has left reads 0, which no threshold is above.  From 2.4 GHz only
\* devices are moved that have been on 5 GHz.
Moves(d) ==
    IF radio = 1 THEN Counters(d) = d /\ d \in weak
    ELSE (Counters(d) = d => d \notin weak) /\ d \in met

SwitchLevel ==
    LET d == Head(lines) IN
    /\ pc = "level"
    /\ IF Moves(d) THEN Continue("kick") /\ UNCHANGED <<known, rows>>
                   ELSE Finish(<<>>, "level")

Without(d) == [r \in Radio |-> Kept(stations[r], Device \ {d})]

\* wifi_kickApAssociatedDevice; nothing happens to a device that has left.
SwitchKick ==
    LET d == Head(lines) IN
    /\ pc = "kick"
    /\ stations' = IF Counters(d) = d THEN Without(d) ELSE stations
    /\ rows' = Append(rows, Row(d))
    /\ lines' = Tail(lines)
    /\ pc' = IF Len(lines) = 1 THEN "idle" ELSE "level"
    /\ UNCHANGED <<answers, weak, met, arp, known, call, radio, changed>>

-----------------------------------------------------------------------------
(* CcspHalExtSw_getAssociatedDevice                                        *)

\* Leases, then the stations of one radio after the other.
EthernetStart == Start("ethernet", "radio 0", 0, <<None>>)

EthernetRadio0 ==
    /\ pc = "radio 0"
    /\ lines' = stations[0] /\ pc' = "radio 1"
    /\ UNCHANGED <<world, known, call, radio, rows, changed>>

\* Lines that a diff of the stations and the leases marks as added: those behind a
\* longest common subsequence of both, kept is the set of its positions.
Common(s) == {kept \in SUBSET DOMAIN s :
                 Picked(s, kept) = Kept(Leases, {s[n] : n \in kept})}
Longest(s) ==
    {kept \in Common(s) : \A other \in Common(s) : Cardinality(other) <= Cardinality(kept)}

EthernetDiff ==
    LET found == lines \o stations[1] IN
    /\ pc = "radio 1"
    /\ \E kept \in Longest(found) :
          LET added == Kept(Leases, Device \ {found[n] : n \in kept}) IN
          lines' = added /\ pc' = IF added = <<>> THEN "idle" ELSE "neighbour"
    /\ UNCHANGED <<world, known, call, radio, rows, changed>>

\* Faulty variant: an entry that is not reachable is passed over.
MutAsksPing(state) == FALSE

\* The comparison of the status with DELAY is missing its "== 0".
AsksPing(state) == state = "STALE" \/ state # "DELAY"

EthernetNeighbour ==
    LET d == Head(lines) IN
    /\ pc = "neighbour"
    /\ \/ arp[d] = "REACHABLE" /\ Finish(<<Row(d)>>, "neighbour")
       \/ arp[d] = "FAILED" /\ Finish(<<>>, "neighbour")
       \/ /\ arp[d] \notin {"REACHABLE", "FAILED"}
          /\ IF AsksPing(arp[d]) THEN Continue("ping") /\ UNCHANGED <<known, rows>>
                                 ELSE Finish(<<>>, "neighbour")

EthernetPing ==
    LET d == Head(lines) IN
    /\ pc = "ping"
    /\ Finish(IF d \in answers THEN <<Row(d)>> ELSE <<>>, "neighbour")

-----------------------------------------------------------------------------
(* Devices.  A station is listed at either end of the others.              *)

Change(d) ==
    /\ changed' = IF call = "none" THEN {} ELSE changed \cup {d}
    /\ UNCHANGED <<known, reader>>

Associate(d, r) ==
    /\ d \notin Associated
    /\ stations' \in {[stations EXCEPT ![r] = <<d>> \o @], [stations EXCEPT ![r] = Append(@, d)]}
    /\ met' = IF r = 1 THEN met \cup {d} ELSE met
    /\ Change(d) /\ UNCHANGED <<answers, weak, arp>>

Leave(d) ==
    /\ d \in Associated
    /\ stations' = Without(d)
    /\ Change(d) /\ UNCHANGED <<answers, weak, met, arp>>

Toggle(d, devices) == IF d \in devices THEN devices \ {d} ELSE devices \cup {d}

AnswerChanges(d) ==
    /\ answers' = Toggle(d, answers)
    /\ Change(d) /\ UNCHANGED <<stations, weak, met, arp>>

SignalChanges(d) ==
    /\ weak' = Toggle(d, weak)
    /\ Change(d) /\ UNCHANGED <<stations, answers, met, arp>>

ArpChanges(d, state) ==
    /\ arp' = [arp EXCEPT ![d] = state]
    /\ Change(d) /\ UNCHANGED <<stations, answers, weak, met>>

World == \E d \in Device : \/ \E r \in Radio : Associate(d, r)
                           \/ Leave(d) \/ AnswerChanges(d) \/ SignalChanges(d)
                           \/ \E state \in Arp : ArpChanges(d, state)

WifiReader ==
    \/ \E r \in Radio : DiagnosticCount(r) \/ ListCount(r) \/ InactiveCount(r)
    \/ DiagnosticAppend \/ DiagnosticAddress \/ DiagnosticSignal \/ DiagnosticCounters
    \/ ListLine \/ InactivePing \/ InactiveSignal

SwitchBand == (\E r \in Radio : SwitchStart(r)) \/ SwitchLevel \/ SwitchKick

EthernetReader ==
    \/ EthernetStart \/ EthernetRadio0 \/ EthernetDiff
    \/ EthernetNeighbour \/ EthernetPing

Next == World \/ WifiReader \/ SwitchBand \/ EthernetReader

Spec == Init /\ [][Next]_vars

-----------------------------------------------------------------------------
(* Properties.                                                             *)

Listed == {rows[n].device : n \in DOMAIN rows}

\* The values of a row with an address are that device's or none, and whoever comes or
\* goes while a reader runs, it lists only devices that were associated during the
\* call.  A call that nothing disturbs lists each of them once, with its values
\* (associated_clients_diagnostic_helper, rpi_WiFiAPAssociatedDevicesGet).
RowsTrue ==
    /\ \A n \in DOMAIN rows :
          rows[n].device # None => {rows[n].signal, rows[n].counters} \subseteq {None, rows[n].device}
    /\ call \in {"diagnostic", "list"} =>
          /\ Listed \subseteq ToSet(stations[radio]) \cup changed \cup {None}
          /\ pc = "idle" /\ changed = {} =>
                rows = [n \in DOMAIN stations[radio] |->
                           LET d == stations[radio][n] IN
                           IF call = "list" THEN Row(d)
                           ELSE [device |-> d, signal |-> d, counters |-> d]]

\* A device that stays where it is, with the same signal, is told to leave 5 GHz exactly
\* if its signal is below the threshold, and 2.4 GHz exactly if it is not and 5 GHz has
\* seen it, whoever else comes, goes or is told to leave meanwhile (wifi_switchBand).
MovedBySignal ==
    call = "switch" /\ pc = "idle" =>
        \A d \in Device \ changed :
            IF d \in Listed THEN d \notin Associated /\ (d \in weak <=> radio = 1)
            ELSE d \in ToSet(stations[radio]) /\ d \in met => (d \in weak <=> radio = 0)

\* A device with a lease that stays off the air during the call is listed once as wired
\* exactly if its entry is reachable, or stale and it answers, whatever the other devices
\* do meanwhile (CcspHalExtSw_getAssociatedDevice). A delayed entry is never asked.
WiredListed ==
    call = "ethernet" /\ pc = "idle" =>
        /\ Listed \subseteq ToSet(Leases) /\ Cardinality(Listed) = Len(rows)
        /\ \A d \in ToSet(Leases) \ (changed \cup Associated) :
              d \in Listed <=> \/ arp[d] = "REACHABLE"
                               \/ arp[d] = "STALE" /\ d \in answers
=============================================================================
