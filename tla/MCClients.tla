----------------------------- MODULE MCClients -----------------------------
(***************************************************************************)
(* TLC instance of Clients: three devices, two of them with a lease.  The  *)
(* first call finds any world; from then on at most MaxMoves changes       *)
(* happen, each while a reader runs.  A behaviour calls one reader, and    *)
(* that of the inactive devices after that of the associated ones, whose   *)
(* file it reads.  Only what the readers of a behaviour look at changes.   *)
(* A behaviour of its own makes one kind of query for the lease, which is  *)
(* renewed at most MaxMoves times during queries.                          *)
(***************************************************************************)
EXTENDS Clients, DhcpLease

CONSTANTS d1, d2, d3, MaxMoves

VARIABLES group, moves

MCLeases == <<d1, d2>>

MCLength == {4, 8}
MCDnsLists == {<<>>, <<"s2", "s1">>, <<"s1", "s2", "s3", "s4", "s5">>}

MCInit ==
    /\ Init /\ LeaseInit
    /\ group \in {"wifi", "switch", "ethernet", "dhcp"}
    /\ group # "dhcp" => lease.length = 4 /\ dns = <<>>
    /\ moves = 0

MCWorld ==
    \E d \in Device :
        \/ \E r \in Radio : Associate(d, r)
        \/ Leave(d)
        \/ group # "switch" /\ d \in ToSet(Leases) /\ AnswerChanges(d)
        \/ group = "switch" /\ SignalChanges(d)
        \/ group = "ethernet" /\ d \in ToSet(Leases) /\ \E state \in Arp : ArpChanges(d, state)

Devices ==
    /\ \/ group = "wifi" /\ WifiReader
       \/ group = "switch" /\ SwitchBand
       \/ group = "ethernet" /\ EthernetReader
       \/ call = "none" /\ MCWorld
    /\ call' # call => call = "none" \/ call' = "inactive"
    /\ UNCHANGED moves

Move == pc # "idle" /\ moves < MaxMoves /\ MCWorld /\ moves' = moves + 1

\* A list of servers matters only to its query, and the time only to the others.
Dhcp ==
    /\ \/ (query = "none" \/ todo # <<>>) /\ LeaseNext
       \/ query # "none" /\ Query /\ query' = query
    /\ query' = "dns_svrs" => upTime' = 0
    /\ query' \in Remain => dns' = <<>>
    /\ moves' = IF query # "none" /\ (lease' # lease \/ dns' # dns) THEN moves + 1 ELSE moves
    /\ moves' <= MaxMoves

MCNext ==
    /\ UNCHANGED group
    /\ \/ group # "dhcp" /\ (Devices \/ Move) /\ UNCHANGED leaseVars
       \/ group = "dhcp" /\ Dhcp /\ UNCHANGED vars

MCSpec == MCInit /\ [][MCNext]_<<vars, leaseVars, group, moves>>
=============================================================================
