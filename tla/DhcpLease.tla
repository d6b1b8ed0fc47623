------------------------------ MODULE DhcpLease ------------------------------
(***************************************************************************)
(* Queries about the lease of erouter0 (source/dhcpv4c/dhcpv4c_api.c).     *)
(* The DHCP client publishes its lease in sysevent; a query puts its       *)
(* answer together from several reads, one after the other, while the      *)
(* client renews the lease.  Times are unsigned.                           *)
(***************************************************************************)
EXTENDS Integers, Sequences

CONSTANTS
    Length,     \* lease times that a server grants
    DnsLists,   \* lists of name servers that come with a lease
    Word,       \* 2^w for the width w of unsigned
    MaxTime     \* bound on the uptime

ASSUME DhcpLeaseAssumption ==
    /\ MaxTime \in Nat /\ Word \in Nat \ {0}
    /\ \A n \in Length : n \in Nat /\ 7 * n < Word /\ n + MaxTime < Word
    /\ \A servers \in DnsLists : servers \in Seq({servers[i] : i \in DOMAIN servers})

VARIABLES
    lease,    \* lease_time and start_time of ipv4_erouter0 in sysevent
    dns,      \* dns_number and dns_<i> of ipv4_erouter0
    upTime,   \* /proc/uptime
    query,    \* the query made last
    todo,     \* what it has still to read
    got,      \* the lease it has put together, and the address parsed last
    answer,   \* the time or the addresses it returns
    seen,     \* history: leases and lists in force since the query
    window    \* history: uptime at the query and at its return

clientVars == <<lease, dns, upTime>>
queryVars  == <<query, todo, got, answer, window>>
leaseVars  == <<clientVars, queryVars, seen>>

Remain == {"remain_lease", "remain_renew", "remain_rebind"}

\* An address that was never parsed.
Garbage == "garbage"

\* A list of more than four servers is cut.
MaxDns == 4
Cut(servers) == SubSeq(servers, 1, IF Len(servers) < MaxDns THEN Len(servers) ELSE MaxDns)

-----------------------------------------------------------------------------
(* The queries.                                                            *)

Ask(what, reads) ==
    /\ todo = <<>>
    /\ query' = what /\ todo' = reads
    /\ got' = [length |-> 0, start |-> 0, address |-> Garbage]
    /\ answer' = <<>>
    /\ seen' = [leases |-> {lease}, dns |-> {dns}]
    /\ window' = <<upTime, upTime>>
    /\ UNCHANGED clientVars

\* Faulty variant: the uptime is read before the start of the lease.
MutReads == <<"length", "up", "start", "remain">>

Reads == <<"length", "start", "up", "remain">>

GetRemain(what) == Ask(what, Reads)

GetDnsSvrs == Ask("dns_svrs", [i \in DOMAIN Cut(dns) |-> "dns"])

Rest == todo' = Tail(todo) /\ UNCHANGED <<clientVars, query, seen>>

ReadLength ==
    /\ todo # <<>> /\ Head(todo) = "length"
    /\ got' = [got EXCEPT !.length = lease.length]
    /\ Rest /\ UNCHANGED <<answer, window>>

ReadStart ==
    /\ todo # <<>> /\ Head(todo) = "start"
    /\ got' = [got EXCEPT !.start = lease.start]
    /\ Rest /\ UNCHANGED <<answer, window>>

\* dhcpv4c_get_up_time
ReadUpTime ==
    /\ todo # <<>> /\ Head(todo) = "up"
    /\ window' = [window EXCEPT ![2] = upTime]
    /\ Rest /\ UNCHANGED <<got, answer>>

RenewTime(length)  == length \div 2
RebindTime(length) == ((length * 7) % Word) \div 8

Until(what, length) == CASE what = "remain_lease"  -> length
                         [] what = "remain_renew"  -> RenewTime(length)
                         [] what = "remain_rebind" -> RebindTime(length)

\* What is left of a lease at a time.
Left(what, l, time) == Until(what, l.length) - (time - l.start)

ReturnRemain ==
    /\ todo # <<>> /\ Head(todo) = "remain"
    /\ answer' = <<Left(query, got, window[2]) % Word>>
    /\ Rest /\ UNCHANGED <<got, window>>

\* inet_aton leaves the address as it is when there is none to parse.
ReadDns ==
    LET i == Len(answer) + 1
        address == IF i \in DOMAIN dns THEN dns[i] ELSE got.address
    IN  /\ todo # <<>> /\ Head(todo) = "dns"
        /\ got' = [got EXCEPT !.address = address]
        /\ answer' = Append(answer, address)
        /\ Rest /\ UNCHANGED window

-----------------------------------------------------------------------------
(* The DHCP client.                                                        *)

Tick ==
    /\ upTime < MaxTime
    /\ upTime' = upTime + 1
    /\ UNCHANGED <<lease, dns, queryVars, seen>>

\* A lease is renewed, in time or after it has run out.
Renew(length, servers) ==
    /\ lease' = [length |-> length, start |-> upTime]
    /\ dns' = servers
    /\ seen' = IF todo = <<>> THEN seen
               ELSE [leases |-> seen.leases \cup {lease'}, dns |-> seen.dns \cup {dns'}]
    /\ UNCHANGED <<upTime, queryVars>>

LeaseInit ==
    /\ \E length \in Length : lease = [length |-> length, start |-> 0]
    /\ dns \in DnsLists
    /\ upTime = 0
    /\ query = "none" /\ todo = <<>> /\ answer = <<>> /\ window = <<0, 0>>
    /\ got = [length |-> 0, start |-> 0, address |-> Garbage]
    /\ seen = [leases |-> {}, dns |-> {}]

Query == (\E what \in Remain : GetRemain(what)) \/ GetDnsSvrs

LeaseNext ==
    \/ Query
    \/ ReadLength \/ ReadStart \/ ReadUpTime \/ ReturnRemain \/ ReadDns
    \/ Tick
    \/ \E length \in Length, servers \in DnsLists : Renew(length, servers)

LeaseSpec == LeaseInit /\ [][LeaseNext]_leaseVars

-----------------------------------------------------------------------------
(* Properties.                                                             *)

\* A time that a query returns was right for one of the leases of the time of the query,
\* at a moment of that time, even if the lease was renewed between two reads: unless the
\* server has changed the lease time.  A time that has passed comes back as one longer
\* than the lease.  Each address of a list was one of a name server, or there was none
\* when the first was read; without a renewal the list is the client's
\* (dhcpv4c_get_ert_remain_*_time, dhcpv4c_get_ert_dns_svrs).
AnswerTrue ==
    todo = <<>> =>
        /\ query \in Remain /\ (\A l, m \in seen.leases : l.length = m.length) =>
              \E l \in seen.leases, time \in window[1] .. window[2] :
                  /\ time >= l.start
                  /\ IF Left(query, l, time) >= 0 THEN answer = <<Left(query, l, time)>>
                     ELSE answer[1] > l.length
        /\ query = "dns_svrs" =>
              /\ \A i \in DOMAIN answer :
                    \/ \E servers \in seen.dns : \E j \in DOMAIN servers : servers[j] = answer[i]
                    \/ answer[i] = Garbage /\ <<>> \in seen.dns
              /\ \A servers \in seen.dns :
                    seen.dns = {servers} => answer = Cut(servers)
=============================================================================
