----------------------------- MODULE MacFilter -----------------------------
(***************************************************************************)
(* The MAC access-control component of source/wifi/wifi_hal.c: the ACL     *)
(* file of an access point, the filter registered in syscfg, the iptables  *)
(* chain WifiServices<ap> and the stations hostapd has associated.         *)
(*                                                                         *)
(* One API call runs at a time; a long call (wifi_kickApAclAssociated-     *)
(* Devices) is a sequence of shell commands, and the agent process may     *)
(* die, or the board reboot, between any two of them.                      *)
(***************************************************************************)
EXTENDS Integers, Sequences, SequencesExt

CONSTANTS
    AP,               \* access points that are filtered, a subset of 0..1
    Mac,              \* device addresses
    None,             \* the empty address of an unset syscfg entry
    AclArrayEntries   \* how many addresses aclArray[512] holds (28 in the code)

ASSUME MacFilterAssumption ==
    /\ AP \subseteq 0..1
    /\ None \notin Mac
    /\ AclArrayEntries \in Nat \ {0}

VARIABLES
    acl,     \* /tmp/wifi_acl_list_<ap>; a missing file is an empty list
    live,    \* the syscfg values processes see: blockall, countfilter, macfilterK
    saved,   \* the syscfg values that survive a reboot ("syscfg commit")
    chain,   \* the iptables chain WifiServices<ap>
    sta,     \* stations associated with hostapd on <ap>
    call     \* the kick call in progress

vars == <<acl, live, saved, chain, sta, call>>

-----------------------------------------------------------------------------
(* iptables *)

Rule == [target : {"DROP", "RETURN"}, negated : BOOLEAN, mac : Mac \cup {None}]

DropRule(m)       == [target |-> "DROP",   negated |-> FALSE, mac |-> m]
ReturnRule(m)     == [target |-> "RETURN", negated |-> FALSE, mac |-> m]
DropAllBut(m)     == [target |-> "DROP",   negated |-> TRUE,  mac |-> m]

\* A chain holds the rules of the commands issued. iptables refuses a rule whose
\* --mac-source is empty, so such a rule matches nothing.
Matches(c, i, m) ==
    /\ c[i].mac # None
    /\ c[i].negated <=> c[i].mac # m

\* The first rule that matches a frame decides its fate; no match lets it pass.
Dropped(c, m) ==
    \E i \in DOMAIN c :
        /\ Matches(c, i, m)
        /\ c[i].target = "DROP"
        /\ \A j \in 1..(i - 1) : ~Matches(c, j, m)

-----------------------------------------------------------------------------
(* syscfg *)

Config == [block : 0..2, count : 0..AclArrayEntries,
           mac : [1..AclArrayEntries -> Mac \cup {None}]]

EmptyConfig == [block |-> 0, count |-> 0, mac |-> [k \in 1..AclArrayEntries |-> None]]

\* The registered addresses, macfilter1 .. macfilter<countfilter>.
Entries(cfg) == SubSeq(cfg.mac, 1, cfg.count)

-----------------------------------------------------------------------------
(* macfilter_init: the script of iptables commands it writes at boot.      *)

\* The address left in tmp when the loop reaches ap: tmp is declared outside the
\* loop over the access points, so ap 1 can start with an address of ap 0.
CarriedTmp(cfgs, ap) ==
    IF ap = 1 /\ 0 \in AP /\ cfgs[0].block # 0 /\ cfgs[0].count > 0
    THEN Last(Entries(cfgs[0])) ELSE None

\* Faulty variant: the closing DROP goes in front of the RETURN rules.
MutBootAllow(cfgs, ap) ==
    LET n   == cfgs[ap].count
        tmp == IF n = 0 THEN CarriedTmp(cfgs, ap) ELSE cfgs[ap].mac[n]
    IN  [k \in 1..(n + 1) |-> IF k = 1 THEN DropAllBut(tmp)
                                       ELSE ReturnRule(cfgs[ap].mac[k - 1])]

\* block == 1: a RETURN at the head for each address, then DROP all but the last.
BootAllow(cfgs, ap) ==
    LET n   == cfgs[ap].count
        tmp == IF n = 0 THEN CarriedTmp(cfgs, ap) ELSE cfgs[ap].mac[n]
    IN  [k \in 1..(n + 1) |-> IF k <= n THEN ReturnRule(cfgs[ap].mac[n + 1 - k])
                                        ELSE DropAllBut(tmp)]

\* block == 2: a DROP at the tail for each address.
BootDeny(cfgs, ap) == [k \in 1..cfgs[ap].count |-> DropRule(cfgs[ap].mac[k])]

BootChain(cfgs, ap) ==
    CASE cfgs[ap].block = 1 -> BootAllow(cfgs, ap)
      [] cfgs[ap].block = 2 -> BootDeny(cfgs, ap)
      [] OTHER              -> <<>>

-----------------------------------------------------------------------------
(* hostapd_cli all_sta | grep dot11RSNAStatsSTAAddress: each token is the  *)
(* whole "key=value" line, so it is never equal to a bare address.         *)

StaLine(m) == [key |-> "dot11RSNAStatsSTAAddress", value |-> m]

-----------------------------------------------------------------------------
Idle == [op |-> "idle", ap |-> 0, list |-> <<>>, k |-> 0, phase |-> "none", lines |-> {}]

Init ==
    /\ acl   = [ap \in AP |-> <<>>]
    /\ live  = [ap \in AP |-> EmptyConfig]
    /\ saved = live
    /\ chain = [ap \in AP |-> <<>>]
    /\ sta   = [ap \in AP |-> {}]
    /\ call  = Idle

\* Faulty variant: no strcasestr look-up before the append.
MutAddAclDevice(ap, m) ==
    /\ call = Idle
    /\ acl' = [acl EXCEPT ![ap] = Append(@, m)]
    /\ UNCHANGED <<live, saved, chain, sta, call>>

\* wifi_addApAclDevice: append the address unless strcasestr finds it.
AddAclDevice(ap, m) ==
    /\ call = Idle
    /\ acl' = [acl EXCEPT ![ap] = IF Contains(@, m) THEN @ ELSE Append(@, m)]
    /\ UNCHANGED <<live, saved, chain, sta, call>>

\* The list without the first occurrence of m, which is listed.
Without(list, m) ==
    [i \in 1..(Len(list) - 1) |->
        IF \E j \in 1..i : list[j] = m THEN list[i + 1] ELSE list[i]]

\* wifi_delApAclDevice: the file is rewritten from tmp_buff, which only a
\* match fills; without one the file is rewritten empty.
DelAclDevice(ap, m) ==
    /\ call = Idle
    /\ acl' = [acl EXCEPT ![ap] = IF Contains(@, m) THEN Without(@, m) ELSE <<>>]
    /\ UNCHANGED <<live, saved, chain, sta, call>>

\* wifi_setApMacAddressControlMode: only blockall is written; the rules of
\* modes 1 and 2 wait for a kick or a boot, mode 0 flushes the chain.
SetControlMode(ap, mode) ==
    /\ call = Idle
    /\ live'  = [live EXCEPT ![ap].block = mode]
    /\ saved' = live'
    /\ chain' = [chain EXCEPT ![ap] = IF mode = 0 THEN <<>> ELSE @]
    /\ UNCHANGED <<acl, sta, call>>

\* wifi_kickApAssociatedDevice: hostapd_cli disassociate <token>.
Disassociate(ap, tokens) == sta' = [sta EXCEPT ![ap] = @ \ tokens]

-----------------------------------------------------------------------------
(* wifi_kickApAclAssociatedDevices, one action per shell command that      *)
(* matters.                                                                *)

\* Faulty variant: the list is not cut to what aclArray holds.
MutKickUncut(ap, enable) ==
    /\ call = Idle
    /\ call' = [op |-> IF enable THEN "deny" ELSE "allow", ap |-> ap,
                list |-> acl[ap], k |-> 1, phase |-> "rule",
                lines |-> {StaLine(m) : m \in sta[ap]}]
    /\ chain' = [chain EXCEPT ![ap] = <<>>]
    /\ UNCHANGED <<acl, live, saved, sta>>

\* Faulty variant: the chain is not flushed before the new rules.
MutKickNoFlush(ap, enable) ==
    /\ call = Idle
    /\ call' = [op |-> IF enable THEN "deny" ELSE "allow", ap |-> ap,
                list |-> SubSeq(acl[ap], 1, Min({Len(acl[ap]), AclArrayEntries})),
                k |-> 1, phase |-> "rule",
                lines |-> {StaLine(m) : m \in sta[ap]}]
    /\ UNCHANGED <<acl, live, saved, chain, sta>>

\* Read the ACL (as much of it as aclArray holds) and the station list, and
\* rebuild the chain empty.
KickBegin(ap, enable) ==
    /\ call = Idle
    /\ call' = [op |-> IF enable THEN "deny" ELSE "allow", ap |-> ap,
                list |-> SubSeq(acl[ap], 1, IF Len(acl[ap]) < AclArrayEntries
                                            THEN Len(acl[ap]) ELSE AclArrayEntries),
                k |-> 1, phase |-> "rule",
                lines |-> {StaLine(m) : m \in sta[ap]}]
    /\ chain' = [chain EXCEPT ![ap] = <<>>]
    /\ UNCHANGED <<acl, live, saved, sta>>

AtEntry(phase) == call.op # "idle" /\ call.phase = phase /\ call.k <= Len(call.list)
Current        == call.list[call.k]
Goto(phase)    == call' = [call EXCEPT !.phase = phase]
NextEntry      == call' = [call EXCEPT !.k = @ + 1, !.phase = "rule"]

\* apply_rules: -A ... DROP under "DENY", -I ... RETURN under "ALLOW".
KickRule ==
    /\ AtEntry("rule")
    /\ chain' = [chain EXCEPT ![call.ap] =
                    IF call.op = "deny" THEN Append(@, DropRule(Current))
                                        ELSE <<ReturnRule(Current)>> \o @]
    /\ Goto("mac")
    /\ UNCHANGED <<acl, live, saved, sta>>

\* syscfg set <ap>macfilter<device_count> <mac>
KickSetMac ==
    /\ AtEntry("mac")
    /\ live' = [live EXCEPT ![call.ap].mac[call.k] = Current]
    /\ Goto("count")
    /\ UNCHANGED <<acl, saved, chain, sta>>

\* Faulty variant: the final count is registered with the first entry.
MutKickSetCount ==
    /\ AtEntry("count")
    /\ live' = [live EXCEPT ![call.ap].count = Len(call.list)]
    /\ saved' = live'
    /\ IF call.op = "deny" THEN Goto("kick") ELSE NextEntry
    /\ UNCHANGED <<acl, chain, sta>>

\* Faulty variant: the deny branch forgets "syscfg commit" as the allow branch does.
MutKickNoCommit ==
    /\ AtEntry("count")
    /\ live' = [live EXCEPT ![call.ap].count = call.k]
    /\ saved' = saved
    /\ IF call.op = "deny" THEN Goto("kick") ELSE NextEntry
    /\ UNCHANGED <<acl, chain, sta>>

\* syscfg set <ap>countfilter <device_count>; only the deny branch commits.
KickSetCount ==
    /\ AtEntry("count")
    /\ live' = [live EXCEPT ![call.ap].count = call.k]
    /\ IF call.op = "deny" THEN saved' = live' /\ Goto("kick")
                           ELSE saved' = saved /\ NextEntry
    /\ UNCHANGED <<acl, chain, sta>>

\* The listed device is disassociated (deny branch only).
KickDevice ==
    /\ AtEntry("kick")
    /\ Disassociate(call.ap, {Current})
    /\ NextEntry
    /\ UNCHANGED <<acl, live, saved, chain>>

DenyReturn ==
    /\ call.op = "deny" /\ call.k > Len(call.list)
    /\ call' = Idle
    /\ UNCHANGED <<acl, live, saved, chain, sta>>

\* Faulty variant: the closing rule is inserted at the head (-I for -A).
MutAllowReturn ==
    /\ call.op = "allow" /\ call.k > Len(call.list)
    /\ chain' = [chain EXCEPT ![call.ap] =
                    <<DropAllBut(IF call.list = <<>> THEN None
                                 ELSE call.list[Len(call.list)])>> \o @]
    /\ UNCHANGED sta
    /\ call' = Idle
    /\ UNCHANGED <<acl, live, saved>>

\* The closing rule DROPs all but cmdmac, the last address of the list (empty
\* for an empty list); then every station line that strcasestr does not find in
\* what strtok left of aclArray, its first token, is handed to hostapd_cli.
AllowReturn ==
    /\ call.op = "allow" /\ call.k > Len(call.list)
    /\ chain' = [chain EXCEPT ![call.ap] =
                    Append(@, DropAllBut(IF call.list = <<>> THEN None
                                         ELSE Last(call.list)))]
    /\ Disassociate(call.ap, call.lines \ {call.list[i] : i \in DOMAIN call.list \cap {1}})
    /\ call' = Idle
    /\ UNCHANGED <<acl, live, saved>>

-----------------------------------------------------------------------------
(* The environment. *)

StaJoin(ap, m) ==
    /\ sta' = [sta EXCEPT ![ap] = @ \cup {m}]
    /\ UNCHANGED <<acl, live, saved, chain, call>>

StaLeave(ap, m) ==
    /\ m \in sta[ap]
    /\ sta' = [sta EXCEPT ![ap] = @ \ {m}]
    /\ UNCHANGED <<acl, live, saved, chain, call>>

\* The agent process dies inside a call: what the shell commands did stays.
AgentDies ==
    /\ call # Idle
    /\ call' = Idle
    /\ UNCHANGED <<acl, live, saved, chain, sta>>

\* A reboot loses /tmp, uncommitted syscfg values and the iptables rules;
\* wifi_init calls macfilter_init, and the boot runs the script it wrote.
Reboot ==
    /\ acl'   = [ap \in AP |-> <<>>]
    /\ live'  = saved
    /\ chain' = [ap \in AP |-> BootChain(saved, ap)]
    /\ sta'   = [ap \in AP |-> {}]
    /\ call'  = Idle
    /\ UNCHANGED saved

Next ==
    \/ \E ap \in AP, m \in Mac : AddAclDevice(ap, m) \/ DelAclDevice(ap, m)
    \/ \E ap \in AP, mode \in 0..2 : SetControlMode(ap, mode)
    \/ \E ap \in AP, enable \in BOOLEAN : KickBegin(ap, enable)
    \/ KickRule \/ KickSetMac \/ KickSetCount \/ KickDevice
    \/ DenyReturn \/ AllowReturn
    \/ \E ap \in AP, m \in Mac : StaJoin(ap, m) \/ StaLeave(ap, m)
    \/ AgentDies \/ Reboot

Spec == Init /\ [][Next]_vars

-----------------------------------------------------------------------------
(* Type invariant. *)

Call == [op : {"idle", "deny", "allow"}, ap : 0..1, list : Seq(Mac), k : Nat,
         phase : {"none", "rule", "mac", "count", "kick"},
         lines : SUBSET {StaLine(m) : m \in Mac}]

\* Every variable keeps its type; a kick in progress is on one of the access
\* points, its list fits aclArray and its entry counter stays within reach of it.
TypeOK ==
    /\ acl   \in [AP -> Seq(Mac)]
    /\ live  \in [AP -> Config]
    /\ saved \in [AP -> Config]
    /\ chain \in [AP -> Seq(Rule)]
    /\ sta   \in [AP -> SUBSET Mac]
    /\ call  \in Call
    /\ call.op # "idle" => /\ call.ap \in AP
                           /\ Len(call.list) <= AclArrayEntries
                           /\ call.k \in 1..(Len(call.list) + 1)

(***************************************************************************)
(* Safety.                                                                 *)
(***************************************************************************)

\* wifi_addApAclDevice never lists an address twice, so one wifi_delApAclDevice
\* (which removes the first occurrence only) is enough to unlist it.
ListedOnce == \A ap \in AP : \A i, j \in DOMAIN acl[ap] :
                  acl[ap][i] = acl[ap][j] => i = j

Filled(cfg) == \A k \in 1..cfg.count : cfg.mac[k] \in Mac

\* Whatever interrupts a kick, countfilter never counts an entry that was not
\* registered: every macfilterK that macfilter_init reads at boot is an address,
\* and none of the rules it writes is refused.
EntriesFilled == \A ap \in AP : Filled(live[ap]) /\ Filled(saved[ap])

\* How many entries of the running kick have their rule, and their syscfg record.
Applied    == IF call.phase = "rule" THEN call.k - 1 ELSE call.k
Registered == IF call.phase = "kick" THEN call.k ELSE call.k - 1

\* While a deny kick runs, what a reboot would restore is exactly the part of
\* the list whose devices have been or are just about to be disassociated: no
\* device is thrown off before its block would survive a power cycle.
DenyRegistered ==
    call.op = "deny" /\ Registered > 0 =>
        /\ saved[call.ap].count = Registered
        /\ \A k \in 1..Registered : saved[call.ap].mac[k] = call.list[k]

\* While a deny kick runs the chain drops the entries handled so far and nobody
\* else: an address not in the list is never blocked.
DenyApplied ==
    call.op = "deny" =>
        \A m \in Mac : Dropped(chain[call.ap], m)
                         <=> \E i \in 1..Applied : call.list[i] = m

\* A completed allow kick with a non-empty list drops exactly the devices that
\* are not in the list it read ("allow list", lines 4774-4791).
AllowApplied ==
    [][AllowReturn /\ call.list # <<>> =>
         \A m \in Mac : Dropped(chain'[call.ap], m) <=> m \notin ToSet(call.list)]_vars

\* The filter a boot installs is the one registered: blockall 2 drops exactly
\* the registered addresses, blockall 1 exactly the others, blockall 0 nobody.
\* A whitelist of no address is excluded: then macfilter_init uses CarriedTmp.
BootRestores ==
    [][Reboot => \A ap \in AP, m \in Mac :
         LET listed == m \in ToSet(Entries(saved[ap]))
         IN  saved[ap].block # 1 \/ saved[ap].count > 0 =>
                 (Dropped(chain'[ap], m) <=> \/ saved[ap].block = 2 /\ listed
                                             \/ saved[ap].block = 1 /\ ~listed)]_vars

(***************************************************************************)
(* What comments of the code say and the code does not do.                 *)
(***************************************************************************)

\* "deletes the mac address from the filter list" (wifi_hal.c:4652): deleting
\* one address leaves every other address listed.
DeleteKeepsOthers ==
    [][\A ap \in AP, m \in Mac : DelAclDevice(ap, m) =>
         ToSet(acl'[ap]) = ToSet(acl[ap]) \ {m}]_vars

\* "Register mac to be Allowed ,in syscfg.db persistent storage"
\* (wifi_hal.c:4782): a completed allow kick has registered its list so that
\* it survives a reboot.
AllowRegistered ==
    [][AllowReturn /\ call.list # <<>> => Entries(saved[call.ap]) = call.list]_vars
=============================================================================
