-------------------------- MODULE MacFilterProofs --------------------------
(***************************************************************************)
(* Proofs about MacFilter: type correctness; that an interrupted kick      *)
(* leaves neither a hole in the registered filter nor a device thrown off  *)
(* before its block is persistent; that a chain lets through and drops     *)
(* what the kick or the boot that wrote it was about; and that no address  *)
(* is listed twice.                                                        *)
(***************************************************************************)
EXTENDS MacFilter, FiniteSetTheorems, TLAPS

\* An unset configuration has the type of one.
LEMMA EmptyConfigType == EmptyConfig \in Config
BY MacFilterAssumption DEF EmptyConfig, Config

\* Removing the first occurrence of an address leaves a list of addresses.
LEMMA WithoutType ==
    ASSUME NEW list \in Seq(Mac), NEW m \in Mac, Contains(list, m)
    PROVE  Without(list, m) \in Seq(Mac)
<1>1. Len(list) \in Nat /\ Len(list) >= 1
  BY DEF Contains
<1>2. \A i \in 1..(Len(list) - 1) : list[i] \in Mac /\ list[i + 1] \in Mac
  BY <1>1
<1>3. QED
  BY <1>1, <1>2 DEF Without

\* The script macfilter_init writes is a chain of rules.
LEMMA BootChainType ==
    ASSUME NEW cfgs \in [AP -> Config], NEW ap \in AP
    PROVE  BootChain(cfgs, ap) \in Seq(Rule)
<1> DEFINE n == cfgs[ap].count
           tmp == IF n = 0 THEN CarriedTmp(cfgs, ap) ELSE cfgs[ap].mac[n]
<1>1. n \in Nat /\ \A k \in 1..n : cfgs[ap].mac[k] \in Mac \cup {None}
  BY MacFilterAssumption DEF Config
<1>2. CarriedTmp(cfgs, ap) \in Mac \cup {None}
  <2>1. CASE ap = 1 /\ 0 \in AP /\ cfgs[0].block # 0 /\ cfgs[0].count > 0
    <3>1. /\ cfgs[0].count \in 1..AclArrayEntries
          /\ cfgs[0].mac \in [1..AclArrayEntries -> Mac \cup {None}]
      BY <2>1, MacFilterAssumption DEF Config
    <3>2. cfgs[0].mac \in Seq(Mac \cup {None}) /\ Len(cfgs[0].mac) = AclArrayEntries
      BY <3>1, MacFilterAssumption
    <3>3. Entries(cfgs[0]) \in Seq(Mac \cup {None}) /\ Len(Entries(cfgs[0])) >= 1
      BY <3>1, <3>2 DEF Entries
    <3>4. QED
      BY <2>1, <3>3 DEF CarriedTmp, Last
  <2>2. CASE ~(ap = 1 /\ 0 \in AP /\ cfgs[0].block # 0 /\ cfgs[0].count > 0)
    BY <2>2 DEF CarriedTmp
  <2>3. QED
    BY <2>1, <2>2
<1>3. tmp \in Mac \cup {None}
  BY <1>1, <1>2
<1>4. BootAllow(cfgs, ap) \in Seq(Rule)
  <2>1. \A k \in 1..(n + 1) : (IF k <= n THEN ReturnRule(cfgs[ap].mac[n + 1 - k])
                               ELSE DropAllBut(tmp)) \in Rule
    BY <1>1, <1>3 DEF ReturnRule, DropAllBut, Rule
  <2>2. QED
    BY <1>1, <2>1 DEF BootAllow
<1>5. BootDeny(cfgs, ap) \in Seq(Rule)
  <2>1. \A k \in 1..n : DropRule(cfgs[ap].mac[k]) \in Rule
    BY <1>1 DEF DropRule, Rule
  <2>2. QED
    BY <1>1, <2>1 DEF BootDeny
<1>6. <<>> \in Seq(Rule)
  OBVIOUS
<1>7. QED
  BY <1>4, <1>5, <1>6 DEF BootChain

-----------------------------------------------------------------------------

\* With nothing listed, registered or blocked, every variable has its type.
LEMMA InitType == Init => TypeOK
BY EmptyConfigType, MacFilterAssumption DEF Init, TypeOK, Idle, Call

\* Within an entry, going to another of its commands or to the next entry keeps
\* the call a well-typed one, on the same access point and list.
LEMMA CallMoves ==
    ASSUME call \in Call, call.k \in 1..Len(call.list),
           \/ \E phase \in {"mac", "count", "kick"} : Goto(phase)
           \/ NextEntry
    PROVE  /\ call' \in Call
           /\ call'.op = call.op /\ call'.ap = call.ap /\ call'.list = call.list
           /\ call'.k \in 1..(Len(call.list) + 1)
<1>1. CASE \E phase \in {"mac", "count", "kick"} : Goto(phase)
  BY <1>1 DEF Goto, Call
<1>2. CASE NextEntry
  <2>1. call.k + 1 \in Nat /\ call.k + 1 \in 1..(Len(call.list) + 1)
    BY DEF Call
  <2>2. call' = [call EXCEPT !.k = call.k + 1, !.phase = "rule"]
    BY <1>2 DEF NextEntry
  <2>3. QED
    BY <2>1, <2>2 DEF Call
<1>3. QED
  BY <1>1, <1>2

\* A step of the kick call, or its start, keeps the types.
LEMMA KickType ==
    ASSUME TypeOK,
           \/ \E ap \in AP, enable \in BOOLEAN : KickBegin(ap, enable)
           \/ KickRule \/ KickSetMac \/ KickSetCount \/ KickDevice
           \/ DenyReturn \/ AllowReturn
    PROVE  TypeOK'
<1> USE MacFilterAssumption DEF TypeOK
<1>1. ASSUME NEW ap \in AP, NEW enable \in BOOLEAN, KickBegin(ap, enable)
      PROVE  TypeOK'
  <2> DEFINE n == IF Len(acl[ap]) < AclArrayEntries THEN Len(acl[ap])
                                                    ELSE AclArrayEntries
  <2>1. n \in 0..Len(acl[ap]) /\ n <= AclArrayEntries /\ ap \in 0..1
    OBVIOUS
  <2>2. SubSeq(acl[ap], 1, n) \in Seq(Mac) /\ Len(SubSeq(acl[ap], 1, n)) = n
    BY <2>1
  <2>3. {StaLine(m) : m \in sta[ap]} \in SUBSET {StaLine(m) : m \in Mac}
    OBVIOUS
  <2>4. /\ call'.op \in {"deny", "allow"} /\ call'.ap = ap
        /\ call'.list = SubSeq(acl[ap], 1, n) /\ call'.k = 1
    BY <1>1 DEF KickBegin
  <2>5. call' \in Call
    BY <1>1, <2>1, <2>2, <2>3 DEF KickBegin, Call
  <2>6. chain' \in [AP -> Seq(Rule)]
    BY <1>1 DEF KickBegin
  <2>7. QED
    BY <1>1, <2>1, <2>2, <2>4, <2>5, <2>6 DEF KickBegin
<1>2. ASSUME AtEntry("rule") \/ AtEntry("mac") \/ AtEntry("count") \/ AtEntry("kick")
      PROVE  /\ Current \in Mac /\ call.ap \in AP
             /\ call.k \in 1..Len(call.list) /\ call.k \in 1..AclArrayEntries
  BY <1>2 DEF AtEntry, Current, Call
<1>3. CASE KickRule
  <2>1. DropRule(Current) \in Rule /\ ReturnRule(Current) \in Rule
    BY <1>2, <1>3 DEF KickRule, DropRule, ReturnRule, Rule
  <2>2. chain' \in [AP -> Seq(Rule)]
    BY <1>2, <1>3, <2>1 DEF KickRule
  <2>3. QED
    BY <1>2, <1>3, <2>2 DEF KickRule, Goto, Call
<1>4. CASE KickSetMac
  <2>1. live' \in [AP -> Config]
    BY <1>2, <1>4 DEF KickSetMac, Config
  <2>2. QED
    BY <1>2, <1>4, <2>1 DEF KickSetMac, Goto, Call
<1>5. CASE KickSetCount
  <2>0. /\ call.ap \in AP /\ call.k \in 0..AclArrayEntries
        /\ live' = [live EXCEPT ![call.ap].count = call.k]
    BY <1>2, <1>5 DEF KickSetCount
  <2>1. live' \in [AP -> Config]
    BY <2>0 DEF Config
  <2>2. saved' \in [AP -> Config]
    BY <1>5, <2>1 DEF KickSetCount
  <2>3. Goto("kick") \/ NextEntry
    BY <1>5 DEF KickSetCount
  <2>4. /\ call' \in Call
        /\ call'.op = call.op /\ call'.ap = call.ap /\ call'.list = call.list
        /\ call'.k \in 1..(Len(call.list) + 1)
    BY <1>2, <1>5, <2>3, CallMoves DEF KickSetCount, Call
  <2>5. acl' = acl /\ chain' = chain /\ sta' = sta /\ call.op # "idle"
    BY <1>5 DEF KickSetCount, AtEntry
  <2>6. QED
    BY <2>1, <2>2, <2>4, <2>5
<1>6. CASE KickDevice
  <2>1. /\ call' \in Call
        /\ call'.op = call.op /\ call'.ap = call.ap /\ call'.list = call.list
        /\ call'.k \in 1..(Len(call.list) + 1)
    BY <1>2, <1>6, CallMoves DEF KickDevice
  <2>2. sta' \in [AP -> SUBSET Mac]
    BY <1>6 DEF KickDevice, Disassociate
  <2>3. QED
    BY <1>6, <2>1, <2>2 DEF KickDevice, AtEntry
<1>7. CASE DenyReturn
  BY <1>7 DEF DenyReturn, Idle, Call
<1>8. CASE AllowReturn
  <2> DEFINE closing == DropAllBut(IF call.list = <<>> THEN None ELSE Last(call.list))
  <2>1. closing \in Rule
    BY DEF DropAllBut, Rule, Last, Call
  <2>2. chain' \in [AP -> Seq(Rule)]
    BY <1>8, <2>1 DEF AllowReturn
  <2>3. QED
    BY <1>8, <2>2 DEF AllowReturn, Disassociate, Idle, Call
<1>9. QED
  BY <1>1, <1>3, <1>4, <1>5, <1>6, <1>7, <1>8

\* Every action of the MAC filter keeps the types.
LEMMA NextType == TypeOK /\ [Next]_vars => TypeOK'
<1> SUFFICES ASSUME TypeOK, [Next]_vars PROVE TypeOK'
  OBVIOUS
<1> USE MacFilterAssumption DEF TypeOK
<1>1. ASSUME NEW ap \in AP, NEW m \in Mac, AddAclDevice(ap, m)
      PROVE  TypeOK'
  BY <1>1 DEF AddAclDevice
<1>2. ASSUME NEW ap \in AP, NEW m \in Mac, DelAclDevice(ap, m)
      PROVE  TypeOK'
  BY <1>2, WithoutType DEF DelAclDevice
<1>3. ASSUME NEW ap \in AP, NEW mode \in 0..2, SetControlMode(ap, mode)
      PROVE  TypeOK'
  <2>1. live' \in [AP -> Config]
    BY <1>3 DEF SetControlMode, Config
  <2>2. chain' \in [AP -> Seq(Rule)]
    BY <1>3 DEF SetControlMode
  <2>3. QED
    BY <1>3, <2>1, <2>2 DEF SetControlMode
<1>4. ASSUME NEW ap \in AP, NEW m \in Mac, StaJoin(ap, m) \/ StaLeave(ap, m)
      PROVE  TypeOK'
  BY <1>4 DEF StaJoin, StaLeave
<1>5. CASE AgentDies
  BY <1>5 DEF AgentDies, Idle, Call
<1>6. CASE Reboot
  <2>1. chain' \in [AP -> Seq(Rule)]
    BY <1>6, BootChainType DEF Reboot
  <2>2. call' \in Call /\ call'.op = "idle"
    BY <1>6 DEF Reboot, Idle, Call
  <2>3. acl' \in [AP -> Seq(Mac)] /\ sta' \in [AP -> SUBSET Mac]
    BY <1>6 DEF Reboot
  <2>4. QED
    BY <1>6, <2>1, <2>2, <2>3 DEF Reboot
<1>7. CASE UNCHANGED vars
  BY <1>7 DEF vars
<1>8. QED
  BY <1>1, <1>2, <1>3, <1>4, <1>5, <1>6, <1>7, KickType DEF Next

\* The variables of the MAC filter keep their types in every behaviour.
THEOREM TypeCorrect == Spec => []TypeOK
BY InitType, NextType, PTL DEF Spec

-----------------------------------------------------------------------------
(***************************************************************************)
(* The inductive invariant. EntriesFilled and DenyRegistered are not       *)
(* inductive by themselves: the count that is registered is justified by   *)
(* the addresses the running kick has written before it.                   *)
(***************************************************************************)

\* The entries of the running kick whose address is in syscfg.
Written == IF call.phase \in {"count", "kick"} THEN call.k ELSE call.k - 1

KickProgress ==
    call.op # "idle" =>
        \A i \in 1..Written : live[call.ap].mac[i] = call.list[i]

\* The inductive invariant.
IInv == TypeOK /\ EntriesFilled /\ KickProgress /\ DenyRegistered

\* The inductive invariant holds before the first call.
LEMMA InitIInv == Init => IInv
<1> SUFFICES ASSUME Init PROVE IInv
  OBVIOUS
<1>1. TypeOK
  BY InitType
<1>2. EntriesFilled
  BY DEF Init, EntriesFilled, Filled, EmptyConfig
<1>3. KickProgress /\ DenyRegistered
  BY DEF Init, Idle, KickProgress, DenyRegistered
<1>4. QED
  BY <1>1, <1>2, <1>3 DEF IInv

\* The commands of one entry of a kick, in a state that satisfies the invariant.
LEMMA EntryIInv ==
    ASSUME IInv, TypeOK', KickRule \/ KickSetMac \/ KickSetCount \/ KickDevice
    PROVE  EntriesFilled' /\ KickProgress' /\ DenyRegistered'
<1> USE MacFilterAssumption DEF IInv
<1>1. /\ call.op \in {"deny", "allow"} /\ call.ap \in AP
      /\ call.k \in Nat /\ call.k >= 1 /\ call.k <= Len(call.list)
      /\ call.k <= AclArrayEntries
      /\ call.list \in Seq(Mac) /\ Len(call.list) \in Nat
  BY DEF KickRule, KickSetMac, KickSetCount, KickDevice, AtEntry, TypeOK, Call
<1>2. CASE KickRule
  <2>1. /\ call' = [call EXCEPT !.phase = "mac"] /\ call.phase = "rule"
        /\ live' = live /\ saved' = saved
    BY <1>2 DEF KickRule, Goto, AtEntry
  <2>2. /\ call'.op = call.op /\ call'.ap = call.ap /\ call'.list = call.list
        /\ call'.k = call.k /\ call'.phase = "mac"
    BY <2>1 DEF TypeOK, Call
  <2>3. QED
    BY <2>1, <2>2 DEF EntriesFilled, Filled, KickProgress, Written,
                      DenyRegistered, Registered
<1>3. CASE KickSetMac
  <2>1. /\ call' = [call EXCEPT !.phase = "count"] /\ call.phase = "mac"
        /\ live' = [live EXCEPT ![call.ap].mac[call.k] = call.list[call.k]]
        /\ saved' = saved
    BY <1>3 DEF KickSetMac, Goto, AtEntry, Current
  <2>2. /\ call'.op = call.op /\ call'.ap = call.ap /\ call'.list = call.list
        /\ call'.k = call.k /\ call'.phase = "count"
    BY <2>1 DEF TypeOK, Call
  <2>3. \A ap \in AP : live'[ap].count = live[ap].count
    BY <2>1 DEF TypeOK, Config
  <2>4. \A ap \in AP, i \in 1..AclArrayEntries :
            live'[ap].mac[i] = IF ap = call.ap /\ i = call.k THEN call.list[i]
                               ELSE live[ap].mac[i]
    BY <1>1, <2>1 DEF TypeOK, Config
  <2>5. \A ap \in AP : live[ap].count \in 0..AclArrayEntries
    BY DEF TypeOK, Config
  <2>6. EntriesFilled'
    BY <1>1, <2>1, <2>3, <2>4, <2>5 DEF EntriesFilled, Filled
  <2>7. KickProgress'
    BY <1>1, <2>1, <2>2, <2>4 DEF KickProgress, Written
  <2>8. DenyRegistered'
    BY <2>1, <2>2 DEF DenyRegistered, Registered
  <2>9. QED
    BY <2>6, <2>7, <2>8
<1>4. CASE KickSetCount
  <2>1. /\ call.phase = "count"
        /\ live' = [live EXCEPT ![call.ap].count = call.k]
        /\ \/ saved' = live' /\ call' = [call EXCEPT !.phase = "kick"]
           \/ /\ saved' = saved /\ call.op # "deny"
              /\ call' = [call EXCEPT !.k = call.k + 1, !.phase = "rule"]
    BY <1>4 DEF KickSetCount, Goto, NextEntry, AtEntry
  <2>2. /\ call'.op = call.op /\ call'.ap = call.ap /\ call'.list = call.list
        /\ \/ call'.k = call.k /\ call'.phase = "kick" /\ saved' = live'
           \/ /\ call'.k = call.k + 1 /\ call'.phase = "rule" /\ saved' = saved
              /\ call.op # "deny"
    BY <2>1 DEF TypeOK, Call
  <2>3. \A ap \in AP : /\ live'[ap].mac = live[ap].mac
                       /\ live'[ap].count = IF ap = call.ap THEN call.k ELSE live[ap].count
    BY <1>1, <2>1 DEF TypeOK, Config
  <2>4. \A i \in 1..call.k : /\ live[call.ap].mac[i] = call.list[i]
                             /\ call.list[i] \in Mac
    BY <1>1, <2>1 DEF KickProgress, Written
  <2>5. \A ap \in AP : Filled(live'[ap])
    BY <1>1, <2>3, <2>4 DEF EntriesFilled, Filled
  <2>6. EntriesFilled'
    BY <2>2, <2>5 DEF EntriesFilled
  <2>7. KickProgress'
    <3>1. Written' = call.k
      BY <1>1, <2>2 DEF Written
    <3>2. \A i \in 1..call.k : live'[call'.ap].mac[i] = call'.list[i]
      BY <1>1, <2>2, <2>3, <2>4
    <3>3. QED
      BY <3>1, <3>2 DEF KickProgress
  <2>8. DenyRegistered'
    <3>1. CASE call.op = "deny"
      <4>1. Registered' = call.k /\ saved' = live'
        BY <1>1, <2>2, <3>1 DEF Registered
      <4>2. /\ saved'[call'.ap].count = call.k
            /\ \A i \in 1..call.k : saved'[call'.ap].mac[i] = call'.list[i]
        BY <1>1, <2>2, <2>3, <2>4, <4>1
      <4>3. QED
        BY <4>1, <4>2 DEF DenyRegistered
    <3>2. CASE call.op # "deny"
      BY <2>2, <3>2 DEF DenyRegistered
    <3>3. QED
      BY <3>1, <3>2
  <2>9. QED
    BY <2>6, <2>7, <2>8
<1>5. CASE KickDevice
  <2>1. /\ call' = [call EXCEPT !.k = call.k + 1, !.phase = "rule"]
        /\ call.phase = "kick" /\ live' = live /\ saved' = saved
    BY <1>5 DEF KickDevice, NextEntry, AtEntry
  <2>2. /\ call'.op = call.op /\ call'.ap = call.ap /\ call'.list = call.list
        /\ call'.k = call.k + 1 /\ call'.phase = "rule"
    BY <2>1 DEF TypeOK, Call
  <2>3. QED
    BY <1>1, <2>1, <2>2 DEF EntriesFilled, Filled, KickProgress, Written,
                            DenyRegistered, Registered
<1>6. QED
  BY <1>2, <1>3, <1>4, <1>5

\* Every API call, kick command, crash and reboot keeps the inductive invariant.
LEMMA NextIInv == IInv /\ [Next]_vars => IInv'
<1> SUFFICES ASSUME IInv, [Next]_vars PROVE IInv'
  OBVIOUS
<1> USE MacFilterAssumption
<1>1. TypeOK /\ EntriesFilled /\ TypeOK'
  BY NextType DEF IInv
<1> DEFINE Rest == EntriesFilled' /\ KickProgress' /\ DenyRegistered'
<1>2. ASSUME live' = live, saved' = saved, call' = call
      PROVE  Rest
  BY <1>2 DEF IInv, EntriesFilled, Filled, KickProgress, Written, DenyRegistered, Registered
<1>3. ASSUME live' = live \/ live' = saved, saved' = saved, call'.op = "idle"
      PROVE  Rest
  BY <1>1, <1>3 DEF EntriesFilled, Filled, KickProgress, DenyRegistered
<1>4. ASSUME NEW ap \in AP, NEW m \in Mac,
             \/ AddAclDevice(ap, m) \/ DelAclDevice(ap, m)
             \/ StaJoin(ap, m) \/ StaLeave(ap, m)
      PROVE  Rest
  BY <1>2, <1>4 DEF AddAclDevice, DelAclDevice, StaJoin, StaLeave
<1>5. ASSUME NEW ap \in AP, NEW mode \in 0..2, SetControlMode(ap, mode)
      PROVE  Rest
  <2>1. /\ live' = [live EXCEPT ![ap].block = mode] /\ saved' = live'
        /\ call'.op = "idle"
    BY <1>5 DEF SetControlMode, Idle
  <2>2. \A a \in AP : live'[a].count = live[a].count /\ live'[a].mac = live[a].mac
    BY <1>1, <2>1 DEF TypeOK, Config
  <2>3. QED
    BY <1>1, <2>1, <2>2 DEF EntriesFilled, Filled, KickProgress, DenyRegistered
<1>6. ASSUME NEW ap \in AP, NEW enable \in BOOLEAN, KickBegin(ap, enable)
      PROVE  Rest
  <2>1. /\ live' = live /\ saved' = saved
        /\ call'.k = 1 /\ call'.phase = "rule"
    BY <1>6 DEF KickBegin
  <2>2. QED
    BY <1>1, <2>1 DEF EntriesFilled, Filled, KickProgress, Written,
                      DenyRegistered, Registered
<1>7. CASE DenyReturn \/ AllowReturn \/ AgentDies \/ Reboot
  BY <1>1, <1>3, <1>7 DEF DenyReturn, AllowReturn, AgentDies, Reboot, Idle, IInv
<1>8. CASE KickRule \/ KickSetMac \/ KickSetCount \/ KickDevice
  BY <1>1, <1>8, EntryIInv DEF IInv
<1>9. CASE UNCHANGED vars
  BY <1>1, <1>2, <1>9 DEF vars, IInv
<1>10. QED
  BY <1>1, <1>4, <1>5, <1>6, <1>7, <1>8, <1>9 DEF Next, IInv

\* The inductive invariant holds in every behaviour.
LEMMA InductiveInvariant == Spec => []IInv
BY InitIInv, NextIInv, PTL DEF Spec

\* Wherever the agent dies or the board reboots, every entry countfilter counts
\* is an address, in the live syscfg and in the committed one.
THEOREM NoUnregisteredEntry == Spec => []EntriesFilled
<1>1. IInv => EntriesFilled
  BY DEF IInv
<1>2. QED
  BY <1>1, InductiveInvariant, PTL

\* A device is disassociated by a deny kick only when its block, and that of
\* every device handled before it, would already be restored by a reboot.
THEOREM DenySurvivesReboot == Spec => []DenyRegistered
<1>1. IInv => DenyRegistered
  BY DEF IInv
<1>2. QED
  BY <1>1, InductiveInvariant, PTL
-----------------------------------------------------------------------------
(***************************************************************************)
(* What the rules of a chain drop.                                         *)
(***************************************************************************)

\* A set of rule numbers has a first one.
LEMMA FirstOf ==
    ASSUME NEW n \in Nat, NEW S \in SUBSET (1..n), S # {}
    PROVE  \E i \in S : \A j \in S : i <= j
<1> DEFINE heads == {1..i : i \in S}
<1>1. IsFiniteSet(1..n)
  BY FS_Interval
<1>2. IsWellFoundedOn(StrictSubsetOrdering(1..n), SUBSET (1..n))
  BY <1>1, FS_StrictSubsetOrderingWellFounded, FS_FiniteSubsetsOfFinite, Zenon
<1>3. heads \subseteq SUBSET (1..n) /\ heads # {}
  <2>1. \A i \in S : 1..i \in SUBSET (1..n)
    OBVIOUS
  <2>2. QED
    BY <2>1, Zenon
<1>4. PICK h \in heads : \A g \in heads : <<g, h>> \notin StrictSubsetOrdering(1..n)
  <2> HIDE DEF heads
  <2>1. QED
    BY <1>2, <1>3, WFMin, Zenon
<1>5. PICK i \in S : h = 1..i
  OBVIOUS
<1>6. ASSUME NEW j \in S, j < i
      PROVE  FALSE
  <2>1. 1..j \in heads /\ 1..j \subseteq 1..i /\ 1..j # 1..i
    <3>1. i \in 1..i /\ i \notin 1..j /\ i \in Nat /\ j \in Nat
      BY <1>6
    <3>2. QED
      BY <1>6, <3>1
  <2>2. <<1..j, h>> \in StrictSubsetOrdering(1..n)
    BY <1>3, <1>5, <2>1 DEF StrictSubsetOrdering
  <2>3. QED
    BY <1>4, <2>1, <2>2
<1>7. QED
  BY <1>6

\* A DROP rule matches its address.
LEMMA DropMatches ==
    ASSUME NEW c, NEW i, NEW x \in Mac, c[i] = DropRule(x), NEW m \in Mac
    PROVE  (Matches(c, i, m) <=> x = m) /\ c[i].target = "DROP"
BY MacFilterAssumption DEF DropRule, Matches

\* A RETURN rule matches its address.
LEMMA ReturnMatches ==
    ASSUME NEW c, NEW i, NEW x \in Mac, c[i] = ReturnRule(x), NEW m \in Mac
    PROVE  (Matches(c, i, m) <=> x = m) /\ c[i].target # "DROP"
BY MacFilterAssumption DEF ReturnRule, Matches

\* The closing rule matches every address but its own.
LEMMA ClosingMatches ==
    ASSUME NEW c, NEW i, NEW x \in Mac, c[i] = DropAllBut(x), NEW m \in Mac
    PROVE  (Matches(c, i, m) <=> x # m) /\ c[i].target = "DROP"
BY MacFilterAssumption DEF DropAllBut, Matches

\* A chain of DROP rules drops the addresses in its rules.
LEMMA DenyChain ==
    ASSUME NEW c, NEW n \in Nat, DOMAIN c = 1..n, NEW x, NEW m \in Mac,
           \A i \in 1..n : x[i] \in Mac /\ c[i] = DropRule(x[i])
    PROVE  Dropped(c, m) <=> \E i \in 1..n : x[i] = m
<1>1. \A i \in 1..n : (Matches(c, i, m) <=> x[i] = m) /\ c[i].target = "DROP"
  BY DropMatches
<1>2. ASSUME \E i \in 1..n : x[i] = m
      PROVE  Dropped(c, m)
  <2> DEFINE S == {i \in 1..n : x[i] = m}
  <2>1. S \in SUBSET (1..n) /\ S # {}
    BY <1>2
  <2>2. PICK i \in S : \A j \in S : i <= j
    <3> HIDE DEF S
    <3>1. QED
      BY <2>1, FirstOf
  <2>3. \A j \in 1..(i - 1) : ~Matches(c, j, m)
    BY <1>1, <2>2
  <2>4. QED
    BY <1>1, <2>3 DEF Dropped
<1>3. QED
  BY <1>1, <1>2 DEF Dropped

\* One DROP rule more drops one address more.
LEMMA DropMore ==
    ASSUME NEW c \in Seq(Rule), NEW x \in Mac, NEW m \in Mac,
           \A i \in 1..Len(c) : Matches(c, i, m) => Dropped(c, m)
    PROVE  Dropped(Append(c, DropRule(x)), m) <=> Dropped(c, m) \/ x = m
<1> DEFINE n == Len(c)
           d == Append(c, DropRule(x))
<1>1. n \in Nat /\ DOMAIN c = 1..n /\ DOMAIN d = 1..(n + 1)
      /\ d[n + 1] = DropRule(x) /\ \A i \in 1..n : d[i] = c[i]
  <2>1. DropRule(x) \in Rule
    BY DEF DropRule, Rule
  <2>2. QED
    BY <2>1
<1> HIDE DEF d, n
<1>2. \A i \in 1..n : Matches(d, i, m) <=> Matches(c, i, m)
  BY <1>1 DEF Matches
<1>3. (Matches(d, n + 1, m) <=> x = m) /\ d[n + 1].target = "DROP"
  <2>1. d[n + 1] = DropRule(x)
    BY <1>1
  <2>2. QED
    BY <2>1, DropMatches
<1>4. Dropped(c, m) => Dropped(d, m)
  <2> SUFFICES ASSUME NEW i \in 1..n, Matches(c, i, m), c[i].target = "DROP",
                      \A j \in 1..(i - 1) : ~Matches(c, j, m)
               PROVE  Dropped(d, m)
    BY <1>1 DEF Dropped
  <2>1. \A j \in 1..(i - 1) : ~Matches(d, j, m)
    BY <1>1, <1>2
  <2>2. i \in DOMAIN d /\ Matches(d, i, m) /\ d[i].target = "DROP"
    BY <1>1, <1>2
  <2>3. QED
    BY <2>1, <2>2 DEF Dropped
<1>5. x = m => Dropped(d, m)
  <2> SUFFICES ASSUME x = m, ~Dropped(c, m) PROVE Dropped(d, m)
    BY <1>4
  <2>1. \A j \in 1..((n + 1) - 1) : ~Matches(d, j, m)
    BY <1>1, <1>2 DEF n
  <2>2. QED
    BY <1>1, <1>3, <2>1 DEF Dropped
<1>6. Dropped(d, m) => Dropped(c, m) \/ x = m
  <2> SUFFICES ASSUME NEW i \in 1..(n + 1), Matches(d, i, m), x # m
               PROVE  Dropped(c, m)
    BY <1>1 DEF Dropped
  <2>1. i \in 1..n
    BY <1>1, <1>3
  <2>2. QED
    BY <1>2, <2>1 DEF n
<1>7. QED
  BY <1>4, <1>5, <1>6 DEF d

\* A chain of RETURN rules, closed by the DROP of all but one of their addresses,
\* drops the addresses that are not in its rules.
LEMMA AllowChain ==
    ASSUME NEW c, NEW n \in Nat, DOMAIN c = 1..(n + 1), NEW x, NEW m \in Mac,
           \A i \in 1..n : x[i] \in Mac /\ c[i] = ReturnRule(x[i]),
           NEW last \in 1..n, c[n + 1] = DropAllBut(x[last])
    PROVE  Dropped(c, m) <=> \A i \in 1..n : x[i] # m
<1>1. \A i \in 1..n : (Matches(c, i, m) <=> x[i] = m) /\ c[i].target # "DROP"
  BY ReturnMatches
<1>2. (Matches(c, n + 1, m) <=> x[last] # m) /\ c[n + 1].target = "DROP"
  <2>1. x[last] \in Mac
    OBVIOUS
  <2>2. QED
    BY <2>1, ClosingMatches
<1>3. ASSUME \A i \in 1..n : x[i] # m
      PROVE  Dropped(c, m)
  <2>1. Matches(c, n + 1, m) /\ \A j \in 1..((n + 1) - 1) : ~Matches(c, j, m)
    BY <1>1, <1>2, <1>3
  <2>2. QED
    BY <1>2, <2>1 DEF Dropped
<1>4. ASSUME NEW j \in 1..n, x[j] = m, Dropped(c, m)
      PROVE  FALSE
  <2>1. PICK i \in 1..(n + 1) : /\ c[i].target = "DROP"
                                /\ \A k \in 1..(i - 1) : ~Matches(c, k, m)
    BY <1>4 DEF Dropped
  <2>2. i = n + 1
    BY <1>1, <2>1
  <2>3. j \in 1..(i - 1) /\ Matches(c, j, m)
    BY <1>1, <1>4, <2>2
  <2>4. QED
    BY <2>1, <2>3
<1>5. QED
  BY <1>3, <1>4

-----------------------------------------------------------------------------
(***************************************************************************)
(* The chain of the kick that runs, rule by rule.                          *)
(***************************************************************************)

\* The rule of entry i is in its place; an allow kick inserts at the head.
RuleAt(i) ==
    IF call.op = "deny" THEN DropRule(call.list[i])
                        ELSE ReturnRule(call.list[Applied + 1 - i])

RulesInPlace ==
    call.op # "idle" =>
        /\ call.phase # "none"
        /\ call.k > Len(call.list) => call.phase = "rule"
        /\ Len(chain[call.ap]) = Applied
        /\ \A i \in 1..Applied : chain[call.ap][i] = RuleAt(i)

ChainInv == TypeOK /\ RulesInPlace /\ DenyApplied

\* The next rule of a kick goes to its place.
LEMMA RuleInPlace ==
    ASSUME ChainInv, TypeOK', KickRule
    PROVE  RulesInPlace' /\ DenyApplied'
<1> DEFINE c == chain[call.ap]
           n == call.k - 1
<1>1. /\ call.op \in {"deny", "allow"} /\ call.ap \in AP /\ c \in Seq(Rule)
      /\ call.list \in Seq(Mac) /\ call.k \in 1..Len(call.list) /\ Current \in Mac
      /\ n \in Nat /\ Applied = n /\ Len(c) = n
      /\ Current = call.list[n + 1]
  BY DEF ChainInv, TypeOK, Call, KickRule, AtEntry, Current, Applied, RulesInPlace
<1>2. /\ call'.op = call.op /\ call'.ap = call.ap /\ call'.list = call.list
      /\ call'.k = call.k /\ call'.phase = "mac" /\ Applied' = n + 1
  BY <1>1 DEF ChainInv, TypeOK, Call, KickRule, Goto, Applied
<1>3. chain'[call'.ap] = IF call.op = "deny" THEN Append(c, DropRule(Current))
                                             ELSE <<ReturnRule(Current)>> \o c
  BY <1>1, <1>2 DEF ChainInv, TypeOK, KickRule
<1>4. \A i \in 1..n : c[i] = RuleAt(i)
  BY <1>1 DEF ChainInv, RulesInPlace
<1>5. CASE call.op = "deny"
  <2> DEFINE d == chain'[call'.ap]
  <2>1. \A i \in 1..n : call.list[i] \in Mac /\ c[i] = DropRule(call.list[i])
    BY <1>1, <1>4, <1>5 DEF RuleAt
  <2>2. Len(d) = n + 1 /\ d[n + 1] = DropRule(Current) /\ \A i \in 1..n : d[i] = c[i]
    <3>1. DropRule(Current) \in Rule
      BY <1>1 DEF DropRule, Rule
    <3>2. QED
      BY <1>1, <1>3, <1>5, <3>1
  <2>3. \A i \in 1..(n + 1) : d[i] = DropRule(call.list[i])
    BY <1>1, <2>1, <2>2
  <2>4. RulesInPlace'
    BY <1>1, <1>2, <1>5, <2>2, <2>3 DEF RulesInPlace, RuleAt
  <2>5. ASSUME NEW m \in Mac
        PROVE  Dropped(d, m) <=> \E i \in 1..(n + 1) : call.list[i] = m
    <3>1. Dropped(c, m) <=> \E i \in 1..n : call.list[i] = m
      BY <1>1, <1>5 DEF ChainInv, DenyApplied
    <3>2. \A i \in 1..Len(c) : Matches(c, i, m) => Dropped(c, m)
      <4>1. \A i \in 1..n : Matches(c, i, m) <=> call.list[i] = m
        BY <2>1, DropMatches
      <4>2. QED
        BY <1>1, <3>1, <4>1
    <3>3. Dropped(d, m) <=> Dropped(c, m) \/ Current = m
      BY <1>1, <1>3, <1>5, <3>2, DropMore
    <3>4. 1..(n + 1) = (1..n) \cup {n + 1}
      BY <1>1
    <3>5. QED
      BY <1>1, <3>1, <3>3, <3>4, Zenon
  <2>6. QED
    BY <1>2, <2>4, <2>5 DEF DenyApplied
<1>6. CASE call.op = "allow"
  <2> DEFINE d == chain'[call'.ap]
  <2>1. /\ Len(d) = n + 1 /\ d[1] = ReturnRule(Current)
        /\ \A i \in 1..n : d[i + 1] = c[i]
    <3>1. ReturnRule(Current) \in Rule
      BY <1>1 DEF ReturnRule, Rule
    <3>2. QED
      BY <1>1, <1>3, <1>6, <3>1
  <2>2. \A i \in 1..n : c[i] = ReturnRule(call.list[n + 1 - i])
    BY <1>1, <1>4, <1>6 DEF RuleAt
  <2>3. ASSUME NEW i \in 1..(n + 1)
        PROVE  d[i] = ReturnRule(call.list[n + 2 - i])
    <3>1. CASE i = 1
      BY <1>1, <2>1, <3>1
    <3>2. CASE i # 1
      <4>1. i - 1 \in 1..n /\ n + 1 - (i - 1) = n + 2 - i /\ (i - 1) + 1 = i
        BY <1>1, <3>2
      <4>2. d[(i - 1) + 1] = c[i - 1]
        BY <2>1, <4>1
      <4>3. c[i - 1] = ReturnRule(call.list[n + 1 - (i - 1)])
        BY <2>2, <4>1
      <4>4. QED
        BY <4>1, <4>2, <4>3
    <3>3. QED
      BY <3>1, <3>2
  <2>4. QED
    <3>1. \A i \in 1..(n + 1) : RuleAt(i)' = ReturnRule(call.list[n + 2 - i])
      BY <1>1, <1>2, <1>6 DEF RuleAt
    <3>2. \A i \in 1..Applied' : d[i] = RuleAt(i)'
      BY <1>2, <2>3, <3>1
    <3>3. RulesInPlace'
      BY <1>1, <1>2, <2>1, <3>2 DEF RulesInPlace
    <3>4. QED
      BY <1>2, <1>6, <3>3 DEF DenyApplied
<1>7. QED
  BY <1>1, <1>5, <1>6

\* The other commands of an entry leave the rules.
LEMMA EntryChain ==
    ASSUME ChainInv, TypeOK', KickSetMac \/ KickSetCount \/ KickDevice
    PROVE  RulesInPlace' /\ DenyApplied'
<1>1. /\ call.op \in {"deny", "allow"} /\ call.ap \in AP /\ chain' = chain
      /\ call.list \in Seq(Mac) /\ call.k \in 1..Len(call.list)
      /\ call.phase # "rule" /\ Applied = call.k
  BY DEF ChainInv, TypeOK, Call, KickSetMac, KickSetCount, KickDevice, AtEntry, Applied
<1>2. /\ call'.op = call.op /\ call'.ap = call.ap /\ call'.list = call.list
      /\ \/ call'.k = call.k /\ call'.phase \in {"count", "kick"}
         \/ call'.k = call.k + 1 /\ call'.phase = "rule"
  BY DEF ChainInv, TypeOK, Call, KickSetMac, KickSetCount, KickDevice, Goto, NextEntry
<1>3. Applied' = Applied /\ Applied \in Nat /\ call'.k \in Nat
  BY <1>1, <1>2 DEF Applied
<1>4. \A i : RuleAt(i)' = RuleAt(i)
  BY <1>2, <1>3 DEF RuleAt
<1>5. RulesInPlace'
  BY <1>1, <1>2, <1>3, <1>4 DEF ChainInv, RulesInPlace
<1>6. DenyApplied'
  BY <1>1, <1>2, <1>3 DEF ChainInv, DenyApplied
<1>7. QED
  BY <1>5, <1>6

\* Every step leaves the chain of the running kick as the kick has built it.
LEMMA NextChain == ChainInv /\ [Next]_vars => ChainInv'
<1> SUFFICES ASSUME ChainInv, [Next]_vars PROVE ChainInv'
  OBVIOUS
<1>1. TypeOK /\ TypeOK'
  BY NextType DEF ChainInv
<1> DEFINE Rest == RulesInPlace' /\ DenyApplied'
<1>2. ASSUME UNCHANGED <<chain, call>>
      PROVE  Rest
  BY <1>2 DEF ChainInv, RulesInPlace, RuleAt, DenyApplied, Applied
<1>3. ASSUME call'.op = "idle"
      PROVE  Rest
  BY <1>3 DEF RulesInPlace, DenyApplied
<1>4. ASSUME NEW ap \in AP, NEW m \in Mac,
             \/ AddAclDevice(ap, m) \/ DelAclDevice(ap, m)
             \/ StaJoin(ap, m) \/ StaLeave(ap, m)
      PROVE  Rest
  BY <1>2, <1>4 DEF AddAclDevice, DelAclDevice, StaJoin, StaLeave
<1>5. ASSUME NEW ap \in AP, NEW mode \in 0..2, SetControlMode(ap, mode)
      PROVE  Rest
  BY <1>3, <1>5 DEF SetControlMode, Idle
<1>6. ASSUME NEW ap \in AP, NEW enable \in BOOLEAN, KickBegin(ap, enable)
      PROVE  Rest
  <2>1. /\ chain'[ap] = <<>> /\ call'.ap = ap /\ call'.k = 1 /\ call'.phase = "rule"
    BY <1>1, <1>6 DEF KickBegin, TypeOK
  <2>2. Applied' = 0 /\ chain'[call'.ap] = <<>> /\ Len(chain'[call'.ap]) = 0
    BY <2>1 DEF Applied
  <2>3. \A m \in Mac : ~Dropped(chain'[call'.ap], m)
    BY <2>2 DEF Dropped
  <2>4. QED
    BY <2>1, <2>2, <2>3 DEF RulesInPlace, DenyApplied
<1>7. CASE DenyReturn \/ AllowReturn \/ AgentDies \/ Reboot
  <2>1. call'.op = "idle"
    BY <1>7 DEF DenyReturn, AllowReturn, AgentDies, Reboot, Idle
  <2>2. QED
    BY <1>1, <1>3, <2>1 DEF ChainInv
<1>8. CASE KickRule \/ KickSetMac \/ KickSetCount \/ KickDevice
  BY <1>1, <1>8, RuleInPlace, EntryChain DEF ChainInv
<1>9. CASE UNCHANGED vars
  BY <1>1, <1>2, <1>9 DEF vars, ChainInv
<1>10. QED
  BY <1>1, <1>4, <1>5, <1>6, <1>7, <1>8, <1>9 DEF Next, ChainInv

\* The chain invariant holds in every behaviour.
LEMMA ChainInvariant == Spec => []ChainInv
<1>1. Init => ChainInv
  BY InitType DEF Init, Idle, ChainInv, RulesInPlace, DenyApplied
<1>2. QED
  BY <1>1, NextChain, PTL DEF Spec

\* While a deny kick runs, the chain drops the addresses handled so far and no other.
THEOREM DenyDropsHandled == Spec => []DenyApplied
<1>1. ChainInv => DenyApplied
  BY DEF ChainInv
<1>2. QED
  BY <1>1, ChainInvariant, PTL

\* The end of an allow kick leaves a chain that drops all but the list.
LEMMA AllowCompletes ==
    ASSUME ChainInv, AllowReturn, call.list # <<>>, NEW m \in Mac
    PROVE  Dropped(chain'[call.ap], m) <=> m \notin ToSet(call.list)
<1> DEFINE c == chain[call.ap]
           d == chain'[call.ap]
           n == Len(call.list)
           x == [i \in 1..n |-> call.list[n + 1 - i]]
<1>1. /\ call.op = "allow" /\ call.ap \in AP /\ c \in Seq(Rule)
      /\ call.list \in Seq(Mac) /\ n \in Nat /\ n >= 1 /\ call.k = n + 1
      /\ call.phase = "rule" /\ Applied = n /\ Len(c) = n
  BY DEF ChainInv, TypeOK, Call, AllowReturn, RulesInPlace, Applied
<1>2. \A i \in 1..n : c[i] = ReturnRule(call.list[n + 1 - i])
  BY <1>1 DEF ChainInv, RulesInPlace, RuleAt
<1>3. d = Append(c, DropAllBut(call.list[n])) /\ call.list[n] \in Mac
  BY <1>1 DEF ChainInv, TypeOK, AllowReturn, Last
<1>4. /\ DOMAIN d = 1..(n + 1) /\ d[n + 1] = DropAllBut(call.list[n])
      /\ \A i \in 1..n : d[i] = c[i]
  <2>1. DropAllBut(call.list[n]) \in Rule
    BY <1>3 DEF DropAllBut, Rule
  <2>2. QED
    BY <1>1, <1>3, <2>1
<1>5. \A i \in 1..n : n + 1 - i \in 1..n /\ n + 1 - (n + 1 - i) = i
  BY <1>1
<1>6. \A i \in 1..n : x[i] \in Mac /\ d[i] = ReturnRule(x[i])
  BY <1>1, <1>2, <1>4, <1>5
<1>7. 1 \in 1..n /\ d[n + 1] = DropAllBut(x[1])
  BY <1>1, <1>4
<1>8. Dropped(d, m) <=> \A i \in 1..n : x[i] # m
  <2> HIDE DEF d, n, x
  <2>1. QED
    BY <1>1, <1>4, <1>6, <1>7, AllowChain
<1>9. (\E i \in 1..n : x[i] = m) <=> \E i \in 1..n : call.list[i] = m
  <2>1. \A i \in 1..n : x[i] = call.list[n + 1 - i] /\ x[n + 1 - i] = call.list[i]
    BY <1>1, <1>5
  <2> HIDE DEF x, n
  <2>2. QED
    BY <1>5, <2>1
<1>10. m \in ToSet(call.list) <=> \E i \in 1..n : call.list[i] = m
  BY <1>1 DEF ToSet
<1>11. QED
  BY <1>8, <1>9, <1>10

\* A completed allow kick with a non-empty list drops exactly the other addresses.
THEOREM AllowDropsOthers == Spec => AllowApplied
<1>1. ChainInv /\ [Next]_vars =>
        [AllowReturn /\ call.list # <<>> =>
           \A m \in Mac : Dropped(chain'[call.ap], m) <=> m \notin ToSet(call.list)]_vars
  BY AllowCompletes
<1>2. QED
  BY <1>1, ChainInvariant, PTL DEF Spec, AllowApplied

-----------------------------------------------------------------------------
(***************************************************************************)
(* The chain of a boot.                                                    *)
(***************************************************************************)

\* What is registered, by entry.
LEMMA EntriesAre ==
    ASSUME NEW cfg \in Config, NEW m
    PROVE  m \in ToSet(Entries(cfg)) <=> \E k \in 1..cfg.count : cfg.mac[k] = m
<1>1. /\ cfg.mac \in Seq(Mac \cup {None}) /\ Len(cfg.mac) = AclArrayEntries
      /\ cfg.count \in 0..AclArrayEntries
  BY MacFilterAssumption DEF Config
<1>2. /\ DOMAIN Entries(cfg) = 1..cfg.count
      /\ \A k \in 1..cfg.count : Entries(cfg)[k] = cfg.mac[k]
  BY <1>1, MacFilterAssumption DEF Entries
<1>3. QED
  BY <1>2 DEF ToSet

\* The script of macfilter_init filters as it is registered.
LEMMA BootFilters ==
    ASSUME NEW cfgs \in [AP -> Config], NEW ap \in AP, Filled(cfgs[ap]), NEW m \in Mac,
           cfgs[ap].block # 1 \/ cfgs[ap].count > 0
    PROVE  LET listed == m \in ToSet(Entries(cfgs[ap]))
           IN  Dropped(BootChain(cfgs, ap), m) <=> \/ cfgs[ap].block = 2 /\ listed
                                                   \/ cfgs[ap].block = 1 /\ ~listed
<1> DEFINE n == cfgs[ap].count
           x == cfgs[ap].mac
           c == BootChain(cfgs, ap)
<1>1. n \in Nat /\ cfgs[ap].block \in 0..2 /\ \A k \in 1..n : x[k] \in Mac
  BY MacFilterAssumption DEF Config, Filled
<1>2. m \in ToSet(Entries(cfgs[ap])) <=> \E k \in 1..n : x[k] = m
  BY EntriesAre
<1>3. CASE cfgs[ap].block = 2
  <2>1. DOMAIN c = 1..n /\ \A k \in 1..n : c[k] = DropRule(x[k])
    BY <1>3 DEF BootChain, BootDeny
  <2>2. Dropped(c, m) <=> \E k \in 1..n : x[k] = m
    <3> HIDE DEF c, n, x
    <3>1. QED
      BY <1>1, <2>1, DenyChain
  <2>3. QED
    BY <1>2, <1>3, <2>2
<1>4. CASE cfgs[ap].block = 1
  <2> DEFINE y == [k \in 1..n |-> x[n + 1 - k]]
  <2>1. n >= 1
    BY <1>1, <1>4
  <2>2. \A k \in 1..n : n + 1 - k \in 1..n /\ n + 1 - (n + 1 - k) = k
    BY <1>1
  <2>3. /\ DOMAIN c = 1..(n + 1) /\ c[n + 1] = DropAllBut(x[n])
        /\ \A k \in 1..n : c[k] = ReturnRule(x[n + 1 - k])
    <3>1. c = BootAllow(cfgs, ap)
      BY <1>4 DEF BootChain
    <3>2. QED
      BY <1>1, <2>1, <3>1 DEF BootAllow
  <2>4. \A k \in 1..n : y[k] \in Mac /\ c[k] = ReturnRule(y[k])
    BY <1>1, <2>2, <2>3
  <2>5. 1 \in 1..n /\ c[n + 1] = DropAllBut(y[1])
    BY <1>1, <2>1, <2>3
  <2>6. Dropped(c, m) <=> \A k \in 1..n : y[k] # m
    <3> HIDE DEF c, n, y
    <3>1. QED
      BY <1>1, <2>3, <2>4, <2>5, AllowChain
  <2>7. (\E k \in 1..n : y[k] = m) <=> \E k \in 1..n : x[k] = m
    <3>1. \A k \in 1..n : y[k] = x[n + 1 - k] /\ y[n + 1 - k] = x[k]
      BY <1>1, <2>2
    <3> HIDE DEF y, n
    <3>2. QED
      BY <2>2, <3>1
  <2> HIDE DEF y
  <2>8. QED
    BY <1>2, <1>4, <2>6, <2>7
<1>5. CASE cfgs[ap].block = 0
  <2>1. c = <<>>
    BY <1>5 DEF BootChain
  <2>2. ~Dropped(c, m)
    BY <2>1 DEF Dropped
  <2>3. QED
    BY <1>5, <2>2
<1>6. QED
  BY <1>1, <1>3, <1>4, <1>5

\* After a boot the filter is the registered one, wherever the kick before it stopped.
THEOREM BootFiltersAsRegistered == Spec => BootRestores
<1> DEFINE Restored ==
      \A ap \in AP, m \in Mac :
         LET listed == m \in ToSet(Entries(saved[ap]))
         IN  saved[ap].block # 1 \/ saved[ap].count > 0 =>
                 (Dropped(chain'[ap], m) <=> \/ saved[ap].block = 2 /\ listed
                                             \/ saved[ap].block = 1 /\ ~listed)
<1>1. IInv /\ [Next]_vars => [Reboot => Restored]_vars
  <2> SUFFICES ASSUME IInv, Reboot, NEW ap \in AP, NEW m \in Mac,
                      saved[ap].block # 1 \/ saved[ap].count > 0
               PROVE  Dropped(chain'[ap], m) <=>
                        \/ saved[ap].block = 2 /\ m \in ToSet(Entries(saved[ap]))
                        \/ saved[ap].block = 1 /\ m \notin ToSet(Entries(saved[ap]))
    OBVIOUS
  <2>1. saved \in [AP -> Config] /\ Filled(saved[ap])
    BY DEF IInv, TypeOK, EntriesFilled
  <2>2. chain'[ap] = BootChain(saved, ap)
    BY DEF Reboot
  <2>3. QED
    BY <2>1, <2>2, BootFilters
<1>2. QED
  BY <1>1, InductiveInvariant, PTL DEF Spec, BootRestores

-----------------------------------------------------------------------------
(***************************************************************************)
(* The list of an access point.                                            *)
(***************************************************************************)

\* No address twice.
Distinct(list) == \A i, j \in DOMAIN list : list[i] = list[j] => i = j

\* A list in which no address is twice has none twice without one of them.
LEMMA WithoutDistinct ==
    ASSUME NEW list \in Seq(Mac), NEW m \in Mac, Contains(list, m), Distinct(list)
    PROVE  Distinct(Without(list, m))
<1> DEFINE n == Len(list)
           short == Without(list, m)
<1>1. PICK p \in 1..n : list[p] = m
  BY DEF Contains
<1>2. n \in Nat /\ DOMAIN list = 1..n /\ DOMAIN short = 1..(n - 1)
  BY DEF Without
<1>3. ASSUME NEW i \in 1..(n - 1)
      PROVE  short[i] = list[IF p <= i THEN i + 1 ELSE i]
  <2>1. (\E j \in 1..i : list[j] = m) <=> p <= i
    BY <1>1, <1>2, <1>3 DEF Distinct
  <2>2. QED
    BY <1>3, <2>1 DEF Without
<1>4. ASSUME NEW i \in 1..(n - 1), NEW j \in 1..(n - 1), short[i] = short[j]
      PROVE  i = j
  <2>1. list[IF p <= i THEN i + 1 ELSE i] = list[IF p <= j THEN j + 1 ELSE j]
    BY <1>3, <1>4
  <2>2. /\ (IF p <= i THEN i + 1 ELSE i) \in DOMAIN list
        /\ (IF p <= j THEN j + 1 ELSE j) \in DOMAIN list
    BY <1>2
  <2>3. (IF p <= i THEN i + 1 ELSE i) = (IF p <= j THEN j + 1 ELSE j)
    BY <2>1, <2>2 DEF Distinct
  <2>4. QED
    BY <1>2, <2>3
<1>5. QED
  BY <1>2, <1>4 DEF Distinct

\* Every step keeps the lists free of repetitions.
LEMMA NextListed == TypeOK /\ ListedOnce /\ [Next]_vars => ListedOnce'
<1> SUFFICES ASSUME TypeOK, ListedOnce, [Next]_vars, NEW ap \in AP
             PROVE  Distinct(acl'[ap])
  BY DEF ListedOnce, Distinct
<1>1. acl \in [AP -> Seq(Mac)] /\ Distinct(acl[ap])
  BY DEF TypeOK, ListedOnce, Distinct
<1>2. ASSUME NEW a \in AP, NEW m \in Mac, AddAclDevice(a, m)
      PROVE  Distinct(acl'[ap])
  <2>1. \/ acl'[ap] = acl[ap]
        \/ acl'[ap] = Append(acl[ap], m) /\ ~Contains(acl[ap], m)
    BY <1>1, <1>2 DEF AddAclDevice
  <2>2. ASSUME ~Contains(acl[ap], m)
        PROVE  Distinct(Append(acl[ap], m))
    BY <1>1, <2>2 DEF Distinct, Contains
  <2>3. QED
    BY <1>1, <2>1, <2>2
<1>3. ASSUME NEW a \in AP, NEW m \in Mac, DelAclDevice(a, m)
      PROVE  Distinct(acl'[ap])
  <2>1. \/ acl'[ap] = acl[ap]
        \/ acl'[ap] = Without(acl[ap], m) /\ Contains(acl[ap], m)
        \/ acl'[ap] = <<>>
    BY <1>1, <1>3 DEF DelAclDevice
  <2>2. Distinct(<<>>)
    BY DEF Distinct
  <2>3. QED
    BY <1>1, <2>1, <2>2, WithoutDistinct
<1>4. CASE Reboot
  <2>1. acl'[ap] = <<>>
    BY <1>4 DEF Reboot
  <2>2. QED
    BY <2>1 DEF Distinct
<1>5. CASE UNCHANGED acl
  BY <1>1, <1>5
<1>6. Reboot \/ UNCHANGED acl \/ \E a \in AP, m \in Mac : AddAclDevice(a, m) \/ DelAclDevice(a, m)
  BY DEF Next, SetControlMode, KickBegin, KickRule, KickSetMac, KickSetCount, KickDevice,
         DenyReturn, AllowReturn, StaJoin, StaLeave, AgentDies, vars
<1>7. QED
  BY <1>2, <1>3, <1>4, <1>5, <1>6

\* No address is listed twice, so one deletion unlists it.
THEOREM NoRepetition == Spec => []ListedOnce
<1>1. Init => ListedOnce
  BY DEF Init, ListedOnce
<1>2. QED
  BY <1>1, NextListed, TypeCorrect, PTL DEF Spec

=============================================================================
