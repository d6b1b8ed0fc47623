---------------------------- MODULE ClientsProofs ----------------------------
(***************************************************************************)
(* Proofs about Clients and DhcpLease: what a reader puts together from    *)
(* several commands is true, whatever devices do, however often the lease  *)
(* is renewed and whatever time passes between any two of them.            *)
(***************************************************************************)
EXTENDS Clients, DhcpLease, FiniteSetTheorems, FunctionTheorems, TLAPS

-----------------------------------------------------------------------------
(***************************************************************************)
(* Lists.                                                                  *)
(***************************************************************************)

\* What is in a list that is taken apart or put together.
LEMMA TakeHead ==
    ASSUME NEW S, NEW s \in Seq(S), s # <<>>
    PROVE  /\ Head(s) \in S /\ Tail(s) \in Seq(S) /\ Head(s) = s[1]
           /\ Len(Tail(s)) = Len(s) - 1
           /\ \A i \in 1 .. Len(s) - 1 : Tail(s)[i] = s[i + 1]
           /\ ToSet(s) = {Head(s)} \cup ToSet(Tail(s))
           /\ Len(s) = 1 <=> Tail(s) = <<>>
<1>1. /\ Head(s) \in S /\ Tail(s) \in Seq(S) /\ Head(s) = s[1]
      /\ Len(s) \in Nat \ {0} /\ Len(Tail(s)) = Len(s) - 1
      /\ DOMAIN s = 1..Len(s) /\ DOMAIN Tail(s) = 1..Len(s) - 1
      /\ \A i \in 1 .. Len(s) - 1 : Tail(s)[i] = s[i + 1]
  OBVIOUS
<1> DEFINE t == Tail(s)
<1>2. \A i \in DOMAIN s : i = 1 \/ (i - 1 \in DOMAIN t /\ t[i - 1] = s[i])
  <2>1. \A i \in DOMAIN s : i # 1 => i - 1 \in 1 .. Len(s) - 1 /\ (i - 1) + 1 = i
    BY <1>1
  <2>2. QED
    BY <1>1, <2>1
<1>3. \A i \in DOMAIN t : i + 1 \in DOMAIN s /\ t[i] = s[i + 1]
  BY <1>1
<1>4. ToSet(s) = {Head(s)} \cup ToSet(t)
  <2>1. 1 \in DOMAIN s
    BY <1>1
  <2> HIDE DEF t
  <2>2. QED
    BY <1>1, <1>2, <1>3, <2>1 DEF ToSet
<1>5. Len(s) = 1 <=> Tail(s) = <<>>
  BY <1>1
<1>6. QED
  BY <1>1, <1>4, <1>5

\* A concatenation has the elements of both.
LEMMA ToSetOfBoth ==
    ASSUME NEW S, NEW s \in Seq(S), NEW t \in Seq(S)
    PROVE  s \o t \in Seq(S) /\ ToSet(s \o t) = ToSet(s) \cup ToSet(t)
<1> DEFINE m == Len(s)
           n == Len(t)
           d == s \o t
<1>1. /\ d \in Seq(S) /\ m \in Nat /\ n \in Nat
      /\ DOMAIN s = 1..m /\ DOMAIN t = 1..n /\ DOMAIN d = 1..(m + n)
      /\ \A i \in 1..m : d[i] = s[i]
      /\ \A i \in 1..n : d[m + i] = t[i]
      /\ \A i \in 1..(m + n) : i \in 1..m \/ (i - m \in 1..n /\ m + (i - m) = i)
      /\ \A i \in 1..m : i \in 1..(m + n)
      /\ \A i \in 1..n : m + i \in 1..(m + n)
  OBVIOUS
<1> HIDE DEF m, n, d
<1>2. ASSUME NEW i \in DOMAIN d
      PROVE  d[i] \in ToSet(s) \/ d[i] \in ToSet(t)
  <2>1. CASE i \in 1..m
    BY <1>1, <2>1 DEF ToSet
  <2>2. CASE i - m \in 1..n /\ m + (i - m) = i
    BY <1>1, <2>2 DEF ToSet
  <2>3. QED
    BY <1>1, <2>1, <2>2
<1>3. (\A i \in DOMAIN s : s[i] \in ToSet(d)) /\ \A i \in DOMAIN t : t[i] \in ToSet(d)
  <2>1. ASSUME NEW i \in 1..m
        PROVE  s[i] \in ToSet(d)
    BY <1>1 DEF ToSet
  <2>2. ASSUME NEW i \in 1..n
        PROVE  t[i] \in ToSet(d)
    BY <1>1 DEF ToSet
  <2>3. QED
    BY <1>1, <2>1, <2>2
<1>4. ToSet(d) = ToSet(s) \cup ToSet(t)
  <2>1. \A e : e \in ToSet(d) => e \in ToSet(s) \/ e \in ToSet(t)
    BY <1>2 DEF ToSet
  <2>2. \A e : e \in ToSet(s) \/ e \in ToSet(t) => e \in ToSet(d)
    <3>1. \A e : e \in ToSet(s) => \E i \in DOMAIN s : e = s[i]
      BY DEF ToSet
    <3>2. \A e : e \in ToSet(t) => \E i \in DOMAIN t : e = t[i]
      BY DEF ToSet
    <3>3. QED
      BY <1>3, <3>1, <3>2
  <2>3. QED
    BY <2>1, <2>2
<1>5. QED
  BY <1>1, <1>4 DEF d

\* One element more.
LEMMA ToSetOfAppend ==
    ASSUME NEW S, NEW s \in Seq(S), NEW e \in S
    PROVE  /\ Append(s, e) \in Seq(S) /\ ToSet(Append(s, e)) = ToSet(s) \cup {e}
           /\ Len(Append(s, e)) = Len(s) + 1
<1> DEFINE t == <<e>>
<1>1. Append(s, e) = s \o t /\ t \in Seq(S) /\ Len(Append(s, e)) = Len(s) + 1
  OBVIOUS
<1>2. DOMAIN t = {1} /\ t[1] = e
  OBVIOUS
<1> HIDE DEF t
<1>3. ToSet(t) = {e}
  BY <1>2 DEF ToSet
<1>4. s \o t \in Seq(S) /\ ToSet(s \o t) = ToSet(s) \cup ToSet(t)
  BY <1>1, ToSetOfBoth
<1>5. QED
  BY <1>1, <1>3, <1>4

\* The n-th smallest of some positions is one of them, and each is one of these.
Rank(K, n) == Cardinality({m \in K : m <= n})

\* The ranks of the positions are a permutation of 1 .. their number.
LEMMA RankOfPosition ==
    ASSUME NEW K, K \subseteq Nat, IsFiniteSet(K)
    PROVE  /\ Cardinality(K) \in Nat
           /\ \A n \in K : Rank(K, n) \in 1 .. Cardinality(K)
           /\ \A m, n \in K : Rank(K, m) = Rank(K, n) => m = n
           /\ \A i \in 1 .. Cardinality(K) : \E n \in K : Rank(K, n) = i
<1> DEFINE Below(n) == {m \in K : m <= n}
           f == [n \in K |-> Rank(K, n)]
<1>1. ASSUME NEW n \in K
      PROVE  /\ IsFiniteSet(Below(n)) /\ Cardinality(Below(n)) <= Cardinality(K)
             /\ Below(n) # {} /\ Cardinality(Below(n)) \in Nat
  <2>1. Below(n) \in SUBSET K /\ n \in Below(n)
    OBVIOUS
  <2>2. QED
    BY <2>1, FS_Subset, FS_CardinalityType
<1>2. Cardinality(K) \in Nat
  BY FS_CardinalityType
<1>3. ASSUME NEW n \in K
      PROVE  Rank(K, n) \in 1 .. Cardinality(K)
  <2>1. Cardinality(Below(n)) # 0
    BY <1>1, FS_EmptySet
  <2>2. QED
    BY <1>1, <1>2, <2>1 DEF Rank
<1>4. ASSUME NEW m \in K, NEW n \in K, Rank(K, m) = Rank(K, n), m < n
      PROVE  FALSE
  <2>1. Below(m) \in SUBSET Below(n) /\ n \in Below(n) /\ n \notin Below(m)
    <3>1. m \in Nat /\ n \in Nat /\ \A k \in K : k \in Nat
      OBVIOUS
    <3>2. \A k \in K : k <= m => k <= n
      BY <1>4, <3>1
    <3>3. n <= n /\ ~(n <= m)
      BY <1>4, <3>1
    <3>4. QED
      BY <3>2, <3>3
  <2>2. Cardinality(Below(m)) = Cardinality(Below(n)) => Below(m) = Below(n)
    BY <1>1, <2>1, FS_Subset
  <2>3. QED
    BY <1>4, <2>1, <2>2 DEF Rank
<1>5. \A m, n \in K : Rank(K, m) = Rank(K, n) => m = n
  BY <1>4
<1>6. f \in Injection(K, 1 .. Cardinality(K))
  BY <1>3, <1>5, Fun_IsInj
<1>7. IsFiniteSet(1 .. Cardinality(K)) /\ Cardinality(1 .. Cardinality(K)) = Cardinality(K)
  BY <1>2, FS_Interval
<1>8. f \in Surjection(K, 1 .. Cardinality(K))
  BY <1>6, <1>7, FS_Injection
<1>9. \A n \in K : f[n] = Rank(K, n)
  OBVIOUS
<1>10. \A i \in 1 .. Cardinality(K) : \E n \in K : f[n] = i
  <2> HIDE DEF f
  <2>1. QED
    BY <1>8, Fun_SurjectionProperties, Zenon
<1>11. QED
  BY <1>2, <1>3, <1>5, <1>9, <1>10

\* What is picked out of a list stands there at one of the positions, and no position
\* is picked twice.
LEMMA PickedAre ==
    ASSUME NEW S, NEW s \in Seq(S), NEW K, K \subseteq DOMAIN s
    PROVE  /\ Picked(s, K) \in Seq({s[n] : n \in K})
           /\ ToSet(Picked(s, K)) = {s[n] : n \in K}
           /\ IsInjective(s) => IsInjective(Picked(s, K))
<1> DEFINE c == Cardinality(K)
           At(i) == CHOOSE n \in K : Rank(K, n) = i
           p == Picked(s, K)
<1>1. K \subseteq Nat /\ IsFiniteSet(K)
  <2>1. DOMAIN s = 1 .. Len(s) /\ Len(s) \in Nat
    OBVIOUS
  <2>2. K \in SUBSET (1 .. Len(s)) /\ IsFiniteSet(1 .. Len(s))
    BY <2>1, FS_Interval
  <2>3. QED
    BY <2>1, <2>2, FS_Subset
<1>2. ASSUME NEW i \in 1 .. c
      PROVE  At(i) \in K /\ Rank(K, At(i)) = i
  <2>1. \E n \in K : Rank(K, n) = i
    BY <1>1, RankOfPosition
  <2>2. QED
    BY <2>1, Zenon
<1>3. ASSUME NEW n \in K
      PROVE  Rank(K, n) \in 1 .. c /\ At(Rank(K, n)) = n
  <2>1. Rank(K, n) \in 1 .. c
    BY <1>1, RankOfPosition
  <2>2. At(Rank(K, n)) \in K /\ Rank(K, At(Rank(K, n))) = Rank(K, n)
    BY <1>2, <2>1
  <2>3. QED
    BY <1>1, <2>1, <2>2, RankOfPosition
<1>4. p = [i \in 1 .. c |-> s[At(i)]] /\ c \in Nat
  BY <1>1, RankOfPosition DEF Picked, Rank
<1> HIDE DEF c, At, p
<1>5. p \in Seq({s[n] : n \in K}) /\ DOMAIN p = 1 .. c
  BY <1>2, <1>4
<1>6. ToSet(p) = {s[n] : n \in K}
  <2>1. \A n \in K : s[n] \in ToSet(p)
    BY <1>3, <1>4 DEF ToSet
  <2>2. ToSet(p) \subseteq {s[n] : n \in K}
    BY <1>2, <1>4 DEF ToSet
  <2>3. QED
    BY <2>1, <2>2
<1>7. ASSUME IsInjective(s), NEW i \in 1 .. c, NEW j \in 1 .. c, p[i] = p[j]
      PROVE  i = j
  <2>1. At(i) = At(j)
    BY <1>2, <1>4, <1>7 DEF IsInjective
  <2>2. QED
    BY <1>2, <2>1
<1>8. QED
  BY <1>5, <1>6, <1>7 DEF p, IsInjective

\* What is kept of a list is what it shares with the set.
LEMMA KeptAre ==
    ASSUME NEW S, NEW s \in Seq(S), NEW D
    PROVE  /\ Kept(s, D) \in Seq(S \cap D)
           /\ ToSet(Kept(s, D)) = ToSet(s) \cap D
           /\ IsInjective(s) => IsInjective(Kept(s, D))
<1> DEFINE K == {n \in DOMAIN s : s[n] \in D}
<1>1. {s[n] : n \in K} = ToSet(s) \cap D /\ \A n \in DOMAIN s : s[n] \in S
  BY DEF ToSet
<1>2. Kept(s, D) = Picked(s, K) /\ K \subseteq DOMAIN s
  BY DEF Kept
<1> HIDE DEF K
<1>3. {s[n] : n \in K} \subseteq S \cap D
  BY <1>1 DEF ToSet
<1>4. /\ Picked(s, K) \in Seq({s[n] : n \in K})
      /\ ToSet(Picked(s, K)) = {s[n] : n \in K}
      /\ IsInjective(s) => IsInjective(Picked(s, K))
  BY <1>2, PickedAre, Zenon
<1>5. Picked(s, K) \in Seq(S \cap D)
  BY <1>3, <1>4
<1>6. QED
  BY <1>1, <1>2, <1>4, <1>5

\* The sequence of a finite set has its elements.
LEMMA SequenceOfSet ==
    ASSUME NEW S, IsFiniteSet(S)
    PROVE  SetToSeq(S) \in Seq(S) /\ ToSet(SetToSeq(S)) = S
<1>1. PICK n : n = Cardinality(S)
  OBVIOUS
<1>2. PICK s : s = SetToSeq(S)
  OBVIOUS
<1>3. n \in Nat /\ ExistsBijection(1 .. n, S)
  BY <1>1, FS_CardinalityType
<1>4. PICK f \in Bijection(1 .. n, S) : TRUE
  BY <1>3, Fun_ExistsBij
<1>5. f \in [1 .. n -> S] /\ IsInjective(f)
  <2>1. f \in [1 .. n -> S] /\ f \in Injection(1 .. n, S)
    BY Fun_BijectionProperties, Zenon
  <2>2. \A a, b \in 1 .. n : f[a] = f[b] => a = b
    BY <2>1, Fun_InjectionProperties, Zenon
  <2>3. QED
    BY <2>1, <2>2 DEF IsInjective
<1>6. s \in [1 .. n -> S] /\ IsInjective(s)
  BY <1>1, <1>2, <1>5, Zenon DEF SetToSeq
<1>7. s \in Injection(1 .. n, S)
  BY <1>6, Fun_IsInj DEF IsInjective
<1>8. IsFiniteSet(1 .. n) /\ Cardinality(1 .. n) = n
  BY <1>3, FS_Interval
<1>9. s \in Surjection(1 .. n, S)
  BY <1>1, <1>7, <1>8, FS_Injection
<1>10. \A e \in S : \E i \in 1 .. n : s[i] = e
  <2>1. PICK D : D = 1 .. n
    OBVIOUS
  <2>2. s \in Surjection(D, S)
    BY <1>9, <2>1
  <2>3. \A e \in S : \E i \in D : s[i] = e
    BY <2>2, Fun_SurjectionProperties
  <2>4. QED
    BY <2>1, <2>3
<1>11. s \in Seq(S) /\ ToSet(s) = S
  BY <1>3, <1>6, <1>10 DEF ToSet
<1>12. QED
  BY <1>2, <1>11

-----------------------------------------------------------------------------
(***************************************************************************)
(* Types.                                                                  *)
(***************************************************************************)

AddressOrNone == Device \cup {None}

RowOf == [device : AddressOrNone, signal : AddressOrNone, counters : AddressOrNone]

WorldType ==
    /\ stations \in [Radio -> Seq(Device)]
    /\ answers \subseteq Device /\ weak \subseteq Device /\ met \subseteq Device
    /\ arp \in [Device -> Arp]

\* A reader of Wi-Fi stations counts lines, and the others have devices before them.
ReaderType ==
    /\ call \in {"none", "diagnostic", "list", "inactive", "switch", "ethernet"}
    /\ call = "none"       => pc = "idle"
    /\ call = "diagnostic" => pc \in {"idle", "append", "address", "signal", "counters"}
    /\ call = "list"       => pc \in {"idle", "list"}
    /\ call = "inactive"   => pc \in {"idle", "inactive", "strength"}
    /\ call = "switch"     => pc \in {"idle", "level", "kick"}
    /\ call = "ethernet"   => pc \in {"idle", "radio 0", "radio 1", "neighbour", "ping"}
    /\ radio \in Radio /\ rows \in Seq(RowOf)
    /\ pc # "radio 0" => lines \in Seq(IF call \in {"diagnostic", "list"} THEN Nat ELSE Device)
    /\ pc = "idle" => lines = <<>>
    /\ pc \notin {"idle", "radio 0", "radio 1"} => lines # <<>>
    /\ pc \in {"signal", "counters"} => rows # <<>>

ReadersTypeOK ==
    /\ WorldType /\ ReaderType
    /\ known \in [Radio -> SUBSET Device] /\ changed \subseteq Device

\* What anything that happens to a device leaves of the others.
Others(d) ==
    \A e \in Device \ {d} :
        /\ \A r \in Radio : e \in ToSet(stations'[r]) <=> e \in ToSet(stations[r])
        /\ e \in weak' <=> e \in weak
        /\ e \in met' <=> e \in met
        /\ e \in answers' <=> e \in answers
        /\ arp'[e] = arp[e]

\* Taking a device off the air takes it off either radio and no other device with it.
LEMMA WithoutOne ==
    ASSUME WorldType, NEW d \in Device
    PROVE  /\ Without(d) \in [Radio -> Seq(Device)]
           /\ \A r \in Radio : ToSet(Without(d)[r]) = ToSet(stations[r]) \ {d}
<1>1. ASSUME NEW r \in Radio
      PROVE  /\ Kept(stations[r], Device \ {d}) \in Seq(Device)
             /\ ToSet(Kept(stations[r], Device \ {d})) = ToSet(stations[r]) \ {d}
  <2>1. stations[r] \in Seq(Device)
    BY DEF WorldType
  <2>2. Kept(stations[r], Device \ {d}) \in Seq(Device \cap (Device \ {d}))
        /\ ToSet(Kept(stations[r], Device \ {d})) = ToSet(stations[r]) \cap (Device \ {d})
    BY <2>1, KeptAre, Zenon
  <2>3. ToSet(stations[r]) \subseteq Device
    BY <2>1 DEF ToSet
  <2>4. Device \cap (Device \ {d}) \subseteq Device
    OBVIOUS
  <2>5. Kept(stations[r], Device \ {d}) \in Seq(Device)
    BY <2>2, <2>4
  <2>6. QED
    BY <2>2, <2>3, <2>5
<1>2. QED
  BY <1>1 DEF Without

\* Something happens to one device.
LEMMA WorldDoes ==
    ASSUME ReadersTypeOK, World
    PROVE  \E d \in Device : /\ WorldType' /\ Others(d)
                             /\ changed' = IF call = "none" THEN {} ELSE changed \cup {d}
                             /\ UNCHANGED <<known, reader>>
<1>1. PICK d \in Device : \/ \E r \in Radio : Associate(d, r)
                          \/ Leave(d) \/ AnswerChanges(d) \/ SignalChanges(d)
                          \/ \E state \in Arp : ArpChanges(d, state)
  BY Zenon DEF World
<1>2. WorldType
  BY DEF ReadersTypeOK
<1>3. ASSUME NEW r \in Radio, Associate(d, r)
      PROVE  WorldType' /\ Others(d)
  <2>1. PICK s : /\ stations' = [stations EXCEPT ![r] = s]
                 /\ s \in {<<d>> \o stations[r], Append(stations[r], d)}
    BY <1>2, <1>3 DEF Associate, WorldType
  <2>2. stations[r] \in Seq(Device) /\ <<d>> \in Seq(Device) /\ ToSet(<<d>>) = {d}
    BY <1>2 DEF WorldType, ToSet
  <2>3. s \in Seq(Device) /\ ToSet(s) = ToSet(stations[r]) \cup {d}
    <3>1. PICK old : old = stations[r]
      OBVIOUS
    <3>2. CASE s = <<d>> \o old
      <4>1. <<d>> \o old \in Seq(Device) /\ ToSet(<<d>> \o old) = ToSet(<<d>>) \cup ToSet(old)
        BY <2>2, <3>1, ToSetOfBoth
      <4>2. QED
        BY <2>2, <3>1, <3>2, <4>1
    <3>3. CASE s = Append(old, d)
      BY <2>2, <3>1, <3>3, ToSetOfAppend
    <3>4. QED
      BY <2>1, <3>1, <3>2, <3>3
  <2>4. stations' \in [Radio -> Seq(Device)]
    BY <1>2, <2>1, <2>3 DEF WorldType
  <2>5. /\ stations'[r] = s
        /\ \A q \in Radio : q # r => stations'[q] = stations[q]
    BY <1>2, <2>1 DEF WorldType
  <2>6. met' \in {met, met \cup {d}} /\ UNCHANGED <<answers, weak, arp>>
    BY <1>3 DEF Associate
  <2>7. WorldType'
    BY <1>2, <2>4, <2>6 DEF WorldType
  <2>8. QED
    BY <2>3, <2>5, <2>6, <2>7 DEF Others
<1>4. ASSUME Leave(d)
      PROVE  WorldType' /\ Others(d)
  <2>1. stations' = Without(d) /\ UNCHANGED <<answers, weak, met, arp>>
    BY <1>4 DEF Leave
  <2>2. QED
    BY <1>2, <2>1, WithoutOne DEF WorldType, Others
<1>5. ASSUME AnswerChanges(d) \/ SignalChanges(d) \/ \E state \in Arp : ArpChanges(d, state)
      PROVE  WorldType' /\ Others(d)
  BY <1>2, <1>5 DEF WorldType, Others, AnswerChanges, SignalChanges, ArpChanges, Toggle
<1>6. /\ changed' = IF call = "none" THEN {} ELSE changed \cup {d}
      /\ UNCHANGED <<known, reader>>
  BY <1>1, Zenon DEF Change, Associate, Leave, AnswerChanges, SignalChanges, ArpChanges
<1>7. QED
  BY <1>1, <1>3, <1>4, <1>5, <1>6

\* A list of lines with one line handled; nothing is behind the last.
LEMMA TailOfLines ==
    ASSUME ReaderType, pc \notin {"idle", "radio 0", "radio 1"}
    PROVE  /\ lines \in Seq(IF call \in {"diagnostic", "list"} THEN Nat ELSE Device)
           /\ Head(lines) \in IF call \in {"diagnostic", "list"} THEN Nat ELSE Device
           /\ Tail(lines) \in Seq(IF call \in {"diagnostic", "list"} THEN Nat ELSE Device)
           /\ Len(lines) = 1 <=> Tail(lines) = <<>>
           /\ ToSet(lines) = {Head(lines)} \cup ToSet(Tail(lines))
<1>1. PICK S : S = IF call \in {"diagnostic", "list"} THEN Nat ELSE Device
  OBVIOUS
<1>2. lines \in Seq(S) /\ lines # <<>>
  BY <1>1 DEF ReaderType
<1>3. QED
  BY <1>1, <1>2, TakeHead

\* A row more is a list of rows.
LEMMA RowsOne ==
    ASSUME NEW r \in RowOf, rows \in Seq(RowOf)
    PROVE  rows \o <<r>> \in Seq(RowOf) /\ Append(rows, r) \in Seq(RowOf)
OBVIOUS

\* The numbers of n lines are n.
LEMMA NumbersType ==
    ASSUME NEW n \in Nat
    PROVE  Numbers(n) \in Seq(Nat) /\ Len(Numbers(n)) = n
BY DEF Numbers

\* The calls, with their first command and the lines they begin with.
Begun(name, next, first) ==
    \/ first \in Seq(Nat) /\ name = "diagnostic" /\ next = "append"
    \/ first \in Seq(Nat) /\ name = "list" /\ next = "list"
    \/ first \in Seq(Device) /\ name = "inactive" /\ next = "inactive"
    \/ first \in Seq(Device) /\ name = "switch" /\ next = "level"
    \/ first = <<None>> /\ name = "ethernet" /\ next = "radio 0"

\* Every call begins with lines of its own kind.
LEMMA StartTypes ==
    ASSUME ReadersTypeOK, NEW name, NEW next, NEW r \in Radio, NEW first,
           Begun(name, next, first), Start(name, next, r, first)
    PROVE  ReadersTypeOK'
<1>1. /\ call' = name /\ rows' = <<>> /\ radio' = r /\ lines' = first /\ changed' = {}
      /\ pc' = IF first = <<>> THEN "idle" ELSE next
      /\ UNCHANGED <<world, known>>
  BY DEF Start
<1>2. WorldType' /\ known' \in [Radio -> SUBSET Device] /\ changed' \subseteq Device
  BY <1>1 DEF ReadersTypeOK, WorldType, world
<1>3. ReaderType'
  <2>1. rows' \in Seq(RowOf) /\ <<None>> # <<>>
    BY <1>1
  <2>2. CASE first \in Seq(Nat) \/ first \in Seq(Device)
    BY <1>1, <2>1, <2>2 DEF ReaderType, Begun
  <2>3. CASE first = <<None>> /\ name = "ethernet" /\ next = "radio 0"
    BY <1>1, <2>1, <2>3 DEF ReaderType
  <2>4. QED
    BY <2>2, <2>3 DEF Begun
<1>4. QED
  BY <1>2, <1>3 DEF ReadersTypeOK

\* The initial values have their types.
LEMMA InitTypes == ASSUME Init PROVE ReadersTypeOK
<1>1. WorldType
  BY DEF Init, WorldType, Arp, Radio
<1>2. ReaderType
  BY DEF Init, ReaderType, Radio
<1>3. known \in [Radio -> SUBSET Device] /\ changed \subseteq Device
  BY DEF Init
<1>4. QED
  BY <1>1, <1>2, <1>3 DEF ReadersTypeOK

\* What a command prints is an address or nothing.
LEMMA AddressOf ==
    ASSUME ReadersTypeOK
    PROVE  /\ \A n : Line(n) \in AddressOrNone
           /\ \A d \in AddressOrNone : Counters(d) \in AddressOrNone /\ Signal(d) \in AddressOrNone
           /\ \A d \in AddressOrNone : Row(d) \in RowOf
<1>1. stations[radio] \in Seq(Device)
  BY DEF ReadersTypeOK, WorldType, ReaderType
<1>2. \A n : Line(n) \in AddressOrNone
  BY <1>1 DEF Line, AddressOrNone
<1>3. \A d \in AddressOrNone : Counters(d) \in AddressOrNone
  BY DEF Counters, AddressOrNone
<1>4. QED
  BY <1>2, <1>3 DEF Signal, Row, RowOf, AddressOrNone

\* The readers of stations keep the types.
LEMMA WifiTypes == ASSUME ReadersTypeOK, WifiReader PROVE ReadersTypeOK'
<1>1. ASSUME NEW r \in Radio, DiagnosticCount(r) \/ ListCount(r)
      PROVE  ReadersTypeOK'
  <2>1. Len(stations[r]) \in Nat
    BY DEF ReadersTypeOK, WorldType
  <2>2. Numbers(Len(stations[r])) \in Seq(Nat)
    BY <2>1, NumbersType
  <2>3. /\ Begun("diagnostic", "append", Numbers(Len(stations[r])))
        /\ Begun("list", "list", Numbers(Len(stations[r])))
    BY <2>2 DEF Begun
  <2>4. CASE DiagnosticCount(r)
    BY <2>3, <2>4, StartTypes, Zenon DEF DiagnosticCount
  <2>5. CASE ListCount(r)
    BY <2>3, <2>5, StartTypes, Zenon DEF ListCount
  <2>6. QED
    BY <1>1, <2>4, <2>5
<1>2. ASSUME NEW r \in Radio, InactiveCount(r)
      PROVE  ReadersTypeOK'
  <2>1. IsFiniteSet(known[r]) /\ known[r] \subseteq Device
    <3>1. known[r] \in SUBSET Device
      BY DEF ReadersTypeOK
    <3>2. QED
      BY <3>1, ClientsAssumption, FS_Subset
  <2>2. SetToSeq(known[r]) \in Seq(Device)
    BY <2>1, SequenceOfSet
  <2>3. Begun("inactive", "inactive", SetToSeq(known[r]))
    BY <2>2 DEF Begun
  <2>4. QED
    BY <1>2, <2>3, StartTypes, Zenon DEF InactiveCount
<1>3. ASSUME UNCHANGED <<world, changed, call, radio>>,
             known' \in [Radio -> SUBSET Device], ReaderType'
      PROVE  ReadersTypeOK'
  BY <1>3 DEF ReadersTypeOK, WorldType, world
<1>4. WorldType /\ ReaderType /\ known \in [Radio -> SUBSET Device]
  BY DEF ReadersTypeOK
<1>5. ASSUME DiagnosticAppend
      PROVE  ReadersTypeOK'
  <2>1. Line(Head(lines)) \in AddressOrNone /\ radio \in Radio
    BY <1>4, AddressOf DEF ReaderType
  <2>2. known' \in [Radio -> SUBSET Device]
    BY <1>4, <1>5, <2>1 DEF DiagnosticAppend, AddressOrNone
  <2>3. ReaderType'
    BY <1>4, <1>5 DEF DiagnosticAppend, Continue, ReaderType
  <2>4. QED
    BY <1>3, <1>5, <2>2, <2>3 DEF DiagnosticAppend, Continue
<1>6. ASSUME DiagnosticAddress
      PROVE  ReadersTypeOK'
  <2>1. Row(Line(Head(lines))) \in RowOf
    BY AddressOf
  <2>2. rows' \in Seq(RowOf) /\ rows' # <<>>
    BY <1>4, <1>6, <2>1 DEF DiagnosticAddress, ReaderType
  <2>3. ReaderType'
    BY <1>4, <1>6, <2>2 DEF DiagnosticAddress, Continue, ReaderType
  <2>4. QED
    BY <1>3, <1>4, <1>6, <2>3 DEF DiagnosticAddress, Continue
<1>7. ASSUME DiagnosticSignal \/ DiagnosticCounters
      PROVE  ReadersTypeOK'
  <2>1. rows # <<>> /\ rows \in Seq(RowOf) /\ Len(rows) \in DOMAIN rows
    <3>1. rows # <<>> /\ rows \in Seq(RowOf)
      BY <1>4, <1>7 DEF DiagnosticSignal, DiagnosticCounters, ReaderType
    <3>2. QED
      BY <3>1
  <2>2. Last(rows) \in RowOf
    BY <2>1 DEF Last
  <2>3. /\ Signal(Last(rows).device) \in AddressOrNone
        /\ Counters(Last(rows).device) \in AddressOrNone
    BY <2>2, AddressOf DEF RowOf
  <2>4. rows[Len(rows)] \in RowOf
    BY <2>1
  <2>5. rows' \in Seq(RowOf) /\ rows' # <<>>
    <3>1. PICK n : n = Len(rows)
      OBVIOUS
    <3>2. PICK r \in RowOf : rows' = [rows EXCEPT ![n] = r]
      <4>1. CASE DiagnosticSignal
        <5>1. [rows[n] EXCEPT !.signal = Signal(Last(rows).device)] \in RowOf
          BY <2>3, <2>4, <3>1 DEF RowOf
        <5>2. QED
          BY <3>1, <4>1, <5>1 DEF DiagnosticSignal
      <4>2. CASE DiagnosticCounters
        <5>1. [rows[n] EXCEPT !.counters = Counters(Last(rows).device)] \in RowOf
          BY <2>3, <2>4, <3>1 DEF RowOf
        <5>2. QED
          BY <3>1, <4>2, <5>1 DEF DiagnosticCounters
      <4>3. QED
        BY <1>7, <4>1, <4>2
    <3>3. QED
      BY <2>1, <3>1, <3>2
  <2>6. ReaderType'
    <3>1. CASE DiagnosticSignal
      BY <1>4, <2>5, <3>1 DEF DiagnosticSignal, Continue, ReaderType
    <3>2. CASE DiagnosticCounters
      BY <1>4, <2>5, <3>2, TailOfLines DEF DiagnosticCounters, ReaderType
    <3>3. QED
      BY <1>7, <3>1, <3>2
  <2>7. QED
    BY <1>3, <1>4, <1>7, <2>6 DEF DiagnosticSignal, DiagnosticCounters, Continue
<1>8. ASSUME ListLine
      PROVE  ReadersTypeOK'
  <2>1. PICK e \in AddressOrNone : Finish(<<Row(e)>>, "list")
    <3>1. Line(Head(lines)) \in AddressOrNone /\ None \in AddressOrNone
      BY AddressOf DEF AddressOrNone
    <3>2. rows # <<>> => Last(rows).device \in AddressOrNone
      <4>1. rows \in Seq(RowOf)
        BY <1>4 DEF ReaderType
      <4>2. rows # <<>> => Last(rows) \in RowOf
        BY <4>1 DEF Last
      <4>3. QED
        BY <4>2 DEF RowOf
    <3>3. QED
      BY <1>8, <3>1, <3>2 DEF ListLine
  <2>2. Row(e) \in RowOf
    BY AddressOf
  <2>3. rows' \in Seq(RowOf)
    BY <1>4, <2>1, <2>2, RowsOne DEF Finish, ReaderType
  <2>4. ReaderType'
    BY <1>4, <1>8, <2>1, <2>3, TailOfLines DEF ListLine, Finish, ReaderType
  <2>5. QED
    BY <1>3, <1>4, <2>1, <2>4 DEF Finish
<1>9. ASSUME InactivePing \/ InactiveSignal
      PROVE  ReadersTypeOK'
  <2>1. Head(lines) \in Device
    BY <1>4, <1>9, TailOfLines DEF InactivePing, InactiveSignal, ReaderType
  <2>2. CASE InactivePing /\ Continue("strength") /\ UNCHANGED <<known, rows>>
    BY <1>3, <1>4, <2>2 DEF InactivePing, Continue, ReaderType
  <2>3. CASE \E r \in RowOf : Finish(<<r>>, "inactive")
    <3>1. rows' \in Seq(RowOf)
      BY <1>4, <2>3, RowsOne DEF Finish, ReaderType
    <3>2. ReaderType'
      BY <1>4, <1>9, <2>3, <3>1, TailOfLines DEF InactivePing, InactiveSignal, Finish, ReaderType
    <3>3. QED
      BY <1>3, <1>4, <2>3, <3>2 DEF Finish
  <2>4. QED
    <3>1. /\ Row(Head(lines)) \in RowOf /\ Row(None) \in RowOf
          /\ [Row(Head(lines)) EXCEPT !.signal = Counters(Head(lines))] \in RowOf
      BY <2>1, AddressOf DEF AddressOrNone, Row, RowOf
    <3>2. QED
      BY <1>9, <2>2, <2>3, <3>1 DEF InactivePing, InactiveSignal
<1>10. QED
  BY <1>1, <1>2, <1>5, <1>6, <1>7, <1>8, <1>9, Zenon DEF WifiReader

\* So does the steering.
LEMMA SwitchTypes == ASSUME ReadersTypeOK, SwitchBand PROVE ReadersTypeOK'
<1>1. WorldType /\ ReaderType /\ known \in [Radio -> SUBSET Device]
  BY DEF ReadersTypeOK
<1>2. ASSUME NEW r \in Radio, SwitchStart(r)
      PROVE  ReadersTypeOK'
  <2>1. ToSet(stations[r]) \in SUBSET Device
    BY <1>1 DEF WorldType, ToSet
  <2>2. SetToSeq(ToSet(stations[r])) \in Seq(Device)
    BY <2>1, ClientsAssumption, FS_Subset, SequenceOfSet
  <2>3. Begun("switch", "level", SetToSeq(ToSet(stations[r])))
    BY <2>2 DEF Begun
  <2>4. QED
    BY <1>2, <2>3, StartTypes, Zenon DEF SwitchStart
<1>3. ASSUME SwitchLevel
      PROVE  ReadersTypeOK'
  <2>1. UNCHANGED <<world, changed, call, radio, known>>
    BY <1>3 DEF SwitchLevel, Continue, Finish
  <2>2. ReaderType'
    <3>1. CASE pc' = "kick" /\ UNCHANGED <<lines, rows>>
      BY <1>1, <1>3, <2>1, <3>1 DEF SwitchLevel, ReaderType
    <3>2. CASE Finish(<<>>, "level")
      <4>1. rows' \in Seq(RowOf)
        <5>1. rows \in Seq(RowOf) /\ rows' = rows \o <<>>
          BY <1>1, <3>2 DEF Finish, ReaderType
        <5>2. QED
          BY <5>1
      <4>2. QED
        BY <1>1, <1>3, <3>2, <4>1, TailOfLines DEF SwitchLevel, Finish, ReaderType
    <3>3. QED
      BY <1>3, <3>1, <3>2 DEF SwitchLevel, Continue
  <2>3. QED
    BY <1>1, <2>1, <2>2 DEF ReadersTypeOK, WorldType, world
<1>4. ASSUME SwitchKick
      PROVE  ReadersTypeOK'
  <2>1. Head(lines) \in Device
    BY <1>1, <1>4, TailOfLines DEF SwitchKick, ReaderType
  <2>2. WorldType'
    BY <1>1, <1>4, <2>1, WithoutOne DEF SwitchKick, WorldType
  <2>3. Row(Head(lines)) \in RowOf
    BY <2>1, AddressOf DEF AddressOrNone
  <2>4. rows' \in Seq(RowOf)
    BY <1>1, <1>4, <2>3, RowsOne DEF SwitchKick, ReaderType
  <2>5. ReaderType'
    BY <1>1, <1>4, <2>4, TailOfLines DEF SwitchKick, ReaderType
  <2>6. QED
    BY <1>1, <1>4, <2>2, <2>5 DEF SwitchKick, ReadersTypeOK
<1>5. QED
  BY <1>2, <1>3, <1>4, Zenon DEF SwitchBand

\* So does the reader of wired devices.
LEMMA EthernetTypes == ASSUME ReadersTypeOK, EthernetReader PROVE ReadersTypeOK'
<1>1. WorldType /\ ReaderType /\ known \in [Radio -> SUBSET Device]
  BY DEF ReadersTypeOK
<1>2. ASSUME UNCHANGED <<world, changed, call, radio, known>>, ReaderType'
      PROVE  ReadersTypeOK'
  BY <1>1, <1>2 DEF ReadersTypeOK, WorldType, world
<1>3. CASE EthernetStart
  <2>1. Begun("ethernet", "radio 0", <<None>>) /\ 0 \in Radio
    BY DEF Begun, Radio
  <2>2. QED
    BY <1>3, <2>1, StartTypes, Zenon DEF EthernetStart
<1>4. CASE EthernetRadio0
  <2>1. stations[0] \in Seq(Device)
    BY <1>1 DEF WorldType, Radio
  <2>2. ReaderType'
    BY <1>1, <1>4, <2>1 DEF EthernetRadio0, ReaderType
  <2>3. QED
    BY <1>2, <1>4, <2>2 DEF EthernetRadio0
<1>5. CASE EthernetDiff
  <2>1. PICK D : /\ lines' = Kept(Leases, D)
                 /\ pc' = IF lines' = <<>> THEN "idle" ELSE "neighbour"
    BY <1>5 DEF EthernetDiff
  <2>2. Kept(Leases, D) \in Seq(Device \cap D)
    BY ClientsAssumption, KeptAre
  <2>3. lines' \in Seq(Device)
    BY <2>1, <2>2
  <2>4. ReaderType'
    BY <1>1, <1>5, <2>1, <2>3 DEF EthernetDiff, ReaderType
  <2>5. QED
    BY <1>2, <1>5, <2>4 DEF EthernetDiff
<1>6. CASE EthernetNeighbour \/ EthernetPing
  <2>1. Head(lines) \in Device
    BY <1>1, <1>6, TailOfLines DEF EthernetNeighbour, EthernetPing, ReaderType
  <2>2. CASE EthernetNeighbour /\ Continue("ping") /\ UNCHANGED <<known, rows>>
    <3>1. ReaderType'
      BY <1>1, <2>2 DEF EthernetNeighbour, Continue, ReaderType
    <3>2. QED
      BY <1>2, <2>2, <3>1 DEF Continue
  <2>3. CASE \E row \in {<<>>, <<Row(Head(lines))>>} : Finish(row, "neighbour")
    <3>1. rows' \in Seq(RowOf)
      <4>1. Row(Head(lines)) \in RowOf /\ rows \in Seq(RowOf)
        BY <1>1, <2>1, AddressOf DEF AddressOrNone, ReaderType
      <4>2. rows' \in {rows \o <<>>, rows \o <<Row(Head(lines))>>}
        BY <2>3 DEF Finish
      <4>3. QED
        BY <4>1, <4>2
    <3>2. ReaderType'
      BY <1>1, <1>6, <2>3, <3>1, TailOfLines DEF EthernetNeighbour, EthernetPing, Finish, ReaderType
    <3>3. QED
      BY <1>2, <2>3, <3>2 DEF Finish
  <2>4. QED
    BY <1>6, <2>2, <2>3 DEF EthernetNeighbour, EthernetPing
<1>7. QED
  BY <1>3, <1>4, <1>5, <1>6 DEF EthernetReader

\* So do the devices.
LEMMA WorldTypes == ASSUME ReadersTypeOK, World PROVE ReadersTypeOK'
<1>1. PICK d \in Device : /\ WorldType'
                          /\ changed' = IF call = "none" THEN {} ELSE changed \cup {d}
                          /\ UNCHANGED <<known, reader>>
  BY WorldDoes
<1>2. ReaderType'
  BY <1>1 DEF ReadersTypeOK, ReaderType, reader
<1>3. QED
  BY <1>1, <1>2 DEF ReadersTypeOK

\* And so does a step that changes nothing.
LEMMA StutterTypes == ASSUME ReadersTypeOK, UNCHANGED vars PROVE ReadersTypeOK'
BY DEF ReadersTypeOK, WorldType, ReaderType, vars, world, reader

\* Types are an inductive invariant of their own.
LEMMA TypesInvariant == ASSUME ReadersTypeOK, [Next]_vars PROVE ReadersTypeOK'
BY WorldTypes, WifiTypes, SwitchTypes, EthernetTypes, StutterTypes, Zenon DEF Next

-----------------------------------------------------------------------------
(***************************************************************************)
(* What a list of stations shows.                                          *)
(***************************************************************************)

Lists == call \in {"diagnostic", "list"}

RowTrue(row) == row.device # None => {row.signal, row.counters} \subseteq {None, row.device}

RowValues == \A n \in DOMAIN rows : RowTrue(rows[n])

\* Every address was heard of the radio, or its device has changed since the call.
Heard == Lists => Listed \subseteq ToSet(stations[radio]) \cup changed \cup {None}

\* Rows that are complete, and what stands in one.
Complete == IF pc \in {"signal", "counters"} THEN Len(rows) - 1 ELSE Len(rows)

Full(d) == IF call = "list" THEN Row(d) ELSE [device |-> d, signal |-> d, counters |-> d]

\* While nothing has changed, the lines that are left are those behind the rows.
Counted ==
    Lists /\ changed = {} =>
        /\ Complete + Len(lines) = Len(stations[radio])
        /\ \A i \in 1 .. Len(lines) : lines[i] = Complete + i
        /\ \A n \in 1 .. Complete : rows[n] = Full(stations[radio][n])
        /\ pc \in {"signal", "counters"} =>
              /\ rows[Len(rows)].device = stations[radio][Len(rows)]
              /\ pc = "counters" => rows[Len(rows)].signal = stations[radio][Len(rows)]

RowsInv == ReadersTypeOK /\ RowValues /\ Heard /\ Counted

\* A row is added behind the others.
LEMMA OneRow ==
    ASSUME rows \in Seq(RowOf), NEW r \in RowOf, rows' \in {Append(rows, r), rows \o <<r>>}
    PROVE  /\ Len(rows) \in Nat /\ Len(rows') = Len(rows) + 1
           /\ DOMAIN rows = 1 .. Len(rows) /\ DOMAIN rows' = 1 .. Len(rows) + 1
           /\ \A n \in 1 .. Len(rows) : rows'[n] = rows[n]
           /\ rows'[Len(rows) + 1] = r
           /\ Listed' = Listed \cup {r.device}
<1>1. rows' = Append(rows, r)
  OBVIOUS
<1>2. /\ Len(rows) \in Nat /\ Len(rows') = Len(rows) + 1
      /\ DOMAIN rows = 1 .. Len(rows) /\ DOMAIN rows' = 1 .. Len(rows) + 1
      /\ \A n \in 1 .. Len(rows) : rows'[n] = rows[n]
      /\ rows'[Len(rows) + 1] = r
  BY <1>1
<1>3. \A n \in 1 .. Len(rows) + 1 : n \in 1 .. Len(rows) \/ n = Len(rows) + 1
  BY <1>2
<1>4. (\A n \in 1 .. Len(rows) : n \in 1 .. Len(rows) + 1) /\ Len(rows) + 1 \in 1 .. Len(rows) + 1
  BY <1>2
<1>5. Listed' = Listed \cup {r.device}
  BY <1>2, <1>3, <1>4 DEF Listed
<1>6. QED
  BY <1>2, <1>5

\* A true row more leaves every row true.
LEMMA OneRowTrue ==
    ASSUME rows \in Seq(RowOf), RowValues, NEW r \in RowOf, RowTrue(r),
           rows' \in {Append(rows, r), rows \o <<r>>}
    PROVE  RowValues'
<1>1. /\ Len(rows) \in Nat
      /\ DOMAIN rows = 1 .. Len(rows) /\ DOMAIN rows' = 1 .. Len(rows) + 1
      /\ \A n \in 1 .. Len(rows) : rows'[n] = rows[n]
      /\ rows'[Len(rows) + 1] = r
  BY OneRow
<1>2. \A n \in 1 .. Len(rows) + 1 : n \in 1 .. Len(rows) \/ n = Len(rows) + 1
  BY <1>1
<1>3. ASSUME NEW n \in DOMAIN rows'
      PROVE  RowTrue(rows'[n])
  BY <1>1, <1>2 DEF RowValues
<1>4. QED
  BY <1>3 DEF RowValues

\* What is read by an address is of that address.
LEMMA ValuesOf ==
    ASSUME NEW d, d # None
    PROVE  Counters(d) \in {d, None} /\ Signal(d) \in {d, None} /\ RowTrue(Row(d))
BY DEF Counters, Signal, RowTrue, Row

\* A reader that starts has no rows.
LEMMA StartRows ==
    ASSUME ReadersTypeOK, NEW name, NEW next, NEW r \in Radio, NEW first,
           Start(name, next, r, first)
    PROVE  RowValues' /\ Heard'
<1>1. rows' = <<>>
  BY DEF Start
<1>2. QED
  BY <1>1 DEF RowValues, Heard, Listed

\* The call begins with as many lines as there are stations.
LEMMA StartCounts ==
    ASSUME ReadersTypeOK, NEW name, NEW next, NEW r \in Radio, next \notin {"signal", "counters"},
           Start(name, next, r, Numbers(Len(stations[r])))
    PROVE  Counted'
<1>1. /\ lines' = Numbers(Len(stations[r])) /\ rows' = <<>> /\ radio' = r
      /\ pc' \notin {"signal", "counters"} /\ stations' = stations
  BY DEF Start, world
<1>2. PICK n : n = Len(stations[r])
  OBVIOUS
<1>3. n \in Nat
  BY <1>2 DEF ReadersTypeOK, WorldType
<1>4. Len(lines') = n /\ \A i \in 1 .. n : lines'[i] = i
  BY <1>1, <1>2, <1>3 DEF Numbers
<1>5. Complete' = 0
  BY <1>1 DEF Complete
<1>6. QED
  BY <1>1, <1>2, <1>3, <1>4, <1>5 DEF Counted

\* Where another reader runs, nothing is said but of the values.
LEMMA OthersList == ASSUME ~Lists' PROVE Heard' /\ Counted'
BY DEF Heard, Counted

\* A device that does anything is counted among the changed ones.
LEMMA WorldRows == ASSUME RowsInv, World PROVE RowsInv'
<1>1. ReadersTypeOK'
  BY WorldTypes DEF RowsInv
<1>2. PICK d \in Device : /\ Others(d)
                          /\ changed' = IF call = "none" THEN {} ELSE changed \cup {d}
                          /\ UNCHANGED <<known, reader>>
  BY WorldDoes DEF RowsInv
<1>3. RowValues'
  BY <1>2 DEF RowsInv, RowValues, reader
<1>4. ASSUME Lists
      PROVE  Heard' /\ Counted'
  <2>1. changed' = changed \cup {d} /\ Listed' = Listed /\ radio' = radio /\ radio \in Radio
    BY <1>2, <1>4 DEF Lists, Listed, reader, RowsInv, ReadersTypeOK, ReaderType
  <2>2. \A e \in ToSet(stations[radio]) : e = d \/ e \in ToSet(stations'[radio])
    <3>1. ToSet(stations[radio]) \subseteq Device
      BY <2>1 DEF RowsInv, ReadersTypeOK, WorldType, ToSet
    <3>2. QED
      BY <1>2, <2>1, <3>1 DEF Others
  <2>3. Listed \subseteq ToSet(stations[radio]) \cup changed \cup {None}
    BY <1>4 DEF RowsInv, Heard
  <2>4. Heard'
    BY <2>1, <2>2, <2>3 DEF Heard
  <2>5. QED
    BY <2>1, <2>4 DEF Counted
<1>5. ASSUME ~Lists
      PROVE  Heard' /\ Counted'
  <2>1. ~Lists'
    BY <1>2, <1>5 DEF Lists, reader
  <2>2. QED
    BY <2>1, OthersList
<1>6. QED
  BY <1>1, <1>3, <1>4, <1>5 DEF RowsInv

\* The line a reader of stations is at, while nothing has changed.
LEMMA LineAt ==
    ASSUME RowsInv, Lists, changed = {}, pc \notin {"idle", "signal", "counters"}
    PROVE  /\ Head(lines) = Len(rows) + 1 /\ Len(rows) + 1 \in DOMAIN stations[radio]
           /\ Line(Head(lines)) = stations[radio][Len(rows) + 1]
           /\ stations[radio][Len(rows) + 1] \in Device
           /\ Complete = Len(rows) /\ Len(rows) \in Nat
<1>1. /\ lines \in Seq(Nat) /\ lines # <<>> /\ rows \in Seq(RowOf)
      /\ stations[radio] \in Seq(Device)
  BY DEF RowsInv, ReadersTypeOK, ReaderType, WorldType, Lists
<1>2. /\ Complete = Len(rows) /\ Complete + Len(lines) = Len(stations[radio])
      /\ \A i \in 1 .. Len(lines) : lines[i] = Complete + i
  BY DEF RowsInv, Counted, Complete
<1>3. Head(lines) = Len(rows) + 1 /\ Len(rows) \in Nat
  BY <1>1, <1>2
<1>4. Len(rows) + 1 \in DOMAIN stations[radio]
  BY <1>1, <1>2
<1>5. QED
  BY <1>1, <1>2, <1>3, <1>4 DEF Line

\* A line of the list is the next station, or repeats the address before it.
LEMMA ListLineRows == ASSUME RowsInv, ListLine PROVE RowValues' /\ Heard' /\ Counted'
<1> DEFINE d == Line(Head(lines))
           previous == IF rows = <<>> THEN None ELSE Last(rows).device
           e == IF d = None THEN previous ELSE d
<1>1. /\ Finish(<<Row(e)>>, "list") /\ pc = "list"
  BY DEF ListLine
<1>2. /\ ReaderType /\ WorldType /\ call = "list" /\ rows \in Seq(RowOf) /\ lines \in Seq(Nat)
      /\ lines # <<>> /\ stations[radio] \in Seq(Device)
  BY <1>1 DEF RowsInv, ReadersTypeOK, ReaderType, WorldType
<1>3. /\ d \in ToSet(stations[radio]) \cup {None}
      /\ rows # <<>> => previous \in Listed
  <2>1. d \in ToSet(stations[radio]) \cup {None}
    BY DEF Line, ToSet
  <2>2. rows # <<>> => Len(rows) \in DOMAIN rows
    BY <1>2
  <2>3. QED
    BY <2>1, <2>2 DEF Listed, Last
<1>4. /\ rows' = rows \o <<Row(e)>> /\ lines' = Tail(lines) /\ pc' \in {"idle", "list"}
      /\ UNCHANGED <<world, known, call, radio, changed>>
  BY <1>1 DEF Finish
<1>5. e \in AddressOrNone
  <2>1. d \in AddressOrNone
    BY AddressOf DEF RowsInv
  <2>2. rows # <<>> => previous \in AddressOrNone
    <3>1. rows # <<>> => Last(rows) \in RowOf
      BY <1>2 DEF Last
    <3>2. QED
      BY <3>1 DEF RowOf
  <2>3. QED
    BY <2>1, <2>2 DEF AddressOrNone
<1>6. Row(e) \in RowOf /\ RowTrue(Row(e)) /\ Row(e).device = e
  BY <1>5, AddressOf DEF RowsInv, RowTrue, Row
<1>7. PICK row : row = Row(e)
  OBVIOUS
<1>8. /\ Listed' = Listed \cup {e} /\ Len(rows') = Len(rows) + 1 /\ Len(rows) \in Nat
      /\ \A n \in 1 .. Len(rows) : rows'[n] = rows[n]
      /\ rows'[Len(rows) + 1] = Row(e)
  <2>1. rows' \in {Append(rows, row), rows \o <<row>>} /\ row \in RowOf
    BY <1>4, <1>6, <1>7
  <2>2. QED
    BY <1>2, <1>6, <1>7, <2>1, OneRow
<1>9. RowValues'
  BY <1>2, <1>4, <1>6, <1>7, OneRowTrue DEF RowsInv
<1>10. Heard'
  <2>1. Listed \subseteq ToSet(stations[radio]) \cup changed \cup {None}
    BY <1>2 DEF RowsInv, Heard, Lists
  <2>2. e \in Listed \cup ToSet(stations[radio]) \cup {None}
    BY <1>3
  <2>3. QED
    BY <1>4, <1>8, <2>1, <2>2 DEF Heard, world
<1>11. Counted'
  <2>1. SUFFICES ASSUME changed = {}
                 PROVE  /\ Complete' + Len(lines') = Len(stations[radio])
                        /\ \A i \in 1 .. Len(lines') : lines'[i] = Complete' + i
                        /\ \A n \in 1 .. Complete' : rows'[n] = Row(stations[radio][n])
    BY <1>2, <1>4 DEF Counted, Full, world
  <2>2. /\ Head(lines) = Len(rows) + 1 /\ Len(rows) + 1 \in DOMAIN stations[radio]
        /\ d = stations[radio][Len(rows) + 1] /\ d \in Device /\ Complete = Len(rows)
    BY <1>1, <1>2, <2>1, LineAt DEF Lists
  <2>3. e = stations[radio][Len(rows) + 1]
    BY <2>2, ClientsAssumption
  <2>4. /\ Complete + Len(lines) = Len(stations[radio])
        /\ \A i \in 1 .. Len(lines) : lines[i] = Complete + i
        /\ \A n \in 1 .. Complete : rows[n] = Row(stations[radio][n])
    BY <1>2, <2>1 DEF RowsInv, Counted, Lists, Full
  <2>5. Complete' = Len(rows) + 1
    BY <1>4, <1>8 DEF Complete
  <2>6. /\ Len(Tail(lines)) = Len(lines) - 1 /\ Len(lines) \in Nat
        /\ \A i \in 1 .. Len(lines) - 1 : Tail(lines)[i] = lines[i + 1]
    BY <1>2, TakeHead
  <2>7. Complete' + Len(lines') = Len(stations[radio])
    <3>1. Len(lines') = Len(lines) - 1 /\ Complete' = Complete + 1 /\ Complete \in Nat
      BY <1>4, <1>8, <2>2, <2>5, <2>6
    <3>2. Complete + Len(lines) = Len(stations[radio]) /\ Len(lines) \in Nat
      BY <2>4, <2>6
    <3>3. QED
      BY <3>1, <3>2
  <2>8. \A i \in 1 .. Len(lines') : lines'[i] = Complete' + i
    BY <1>4, <1>8, <2>2, <2>4, <2>5, <2>6
  <2>9. \A n \in 1 .. Complete' : rows'[n] = Row(stations[radio][n])
    <3>1. \A n \in 1 .. Len(rows) + 1 : n \in 1 .. Len(rows) \/ n = Len(rows) + 1
      BY <1>8
    <3>2. QED
      BY <1>8, <2>2, <2>3, <2>4, <2>5, <3>1
  <2>10. QED
    BY <2>7, <2>8, <2>9
<1>12. QED
  BY <1>9, <1>10, <1>11

\* The file of devices has no part in the rows.
LEMMA AppendRows == ASSUME RowsInv, DiagnosticAppend PROVE RowValues' /\ Heard' /\ Counted'
<1>1. /\ UNCHANGED <<world, call, radio, lines, rows, changed>> /\ pc = "append" /\ pc' = "address"
  BY DEF DiagnosticAppend, Continue
<1>2. QED
  BY <1>1 DEF RowsInv, RowValues, Heard, Counted, Lists, Listed, Complete, Full, Row, world

\* The new row is that of the next station.
LEMMA AddressRows == ASSUME RowsInv, DiagnosticAddress PROVE RowValues' /\ Heard' /\ Counted'
<1> DEFINE d == Line(Head(lines))
<1>1. /\ UNCHANGED <<world, call, radio, lines, changed>> /\ pc = "address" /\ pc' = "signal"
      /\ rows' = Append(rows, Row(d))
  BY DEF DiagnosticAddress, Continue
<1>2. /\ call = "diagnostic" /\ rows \in Seq(RowOf)
  BY <1>1 DEF RowsInv, ReadersTypeOK, ReaderType
<1>3. Row(d) \in RowOf /\ Row(d).device = d /\ RowTrue(Row(d))
  BY AddressOf DEF RowsInv, Row, RowTrue
<1>4. d \in ToSet(stations[radio]) \cup {None}
  BY DEF Line, ToSet
<1>5. PICK row : row = Row(d)
  OBVIOUS
<1>6. /\ Listed' = Listed \cup {d} /\ Len(rows') = Len(rows) + 1 /\ Len(rows) \in Nat
      /\ \A n \in 1 .. Len(rows) : rows'[n] = rows[n]
      /\ rows'[Len(rows) + 1] = Row(d)
  BY <1>1, <1>2, <1>3, <1>5, OneRow
<1>7. RowValues'
  BY <1>1, <1>2, <1>3, <1>5, OneRowTrue DEF RowsInv
<1>8. Heard'
  BY <1>1, <1>2, <1>4, <1>6 DEF RowsInv, Heard, Lists, world
<1>9. Counted'
  <2>1. SUFFICES ASSUME changed = {}
                 PROVE  /\ Complete' + Len(lines) = Len(stations[radio])
                        /\ \A i \in 1 .. Len(lines) : lines[i] = Complete' + i
                        /\ \A n \in 1 .. Complete' : rows'[n] = Full(stations[radio][n])
                        /\ rows'[Len(rows')].device = stations[radio][Len(rows')]
    BY <1>1, <1>2 DEF Counted, Full, world
  <2>2. d = stations[radio][Len(rows) + 1] /\ Complete = Len(rows)
    BY <1>1, <1>2, <2>1, LineAt DEF Lists
  <2>3. Complete' = Len(rows)
    BY <1>1, <1>6 DEF Complete
  <2>4. /\ Complete + Len(lines) = Len(stations[radio])
        /\ \A i \in 1 .. Len(lines) : lines[i] = Complete + i
        /\ \A n \in 1 .. Complete : rows[n] = Full(stations[radio][n])
    BY <1>2, <2>1 DEF RowsInv, Counted, Lists
  <2>5. QED
    BY <1>3, <1>6, <2>2, <2>3, <2>4
<1>10. QED
  BY <1>7, <1>8, <1>9

\* A value is put into the last row, which keeps its device.
LEMMA ValueInRow ==
    ASSUME rows \in Seq(RowOf), rows # <<>>, RowValues, NEW r \in RowOf,
           r.device = rows[Len(rows)].device, RowTrue(r),
           rows' = [rows EXCEPT ![Len(rows)] = r]
    PROVE  /\ Len(rows) \in Nat \ {0} /\ Len(rows') = Len(rows)
           /\ \A n \in 1 .. Len(rows) - 1 : rows'[n] = rows[n]
           /\ rows'[Len(rows)] = r
           /\ Listed' = Listed /\ RowValues'
<1>1. /\ Len(rows) \in Nat \ {0} /\ Len(rows') = Len(rows) /\ DOMAIN rows = 1 .. Len(rows)
      /\ DOMAIN rows' = 1 .. Len(rows) /\ rows'[Len(rows)] = r
      /\ \A n \in 1 .. Len(rows) : n # Len(rows) => rows'[n] = rows[n]
      /\ \A n \in 1 .. Len(rows) - 1 : n \in 1 .. Len(rows) /\ n # Len(rows)
  OBVIOUS
<1>2. \A n \in 1 .. Len(rows) : rows'[n].device = rows[n].device /\ RowTrue(rows'[n])
  BY <1>1 DEF RowValues
<1>3. Listed' = Listed
  <2>1. Listed = {rows[n].device : n \in 1 .. Len(rows)}
        /\ Listed' = {rows'[n].device : n \in 1 .. Len(rows)}
    BY <1>1 DEF Listed
  <2>2. QED
    BY <1>2, <2>1
<1>4. RowValues'
  BY <1>1, <1>2 DEF RowValues
<1>5. QED
  BY <1>1, <1>3, <1>4

\* The last row gets its own values.
LEMMA ValueRows ==
    ASSUME RowsInv, DiagnosticSignal \/ DiagnosticCounters
    PROVE  RowValues' /\ Heard' /\ Counted'
<1> DEFINE old == rows[Len(rows)]
<1>1. /\ call = "diagnostic" /\ rows \in Seq(RowOf) /\ pc \in {"signal", "counters"}
      /\ lines \in Seq(Nat) /\ lines # <<>> /\ stations[radio] \in Seq(Device)
  BY DEF DiagnosticSignal, DiagnosticCounters, RowsInv, ReadersTypeOK, WorldType, ReaderType
<1>2. rows # <<>>
  BY <1>1 DEF RowsInv, ReadersTypeOK, ReaderType
<1>3. old \in RowOf /\ RowTrue(old) /\ Last(rows) = old
  BY <1>1, <1>2 DEF RowsInv, RowValues, Last
<1>4. PICK r : r = IF pc = "signal" THEN [old EXCEPT !.signal = Signal(old.device)]
                                   ELSE [old EXCEPT !.counters = Counters(old.device)]
  OBVIOUS
<1>5. /\ rows' = [rows EXCEPT ![Len(rows)] = r]
      /\ UNCHANGED <<world, call, radio, changed>>
      /\ pc = "signal"   => pc' = "counters" /\ lines' = lines
      /\ pc = "counters" => pc' \in {"idle", "append"} /\ lines' = Tail(lines)
  BY <1>3, <1>4 DEF DiagnosticSignal, DiagnosticCounters, Continue
<1>6. r \in RowOf /\ r.device = old.device /\ RowTrue(r)
  <2>1. Signal(old.device) \in AddressOrNone /\ Counters(old.device) \in AddressOrNone
    BY <1>3, AddressOf DEF RowsInv, RowOf
  <2>2. old.device # None => /\ Signal(old.device) \in {old.device, None}
                             /\ Counters(old.device) \in {old.device, None}
    BY ValuesOf
  <2>3. QED
    BY <1>3, <1>4, <2>1, <2>2 DEF RowOf, RowTrue
<1>7. /\ Len(rows) \in Nat \ {0} /\ Len(rows') = Len(rows)
      /\ \A n \in 1 .. Len(rows) - 1 : rows'[n] = rows[n]
      /\ rows'[Len(rows)] = r
      /\ Listed' = Listed /\ RowValues'
  BY <1>1, <1>2, <1>5, <1>6, ValueInRow DEF RowsInv
<1>8. Heard'
  BY <1>5, <1>7 DEF RowsInv, Heard, Lists, world
<1>9. Counted'
  <2>1. SUFFICES ASSUME changed = {}
                 PROVE  Counted'
    BY <1>5 DEF Counted
  <2>2. PICK d : d = stations[radio][Len(rows)]
    OBVIOUS
  <2>3. /\ Complete = Len(rows) - 1
        /\ Complete + Len(lines) = Len(stations[radio])
        /\ \A i \in 1 .. Len(lines) : lines[i] = Complete + i
        /\ \A n \in 1 .. Complete : rows[n] = Full(stations[radio][n])
        /\ old.device = d /\ pc = "counters" => old.signal = d
    BY <1>1, <2>1, <2>2 DEF RowsInv, Counted, Complete, Lists
  <2>4. old.device = d
    BY <1>1, <2>1, <2>2 DEF RowsInv, Counted, Complete, Lists
  <2>5. Len(rows) \in DOMAIN stations[radio] /\ d \in Device /\ d \in ToSet(stations[radio])
    <3>1. Len(lines) \in Nat \ {0}
      BY <1>1
    <3>2. Len(rows) \in 1 .. Len(stations[radio])
      BY <1>1, <1>7, <2>3, <3>1
    <3>3. QED
      BY <1>1, <2>2, <3>2 DEF ToSet
  <2>6. d # None /\ Counters(d) = d /\ Signal(d) = d
    BY <2>5, ClientsAssumption DEF Counters, Signal
  <2>7. CASE pc = "signal"
    <3>1. r.signal = d /\ Complete' = Complete
      BY <1>3, <1>4, <1>5, <1>7, <2>3, <2>4, <2>6, <2>7 DEF RowOf, Complete
    <3>2. /\ Complete' + Len(lines') = Len(stations'[radio'])
          /\ \A i \in 1 .. Len(lines') : lines'[i] = Complete' + i
      BY <1>5, <2>3, <2>7, <3>1 DEF world
    <3>3. \A n \in 1 .. Complete' : rows'[n] = Full(stations[radio][n])
      BY <1>7, <2>3, <3>1
    <3>4. Full(stations[radio][1])' = Full(stations[radio][1])
          /\ \A n : Full(stations[radio][n])' = Full(stations[radio][n])
      BY <1>5 DEF Full, Row, world
    <3>5. QED
      BY <1>5, <1>6, <1>7, <2>2, <2>4, <2>7, <3>1, <3>2, <3>3, <3>4 DEF Counted, world
  <2>8. CASE pc = "counters"
    <3>1. Complete' = Len(rows)
      BY <1>5, <1>7, <2>8 DEF Complete
    <3>2. r = Full(d)
      BY <1>1, <1>3, <1>4, <2>3, <2>4, <2>6, <2>8 DEF RowOf, Full
    <3>3. \A n \in 1 .. Len(rows) : rows'[n] = Full(stations[radio][n])
      <4>1. \A n \in 1 .. Len(rows) : n \in 1 .. Len(rows) - 1 \/ n = Len(rows)
        BY <1>7
      <4>2. QED
        BY <1>7, <2>2, <2>3, <3>2, <4>1
    <3>4. \A n : Full(stations[radio][n])' = Full(stations[radio][n])
      BY <1>5 DEF Full, Row, world
    <3>5. /\ Len(Tail(lines)) = Len(lines) - 1 /\ Len(lines) \in Nat
          /\ \A i \in 1 .. Len(lines) - 1 : Tail(lines)[i] = lines[i + 1]
      BY <1>1, TakeHead
    <3>6. /\ Complete' + Len(lines') = Len(stations'[radio'])
          /\ \A i \in 1 .. Len(lines') : lines'[i] = Complete' + i
      <4>1. /\ Len(lines') = Len(lines) - 1 /\ Complete' = Complete + 1 /\ Complete \in Nat
            /\ stations'[radio'] = stations[radio]
        <5>1. lines' = Tail(lines) /\ stations'[radio'] = stations[radio]
          BY <1>5, <2>8 DEF world
        <5>2. Complete = Len(rows) - 1 /\ Complete' = Len(rows) /\ Len(rows) \in Nat \ {0}
          BY <1>7, <2>3, <3>1
        <5>3. Complete' = Complete + 1 /\ Complete \in Nat
          BY <5>2
        <5>4. QED
          BY <3>5, <5>1, <5>3
      <4>2. Complete' + Len(lines') = Len(stations'[radio'])
        <5>1. Complete + Len(lines) = Len(stations[radio]) /\ Len(lines) \in Nat
          BY <2>3, <3>5
        <5>2. QED
          BY <4>1, <5>1
      <4>3. \A i \in 1 .. Len(lines) - 1 : i + 1 \in 1 .. Len(lines)
        BY <3>5
      <4>4. ASSUME NEW i \in 1 .. Len(lines) - 1
            PROVE  lines'[i] = Complete' + i
        <5>1. lines'[i] = Complete + (i + 1)
          BY <1>5, <2>3, <2>8, <3>5, <4>3
        <5>2. QED
          BY <4>1, <5>1
      <4>5. QED
        BY <4>1, <4>2, <4>4
    <3>7. QED
      BY <1>5, <2>8, <3>1, <3>3, <3>4, <3>6 DEF Counted, world
  <2>9. QED
    BY <1>1, <2>7, <2>8
<1>10. QED
  BY <1>7, <1>8, <1>9

\* The reader of inactive devices adds true rows.
LEMMA InactiveRows ==
    ASSUME RowsInv, InactivePing \/ InactiveSignal
    PROVE  RowValues' /\ Heard' /\ Counted'
<1>1. call = "inactive" /\ call' = call /\ rows \in Seq(RowOf) /\ Head(lines) \in Device
  <2>1. ReaderType /\ pc \in {"inactive", "strength"}
    BY DEF RowsInv, ReadersTypeOK, InactivePing, InactiveSignal
  <2>2. QED
    BY <2>1, TailOfLines DEF InactivePing, InactiveSignal, Continue, Finish, ReaderType
<1>2. Heard' /\ Counted'
  BY <1>1, OthersList DEF Lists
<1>3. CASE rows' = rows
  BY <1>2, <1>3 DEF RowsInv, RowValues
<1>4. ASSUME NEW r \in {Row(Head(lines)), Row(None),
                        [Row(Head(lines)) EXCEPT !.signal = Counters(Head(lines))]},
             rows' = rows \o <<r>>
      PROVE  RowValues'
  <2>1. Counters(Head(lines)) \in {Head(lines), None} /\ Head(lines) # None
    BY <1>1, ClientsAssumption DEF Counters
  <2>2. r \in RowOf /\ RowTrue(r)
    BY <1>1, <2>1 DEF Row, RowOf, RowTrue, AddressOrNone
  <2>3. QED
    BY <1>1, <1>4, <2>2, OneRowTrue DEF RowsInv
<1>5. QED
  BY <1>2, <1>3, <1>4 DEF InactivePing, InactiveSignal, Finish

\* So does the steering.
LEMMA SwitchRows ==
    ASSUME RowsInv, SwitchLevel \/ SwitchKick
    PROVE  RowValues' /\ Heard' /\ Counted'
<1>1. call = "switch" /\ call' = call /\ rows \in Seq(RowOf) /\ Head(lines) \in Device
  <2>1. ReaderType /\ pc \in {"level", "kick"}
    BY DEF RowsInv, ReadersTypeOK, SwitchLevel, SwitchKick
  <2>2. QED
    BY <2>1, TailOfLines DEF SwitchLevel, SwitchKick, Continue, Finish, ReaderType
<1>2. Heard' /\ Counted'
  BY <1>1, OthersList DEF Lists
<1>3. CASE rows' = rows \o <<>> \/ rows' = rows
  <2>1. rows' = rows
    BY <1>1, <1>3
  <2>2. QED
    BY <1>2, <2>1 DEF RowsInv, RowValues
<1>4. CASE rows' = Append(rows, Row(Head(lines)))
  <2>1. Row(Head(lines)) \in RowOf /\ RowTrue(Row(Head(lines)))
    BY <1>1 DEF Row, RowOf, RowTrue, AddressOrNone
  <2>2. QED
    BY <1>1, <1>2, <1>4, <2>1, OneRowTrue DEF RowsInv
<1>5. QED
  BY <1>2, <1>3, <1>4 DEF SwitchLevel, SwitchKick, Continue, Finish

\* So does the reader of wired devices.
LEMMA EthernetRows ==
    ASSUME RowsInv, EthernetRadio0 \/ EthernetDiff \/ EthernetNeighbour \/ EthernetPing
    PROVE  RowValues' /\ Heard' /\ Counted'
<1>1. call = "ethernet" /\ call' = call /\ rows \in Seq(RowOf)
  <2>1. ReaderType /\ pc \in {"radio 0", "radio 1", "neighbour", "ping"}
    BY DEF RowsInv, ReadersTypeOK, EthernetRadio0, EthernetDiff, EthernetNeighbour, EthernetPing
  <2>2. call' = call
    BY DEF EthernetRadio0, EthernetDiff, EthernetNeighbour, EthernetPing, Continue, Finish
  <2>3. QED
    BY <2>1, <2>2 DEF ReaderType
<1>2. Heard' /\ Counted'
  BY <1>1, OthersList DEF Lists
<1>3. CASE rows' = rows \o <<>> \/ rows' = rows
  <2>1. rows' = rows
    BY <1>1, <1>3
  <2>2. QED
    BY <1>2, <2>1 DEF RowsInv, RowValues
<1>4. CASE rows' = rows \o <<Row(Head(lines))>> /\ pc \in {"neighbour", "ping"}
  <2>1. Head(lines) \in Device
    BY <1>1, <1>4, TailOfLines DEF RowsInv, ReadersTypeOK, ReaderType
  <2>2. Row(Head(lines)) \in RowOf /\ RowTrue(Row(Head(lines)))
    BY <2>1 DEF Row, RowOf, RowTrue, AddressOrNone
  <2>3. QED
    BY <1>1, <1>2, <1>4, <2>2, OneRowTrue DEF RowsInv
<1>5. CASE EthernetRadio0 \/ EthernetDiff
  BY <1>2, <1>3, <1>5 DEF EthernetRadio0, EthernetDiff
<1>6. CASE EthernetNeighbour \/ EthernetPing
  BY <1>2, <1>3, <1>4, <1>6 DEF EthernetNeighbour, EthernetPing, Continue, Finish
<1>7. QED
  BY <1>5, <1>6

\* A call begins without rows.
LEMMA StartsRows ==
    ASSUME RowsInv,
           \/ \E r \in Radio : \/ DiagnosticCount(r) \/ ListCount(r)
                               \/ InactiveCount(r) \/ SwitchStart(r)
           \/ EthernetStart
    PROVE  RowValues' /\ Heard' /\ Counted'
<1>1. ReadersTypeOK
  BY DEF RowsInv
<1>2. ASSUME NEW r \in Radio, DiagnosticCount(r)
      PROVE  RowValues' /\ Heard' /\ Counted'
  <2>1. Start("diagnostic", "append", r, Numbers(Len(stations[r])))
    BY <1>2 DEF DiagnosticCount
  <2>2. "append" \notin {"signal", "counters"}
    OBVIOUS
  <2>3. QED
    BY <1>1, <2>1, <2>2, StartRows, StartCounts, Zenon
<1>3. ASSUME NEW r \in Radio, ListCount(r)
      PROVE  RowValues' /\ Heard' /\ Counted'
  <2>1. Start("list", "list", r, Numbers(Len(stations[r])))
    BY <1>3 DEF ListCount
  <2>2. "list" \notin {"signal", "counters"}
    OBVIOUS
  <2>3. QED
    BY <1>1, <2>1, <2>2, StartRows, StartCounts, Zenon
<1>4. ASSUME NEW r \in Radio, InactiveCount(r) \/ SwitchStart(r) \/ EthernetStart
      PROVE  RowValues' /\ Heard' /\ Counted'
  <2>1. ~Lists' /\ rows' = <<>>
    BY <1>4 DEF InactiveCount, SwitchStart, EthernetStart, Start, Lists
  <2>2. QED
    BY <2>1, OthersList DEF RowValues
<1>5. 0 \in Radio
  BY DEF Radio
<1>6. QED
  BY <1>2, <1>3, <1>4, <1>5

\* One step for each command, and for the devices.
LEMMA RowsInvariant == ASSUME RowsInv, [Next]_vars PROVE RowsInv'
<1>1. CASE World
  BY <1>1, WorldRows
<1>2. ReadersTypeOK'
  BY TypesInvariant DEF RowsInv
<1>3. CASE UNCHANGED vars
  <2>1. UNCHANGED <<stations, changed, call, radio, lines, rows, pc>>
    BY <1>3 DEF vars, world, reader
  <2>2. QED
    BY <1>2, <2>1 DEF RowsInv, RowValues, Heard, Counted, Lists, Listed, Complete, Full, Row
<1>4. CASE WifiReader \/ SwitchBand \/ EthernetReader
  <2>1. RowValues' /\ Heard' /\ Counted'
    BY <1>4, StartsRows, AppendRows, AddressRows, ValueRows, ListLineRows, InactiveRows, SwitchRows,
       EthernetRows, Zenon DEF WifiReader, SwitchBand, EthernetReader
  <2>2. QED
    BY <1>2, <2>1 DEF RowsInv
<1>5. QED
  BY <1>1, <1>3, <1>4 DEF Next

\* No reader has been called initially.
LEMMA RowsInit == ASSUME Init PROVE RowsInv
<1>1. ReadersTypeOK
  BY InitTypes
<1>2. rows = <<>> /\ call = "none"
  BY DEF Init
<1>3. QED
  BY <1>1, <1>2 DEF RowsInv, RowValues, Heard, Counted, Lists

\* When no line is left, the rows are those of the stations.
LEMMA RowsInvTrue == ASSUME RowsInv PROVE RowsTrue
<1>1. \A n \in DOMAIN rows :
         rows[n].device # None => {rows[n].signal, rows[n].counters} \subseteq {None, rows[n].device}
  BY DEF RowsInv, RowValues, RowTrue
<1>2. Lists => Listed \subseteq ToSet(stations[radio]) \cup changed \cup {None}
  BY DEF RowsInv, Heard
<1>3. ASSUME Lists, pc = "idle", changed = {}
      PROVE  rows = [n \in DOMAIN stations[radio] |-> Full(stations[radio][n])]
  <2>1. /\ rows \in Seq(RowOf) /\ lines = <<>> /\ stations[radio] \in Seq(Device)
    BY <1>3 DEF RowsInv, ReadersTypeOK, WorldType, ReaderType
  <2>2. /\ Complete = Len(rows) /\ Complete + Len(lines) = Len(stations[radio])
        /\ \A n \in 1 .. Complete : rows[n] = Full(stations[radio][n])
    BY <1>3 DEF RowsInv, Counted, Complete
  <2>3. DOMAIN rows = 1 .. Len(rows) /\ DOMAIN rows = DOMAIN stations[radio]
    BY <2>1, <2>2
  <2>4. QED
    BY <2>1, <2>2, <2>3
<1>4. QED
  BY <1>1, <1>2, <1>3 DEF RowsTrue, Lists, Full

\* Type correctness of the stations, the commands and the rows: every address is that of a
\* device, or none.
THEOREM ReadersTypes == Spec => []ReadersTypeOK
<1>1. Init => ReadersTypeOK
  BY InitTypes
<1>2. ReadersTypeOK /\ [Next]_vars => ReadersTypeOK'
  BY TypesInvariant
<1>3. QED
  BY <1>1, <1>2, PTL DEF Spec

\* RowsTrue of every reader, for any number of devices that come and go meanwhile.
THEOREM RowsAreTrue == Spec => []RowsTrue
<1>1. Init => RowsInv
  BY RowsInit
<1>2. RowsInv /\ [Next]_vars => RowsInv'
  BY RowsInvariant
<1>3. RowsInv => RowsTrue
  BY RowsInvTrue
<1>4. QED
  BY <1>1, <1>2, <1>3, PTL DEF Spec

-----------------------------------------------------------------------------
(***************************************************************************)
(* Steering by wifi_switchBand.                                            *)
(***************************************************************************)

\* What is true of a device that has not changed since the call.
SteeredOne(d) ==
    /\ d \in Listed => d \notin Associated /\ (d \in weak <=> radio = 1)
    /\ d \notin Listed /\ d \in ToSet(stations[radio]) /\ d \in met /\ d \notin ToSet(lines)
          => (d \in weak <=> radio = 0)
    /\ d \in ToSet(lines) => d \in ToSet(stations[radio]) \cup Listed
    /\ pc = "kick" /\ d = Head(lines) => Moves(d)

Steered == call = "switch" => \A d \in Device \ changed : SteeredOne(d)

SteerInv == ReadersTypeOK /\ Steered

\* A reader that is not wifi_switchBand does not go on as if it were.
LEMMA NotSwitch ==
    ASSUME ReadersTypeOK, WifiReader \/ EthernetReader
    PROVE  call' # "switch"
<1>1. CASE call' = call
  <2>1. pc # "idle" => call # "switch"
    <3>1. pc \notin {"level", "kick"}
      BY <1>1 DEF WifiReader, EthernetReader, DiagnosticCount, ListCount, InactiveCount,
         DiagnosticAppend, DiagnosticAddress, DiagnosticSignal, DiagnosticCounters, ListLine,
         InactivePing, InactiveSignal, EthernetStart, EthernetRadio0, EthernetDiff,
         EthernetNeighbour, EthernetPing, Start
    <3>2. QED
      BY <3>1 DEF ReadersTypeOK, ReaderType
  <2>2. pc = "idle" => call' \in {"diagnostic", "list", "inactive", "ethernet"}
    BY DEF WifiReader, EthernetReader, DiagnosticCount, ListCount, InactiveCount,
       DiagnosticAppend, DiagnosticAddress, DiagnosticSignal, DiagnosticCounters, ListLine,
       InactivePing, InactiveSignal, EthernetStart, EthernetRadio0, EthernetDiff,
       EthernetNeighbour, EthernetPing, Start
  <2>3. QED
    BY <1>1, <2>1, <2>2
<1>2. CASE call' # call
  BY <1>2 DEF WifiReader, EthernetReader, DiagnosticCount, ListCount, InactiveCount,
     DiagnosticAppend, DiagnosticAddress, DiagnosticSignal, DiagnosticCounters, ListLine,
     InactivePing, InactiveSignal, EthernetStart, EthernetRadio0, EthernetDiff,
     EthernetNeighbour, EthernetPing, Start, Continue, Finish
<1>3. QED
  BY <1>1, <1>2

\* A device that nothing happens to stays as it is while others change.
LEMMA SteeredSame ==
    ASSUME WorldType, radio \in Radio, NEW d \in Device, NEW e \in Device \ {d}, Others(d),
           UNCHANGED reader, SteeredOne(e)
    PROVE  SteeredOne(e)'
<1>1. /\ \A r \in Radio : e \in ToSet(stations'[r]) <=> e \in ToSet(stations[r])
      /\ e \in weak' <=> e \in weak
      /\ e \in met' <=> e \in met
  BY DEF Others
<1>2. e \in Associated' <=> e \in Associated
  BY <1>1 DEF Associated, Radio
<1>3. pc' = pc /\ radio' = radio /\ lines' = lines /\ rows' = rows
  BY DEF reader
<1>4. Listed' = Listed
  BY <1>3 DEF Listed
<1>5. Moves(e)' <=> Moves(e)
  BY <1>1, <1>3 DEF Moves, Counters, Radio
<1>6. QED
  BY <1>1, <1>2, <1>3, <1>4, <1>5 DEF SteeredOne

\* What happens to one device is not counted against the others.
LEMMA WorldSteers == ASSUME SteerInv, World PROVE Steered'
<1>1. PICK d \in Device : /\ Others(d)
                          /\ changed' = IF call = "none" THEN {} ELSE changed \cup {d}
                          /\ UNCHANGED <<known, reader>>
  BY WorldDoes DEF SteerInv
<1>2. SUFFICES ASSUME call = "switch", NEW e \in Device \ changed'
               PROVE  SteeredOne(e)'
  BY <1>1 DEF Steered, reader
<1>3. e \in Device \ {d} /\ e \in Device \ changed
  BY <1>1, <1>2
<1>4. SteeredOne(e)
  BY <1>2, <1>3 DEF SteerInv, Steered
<1>5. WorldType /\ radio \in Radio /\ UNCHANGED reader
  BY <1>1 DEF SteerInv, ReadersTypeOK, ReaderType
<1>6. QED
  BY <1>1, <1>3, <1>4, <1>5, SteeredSame

\* Every station is still to be handled.
LEMMA StartSteers == ASSUME ReadersTypeOK, NEW r \in Radio, SwitchStart(r) PROVE Steered'
<1>1. ToSet(stations[r]) \in SUBSET Device
  BY DEF ReadersTypeOK, WorldType, ToSet
<1>2. ToSet(SetToSeq(ToSet(stations[r]))) = ToSet(stations[r])
  BY <1>1, ClientsAssumption, FS_Subset, SequenceOfSet
<1>3. /\ ToSet(lines') = ToSet(stations[r]) /\ rows' = <<>> /\ radio' = r
      /\ UNCHANGED world /\ pc' # "kick"
  BY <1>2 DEF SwitchStart, Start
<1>4. Listed' = {}
  BY <1>3 DEF Listed
<1>5. ASSUME NEW d \in Device
      PROVE  SteeredOne(d)'
  BY <1>3, <1>4 DEF SteeredOne, world
<1>6. QED
  BY <1>5 DEF Steered

\* A device that is not moved is out of the lines for a reason that is still true.
LEMMA LevelSteers == ASSUME SteerInv, SwitchLevel PROVE Steered'
<1>1. /\ call = "switch" /\ pc = "level" /\ radio \in Radio /\ rows \in Seq(RowOf)
      /\ ToSet(lines) = {Head(lines)} \cup ToSet(Tail(lines))
  <2>1. ReaderType /\ pc = "level"
    BY DEF SteerInv, ReadersTypeOK, SwitchLevel
  <2>2. QED
    BY <2>1, TailOfLines DEF ReaderType
<1>2. UNCHANGED <<world, call, radio, changed>>
  BY DEF SwitchLevel, Continue, Finish
<1>3. \A d \in Device \ changed : SteeredOne(d)
  BY <1>1 DEF SteerInv, Steered
<1>4. Associated' = Associated /\ \A d : Moves(d)' = Moves(d)
  BY <1>2 DEF world, Associated, Moves, Counters
<1>5. CASE Moves(Head(lines))
  <2>1. UNCHANGED <<lines, rows>> /\ pc' = "kick"
    BY <1>5 DEF SwitchLevel, Continue
  <2>2. Listed' = Listed
    BY <2>1 DEF Listed
  <2>3. ASSUME NEW d \in Device \ changed
        PROVE  SteeredOne(d)'
    <3>1. SteeredOne(d)
      BY <1>3
    <3>2. d = Head(lines) => Moves(d)'
      BY <1>4, <1>5
    <3>3. QED
      BY <1>2, <1>4, <2>1, <2>2, <3>1, <3>2 DEF SteeredOne, world
  <2>4. QED
    BY <1>2, <2>3 DEF Steered
<1>6. CASE ~Moves(Head(lines))
  <2>1. lines' = Tail(lines) /\ rows' = rows \o <<>> /\ pc' # "kick"
    BY <1>6 DEF SwitchLevel, Finish
  <2>2. Listed' = Listed
    <3>1. rows' = rows
      BY <1>1, <2>1
    <3>2. QED
      BY <3>1 DEF Listed
  <2>3. ASSUME NEW d \in Device \ changed
        PROVE  SteeredOne(d)'
    <3>1. SteeredOne(d)
      BY <1>3
    <3>2. CASE d # Head(lines)
      BY <1>1, <1>2, <1>4, <2>1, <2>2, <3>1, <3>2 DEF SteeredOne, world
    <3>3. CASE d = Head(lines)
      <4>1. ~Moves(d)
        BY <1>6, <3>3
      <4>2. d \in ToSet(stations[radio]) /\ d \in met => (d \in weak <=> radio = 0)
        BY <1>1, <4>1 DEF Moves, Counters, Radio
      <4>3. QED
        BY <1>1, <1>2, <1>4, <2>1, <2>2, <3>1, <4>2 DEF SteeredOne, world
    <3>4. QED
      BY <3>2, <3>3
  <2>4. QED
    BY <1>2, <2>3 DEF Steered
<1>7. QED
  BY <1>5, <1>6

\* A device that is moved leaves the air for a reason that is still true.
LEMMA KickSteers == ASSUME SteerInv, SwitchKick PROVE Steered'
<1> DEFINE h == Head(lines)
<1>1. /\ call = "switch" /\ radio \in Radio /\ rows \in Seq(RowOf) /\ WorldType
      /\ h \in Device /\ ToSet(lines) = {h} \cup ToSet(Tail(lines))
  <2>1. ReaderType /\ WorldType /\ pc = "kick"
    BY DEF SteerInv, ReadersTypeOK, SwitchKick
  <2>2. QED
    BY <2>1, TailOfLines DEF ReaderType
<1>2. /\ stations' = IF Counters(h) = h THEN Without(h) ELSE stations
      /\ rows' = Append(rows, Row(h)) /\ lines' = Tail(lines) /\ pc' # "kick" /\ pc = "kick"
      /\ UNCHANGED <<weak, met, call, radio, changed>>
  BY DEF SwitchKick
<1>3. Listed' = Listed \cup {h}
  <2>1. PICK row : row = Row(h)
    OBVIOUS
  <2>2. row \in RowOf /\ row.device = h
    BY <1>1, <2>1 DEF Row, RowOf, AddressOrNone
  <2>3. rows' = Append(rows, row)
    BY <1>2, <2>1
  <2>4. QED
    BY <1>1, <2>2, <2>3, OneRow
<1>4. \A r \in Radio : ToSet(Without(h)[r]) = ToSet(stations[r]) \ {h}
  BY <1>1, WithoutOne
<1>5. \A d \in Device \ {h} : \A r \in Radio :
         d \in ToSet(stations'[r]) <=> d \in ToSet(stations[r])
  BY <1>2, <1>4
<1>6. ASSUME NEW d \in Device \ changed
      PROVE  SteeredOne(d)'
  <2>1. SteeredOne(d)
    BY <1>1 DEF SteerInv, Steered
  <2>2. CASE d # h
    <3>1. d \in Associated' <=> d \in Associated
      BY <1>5, <2>2 DEF Associated, Radio
    <3>2. d \in ToSet(stations'[radio]) <=> d \in ToSet(stations[radio])
      BY <1>1, <1>5, <2>2
    <3>3. QED
      BY <1>1, <1>2, <1>3, <2>1, <2>2, <3>1, <3>2 DEF SteeredOne
  <2>3. CASE d = h
    <3>1. Moves(d) /\ d \in ToSet(stations[radio]) \cup Listed
      BY <1>1, <1>2, <2>1, <2>3 DEF SteeredOne
    <3>2. ASSUME d \in ToSet(stations[radio])
          PROVE  d \notin Associated' /\ (d \in weak <=> radio = 1)
      <4>1. Counters(h) = h
        BY <2>3, <3>2 DEF Counters
      <4>2. \A r \in Radio : d \notin ToSet(stations'[r])
        BY <1>2, <1>4, <2>3, <4>1
      <4>3. d \notin Associated'
        BY <4>2 DEF Associated, Radio
      <4>4. d \in weak <=> radio = 1
        BY <1>1, <2>3, <3>1, <4>1 DEF Moves, Radio
      <4>5. QED
        BY <4>3, <4>4
    <3>3. ASSUME d \in Listed, d \notin ToSet(stations[radio])
          PROVE  d \notin Associated' /\ (d \in weak <=> radio = 1)
      <4>1. d \notin Associated /\ (d \in weak <=> radio = 1)
        BY <2>1, <3>3 DEF SteeredOne
      <4>2. \A r \in Radio : d \notin ToSet(stations'[r])
        BY <1>2, <1>4, <2>3, <4>1 DEF Associated, Radio
      <4>3. QED
        BY <4>1, <4>2 DEF Associated, Radio
    <3>4. d \notin Associated' /\ (d \in weak' <=> radio' = 1)
      BY <1>2, <3>1, <3>2, <3>3
    <3>5. QED
      BY <1>2, <1>3, <2>3, <3>4 DEF SteeredOne
  <2>4. QED
    BY <2>2, <2>3
<1>7. QED
  BY <1>2, <1>6 DEF Steered

\* One step for each command, and for the devices.
LEMMA SteerInvariant == ASSUME SteerInv, [Next]_vars PROVE SteerInv'
<1>1. ReadersTypeOK'
  BY TypesInvariant DEF SteerInv
<1>2. CASE UNCHANGED vars
  <2>1. UNCHANGED <<stations, weak, met, changed, call, pc, radio, lines, rows>>
    BY <1>2 DEF vars, world, reader
  <2>2. Steered'
    BY <2>1 DEF SteerInv, Steered, SteeredOne, Listed, Associated, Moves, Counters
  <2>3. QED
    BY <1>1, <2>2 DEF SteerInv
<1>3. CASE WifiReader \/ EthernetReader
  BY <1>1, <1>3, NotSwitch DEF SteerInv, Steered
<1>4. CASE World
  BY <1>1, <1>4, WorldSteers DEF SteerInv
<1>5. CASE SwitchBand
  BY <1>1, <1>5, StartSteers, LevelSteers, KickSteers DEF SteerInv, SwitchBand
<1>6. QED
  BY <1>2, <1>3, <1>4, <1>5 DEF Next

\* wifi_switchBand moves a device that stays as it is by its own signal, and no other.
THEOREM SteeredBySignal == Spec => []MovedBySignal
<1>1. Init => SteerInv
  <2>1. Init => call = "none"
    BY DEF Init
  <2>2. QED
    BY <2>1, InitTypes DEF SteerInv, Steered
<1>2. SteerInv /\ [Next]_vars => SteerInv'
  BY SteerInvariant
<1>3. SteerInv => MovedBySignal
  <2>1. SteerInv /\ pc = "idle" => ToSet(lines) = {}
    BY DEF SteerInv, ReadersTypeOK, ReaderType, ToSet
  <2>2. QED
    BY <2>1 DEF SteerInv, Steered, SteeredOne, MovedBySignal
<1>4. QED
  BY <1>1, <1>2, <1>3, PTL DEF Spec

-----------------------------------------------------------------------------
(***************************************************************************)
(* Wired devices.                                                          *)
(***************************************************************************)

\* What is true of a device with a lease that has neither changed nor associated.
WiredOne(d) ==
    d \notin ToSet(lines) =>
        (d \in Listed <=> arp[d] = "REACHABLE" \/ (arp[d] = "STALE" /\ d \in answers))

\* The lines are leases that are not in a row, each once, and no row has another's device.
Asked ==
    /\ IsInjective(lines) /\ ToSet(lines) \subseteq ToSet(Leases) \ Listed
    /\ Listed \subseteq ToSet(Leases)
    /\ \A m, n \in DOMAIN rows : rows[m].device = rows[n].device => m = n
    /\ \A d \in ToSet(Leases) \ (changed \cup Associated) : WiredOne(d)
    /\ pc = "ping" /\ Head(lines) \notin changed => arp[Head(lines)] = "STALE"

Wired ==
    call = "ethernet" =>
        IF pc \in {"radio 0", "radio 1"}
        THEN rows = <<>> /\ (pc = "radio 1" => ToSet(lines) \subseteq changed \cup Associated)
        ELSE Asked

WiredInv == ReadersTypeOK /\ Wired

\* The rest of a list without repetitions has none, nor the first element.
LEMMA TailOnce ==
    ASSUME NEW S, NEW s \in Seq(S), s # <<>>, IsInjective(s)
    PROVE  IsInjective(Tail(s)) /\ Head(s) \notin ToSet(Tail(s))
<1>1. /\ Len(s) \in Nat \ {0} /\ DOMAIN s = 1 .. Len(s) /\ Head(s) = s[1]
      /\ DOMAIN Tail(s) = 1 .. Len(s) - 1
      /\ \A i \in 1 .. Len(s) - 1 : Tail(s)[i] = s[i + 1] /\ i + 1 \in DOMAIN s /\ i + 1 # 1
      /\ 1 \in DOMAIN s
  OBVIOUS
<1>2. \A i, j \in DOMAIN s : s[i] = s[j] => i = j
  BY DEF IsInjective
<1>3. ASSUME NEW i \in 1 .. Len(s) - 1, NEW j \in 1 .. Len(s) - 1, Tail(s)[i] = Tail(s)[j]
      PROVE  i = j
  <2>1. i + 1 = j + 1
    BY <1>1, <1>2, <1>3
  <2>2. QED
    BY <1>1, <2>1
<1>4. IsInjective(Tail(s))
  BY <1>1, <1>3 DEF IsInjective
<1>5. \A i \in 1 .. Len(s) - 1 : Tail(s)[i] # Head(s)
  BY <1>1, <1>2
<1>6. Head(s) \notin ToSet(Tail(s))
  BY <1>1, <1>5 DEF ToSet
<1>7. QED
  BY <1>4, <1>6

\* A reader of stations does not go on as if it read wired devices.
LEMMA NotEthernet ==
    ASSUME ReadersTypeOK, WifiReader \/ SwitchBand
    PROVE  call' # "ethernet"
<1>1. CASE call' = call
  <2>1. pc # "idle" => call # "ethernet"
    <3>1. pc \notin {"radio 0", "radio 1", "neighbour", "ping"}
      BY <1>1 DEF WifiReader, SwitchBand, DiagnosticCount, ListCount, InactiveCount,
         DiagnosticAppend, DiagnosticAddress, DiagnosticSignal, DiagnosticCounters, ListLine,
         InactivePing, InactiveSignal, SwitchStart, SwitchLevel, SwitchKick, Start
    <3>2. QED
      BY <3>1 DEF ReadersTypeOK, ReaderType
  <2>2. pc = "idle" => call' \in {"diagnostic", "list", "inactive", "switch"}
    BY DEF WifiReader, SwitchBand, DiagnosticCount, ListCount, InactiveCount,
       DiagnosticAppend, DiagnosticAddress, DiagnosticSignal, DiagnosticCounters, ListLine,
       InactivePing, InactiveSignal, SwitchStart, SwitchLevel, SwitchKick, Start
  <2>3. QED
    BY <1>1, <2>1, <2>2
<1>2. CASE call' # call
  BY <1>2 DEF WifiReader, SwitchBand, DiagnosticCount, ListCount, InactiveCount,
     DiagnosticAppend, DiagnosticAddress, DiagnosticSignal, DiagnosticCounters, ListLine,
     InactivePing, InactiveSignal, SwitchStart, SwitchLevel, SwitchKick, Start, Continue, Finish
<1>3. QED
  BY <1>1, <1>2

\* What happens to one device is not counted against the others.
LEMMA WorldWires == ASSUME WiredInv, World PROVE Wired'
<1>1. PICK d \in Device : /\ Others(d)
                          /\ changed' = IF call = "none" THEN {} ELSE changed \cup {d}
                          /\ UNCHANGED <<known, reader>>
  BY WorldDoes DEF WiredInv
<1>2. SUFFICES ASSUME call = "ethernet"
               PROVE  Wired'
  BY <1>1 DEF Wired, reader
<1>3. changed' = changed \cup {d} /\ UNCHANGED <<call, pc, lines, rows>>
  BY <1>1, <1>2 DEF reader
<1>4. Listed' = Listed
  BY <1>3 DEF Listed
<1>5. \A e \in Device \ {d} : /\ e \in Associated' <=> e \in Associated
                              /\ arp'[e] = arp[e]
                              /\ e \in answers' <=> e \in answers
  BY <1>1 DEF Others, Associated, Radio
<1>6. ToSet(Leases) \subseteq Device
  BY ClientsAssumption DEF ToSet
<1>7. CASE pc \in {"radio 0", "radio 1"}
  <2>1. pc = "radio 1" => ToSet(lines) \subseteq Device
    <3>1. SUFFICES ASSUME pc = "radio 1"
                   PROVE  ToSet(lines) \subseteq Device
      OBVIOUS
    <3>2. lines \in Seq(Device)
      BY <1>2, <3>1 DEF WiredInv, ReadersTypeOK, ReaderType
    <3>3. QED
      BY <3>2 DEF ToSet
  <2>2. rows = <<>> /\ (pc = "radio 1" => ToSet(lines) \subseteq changed \cup Associated)
    BY <1>2, <1>7 DEF WiredInv, Wired
  <2>3. pc = "radio 1" => ToSet(lines) \subseteq changed' \cup Associated'
    BY <1>3, <1>5, <2>1, <2>2
  <2>4. QED
    BY <1>3, <1>7, <2>2, <2>3 DEF Wired
<1>8. CASE pc \notin {"radio 0", "radio 1"}
  <2>1. Asked
    BY <1>2, <1>8 DEF WiredInv, Wired
  <2>2. ASSUME NEW e \in ToSet(Leases) \ (changed' \cup Associated')
        PROVE  WiredOne(e)'
    <3>1. e \in Device \ {d} /\ e \in ToSet(Leases) \ (changed \cup Associated)
      BY <1>3, <1>5, <1>6
    <3>2. WiredOne(e)
      BY <2>1, <3>1 DEF Asked
    <3>3. QED
      BY <1>3, <1>4, <1>5, <3>1, <3>2 DEF WiredOne
  <2>3. pc = "ping" /\ Head(lines) \notin changed' => arp'[Head(lines)] = "STALE"
    <3>1. pc = "ping" => Head(lines) \in Device
      BY <1>2, TailOfLines DEF WiredInv, ReadersTypeOK, ReaderType
    <3>2. QED
      BY <1>3, <1>5, <2>1, <3>1 DEF Asked
  <2>4. Asked'
    BY <1>3, <1>4, <2>1, <2>2, <2>3 DEF Asked
  <2>5. QED
    BY <1>3, <1>8, <2>4 DEF Wired
<1>9. QED
  BY <1>7, <1>8

\* The stations of the first radio are associated, or change later.
LEMMA BeginWires ==
    ASSUME WiredInv, EthernetStart \/ EthernetRadio0
    PROVE  Wired'
<1>1. CASE EthernetStart
  <2>1. <<None>> # <<>>
    OBVIOUS
  <2>2. QED
    BY <1>1, <2>1 DEF EthernetStart, Start, Wired
<1>2. CASE EthernetRadio0
  <2>1. call = "ethernet"
    BY <1>2 DEF WiredInv, ReadersTypeOK, ReaderType, EthernetRadio0
  <2>2. rows = <<>>
    BY <1>2, <2>1 DEF WiredInv, Wired, EthernetRadio0
  <2>3. ToSet(lines') \subseteq Associated'
    BY <1>2 DEF EthernetRadio0, Associated, world
  <2>4. QED
    BY <1>2, <2>2, <2>3 DEF EthernetRadio0, Wired
<1>3. QED
  BY <1>1, <1>2

\* Whatever diff aligns, a lease of a device off the air is marked as added.
LEMMA DiffWires == ASSUME WiredInv, EthernetDiff PROVE Wired'
<1> DEFINE found == lines \o stations[1]
<1>1. PICK kept \in Longest(found) :
         /\ lines' = Kept(Leases, Device \ {found[n] : n \in kept})
         /\ pc' = IF lines' = <<>> THEN "idle" ELSE "neighbour"
  BY DEF EthernetDiff
<1>2. call = "ethernet" /\ pc = "radio 1" /\ UNCHANGED <<world, known, call, radio, rows, changed>>
  BY DEF EthernetDiff, WiredInv, ReadersTypeOK, ReaderType
<1>3. /\ rows = <<>> /\ ToSet(lines) \subseteq changed \cup Associated
      /\ lines \in Seq(Device) /\ stations[1] \in Seq(Device)
  BY <1>2 DEF WiredInv, Wired, ReadersTypeOK, ReaderType, WorldType, Radio
<1>4. ToSet(found) \subseteq changed \cup Associated
  <2>1. ToSet(found) = ToSet(lines) \cup ToSet(stations[1])
    BY <1>3, ToSetOfBoth
  <2>2. QED
    BY <1>3, <2>1 DEF Associated
<1>5. {found[n] : n \in kept} \subseteq ToSet(found)
  BY <1>1 DEF Longest, Common, ToSet
<1>6. PICK gone : gone = {found[n] : n \in kept}
  OBVIOUS
<1>7. /\ ToSet(lines') = ToSet(Leases) \cap (Device \ gone) /\ IsInjective(lines')
  BY <1>1, <1>6, ClientsAssumption, KeptAre
<1>8. ToSet(Leases) \subseteq Device
  BY ClientsAssumption DEF ToSet
<1>9. \A d \in ToSet(Leases) \ (changed \cup Associated) : d \in ToSet(lines')
  BY <1>4, <1>5, <1>6, <1>7, <1>8
<1>10. rows' = <<>> /\ Listed' = {}
  <2>1. rows' = <<>>
    BY <1>2, <1>3
  <2>2. QED
    BY <2>1 DEF Listed
<1>11. Associated' = Associated
  BY <1>2 DEF Associated, world
<1>12. pc' \in {"idle", "neighbour"}
  BY <1>1
<1>13. Asked'
  <2>1. \A m, n \in DOMAIN rows' : rows'[m].device = rows'[n].device => m = n
    BY <1>10
  <2>2. \A d \in ToSet(Leases) \ (changed' \cup Associated') : WiredOne(d)'
    BY <1>2, <1>9, <1>11 DEF WiredOne
  <2>3. pc' # "ping"
    BY <1>12
  <2>4. ToSet(lines') \subseteq ToSet(Leases) \ Listed' /\ Listed' \subseteq ToSet(Leases)
    BY <1>7, <1>10
  <2>5. QED
    BY <1>7, <2>1, <2>2, <2>3, <2>4 DEF Asked
<1>14. QED
  BY <1>12, <1>13 DEF Wired

\* A line is listed or passed over as the entry and the answer of its device say.
LEMMA AskWires ==
    ASSUME WiredInv, EthernetNeighbour \/ EthernetPing
    PROVE  Wired'
<1> DEFINE h == Head(lines)
<1>1. /\ call = "ethernet" /\ pc \in {"neighbour", "ping"} /\ Asked /\ h \in Device
      /\ lines \in Seq(Device) /\ lines # <<>> /\ rows \in Seq(RowOf)
  <2>1. ReaderType /\ pc \in {"neighbour", "ping"}
    BY DEF WiredInv, ReadersTypeOK, EthernetNeighbour, EthernetPing
  <2>2. call = "ethernet"
    BY <2>1 DEF ReaderType
  <2>3. QED
    BY <2>1, <2>2, TailOfLines DEF WiredInv, Wired, ReaderType
<1>2. /\ IsInjective(Tail(lines)) /\ h \notin ToSet(Tail(lines))
      /\ ToSet(lines) = {h} \cup ToSet(Tail(lines))
  BY <1>1, TailOnce, TakeHead DEF Asked
<1>3. UNCHANGED <<world, call, changed>> /\ pc' \in {"idle", "neighbour", "ping"}
  BY DEF EthernetNeighbour, EthernetPing, Continue, Finish
<1>4. Associated' = Associated /\ arp' = arp /\ answers' = answers
  BY <1>3 DEF Associated, world
<1> DEFINE up == arp[h] = "REACHABLE" \/ (arp[h] = "STALE" /\ h \in answers)
<1>5. CASE Continue("ping") /\ UNCHANGED <<known, rows>> /\ arp[h] = "STALE"
  <2>1. lines' = lines /\ rows' = rows /\ Listed' = Listed
    BY <1>5 DEF Continue, Listed
  <2>2. Asked'
    BY <1>1, <1>3, <1>4, <1>5, <2>1 DEF Asked, WiredOne
  <2>3. QED
    BY <1>3, <2>2 DEF Wired
<1>6. ASSUME Finish(<<Row(h)>>, "neighbour"), h \notin changed \cup Associated => up
      PROVE  Wired'
  <2>1. rows' = rows \o <<Row(h)>> /\ lines' = Tail(lines) /\ pc' # "ping"
    BY <1>6 DEF Finish
  <2>2. PICK row : row = Row(h)
    OBVIOUS
  <2>3. row \in RowOf /\ row.device = h
    BY <1>1, <2>2 DEF Row, RowOf, AddressOrNone
  <2>4. /\ Len(rows) \in Nat /\ DOMAIN rows = 1 .. Len(rows) /\ DOMAIN rows' = 1 .. Len(rows) + 1
        /\ \A n \in 1 .. Len(rows) : rows'[n] = rows[n]
        /\ rows'[Len(rows) + 1] = row
        /\ Listed' = Listed \cup {h}
    <3>1. rows' = rows \o <<row>>
      BY <2>1, <2>2
    <3>2. QED
      BY <1>1, <2>3, <3>1, OneRow
  <2>5. \A n \in 1 .. Len(rows) + 1 : n \in 1 .. Len(rows) \/ n = Len(rows) + 1
    BY <2>4
  <2>6. \A n \in 1 .. Len(rows) : rows[n].device # h
    BY <1>1, <1>2, <2>4 DEF Asked, Listed
  <2>7. ASSUME NEW m \in DOMAIN rows', NEW n \in DOMAIN rows', rows'[m].device = rows'[n].device
        PROVE  m = n
    BY <1>1, <2>3, <2>4, <2>5, <2>6, <2>7 DEF Asked
  <2>8. ASSUME NEW d \in ToSet(Leases) \ (changed \cup Associated)
        PROVE  WiredOne(d)'
    <3>1. WiredOne(d)
      BY <1>1, <2>8 DEF Asked
    <3>2. CASE d = h
      BY <1>4, <1>6, <2>4, <2>8, <3>2 DEF WiredOne
    <3>3. CASE d # h
      BY <1>2, <1>4, <2>1, <2>4, <3>1, <3>3 DEF WiredOne
    <3>4. QED
      BY <3>2, <3>3
  <2>9. /\ ToSet(lines') \subseteq ToSet(Leases) \ Listed' /\ Listed' \subseteq ToSet(Leases)
        /\ IsInjective(lines')
    BY <1>1, <1>2, <2>1, <2>4 DEF Asked
  <2>10. Asked'
    BY <1>3, <1>4, <2>1, <2>7, <2>8, <2>9 DEF Asked
  <2>11. QED
    BY <1>3, <2>10 DEF Wired
<1>7. ASSUME Finish(<<>>, "neighbour"), h \notin changed \cup Associated => ~up
      PROVE  Wired'
  <2>1. rows' = rows /\ lines' = Tail(lines) /\ pc' # "ping"
    <3>1. rows' = rows \o <<>>
      BY <1>7 DEF Finish
    <3>2. rows' = rows
      BY <1>1, <3>1
    <3>3. QED
      BY <1>7, <3>2 DEF Finish
  <2>2. Listed' = Listed
    BY <2>1 DEF Listed
  <2>3. ASSUME NEW d \in ToSet(Leases) \ (changed \cup Associated)
        PROVE  WiredOne(d)'
    <3>1. WiredOne(d)
      BY <1>1, <2>3 DEF Asked
    <3>2. CASE d = h
      <4>1. h \notin Listed
        BY <1>1, <1>2 DEF Asked
      <4>2. QED
        BY <1>4, <1>7, <2>2, <2>3, <3>2, <4>1 DEF WiredOne
    <3>3. CASE d # h
      BY <1>2, <1>4, <2>1, <2>2, <3>1, <3>3 DEF WiredOne
    <3>4. QED
      BY <3>2, <3>3
  <2>4. /\ ToSet(lines') \subseteq ToSet(Leases) \ Listed' /\ Listed' \subseteq ToSet(Leases)
        /\ IsInjective(lines')
    BY <1>1, <1>2, <2>1, <2>2 DEF Asked
  <2>5. Asked'
    BY <1>1, <1>3, <1>4, <2>1, <2>3, <2>4 DEF Asked
  <2>6. QED
    BY <1>3, <2>5 DEF Wired
<1>8. arp[h] \in Arp
  BY <1>1 DEF WiredInv, ReadersTypeOK, WorldType
<1>9. CASE EthernetNeighbour
  <2>1. CASE arp[h] = "REACHABLE" /\ Finish(<<Row(h)>>, "neighbour")
    BY <1>6, <2>1
  <2>2. CASE arp[h] = "FAILED" /\ Finish(<<>>, "neighbour")
    BY <1>7, <2>2
  <2>3. CASE arp[h] = "STALE" /\ Continue("ping") /\ UNCHANGED <<known, rows>>
    BY <1>5, <2>3
  <2>4. CASE arp[h] = "DELAY" /\ Finish(<<>>, "neighbour")
    BY <1>7, <2>4
  <2>5. QED
    BY <1>8, <1>9, <2>1, <2>2, <2>3, <2>4 DEF EthernetNeighbour, AsksPing, Arp
<1>10. CASE EthernetPing
  <2>1. pc = "ping" /\ Finish(IF h \in answers THEN <<Row(h)>> ELSE <<>>, "neighbour")
    BY <1>10 DEF EthernetPing
  <2>2. h \notin changed => arp[h] = "STALE"
    BY <1>1, <2>1 DEF Asked
  <2>3. CASE h \in answers
    BY <1>6, <2>1, <2>2, <2>3
  <2>4. CASE h \notin answers
    BY <1>7, <2>1, <2>2, <2>4
  <2>5. QED
    BY <2>3, <2>4
<1>11. QED
  BY <1>9, <1>10

\* One step for each command, and for the devices.
LEMMA WiredInvariant == ASSUME WiredInv, [Next]_vars PROVE WiredInv'
<1>1. ReadersTypeOK'
  BY TypesInvariant DEF WiredInv
<1>2. CASE UNCHANGED vars
  <2>1. UNCHANGED <<stations, answers, arp, changed, call, pc, lines, rows>>
    BY <1>2 DEF vars, world, reader
  <2>2. Listed' = Listed /\ Associated' = Associated /\ \A d : WiredOne(d)' <=> WiredOne(d)
    BY <2>1 DEF WiredOne, Listed, Associated
  <2>3. Asked' <=> Asked
    BY <2>1, <2>2 DEF Asked
  <2>4. Wired'
    BY <2>1, <2>2, <2>3 DEF WiredInv, Wired
  <2>5. QED
    BY <1>1, <2>4 DEF WiredInv
<1>3. CASE WifiReader \/ SwitchBand
  BY <1>1, <1>3, NotEthernet DEF WiredInv, Wired
<1>4. CASE World
  BY <1>1, <1>4, WorldWires DEF WiredInv
<1>5. CASE EthernetReader
  BY <1>1, <1>5, BeginWires, DiffWires, AskWires DEF WiredInv, EthernetReader
<1>6. QED
  BY <1>2, <1>3, <1>4, <1>5 DEF Next

\* As many devices are listed as there are rows.
LEMMA ListedOnce ==
    ASSUME rows \in Seq(RowOf), \A m, n \in DOMAIN rows : rows[m].device = rows[n].device => m = n
    PROVE  Cardinality(Listed) = Len(rows)
<1>1. PICK D : D = 1 .. Len(rows)
  OBVIOUS
<1>2. DOMAIN rows = D /\ Len(rows) \in Nat /\ IsFiniteSet(D) /\ Cardinality(D) = Len(rows)
  <2>1. PICK n : n = Len(rows)
    OBVIOUS
  <2>2. n \in Nat
    BY <2>1
  <2>3. IsFiniteSet(1 .. n) /\ Cardinality(1 .. n) = n
    BY <2>2, FS_Interval
  <2>4. QED
    BY <1>1, <2>1, <2>2, <2>3
<1>3. PICK f : f = [n \in D |-> rows[n].device]
  OBVIOUS
<1>4. f \in [D -> Listed] /\ \A m, n \in D : f[m] = f[n] => m = n
  BY <1>2, <1>3 DEF Listed
<1>5. f \in Injection(D, Listed)
  BY <1>4, Fun_IsInj
<1>6. \A d \in Listed : \E n \in D : f[n] = d
  BY <1>2, <1>3 DEF Listed
<1>7. f \in Surjection(D, Listed)
  BY <1>4, <1>6, Fun_IsSurj
<1>8. f \in Bijection(D, Listed)
  BY <1>5, <1>7 DEF Bijection
<1>9. Cardinality(Listed) = Cardinality(D)
  BY <1>2, <1>8, FS_Bijection, Fun_ExistsBij
<1>10. QED
  BY <1>2, <1>9

\* CcspHalExtSw_getAssociatedDevice lists the wired devices as their entries and answers say.
THEOREM WiredAreListed == Spec => []WiredListed
<1>1. Init => WiredInv
  <2>1. Init => call = "none"
    BY DEF Init
  <2>2. QED
    BY <2>1, InitTypes DEF WiredInv, Wired
<1>2. WiredInv /\ [Next]_vars => WiredInv'
  BY WiredInvariant
<1>3. ASSUME WiredInv PROVE WiredListed
  <2>1. SUFFICES ASSUME call = "ethernet", pc = "idle"
                 PROVE  /\ Listed \subseteq ToSet(Leases) /\ Cardinality(Listed) = Len(rows)
                        /\ \A d \in ToSet(Leases) \ (changed \cup Associated) :
                              d \in Listed <=> \/ arp[d] = "REACHABLE"
                                               \/ arp[d] = "STALE" /\ d \in answers
    BY DEF WiredListed
  <2>2. Asked /\ rows \in Seq(RowOf) /\ ToSet(lines) = {}
    BY <1>3, <2>1 DEF WiredInv, ReadersTypeOK, ReaderType, Wired, ToSet
  <2>3. Cardinality(Listed) = Len(rows)
    BY <2>2, ListedOnce DEF Asked
  <2>4. QED
    BY <2>2, <2>3 DEF Asked, WiredOne
<1>4. WiredInv => WiredListed
  BY <1>3
<1>5. QED
  BY <1>1, <1>2, <1>4, PTL DEF Spec

-----------------------------------------------------------------------------
(***************************************************************************)
(* Queries about the lease.                                                *)
(***************************************************************************)

Address == {Garbage} \cup UNION {{servers[i] : i \in DOMAIN servers} : servers \in DnsLists}
Lease   == [length : Length, start : 0..MaxTime]

\* What is left of Reads after each of them.
R3 == <<"start", "up", "remain">>
R2 == <<"up", "remain">>
R1 == <<"remain">>

LeaseTypeOK ==
    /\ lease \in Lease /\ dns \in DnsLists /\ upTime \in 0..MaxTime
    /\ query \in Remain \cup {"none", "dns_svrs"}
    /\ got.length \in Nat /\ got.start \in 0..MaxTime /\ got.address \in Address
    /\ got = [length |-> got.length, start |-> got.start, address |-> got.address]
    /\ answer \in Seq(Int \cup Address)
    /\ seen.leases \in SUBSET Lease /\ seen.dns \in SUBSET DnsLists
    /\ \E from, to \in 0..MaxTime : window = <<from, to>>

\* What a query has still to read, and that it sees the lease in force.
Pending ==
    /\ query = "none" => todo = <<>>
    /\ query \in Remain => todo \in {Reads, R3, R2, R1, <<>>}
    /\ query = "dns_svrs" => todo \in Seq({"dns"})
    /\ todo # <<>> => lease \in seen.leases /\ dns \in seen.dns
    /\ lease.start <= upTime /\ \A l \in seen.leases : l.start <= upTime
    /\ window[1] <= upTime

\* What the query for a time has put together.
TimeRead ==
    query \in Remain =>
        /\ Len(todo) < 4 => \E l \in seen.leases : got.length = l.length
        /\ Len(todo) < 3 => \E l \in seen.leases : got.start = l.start
        /\ Len(todo) < 2 => window[1] <= window[2] /\ got.start <= window[2]
        /\ todo = <<>> => answer = <<Left(query, got, window[2]) % Word>>

\* What the query for the name servers has put together.
DnsRead ==
    query = "dns_svrs" =>
        /\ got.address = IF answer = <<>> THEN Garbage ELSE answer[Len(answer)]
        /\ \A i \in DOMAIN answer :
              \/ \E servers \in seen.dns : \E j \in DOMAIN servers : servers[j] = answer[i]
              \/ answer[i] = Garbage /\ <<>> \in seen.dns
        /\ seen.dns # {}
        /\ \A servers \in seen.dns : seen.dns = {servers} =>
              /\ Len(answer) + Len(todo) = Len(Cut(servers))
              /\ \A i \in DOMAIN answer : answer[i] = servers[i]

IInv == LeaseTypeOK /\ Pending /\ TimeRead /\ DnsRead

-----------------------------------------------------------------------------
(***************************************************************************)
(* Lists, and times.                                                       *)
(***************************************************************************)

\* The reads of a query for a time, one after the other.
LEMMA Stages ==
    /\ Reads # <<>> /\ R3 # <<>> /\ R2 # <<>> /\ R1 # <<>>
    /\ Head(Reads) = "length" /\ Tail(Reads) = R3 /\ Len(Reads) = 4
    /\ Head(R3) = "start" /\ Tail(R3) = R2 /\ Len(R3) = 3
    /\ Head(R2) = "up" /\ Tail(R2) = R1 /\ Len(R2) = 2
    /\ Head(R1) = "remain" /\ Tail(R1) = <<>> /\ Len(R1) = 1
BY DEF Reads, R3, R2, R1

\* A list of name servers is cut to four.
LEMMA CutIs ==
    ASSUME NEW servers \in DnsLists
    PROVE  /\ Len(servers) \in Nat /\ DOMAIN servers = 1..Len(servers)
           /\ \A i \in DOMAIN servers : servers[i] \in Address
           /\ Cut(servers) \in Seq(Address) /\ Len(Cut(servers)) \in 0..Len(servers)
           /\ \A i \in 1..Len(Cut(servers)) : Cut(servers)[i] = servers[i]
<1>1. servers \in Seq({servers[i] : i \in DOMAIN servers})
  BY DhcpLeaseAssumption
<1>2. Len(servers) \in Nat /\ DOMAIN servers = 1..Len(servers)
  BY <1>1
<1>3. \A i \in DOMAIN servers : servers[i] \in Address
  BY DEF Address
<1>4. servers \in Seq(Address)
  BY <1>1, <1>2, <1>3
<1>5. QED
  BY <1>2, <1>3, <1>4 DEF Cut, MaxDns

\* Renewing and rebinding are due before the lease ends.
LEMMA UntilIs ==
    ASSUME NEW what \in Remain, NEW length \in Length
    PROVE  Until(what, length) \in 0..length
<1>1. length \in Nat /\ 7 * length \in Nat /\ 7 * length < Word /\ Word \in Nat
  BY DhcpLeaseAssumption
<1>2. (7 * length) % Word = 7 * length
  BY <1>1
<1>3. RenewTime(length) \in 0..length /\ RebindTime(length) \in 0..length
  BY <1>1, <1>2 DEF RenewTime, RebindTime
<1>4. QED
  BY <1>1, <1>3 DEF Until, Remain

\* A time that has passed wraps around.
LEMMA Wraps ==
    ASSUME NEW a \in Int, NEW w \in Nat, -w <= a, a < w
    PROVE  a % w = IF a >= 0 THEN a ELSE a + w
OBVIOUS
-----------------------------------------------------------------------------
(***************************************************************************)
(* The inductive invariant.                                                *)
(***************************************************************************)

\* The inductive invariant holds before the first query.
LEMMA InitIInv == LeaseInit => IInv
<1> SUFFICES ASSUME LeaseInit PROVE IInv
  OBVIOUS
<1>1. PICK length \in Length : lease = [length |-> length, start |-> 0]
  BY DEF LeaseInit
<1>2. lease \in Lease
  BY <1>1, DhcpLeaseAssumption DEF Lease
<1>3. LeaseTypeOK
  BY <1>2, DhcpLeaseAssumption DEF LeaseInit, LeaseTypeOK, Address
<1>4. Pending
  BY <1>1, DhcpLeaseAssumption DEF LeaseInit, Pending, Remain
<1>5. TimeRead /\ DnsRead
  BY DEF LeaseInit, TimeRead, DnsRead, Remain
<1>6. QED
  BY <1>3, <1>4, <1>5 DEF IInv

\* A query begins with everything still to read.
LEMMA AskIInv ==
    ASSUME IInv, Query
    PROVE  IInv'
<1>1. /\ lease' = lease /\ dns' = dns /\ upTime' = upTime
      /\ got' = [length |-> 0, start |-> 0, address |-> Garbage] /\ answer' = <<>>
      /\ seen' = [leases |-> {lease}, dns |-> {dns}]
      /\ window' = <<upTime, upTime>>
      /\ \/ query' \in Remain /\ todo' = Reads
         \/ query' = "dns_svrs" /\ todo' = [i \in DOMAIN Cut(dns) |-> "dns"]
  BY DEF Query, GetRemain, GetDnsSvrs, Ask, clientVars
<1>2. query' = "dns_svrs" => query' \notin Remain
  BY DEF Remain
<1>3. dns \in DnsLists /\ lease \in Lease /\ lease.start <= upTime /\ upTime \in 0..MaxTime
  BY DEF IInv, LeaseTypeOK, Pending
<1>4. LeaseTypeOK'
  BY <1>1, <1>3, DhcpLeaseAssumption DEF LeaseTypeOK, Address
<1>5. query' = "dns_svrs" => todo' \in Seq({"dns"}) /\ Len(todo') = Len(Cut(dns))
  BY <1>1, <1>2, <1>3, CutIs
<1>6. Pending'
  BY <1>1, <1>2, <1>3, <1>5 DEF Pending, Remain
<1>7. TimeRead'
  BY <1>1, <1>2, Stages DEF TimeRead
<1>8. DnsRead'
  BY <1>1, <1>3, <1>5, CutIs DEF DnsRead, Remain
<1>9. QED
  BY <1>4, <1>6, <1>7, <1>8 DEF IInv

\* A read of a query for a time.
LEMMA TimeIInv ==
    ASSUME IInv, ReadLength \/ ReadStart \/ ReadUpTime \/ ReturnRemain
    PROVE  IInv'
<1>1. /\ todo # <<>> /\ Head(todo) \in {"length", "start", "up", "remain"}
      /\ todo' = Tail(todo) /\ UNCHANGED <<lease, dns, upTime, query, seen>>
  BY DEF ReadLength, ReadStart, ReadUpTime, ReturnRemain, Rest, clientVars
<1>2. query \in Remain
  <2>1. query # "dns_svrs"
    <3>1. ASSUME todo \in Seq({"dns"})
          PROVE  FALSE
      BY <1>1, <3>1
    <3>2. QED
      BY <3>1 DEF IInv, Pending
  <2>2. QED
    BY <1>1, <2>1 DEF IInv, LeaseTypeOK, Pending
<1>3. /\ lease \in seen.leases /\ lease \in Lease /\ seen.leases \subseteq Lease
      /\ lease.start <= upTime /\ upTime \in 0..MaxTime /\ MaxTime \in Nat
      /\ got.length \in Nat /\ got.start \in 0..MaxTime
      /\ \A l \in seen.leases : l.start <= upTime
      /\ todo \in {Reads, R3, R2, R1}
  BY <1>1, <1>2, DhcpLeaseAssumption DEF IInv, LeaseTypeOK, Pending
<1>4. PICK from, to \in 0..MaxTime : window = <<from, to>> /\ from <= upTime
  BY DEF IInv, LeaseTypeOK, Pending
<1>5. query' # "dns_svrs" /\ query' # "none" /\ query' \in Remain
  BY <1>1, <1>2 DEF Remain
<1>6. ASSUME LeaseTypeOK', TimeRead', window'[1] = from
      PROVE  IInv'
  <2>1. todo' \in {R3, R2, R1, <<>>}
    BY <1>1, <1>3, Stages
  <2>2. Pending'
    BY <1>1, <1>3, <1>4, <1>5, <1>6, <2>1 DEF Pending, IInv
  <2>3. QED
    BY <1>5, <1>6, <2>2 DEF IInv, DnsRead
<1>7. CASE ReadLength
  <2>1. todo = Reads /\ todo' = R3
    BY <1>1, <1>3, <1>7, Stages DEF ReadLength
  <2>2. /\ got'.length = lease.length /\ got'.start = got.start
        /\ got'.address = got.address /\ UNCHANGED <<answer, window>>
        /\ got' = [length |-> lease.length, start |-> got.start, address |-> got.address]
    BY <1>7 DEF ReadLength, IInv, LeaseTypeOK
  <2>3. LeaseTypeOK'
    BY <1>1, <1>3, <2>2, DhcpLeaseAssumption DEF LeaseTypeOK, IInv, Lease
  <2>4. TimeRead'
    BY <1>1, <1>3, <2>1, <2>2, Stages DEF TimeRead
  <2>5. QED
    BY <1>4, <1>6, <2>2, <2>3, <2>4
<1>8. CASE ReadStart
  <2>1. todo = R3 /\ todo' = R2
    BY <1>1, <1>3, <1>8, Stages DEF ReadStart
  <2>2. /\ got'.length = got.length /\ got'.start = lease.start
        /\ got'.address = got.address /\ UNCHANGED <<answer, window>>
        /\ got' = [length |-> got.length, start |-> lease.start, address |-> got.address]
    BY <1>8 DEF ReadStart, IInv, LeaseTypeOK
  <2>3. LeaseTypeOK'
    BY <1>1, <1>3, <2>2 DEF LeaseTypeOK, IInv, Lease
  <2>4. PICK l \in seen.leases : got.length = l.length
    BY <1>2, <2>1, Stages DEF TimeRead, IInv
  <2>5. l \in seen'.leases /\ got'.length = l.length
        /\ lease \in seen'.leases /\ got'.start = lease.start
    BY <1>1, <1>3, <2>2, <2>4
  <2>6. Len(todo') = 2 /\ todo' # <<>>
    BY <2>1, Stages
  <2>7. TimeRead'
    BY <2>5, <2>6 DEF TimeRead
  <2>8. QED
    BY <1>4, <1>6, <2>2, <2>3, <2>7
<1>9. CASE ReadUpTime
  <2>1. todo = R2 /\ todo' = R1
    BY <1>1, <1>3, <1>9, Stages DEF ReadUpTime
  <2>2. window' = <<from, upTime>> /\ UNCHANGED <<got, answer>>
    BY <1>4, <1>9 DEF ReadUpTime
  <2>3. LeaseTypeOK'
    BY <1>1, <1>3, <2>2 DEF LeaseTypeOK, IInv
  <2>4. got.start <= upTime
    <3>1. PICK l \in seen.leases : got.start = l.start
      BY <1>2, <2>1, Stages DEF IInv, TimeRead
    <3>2. QED
      BY <1>3, <3>1
  <2>5. TimeRead'
    <3>1. /\ \E l \in seen.leases : got.length = l.length
          /\ \E l \in seen.leases : got.start = l.start
      BY <1>2, <2>1, Stages DEF TimeRead, IInv
    <3>2. seen' = seen /\ got' = got /\ todo' # <<>>
      BY <1>1, <2>1, <2>2, Stages
    <3>3. window'[1] <= window'[2] /\ got.start <= window'[2]
      BY <1>4, <2>2, <2>4
    <3>4. QED
      BY <3>1, <3>2, <3>3 DEF TimeRead
  <2>6. QED
    BY <1>6, <2>2, <2>3, <2>5
<1>10. CASE ReturnRemain
  <2>1. todo = R1 /\ todo' = <<>>
    BY <1>1, <1>3, <1>10, Stages DEF ReturnRemain
  <2>2. /\ answer' = <<Left(query, got, window[2]) % Word>> /\ UNCHANGED <<got, window>>
    BY <1>10 DEF ReturnRemain
  <2>3. Left(query, got, window[2]) \in Int
    <3>1. PICK l \in seen.leases : got.length = l.length
      BY <1>2, <2>1, Stages DEF IInv, TimeRead
    <3>2. Until(query, got.length) \in 0..got.length
      BY <1>2, <1>3, <3>1, UntilIs DEF Lease
    <3>3. QED
      BY <1>3, <1>4, <3>2 DEF Left
  <2>4. answer' \in Seq(Int \cup Address)
    <3>1. Left(query, got, window[2]) % Word \in Int
      BY <2>3, DhcpLeaseAssumption
    <3>2. QED
      BY <2>2, <3>1
  <2>5. LeaseTypeOK'
    BY <1>1, <1>3, <2>2, <2>4 DEF LeaseTypeOK, IInv
  <2>6. TimeRead'
    BY <1>1, <1>2, <2>1, <2>2, Stages DEF TimeRead, IInv
  <2>7. QED
    BY <1>4, <1>6, <2>2, <2>5, <2>6
<1>11. QED
  BY <1>7, <1>8, <1>9, <1>10

\* The read of one name server.
LEMMA DnsIInv ==
    ASSUME IInv, ReadDns
    PROVE  IInv'
<1> DEFINE i == Len(answer) + 1
           address == IF i \in DOMAIN dns THEN dns[i] ELSE got.address
<1>1. /\ todo # <<>> /\ Head(todo) = "dns" /\ todo' = Tail(todo)
      /\ UNCHANGED <<lease, dns, upTime, query, seen, window>>
      /\ got' = [got EXCEPT !.address = address] /\ answer' = Append(answer, address)
  BY DEF ReadDns, Rest, clientVars
<1>2. query = "dns_svrs" /\ query \notin Remain
  <2>1. query \notin Remain
    BY <1>1, Stages DEF IInv, Pending
  <2>2. QED
    BY <1>1, <2>1 DEF IInv, LeaseTypeOK, Pending
<1>3. /\ todo \in Seq({"dns"}) /\ Len(todo) \in Nat \ {0}
      /\ todo' \in Seq({"dns"}) /\ Len(todo') = Len(todo) - 1
  BY <1>1, <1>2 DEF IInv, Pending
<1>4. dns \in seen.dns /\ dns \in DnsLists /\ seen.dns \subseteq DnsLists
      /\ answer \in Seq(Int \cup Address) /\ Len(answer) \in Nat
  BY <1>1 DEF IInv, LeaseTypeOK, Pending
<1>5. address \in Address
  BY <1>4, CutIs DEF IInv, LeaseTypeOK
<1>6. /\ got'.length = got.length /\ got'.start = got.start /\ got'.address = address
      /\ got' = [length |-> got.length, start |-> got.start, address |-> address]
  BY <1>1 DEF IInv, LeaseTypeOK
<1>7. /\ answer' \in Seq(Int \cup Address) /\ Len(answer') = i /\ answer' # <<>>
      /\ answer'[i] = address /\ DOMAIN answer' = 1..i /\ DOMAIN answer = 1..Len(answer)
      /\ \A j \in 1..Len(answer) : answer'[j] = answer[j]
  BY <1>1, <1>4, <1>5
<1>8. LeaseTypeOK'
  BY <1>1, <1>5, <1>6, <1>7 DEF LeaseTypeOK, IInv
<1>9. Pending' /\ TimeRead'
  BY <1>1, <1>2, <1>3 DEF Pending, TimeRead, IInv
<1>10. \/ \E servers \in seen.dns : \E j \in DOMAIN servers : servers[j] = address
       \/ address = Garbage /\ <<>> \in seen.dns
  <2>1. CASE i \in DOMAIN dns
    BY <1>4, <2>1
  <2>2. CASE i \notin DOMAIN dns /\ answer = <<>>
    <3>1. Len(dns) = 0
      BY <1>4, <2>2, CutIs
    <3>2. dns = <<>>
      BY <1>4, <3>1, DhcpLeaseAssumption
    <3>3. QED
      BY <1>2, <1>4, <2>2, <3>2 DEF IInv, DnsRead
  <2>3. CASE i \notin DOMAIN dns /\ answer # <<>>
    <3>1. address = answer[Len(answer)] /\ Len(answer) \in DOMAIN answer
      BY <1>2, <1>4, <2>3 DEF IInv, DnsRead
    <3>2. QED
      BY <1>2, <3>1 DEF IInv, DnsRead
  <2>4. QED
    BY <2>1, <2>2, <2>3
<1>11. \A j \in DOMAIN answer' :
          \/ \E servers \in seen.dns : \E k \in DOMAIN servers : servers[k] = answer'[j]
          \/ answer'[j] = Garbage /\ <<>> \in seen.dns
  <2>1. \A j \in 1..Len(answer) :
          \/ \E servers \in seen.dns : \E k \in DOMAIN servers : servers[k] = answer[j]
          \/ answer[j] = Garbage /\ <<>> \in seen.dns
    BY <1>2, <1>7 DEF IInv, DnsRead
  <2>2. \A j \in DOMAIN answer' : j \in 1..Len(answer) \/ j = i
    BY <1>4, <1>7
  <2> HIDE DEF i, address
  <2>3. QED
    BY <1>7, <1>10, <2>1, <2>2
<1>12. ASSUME NEW servers \in seen.dns, seen.dns = {servers}
       PROVE  /\ Len(answer') + Len(todo') = Len(Cut(servers))
              /\ \A j \in DOMAIN answer' : answer'[j] = servers[j]
  <2>1. /\ Len(answer) + Len(todo) = Len(Cut(servers))
        /\ \A j \in DOMAIN answer : answer[j] = servers[j]
    BY <1>2, <1>12 DEF IInv, DnsRead
  <2>2. dns = servers
    BY <1>4, <1>12
  <2>3. i \in 1..Len(Cut(servers))
    BY <1>3, <1>4, <2>1, CutIs
  <2>4. address = servers[i]
    BY <1>4, <2>2, <2>3, CutIs
  <2>5. Len(answer') + Len(todo') = Len(Cut(servers))
    <3>1. Len(answer') = Len(answer) + 1 /\ Len(todo') = Len(todo) - 1
      BY <1>7, <1>3
    <3>2. QED
      BY <1>3, <1>4, <2>1, <3>1
  <2>6. ASSUME NEW j \in DOMAIN answer'
        PROVE  answer'[j] = servers[j]
    <3>1. j \in 1..Len(answer) \/ j = i
      BY <1>4, <1>7
    <3> HIDE DEF i, address
    <3>2. QED
      BY <1>7, <2>1, <2>4, <3>1
  <2>7. QED
    BY <2>5, <2>6
<1>13. DnsRead'
  BY <1>1, <1>4, <1>6, <1>7, <1>11, <1>12 DEF DnsRead
<1>14. QED
  BY <1>8, <1>9, <1>13 DEF IInv

\* The lease is renewed, during a query or between two.
LEMMA RenewIInv ==
    ASSUME IInv, NEW length \in Length, NEW servers \in DnsLists, Renew(length, servers)
    PROVE  IInv'
<1>1. /\ lease' = [length |-> length, start |-> upTime] /\ dns' = servers
      /\ UNCHANGED <<upTime, query, todo, got, answer, window>>
      /\ seen' = IF todo = <<>> THEN seen
                 ELSE [leases |-> seen.leases \cup {lease'}, dns |-> seen.dns \cup {dns'}]
  BY DEF Renew, queryVars
<1>2. lease' \in Lease /\ lease'.start = upTime /\ upTime \in 0..MaxTime
  BY <1>1 DEF IInv, LeaseTypeOK, Lease
<1>3. CASE todo = <<>>
  <2>1. seen' = seen
    BY <1>1, <1>3
  <2>2. LeaseTypeOK'
    BY <1>1, <1>2, <2>1 DEF IInv, LeaseTypeOK
  <2>3. Pending'
    BY <1>1, <1>2, <1>3, <2>1, DhcpLeaseAssumption DEF IInv, LeaseTypeOK, Pending
  <2>4. TimeRead' /\ DnsRead'
    BY <1>1, <2>1 DEF IInv, TimeRead, DnsRead, Left
  <2>5. QED
    BY <2>2, <2>3, <2>4 DEF IInv
<1>4. CASE todo # <<>>
  <2>1. seen'.leases = seen.leases \cup {lease'} /\ seen'.dns = seen.dns \cup {servers}
    BY <1>1, <1>4
  <2>2. LeaseTypeOK'
    BY <1>1, <1>2, <2>1 DEF IInv, LeaseTypeOK
  <2>3. Pending'
    BY <1>1, <1>2, <2>1, DhcpLeaseAssumption DEF IInv, LeaseTypeOK, Pending
  <2>4. TimeRead'
    BY <1>1, <1>4, <2>1 DEF IInv, TimeRead
  <2>5. ASSUME query = "dns_svrs"
        PROVE  DnsRead'
    <3>1. seen.dns # {} /\ seen.dns \subseteq seen'.dns
      BY <1>4, <2>1 DEF IInv, Pending
    <3>2. \A some \in seen'.dns : seen'.dns = {some} => some \in seen.dns /\ seen.dns = {some}
      BY <3>1
    <3>3. \A i \in DOMAIN answer :
             \/ \E some \in seen'.dns : \E j \in DOMAIN some : some[j] = answer[i]
             \/ answer[i] = Garbage /\ <<>> \in seen'.dns
      BY <2>5, <3>1 DEF IInv, DnsRead
    <3>4. \A some \in seen'.dns : seen'.dns = {some} =>
             /\ Len(answer) + Len(todo) = Len(Cut(some))
             /\ \A i \in DOMAIN answer : answer[i] = some[i]
      BY <2>5, <3>2 DEF IInv, DnsRead
    <3>5. got.address = IF answer = <<>> THEN Garbage ELSE answer[Len(answer)]
      BY <2>5 DEF IInv, DnsRead
    <3>6. QED
      BY <1>1, <3>1, <3>3, <3>4, <3>5 DEF DnsRead
  <2>6. DnsRead'
    <3>1. CASE query # "dns_svrs"
      BY <1>1, <3>1 DEF DnsRead
    <3>2. QED
      BY <2>5, <3>1
  <2>7. QED
    BY <2>2, <2>3, <2>4, <2>6 DEF IInv
<1>5. QED
  BY <1>3, <1>4

\* Every step keeps the inductive invariant.
LEMMA NextIInv == IInv /\ [LeaseNext]_leaseVars => IInv'
<1> SUFFICES ASSUME IInv, [LeaseNext]_leaseVars PROVE IInv'
  OBVIOUS
<1>1. CASE Tick
  <2>1. /\ upTime' = upTime + 1 /\ upTime < MaxTime /\ upTime \in 0..MaxTime
        /\ UNCHANGED <<lease, dns, query, todo, got, answer, window, seen>>
    BY <1>1 DEF Tick, queryVars, IInv, LeaseTypeOK
  <2>2. LeaseTypeOK'
    BY <2>1, DhcpLeaseAssumption DEF IInv, LeaseTypeOK
  <2>3. Pending'
    <3>1. /\ lease.start \in Nat /\ \A l \in seen.leases : l.start \in Nat
          /\ window[1] \in Nat
      BY DhcpLeaseAssumption DEF IInv, LeaseTypeOK, Lease
    <3>2. QED
      BY <2>1, <3>1, DhcpLeaseAssumption DEF IInv, Pending
  <2>4. TimeRead' /\ DnsRead'
    BY <2>1 DEF IInv, TimeRead, DnsRead, Left
  <2>5. QED
    BY <2>2, <2>3, <2>4 DEF IInv
<1>2. CASE UNCHANGED leaseVars
  <2>1. UNCHANGED <<lease, dns, upTime, query, todo, got, answer, window, seen>>
    BY <1>2 DEF leaseVars, clientVars, queryVars
  <2>2. LeaseTypeOK' /\ Pending'
    BY <2>1 DEF IInv, LeaseTypeOK, Pending
  <2>3. TimeRead' /\ DnsRead'
    BY <2>1 DEF IInv, TimeRead, DnsRead, Left
  <2>4. QED
    BY <2>2, <2>3 DEF IInv
<1>3. QED
  BY <1>1, <1>2, AskIInv, TimeIInv, DnsIInv, RenewIInv DEF LeaseNext

\* The inductive invariant holds in every behaviour.
LEMMA InductiveInvariant == LeaseSpec => []IInv
BY InitIInv, NextIInv, PTL DEF LeaseSpec

-----------------------------------------------------------------------------

\* What a query for a time answers was so for a lease, at a moment, of its time.
LEMMA TimeTrue ==
    ASSUME IInv, todo = <<>>, query \in Remain,
           \A l, m \in seen.leases : l.length = m.length
    PROVE  \E l \in seen.leases, time \in window[1] .. window[2] :
              /\ time >= l.start
              /\ IF Left(query, l, time) >= 0 THEN answer = <<Left(query, l, time)>>
                 ELSE answer[1] > l.length
<1>1. PICK from, to \in 0..MaxTime : window = <<from, to>>
  BY DEF IInv, LeaseTypeOK
<1>2. Len(todo) = 0
  OBVIOUS
<1>3. PICK k \in seen.leases : got.length = k.length
  BY <1>2 DEF IInv, TimeRead
<1>4. PICK l \in seen.leases : got.start = l.start
  BY <1>2 DEF IInv, TimeRead
<1>5. got.length = l.length
  BY <1>3, <1>4
<1>6. from <= to /\ l.start <= to /\ answer = <<Left(query, got, to) % Word>>
  BY <1>1, <1>2, <1>4 DEF IInv, TimeRead
<1>7. Left(query, got, to) = Left(query, l, to)
  BY <1>4, <1>5 DEF Left
<1>8. /\ l.length \in Length /\ l.length \in Nat /\ l.start \in Nat /\ to \in Nat
      /\ l.length + MaxTime < Word /\ to <= MaxTime /\ Word \in Nat /\ MaxTime \in Nat
  <2>1. l \in Lease
    BY DEF IInv, LeaseTypeOK
  <2>2. MaxTime \in Nat /\ Word \in Nat /\ to \in Nat /\ to <= MaxTime
    BY <1>1, DhcpLeaseAssumption
  <2>3. l.length \in Length /\ l.start \in 0..MaxTime
    BY <2>1 DEF Lease
  <2>4. l.length \in Nat /\ l.length + MaxTime < Word
    BY <2>3, DhcpLeaseAssumption
  <2>5. l.start \in Nat
    BY <2>2, <2>3
  <2>6. QED
    BY <2>2, <2>3, <2>4, <2>5
<1>9. Until(query, l.length) \in 0..l.length
  BY <1>8, UntilIs
<1>10. /\ Left(query, l, to) \in Int /\ -Word <= Left(query, l, to)
       /\ Left(query, l, to) < Word /\ Left(query, l, to) + Word > l.length
  BY <1>6, <1>8, <1>9 DEF Left
<1>11. Left(query, l, to) % Word = IF Left(query, l, to) >= 0 THEN Left(query, l, to)
                                   ELSE Left(query, l, to) + Word
  BY <1>8, <1>10, Wraps
<1>12. /\ to >= l.start
       /\ IF Left(query, l, to) >= 0 THEN answer = <<Left(query, l, to)>>
          ELSE answer[1] > l.length
  BY <1>6, <1>7, <1>8, <1>10, <1>11
<1>13. to \in window[1] .. window[2]
  BY <1>1, <1>6
<1>14. QED
  BY <1>12, <1>13

\* A list of servers without a renewal is the client's.
LEMMA ListTrue ==
    ASSUME IInv, todo = <<>>, query = "dns_svrs", NEW servers \in seen.dns,
           seen.dns = {servers}
    PROVE  answer = Cut(servers)
<1>1. /\ Len(answer) + Len(todo) = Len(Cut(servers)) /\ Len(todo) = 0
      /\ \A i \in DOMAIN answer : answer[i] = servers[i]
  BY DEF IInv, DnsRead
<1>2. answer \in Seq(Int \cup Address) /\ Cut(servers) \in Seq(Int \cup Address)
      /\ \A i \in 1..Len(Cut(servers)) : Cut(servers)[i] = servers[i]
  BY CutIs DEF IInv, LeaseTypeOK
<1>3. Len(answer) = Len(Cut(servers)) /\ \A i \in 1..Len(answer) : answer[i] = Cut(servers)[i]
  BY <1>1, <1>2
<1>4. QED
  BY <1>2, <1>3

\* A time is that of a lease of the time of the query, and a list of servers has only
\* servers that a lease came with, whenever the lease is renewed between two reads.
THEOREM QueriesAnswerTrue == LeaseSpec => []AnswerTrue
<1>1. IInv => AnswerTrue
  BY TimeTrue, ListTrue DEF AnswerTrue, IInv, DnsRead
<1>2. QED
  BY <1>1, InductiveInvariant, PTL
=============================================================================
