--------------------------- MODULE ApConfigProofs ---------------------------
(***************************************************************************)
(* Proofs about ApConfig, BandSteering and VapMap.  A parameter has        *)
(* several places, its lines in the file, what hostapd was given and what  *)
(* is on air, that the commands of a call visit one after another: what    *)
(* those that are left will write is compared with what is there.          *)
(***************************************************************************)
EXTENDS BandSteering, VapMap, FiniteSetTheorems, SequenceTheorems, TLAPS

-----------------------------------------------------------------------------
(***************************************************************************)
(* What a list of commands writes.                                         *)
(***************************************************************************)

\* What a command writes in a place that a parameter of an access point has: its lines,
\* what hostapd has of it, whether it is "fresh", that is on air as hostapd has it, and
\* whether it may differ.  The security mode is one for all parameters.
Effect(c, what, ap, name) ==
    CASE c.do = "file" /\ what = "file" /\ ap = c.ap /\ name = c.name -> <<c.to>>
      [] c.do = "replace" /\ what = "file" /\ ap = c.ap -> <<c.to[name]>>
      [] c.do = "sec" /\ what = "sec" /\ ap = c.ap -> <<c.to>>
      [] c.do = "told" /\ what = "told" /\ ap = c.ap /\ name = c.name -> <<c.to>>
      [] c.do = "told" /\ what = "fresh" /\ ap = c.ap /\ name = c.name -> <<"stale">>
      [] c.do = "restart" /\ what = "fresh" /\ ap = c.ap -> <<"fresh">>
      [] c.do = "return" /\ what = "open" /\ <<ap, name>> \in c.not -> <<"open">>
      [] c.do = "return" /\ what = "open" /\ <<ap, name>> \in c.given \ c.not -> <<"sure">>
      [] OTHER -> <<>>

Keeps(s, i, what, ap, name) == Effect(s[i], what, ap, name) = <<>>

IsLast(s, i, what, ap, name) ==
    ~Keeps(s, i, what, ap, name) /\ \A j \in DOMAIN s : j > i => Keeps(s, j, what, ap, name)

\* What commands s write in the end: what the last one writes that writes anything.
Net(s, what, ap, name) ==
    IF \A i \in DOMAIN s : Keeps(s, i, what, ap, name) THEN <<>>
    ELSE Effect(s[CHOOSE i \in DOMAIN s : IsLast(s, i, what, ap, name)], what, ap, name)

\* What two lists write, and the value after a list.
Then(first, second) == IF second = <<>> THEN first ELSE second
Over(was, written)  == IF written = <<>> THEN was ELSE written[1]

\* A set of places in a list has a last one.
LEMMA LastOf ==
    ASSUME NEW n \in Nat, NEW S \in SUBSET (1..n), S # {}
    PROVE  \E i \in S : \A j \in S : j <= i
<1> DEFINE tails == {i..n : i \in S}
<1>1. IsFiniteSet(1..n)
  BY FS_Interval
<1>2. IsWellFoundedOn(StrictSubsetOrdering(1..n), SUBSET (1..n))
  BY <1>1, FS_StrictSubsetOrderingWellFounded, FS_FiniteSubsetsOfFinite, Zenon
<1>3. tails \subseteq SUBSET (1..n) /\ tails # {}
  <2>1. \A i \in S : i..n \in SUBSET (1..n)
    OBVIOUS
  <2>2. QED
    BY <2>1, Zenon
<1>4. PICK t \in tails : \A g \in tails : <<g, t>> \notin StrictSubsetOrdering(1..n)
  <2> HIDE DEF tails
  <2>1. QED
    BY <1>2, <1>3, WFMin, Zenon
<1>5. PICK i \in S : t = i..n
  OBVIOUS
<1>6. ASSUME NEW j \in S, j > i
      PROVE  FALSE
  <2>1. j..n \in tails /\ j..n \subseteq i..n /\ j..n # i..n
    <3>1. i \in i..n /\ i \notin j..n /\ i \in Nat /\ j \in Nat
      BY <1>6
    <3>2. QED
      BY <1>6, <3>1
  <2>2. <<j..n, t>> \in StrictSubsetOrdering(1..n)
    BY <1>3, <1>5, <2>1 DEF StrictSubsetOrdering
  <2>3. QED
    BY <1>4, <2>1, <2>2
<1>7. QED
  BY <1>6

\* The last command that writes a value decides.
LEMMA NetIs ==
    ASSUME NEW S, NEW s \in Seq(S), NEW what, NEW ap, NEW name
    PROVE  /\ (\A i \in DOMAIN s : Keeps(s, i, what, ap, name)) => Net(s, what, ap, name) = <<>>
           /\ \A i \in DOMAIN s : IsLast(s, i, what, ap, name) =>
                 Net(s, what, ap, name) = Effect(s[i], what, ap, name)
           /\ (\A i \in DOMAIN s : Keeps(s, i, what, ap, name))
                 \/ \E i \in DOMAIN s : IsLast(s, i, what, ap, name)
<1>1. Len(s) \in Nat /\ DOMAIN s = 1..Len(s)
  OBVIOUS
<1>2. ASSUME NEW i \in DOMAIN s, IsLast(s, i, what, ap, name)
      PROVE  Net(s, what, ap, name) = Effect(s[i], what, ap, name)
  <2> DEFINE last == CHOOSE j \in DOMAIN s : IsLast(s, j, what, ap, name)
  <2>1. last \in DOMAIN s /\ IsLast(s, last, what, ap, name)
    BY <1>2, Zenon
  <2>2. last = i
    <3> HIDE DEF last
    <3>1. ~(last > i) /\ ~(i > last)
      BY <1>2, <2>1 DEF IsLast
    <3>2. QED
      BY <1>1, <2>1, <3>1
  <2>3. Net(s, what, ap, name) = Effect(s[last], what, ap, name)
    BY <1>2, Zenon DEF Net, IsLast
  <2>4. QED
    BY <2>2, <2>3, Zenon
<1>3. ASSUME NEW k \in DOMAIN s, ~Keeps(s, k, what, ap, name)
      PROVE  \E i \in DOMAIN s : IsLast(s, i, what, ap, name)
  <2> DEFINE writers == {i \in 1..Len(s) : ~Keeps(s, i, what, ap, name)}
  <2>1. writers \in SUBSET (1..Len(s)) /\ writers # {}
    BY <1>1, <1>3, Zenon
  <2>2. PICK i \in writers : \A j \in writers : j <= i
    <3> HIDE DEF writers
    <3>1. QED
      BY <1>1, <2>1, LastOf
  <2>3. IsLast(s, i, what, ap, name)
    BY <1>1, <2>2 DEF IsLast
  <2>4. QED
    BY <1>1, <2>3
<1>4. QED
  BY <1>2, <1>3 DEF Net

\* Of two lists, the second writes over what the first has written.
LEMMA NetBoth ==
    ASSUME NEW S, NEW s \in Seq(S), NEW t \in Seq(S), NEW what, NEW ap, NEW name
    PROVE  Net(s \o t, what, ap, name) = Then(Net(s, what, ap, name), Net(t, what, ap, name))
<1> DEFINE m == Len(s)
           n == Len(t)
           d == s \o t
<1>1. /\ d \in Seq(S) /\ m \in Nat /\ n \in Nat
      /\ DOMAIN s = 1..m /\ DOMAIN t = 1..n /\ DOMAIN d = 1..(m + n)
      /\ \A i \in 1..m : d[i] = s[i]
      /\ \A i \in 1..n : d[m + i] = t[i]
      /\ \A i \in 1..(m + n) : i \in 1..m \/ (i - m \in 1..n /\ m + (i - m) = i)
  OBVIOUS
<1> HIDE DEF m, n, d
<1>2. /\ \A i \in 1..m : Keeps(d, i, what, ap, name) <=> Keeps(s, i, what, ap, name)
      /\ \A i \in 1..n : Keeps(d, m + i, what, ap, name) <=> Keeps(t, i, what, ap, name)
  BY <1>1 DEF Keeps
<1>3. ASSUME NEW i \in 1..n, IsLast(t, i, what, ap, name)
      PROVE  Net(d, what, ap, name) = Net(t, what, ap, name) /\ Net(t, what, ap, name) # <<>>
  <2>1. m + i \in 1..(m + n) /\ ~Keeps(d, m + i, what, ap, name)
    BY <1>1, <1>2, <1>3 DEF IsLast
  <2>2. ASSUME NEW j \in 1..(m + n), j > m + i
        PROVE  Keeps(d, j, what, ap, name)
    <3>1. j - m \in 1..n /\ m + (j - m) = j /\ j - m > i
      BY <1>1, <2>2
    <3>2. Keeps(t, j - m, what, ap, name)
      BY <1>1, <1>3, <3>1 DEF IsLast
    <3>3. QED
      BY <1>2, <3>1, <3>2
  <2>3. IsLast(d, m + i, what, ap, name)
    BY <1>1, <2>1, <2>2 DEF IsLast
  <2>4. Net(d, what, ap, name) = Effect(d[m + i], what, ap, name)
    BY <1>1, <2>1, <2>3, NetIs
  <2>5. Net(t, what, ap, name) = Effect(t[i], what, ap, name)
    BY <1>1, <1>3, NetIs
  <2>6. Effect(t[i], what, ap, name) # <<>>
    BY <1>3 DEF IsLast, Keeps
  <2>7. QED
    BY <1>1, <2>4, <2>5, <2>6
<1>4. ASSUME \A i \in 1..n : Keeps(t, i, what, ap, name)
      PROVE  Net(d, what, ap, name) = Net(s, what, ap, name) /\ Net(t, what, ap, name) = <<>>
  <2>1. Net(t, what, ap, name) = <<>>
    BY <1>1, <1>4, NetIs
  <2>2. CASE \A i \in 1..m : Keeps(s, i, what, ap, name)
    <3>1. \A i \in 1..(m + n) : Keeps(d, i, what, ap, name)
      BY <1>1, <1>2, <1>4, <2>2
    <3>2. Net(d, what, ap, name) = <<>>
      BY <1>1, <3>1, NetIs
    <3>3. Net(s, what, ap, name) = <<>>
      BY <1>1, <2>2, NetIs
    <3>4. QED
      BY <2>1, <3>2, <3>3
  <2>3. ASSUME NEW i \in 1..m, IsLast(s, i, what, ap, name)
        PROVE  Net(d, what, ap, name) = Net(s, what, ap, name)
    <3>1. i \in 1..(m + n) /\ ~Keeps(d, i, what, ap, name)
      BY <1>1, <1>2, <2>3 DEF IsLast
    <3>2. \A j \in 1..(m + n) : j > i => Keeps(d, j, what, ap, name)
      BY <1>1, <1>2, <1>4, <2>3 DEF IsLast
    <3>3. IsLast(d, i, what, ap, name)
      BY <1>1, <3>1, <3>2 DEF IsLast
    <3>4. Net(d, what, ap, name) = Effect(d[i], what, ap, name)
      BY <1>1, <3>1, <3>3, NetIs
    <3>5. Net(s, what, ap, name) = Effect(s[i], what, ap, name)
      BY <1>1, <2>3, NetIs
    <3>6. QED
      BY <1>1, <3>4, <3>5
  <2>4. QED
    BY <1>1, <2>1, <2>2, <2>3, NetIs
<1>5. Net(d, what, ap, name) = Then(Net(s, what, ap, name), Net(t, what, ap, name))
  <2>1. (\A i \in 1..n : Keeps(t, i, what, ap, name)) \/ \E i \in 1..n : IsLast(t, i, what, ap, name)
    BY <1>1, NetIs
  <2>2. QED
    BY <1>3, <1>4, <2>1 DEF Then
<1>6. QED
  BY <1>5 DEF d

\* One command writes what it writes.
LEMMA NetOne ==
    ASSUME NEW c, NEW what, NEW ap, NEW name
    PROVE  Net(<<c>>, what, ap, name) = Effect(c, what, ap, name)
<1> DEFINE s == <<c>>
<1>1. s \in Seq({c}) /\ DOMAIN s = {1} /\ s[1] = c
  OBVIOUS
<1> HIDE DEF s
<1>2. ~Keeps(s, 1, what, ap, name) => IsLast(s, 1, what, ap, name)
  BY <1>1 DEF IsLast
<1>3. Keeps(s, 1, what, ap, name) <=> Effect(c, what, ap, name) = <<>>
  BY <1>1 DEF Keeps
<1>4. CASE Effect(c, what, ap, name) = <<>>
  <2>1. \A i \in DOMAIN s : Keeps(s, i, what, ap, name)
    BY <1>1, <1>3, <1>4
  <2>2. Net(s, what, ap, name) = <<>>
    BY <1>1, <2>1, NetIs
  <2>3. QED
    BY <1>4, <2>2 DEF s
<1>5. CASE Effect(c, what, ap, name) # <<>>
  <2>1. Net(s, what, ap, name) = Effect(s[1], what, ap, name)
    BY <1>1, <1>2, <1>3, <1>5, NetIs
  <2>2. QED
    BY <1>1, <2>1 DEF s
<1>6. QED
  BY <1>4, <1>5

\* No command writes anything.
LEMMA NetNone == ASSUME NEW what, NEW ap, NEW name PROVE Net(<<>>, what, ap, name) = <<>>
BY DEF Net


\* A list of two commands.
LEMMA TwoCommands == ASSUME NEW a, NEW b PROVE <<a, b>> = <<a>> \o <<b>>
<1> DEFINE s == <<a, b>>
           t == <<a>> \o <<b>>
<1>1. /\ s \in Seq({a, b}) /\ Len(s) = 2 /\ s[1] = a /\ s[2] = b
      /\ t \in Seq({a, b}) /\ Len(t) = 2 /\ t[1] = a /\ t[2] = b
  OBVIOUS
<1>2. s = t
  <2> HIDE DEF s, t
  <2>1. DOMAIN s = {1, 2} /\ DOMAIN t = {1, 2}
    BY <1>1
  <2>2. s = [i \in DOMAIN s |-> s[i]] /\ t = [i \in DOMAIN t |-> t[i]]
    BY <1>1
  <2>3. QED
    BY <1>1, <2>1, <2>2
<1>3. QED
  BY <1>2

\* A list that begins as one and ends as another.
LEMMA Joined ==
    ASSUME NEW S, NEW s \in Seq(S), NEW u \in Seq(S), NEW w \in Seq(S),
           Len(s) = Len(u) + Len(w),
           \A i \in 1..Len(u) : s[i] = u[i],
           \A i \in 1..Len(w) : s[Len(u) + i] = w[i]
    PROVE  s = u \o w
<1> DEFINE t == u \o w
<1>1. /\ t \in Seq(S) /\ Len(t) = Len(u) + Len(w)
      /\ \A i \in 1..Len(u) : t[i] = u[i]
      /\ \A i \in 1..Len(w) : t[Len(u) + i] = w[i]
  OBVIOUS
<1> HIDE DEF t
<1>2. \A i \in 1..Len(s) : i \in 1..Len(u) \/ (i - Len(u) \in 1..Len(w) /\ Len(u) + (i - Len(u)) = i)
  OBVIOUS
<1>3. \A i \in 1..Len(s) : s[i] = t[i]
  BY <1>1, <1>2
<1>4. s = [i \in 1..Len(s) |-> s[i]] /\ t = [i \in 1..Len(t) |-> t[i]]
  BY <1>1
<1>5. s = t
  BY <1>1, <1>3, <1>4
<1>6. QED
  BY <1>5 DEF t

\* A list of three commands.
LEMMA ThreeCommands == ASSUME NEW a, NEW b, NEW c PROVE <<a, b, c>> = (<<a>> \o <<b>>) \o <<c>>
<1>1. ASSUME NEW s, NEW u, NEW w, s = <<a, b, c>>, u = <<a, b>>, w = <<c>>
      PROVE  s = u \o w
  <2>1. s \in Seq({a, b, c}) /\ u \in Seq({a, b, c}) /\ w \in Seq({a, b, c})
    BY <1>1
  <2>2. /\ Len(s) = 3 /\ Len(u) = 2 /\ Len(w) = 1
        /\ s[1] = u[1] /\ s[2] = u[2] /\ s[3] = w[1]
    BY <1>1
  <2>3. \A i \in 1..Len(u) : s[i] = u[i]
    BY <2>2
  <2>4. \A i \in 1..Len(w) : s[Len(u) + i] = w[i]
    BY <2>2
  <2>5. Len(s) = Len(u) + Len(w)
    BY <2>2
  <2>6. QED
    BY <2>1, <2>3, <2>4, <2>5, Joined, Zenon
<1>2. QED
  BY <1>1, TwoCommands, Zenon

\* A list of four commands.
LEMMA FourCommands ==
    ASSUME NEW a, NEW b, NEW c, NEW d
    PROVE  <<a, b, c, d>> = (<<a>> \o <<b>>) \o <<c, d>>
<1>1. ASSUME NEW s, NEW u, NEW w, s = <<a, b, c, d>>, u = <<a, b>>, w = <<c, d>>
      PROVE  s = u \o w
  <2>1. s \in Seq({a, b, c, d}) /\ u \in Seq({a, b, c, d}) /\ w \in Seq({a, b, c, d})
    BY <1>1
  <2>2. /\ Len(s) = 4 /\ Len(u) = 2 /\ Len(w) = 2
        /\ s[1] = u[1] /\ s[2] = u[2] /\ s[3] = w[1] /\ s[4] = w[2]
    BY <1>1
  <2>3. \A i \in 1..Len(u) : s[i] = u[i]
    BY <2>2
  <2>4. \A i \in 1..Len(w) : s[Len(u) + i] = w[i]
    BY <2>2
  <2>5. Len(s) = Len(u) + Len(w)
    BY <2>2
  <2>6. QED
    BY <2>1, <2>3, <2>4, <2>5, Joined, Zenon
<1>2. QED
  BY <1>1, TwoCommands, Zenon

-----------------------------------------------------------------------------
(***************************************************************************)
(* What the calls write.                                                   *)
(***************************************************************************)

Beacon == {"None", "WPA", "11i", "WPAand11i"}

\* What a line holds: any text, and the values that the calls put together.
Written == Junk \cup Encryption \cup Method \cup
    {"", "0", "1", "2", "3", "5", "10", "75", "1234", "5678", "WPA-PSK", "WPA-EAP"}
Text  == STRING \cup Written
Lines == Seq(Text)

\* Parameters with one line in every file.
One == SedName \ {"config_methods"}

Command ==
    [do : {"file"}, ap : Ap, name : Name, to : Lines] \cup
    [do : {"replace"}, ap : Ap, to : [Name -> Lines]] \cup
    [do : {"sec"}, ap : Ap, to : Beacon] \cup
    [do : {"told"}, ap : Ap, name : Name, to : Text] \cup
    [do : {"restart"}, ap : Ap] \cup
    [do : {"return"}, given : SUBSET (Ap \X Name), not : SUBSET (Ap \X Name)]

\* Commands that are about one access point and leave its file with those lines.
CommandOf(ap) ==
    {c \in Command :
        /\ c.do # "replace"
        /\ c.do = "file" /\ c.name \in One => Len(c.to) = 1
        /\ c.do # "return" => c.ap = ap
        /\ c.do = "return" => \A an \in c.given \cup c.not : an[1] = ap}

\* A list of commands about an access point, and what it writes for a parameter: lines f,
\* security mode m, what hostapd is given t, what is on air r, and a note o.
Writes(s, ap, name, f, m, t, r, o) ==
    /\ s \in Seq(CommandOf(ap))
    /\ Net(s, "file", ap, name) = f /\ Net(s, "sec", ap, name) = m
    /\ Net(s, "told", ap, name) = t /\ Net(s, "fresh", ap, name) = r
    /\ Net(s, "open", ap, name) = o

\* Two lists, one after the other.
LEMMA WritesBoth ==
    ASSUME NEW ap, NEW name, NEW s, NEW u,
           NEW f1, NEW m1, NEW t1, NEW r1, NEW o1, Writes(s, ap, name, f1, m1, t1, r1, o1),
           NEW f2, NEW m2, NEW t2, NEW r2, NEW o2, Writes(u, ap, name, f2, m2, t2, r2, o2)
    PROVE  Writes(s \o u, ap, name, Then(f1, f2), Then(m1, m2), Then(t1, t2),
                  Then(r1, r2), Then(o1, o2))
<1>1. s \in Seq(CommandOf(ap)) /\ u \in Seq(CommandOf(ap))
  BY DEF Writes
<1>2. s \o u \in Seq(CommandOf(ap))
  BY <1>1
<1>3. \A what : Net(s \o u, what, ap, name)
                = Then(Net(s, what, ap, name), Net(u, what, ap, name))
  <2>1. ASSUME NEW what
        PROVE  Net(s \o u, what, ap, name)
                = Then(Net(s, what, ap, name), Net(u, what, ap, name))
    BY <1>1, NetBoth
  <2>2. QED
    BY <2>1
<1>4. QED
  BY <1>2, <1>3 DEF Writes

\* One command.
LEMMA WritesOne ==
    ASSUME NEW ap, NEW name, NEW c \in CommandOf(ap)
    PROVE  Writes(<<c>>, ap, name, Effect(c, "file", ap, name), Effect(c, "sec", ap, name),
                  Effect(c, "told", ap, name), Effect(c, "fresh", ap, name),
                  Effect(c, "open", ap, name))
<1>1. <<c>> \in Seq(CommandOf(ap))
  OBVIOUS
<1>2. QED
  BY <1>1, NetOne DEF Writes

\* No command.
LEMMA WritesNone ==
    ASSUME NEW ap, NEW name
    PROVE  Writes(<<>>, ap, name, <<>>, <<>>, <<>>, <<>>, <<>>)
BY NetNone DEF Writes

\* A value for one parameter.
For(name, n, v) == IF name = n THEN <<v>> ELSE <<>>

LEMMA WritesFile ==
    ASSUME NEW ap \in Ap, NEW name, NEW n \in Name, NEW lines \in Lines,
           n \in One => Len(lines) = 1
    PROVE  Writes(<<FileLines(ap, n, lines)>>, ap, name,
                  For(name, n, lines), <<>>, <<>>, <<>>, <<>>)
<1> DEFINE c == FileLines(ap, n, lines)
<1>1. c \in Command /\ c.do = "file" /\ c.ap = ap /\ c.name = n /\ c.to = lines
  BY DEF FileLines, Command
<1> HIDE DEF c
<1>2. c \in CommandOf(ap)
  BY <1>1 DEF CommandOf
<1>3. /\ Effect(c, "file", ap, name) = For(name, n, lines)
      /\ Effect(c, "sec", ap, name) = <<>> /\ Effect(c, "told", ap, name) = <<>>
      /\ Effect(c, "fresh", ap, name) = <<>> /\ Effect(c, "open", ap, name) = <<>>
  BY <1>1 DEF Effect, For
<1>4. Writes(<<c>>, ap, name, For(name, n, lines), <<>>, <<>>, <<>>, <<>>)
  BY <1>2, <1>3, WritesOne
<1>5. QED
  BY <1>4 DEF c

LEMMA WritesMode ==
    ASSUME NEW ap \in Ap, NEW name, NEW beacon \in Beacon
    PROVE  Writes(<<WriteSecMode(ap, beacon)>>, ap, name,
                  <<>>, <<beacon>>, <<>>, <<>>, <<>>)
<1> DEFINE c == WriteSecMode(ap, beacon)
<1>1. c \in Command /\ c.do = "sec" /\ c.ap = ap /\ c.to = beacon
  BY DEF WriteSecMode, Command
<1> HIDE DEF c
<1>2. c \in CommandOf(ap)
  BY <1>1 DEF CommandOf
<1>3. /\ Effect(c, "file", ap, name) = <<>>
      /\ Effect(c, "sec", ap, name) = <<beacon>> /\ Effect(c, "told", ap, name) = <<>>
      /\ Effect(c, "fresh", ap, name) = <<>> /\ Effect(c, "open", ap, name) = <<>>
  BY <1>1 DEF Effect
<1>4. Writes(<<c>>, ap, name, <<>>, <<beacon>>, <<>>, <<>>, <<>>)
  BY <1>2, <1>3, WritesOne
<1>5. QED
  BY <1>4 DEF c

LEMMA WritesTold ==
    ASSUME NEW ap \in Ap, NEW name, NEW n \in Name, NEW v \in Text
    PROVE  Writes(<<Told(ap, n, v)>>, ap, name,
                  <<>>, <<>>, For(name, n, v), For(name, n, "stale"), <<>>)
<1> DEFINE c == Told(ap, n, v)
<1>1. c \in Command /\ c.do = "told" /\ c.ap = ap /\ c.name = n /\ c.to = v
  BY DEF Told, Command
<1> HIDE DEF c
<1>2. c \in CommandOf(ap)
  BY <1>1 DEF CommandOf
<1>3. /\ Effect(c, "file", ap, name) = <<>>
      /\ Effect(c, "sec", ap, name) = <<>> /\ Effect(c, "told", ap, name) = For(name, n, v)
      /\ Effect(c, "fresh", ap, name) = For(name, n, "stale")
      /\ Effect(c, "open", ap, name) = <<>>
  BY <1>1 DEF Effect, For
<1>4. Writes(<<c>>, ap, name, <<>>, <<>>, For(name, n, v), For(name, n, "stale"), <<>>)
  BY <1>2, <1>3, WritesOne
<1>5. QED
  BY <1>4 DEF c

LEMMA WritesRestart ==
    ASSUME NEW ap \in Ap, NEW name
    PROVE  Writes(<<Restart(ap)>>, ap, name, <<>>, <<>>, <<>>, <<"fresh">>, <<>>)
<1> DEFINE c == Restart(ap)
<1>1. c \in Command /\ c.do = "restart" /\ c.ap = ap
  BY DEF Restart, Command
<1> HIDE DEF c
<1>2. c \in CommandOf(ap)
  BY <1>1 DEF CommandOf
<1>3. /\ Effect(c, "file", ap, name) = <<>>
      /\ Effect(c, "sec", ap, name) = <<>> /\ Effect(c, "told", ap, name) = <<>>
      /\ Effect(c, "fresh", ap, name) = <<"fresh">>
      /\ Effect(c, "open", ap, name) = <<>>
  BY <1>1 DEF Effect
<1>4. Writes(<<c>>, ap, name, <<>>, <<>>, <<>>, <<"fresh">>, <<>>)
  BY <1>2, <1>3, WritesOne
<1>5. QED
  BY <1>4 DEF c

\* The note that the end of a call makes.
Noted(name, given, not) ==
    IF name \in not THEN <<"open">> ELSE IF name \in given THEN <<"sure">> ELSE <<>>

LEMMA WritesReturn ==
    ASSUME NEW ap \in Ap, NEW name, NEW given \in SUBSET Name, NEW not \in SUBSET Name
    PROVE  Writes(<<Return(ap, given, not)>>, ap, name,
                  <<>>, <<>>, <<>>, <<>>, Noted(name, given, not))
<1> DEFINE c == Return(ap, given, not)
<1>1. /\ c.do = "return" /\ c.given = {ap} \X given /\ c.not = {ap} \X not
      /\ c.given \in SUBSET (Ap \X Name) /\ c.not \in SUBSET (Ap \X Name)
  BY DEF Return
<1>2. c \in Command
  BY <1>1 DEF Command, Return
<1> HIDE DEF c
<1>3. \A an \in c.given \cup c.not : an[1] = ap
  BY <1>1
<1>4. c \in CommandOf(ap)
  BY <1>1, <1>2, <1>3 DEF CommandOf
<1>5. /\ <<ap, name>> \in c.given <=> name \in given
      /\ <<ap, name>> \in c.not <=> name \in not
  BY <1>1
<1>6. /\ Effect(c, "file", ap, name) = <<>>
      /\ Effect(c, "sec", ap, name) = <<>> /\ Effect(c, "told", ap, name) = <<>>
      /\ Effect(c, "fresh", ap, name) = <<>>
      /\ Effect(c, "open", ap, name) = Noted(name, given, not)
  BY <1>1, <1>5 DEF Effect, Noted
<1>7. Writes(<<c>>, ap, name, <<>>, <<>>, <<>>, <<>>, Noted(name, given, not))
  BY <1>4, <1>6, WritesOne
<1>8. QED
  BY <1>7 DEF c

-----------------------------------------------------------------------------
(* Lists of commands that calls have in common.                            *)

\* The files have the lines that are replaced in place.
Filed ==
    /\ file \in [Ap -> [Name -> Lines]]
    /\ \A ap \in Ap, n \in One : Len(file[ap][n]) = 1

LEMMA SingleLine ==
    ASSUME NEW S, NEW v \in S PROVE <<v>> \in Seq(S) /\ Len(<<v>>) = 1
OBVIOUS

\* The lines that sed replaces, and the value that is read and loaded.
LEMMA OneLine ==
    ASSUME NEW s \in Lines, Len(s) = 1, NEW v
    PROVE  [i \in DOMAIN s |-> v] = <<v>>
<1> DEFINE u == <<v>>
<1>1. DOMAIN s = {1} /\ DOMAIN u = {1} /\ u[1] = v /\ u = [i \in DOMAIN u |-> u[i]]
  BY DEF Lines
<1>2. [i \in DOMAIN s |-> v] = u
  <2> HIDE DEF u
  <2>1. QED
    BY <1>1
<1>3. QED
  BY <1>2

LEMMA WritesHostapd ==
    ASSUME Filed, NEW ap \in Ap, NEW name, NEW n \in One, NEW v \in Text
    PROVE  Writes(<<HostapdWrite(ap, n, v)>>, ap, name,
                  For(name, n, <<v>>), <<>>, <<>>, <<>>, <<>>)
<1>1. file[ap][n] \in Lines /\ Len(file[ap][n]) = 1 /\ n \in Name
  BY DEF Filed, One, Name
<1>2. HostapdWrite(ap, n, v) = FileLines(ap, n, <<v>>)
  BY <1>1, OneLine DEF HostapdWrite
<1>3. <<v>> \in Lines /\ Len(<<v>>) = 1
  BY SingleLine, Zenon DEF Lines
<1>4. QED
  BY <1>1, <1>2, <1>3, WritesFile

\* A line in the file, hostapd told, and the interface restarted.
LEMMA WritesSetting ==
    ASSUME NEW ap \in Ap, NEW name, NEW n \in Name, NEW c, NEW lines, NEW v \in Text,
           Writes(<<c>>, ap, name, For(name, n, lines), <<>>, <<>>, <<>>, <<>>)
    PROVE  Writes(<<c, Told(ap, n, v), Restart(ap)>>, ap, name,
                  For(name, n, lines), <<>>, For(name, n, v), <<"fresh">>, <<>>)
<1>1. Writes(<<Told(ap, n, v)>>, ap, name,
             <<>>, <<>>, For(name, n, v), For(name, n, "stale"), <<>>)
  BY WritesTold
<1>2. Writes(<<Restart(ap)>>, ap, name, <<>>, <<>>, <<>>, <<"fresh">>, <<>>)
  BY WritesRestart
<1>3. Writes((<<c>> \o <<Told(ap, n, v)>>) \o <<Restart(ap)>>, ap, name,
             Then(Then(For(name, n, lines), <<>>), <<>>), Then(Then(<<>>, <<>>), <<>>),
             Then(Then(<<>>, For(name, n, v)), <<>>),
             Then(Then(<<>>, For(name, n, "stale")), <<"fresh">>),
             Then(Then(<<>>, <<>>), <<>>))
  BY <1>1, <1>2, WritesBoth
<1>4. /\ \A a : Then(a, <<>>) = a /\ Then(<<>>, a) = a
      /\ \A a : Then(a, <<"fresh">>) = <<"fresh">>
  BY DEF Then
<1>5. Writes((<<c>> \o <<Told(ap, n, v)>>) \o <<Restart(ap)>>, ap, name,
             For(name, n, lines), <<>>, For(name, n, v), <<"fresh">>, <<>>)
  BY <1>3, <1>4
<1>6. <<c, Told(ap, n, v), Restart(ap)>> = (<<c>> \o <<Told(ap, n, v)>>) \o <<Restart(ap)>>
  <2>1. PICK b, d : b = Told(ap, n, v) /\ d = Restart(ap)
    OBVIOUS
  <2>2. <<c, b, d>> = (<<c>> \o <<b>>) \o <<d>>
    BY ThreeCommands
  <2>3. QED
    BY <2>1, <2>2, Zenon
<1>7. QED
  BY <1>5, <1>6, Zenon

\* The same with sed.
LEMMA WritesSedSetting ==
    ASSUME Filed, NEW ap \in Ap, NEW name, NEW n \in One, NEW v \in Text
    PROVE  Writes(<<HostapdWrite(ap, n, v), Told(ap, n, v), Restart(ap)>>, ap, name,
                  For(name, n, <<v>>), <<>>, For(name, n, v), <<"fresh">>, <<>>)
<1>1. n \in Name
  BY DEF One, Name
<1>2. Writes(<<HostapdWrite(ap, n, v)>>, ap, name, For(name, n, <<v>>), <<>>, <<>>, <<>>, <<>>)
  BY WritesHostapd
<1>3. QED
  BY <1>1, <1>2, WritesSetting

\* The name, and the key again.
LEMMA WritesSsid ==
    ASSUME Filed, NEW ap \in Ap, NEW name, NEW v \in Text, NEW key \in Text
    PROVE  Writes(SsidCommands(ap, v, key), ap, name,
                  For(name, "ssid", <<v>>), <<>>,
                  Then(For(name, "ssid", v), For(name, "wpa_passphrase", key)),
                  <<"fresh">>, <<>>)
<1>1. "ssid" \in One /\ "ssid" \in Name /\ "wpa_passphrase" \in Name
  BY DEF One, Name, SedName
<1>2. Writes(<<HostapdWrite(ap, "ssid", v)>>, ap, name,
             For(name, "ssid", <<v>>), <<>>, <<>>, <<>>, <<>>)
  BY <1>1, WritesHostapd
<1>3. Writes(<<Told(ap, "ssid", v)>>, ap, name,
             <<>>, <<>>, For(name, "ssid", v), For(name, "ssid", "stale"), <<>>)
  BY <1>1, WritesTold
<1>4. Writes(<<Told(ap, "wpa_passphrase", key), Restart(ap)>>, ap, name, <<>>, <<>>,
             For(name, "wpa_passphrase", key), <<"fresh">>, <<>>)
  <2>1. Writes(<<Told(ap, "wpa_passphrase", key)>>, ap, name, <<>>, <<>>,
               For(name, "wpa_passphrase", key), For(name, "wpa_passphrase", "stale"), <<>>)
    BY <1>1, WritesTold
  <2>2. Writes(<<Restart(ap)>>, ap, name, <<>>, <<>>, <<>>, <<"fresh">>, <<>>)
    BY WritesRestart
  <2>3. Writes(<<Told(ap, "wpa_passphrase", key)>> \o <<Restart(ap)>>, ap, name,
               Then(<<>>, <<>>), Then(<<>>, <<>>),
               Then(For(name, "wpa_passphrase", key), <<>>),
               Then(For(name, "wpa_passphrase", "stale"), <<"fresh">>), Then(<<>>, <<>>))
    BY <2>1, <2>2, WritesBoth
  <2>4. Writes(<<Told(ap, "wpa_passphrase", key)>> \o <<Restart(ap)>>, ap, name, <<>>, <<>>,
               For(name, "wpa_passphrase", key), <<"fresh">>, <<>>)
    BY <2>3 DEF Then
  <2>5. QED
    BY <2>4, TwoCommands
<1>5. Writes((<<HostapdWrite(ap, "ssid", v)>> \o <<Told(ap, "ssid", v)>>)
              \o <<Told(ap, "wpa_passphrase", key), Restart(ap)>>, ap, name,
             Then(Then(For(name, "ssid", <<v>>), <<>>), <<>>), Then(Then(<<>>, <<>>), <<>>),
             Then(Then(<<>>, For(name, "ssid", v)), For(name, "wpa_passphrase", key)),
             Then(Then(<<>>, For(name, "ssid", "stale")), <<"fresh">>),
             Then(Then(<<>>, <<>>), <<>>))
  BY <1>2, <1>3, <1>4, WritesBoth
<1>6. Writes((<<HostapdWrite(ap, "ssid", v)>> \o <<Told(ap, "ssid", v)>>)
              \o <<Told(ap, "wpa_passphrase", key), Restart(ap)>>, ap, name,
             For(name, "ssid", <<v>>), <<>>,
             Then(For(name, "ssid", v), For(name, "wpa_passphrase", key)),
             <<"fresh">>, <<>>)
  <2>1. /\ \A a : Then(a, <<>>) = a /\ Then(<<>>, a) = a
        /\ \A a : Then(a, <<"fresh">>) = <<"fresh">>
    BY DEF Then
  <2>2. QED
    BY <1>5, <2>1
<1>7. SsidCommands(ap, v, key) = (<<HostapdWrite(ap, "ssid", v)>> \o <<Told(ap, "ssid", v)>>)
              \o <<Told(ap, "wpa_passphrase", key), Restart(ap)>>
  BY FourCommands DEF SsidCommands
<1>8. QED
  BY <1>6, <1>7, Zenon

\* Commands that are given under a condition.
LEMMA WritesWhen ==
    ASSUME NEW condition \in BOOLEAN, NEW ap, NEW name, NEW s,
           NEW f, NEW m, NEW t, NEW r, NEW o,
           condition => Writes(s, ap, name, f, m, t, r, o)
    PROVE  Writes(When(condition, s), ap, name,
                  IF condition THEN f ELSE <<>>, IF condition THEN m ELSE <<>>,
                  IF condition THEN t ELSE <<>>, IF condition THEN r ELSE <<>>,
                  IF condition THEN o ELSE <<>>)
BY WritesNone DEF When

\* Two parameters told.
LEMMA WritesTwoTold ==
    ASSUME NEW ap \in Ap, NEW name, NEW n \in Name, NEW v \in Text,
           NEW q \in Name, NEW w \in Text
    PROVE  Writes(<<Told(ap, n, v), Told(ap, q, w)>>, ap, name, <<>>, <<>>,
                  Then(For(name, n, v), For(name, q, w)),
                  Then(For(name, n, "stale"), For(name, q, "stale")), <<>>)
<1>1. Writes(<<Told(ap, n, v)>>, ap, name,
             <<>>, <<>>, For(name, n, v), For(name, n, "stale"), <<>>)
  BY WritesTold
<1>2. Writes(<<Told(ap, q, w)>>, ap, name,
             <<>>, <<>>, For(name, q, w), For(name, q, "stale"), <<>>)
  BY WritesTold
<1>3. Writes(<<Told(ap, n, v)>> \o <<Told(ap, q, w)>>, ap, name,
             Then(<<>>, <<>>), Then(<<>>, <<>>), Then(For(name, n, v), For(name, q, w)),
             Then(For(name, n, "stale"), For(name, q, "stale")), Then(<<>>, <<>>))
  BY <1>1, <1>2, WritesBoth
<1>4. Then(<<>>, <<>>) = <<>>
  BY DEF Then
<1>5. <<Told(ap, n, v), Told(ap, q, w)>> = <<Told(ap, n, v)>> \o <<Told(ap, q, w)>>
  <2>1. PICK b, d : b = Told(ap, n, v) /\ d = Told(ap, q, w)
    OBVIOUS
  <2>2. <<b, d>> = <<b>> \o <<d>>
    BY TwoCommands
  <2>3. QED
    BY <2>1, <2>2, Zenon
<1>6. QED
  BY <1>3, <1>4, <1>5, Zenon

\* What hostapd is told with a mode.
ModeTold(beacon, auth, key, name) ==
    IF beacon = "None" THEN For(name, "wpa", "0")
    ELSE CASE name = "wpa" /\ auth = "PSK" -> <<WpaTold(beacon)>>
           [] name \in {"wpa_pairwise", "rsn_pairwise"} -> <<"CCMP">>
           [] name = "wpa_passphrase" -> <<key>>
           [] name = "wpa_key_mgmt" -> <<"WPA-PSK">>
           [] OTHER -> <<>>

LEMMA WritesTellMode ==
    ASSUME NEW ap \in Ap, NEW name, NEW mode, NEW beacon \in Beacon, NEW auth,
           NEW key \in Text, mode.beacon = beacon, mode.auth = auth
    PROVE  Writes(TellMode(ap, mode, key), ap, name,
                  <<>>, <<>>, ModeTold(beacon, auth, key, name), <<"fresh">>, <<>>)
<1>1. /\ {"wpa", "wpa_pairwise", "rsn_pairwise", "wpa_passphrase", "wpa_key_mgmt"} \subseteq Name
      /\ WpaTold(beacon) \in Text /\ {"0", "CCMP", "WPA-PSK"} \subseteq Text
  <2>1. WpaTold(beacon) \in {"0", "1", "2", "3"}
    BY DEF WpaTold, Beacon
  <2>2. {"0", "1", "2", "3", "CCMP", "WPA-PSK"} \subseteq Text
    BY DEF Text, Written, Encryption
  <2>3. {"wpa", "wpa_pairwise", "rsn_pairwise", "wpa_passphrase", "wpa_key_mgmt"} \subseteq Name
    BY DEF Name, SedName
  <2>4. QED
    BY <2>1, <2>2, <2>3
<1>2. /\ \A a : Then(a, <<>>) = a /\ Then(<<>>, a) = a
      /\ \A a : Then(a, <<"fresh">>) = <<"fresh">>
  BY DEF Then
<1>3. Writes(<<Restart(ap)>>, ap, name, <<>>, <<>>, <<>>, <<"fresh">>, <<>>)
  BY WritesRestart
<1>4. ASSUME NEW s, NEW t, NEW r, Writes(s, ap, name, <<>>, <<>>, t, r, <<>>)
      PROVE  Writes(s \o <<Restart(ap)>>, ap, name, <<>>, <<>>, t, <<"fresh">>, <<>>)
  <2>1. Writes(s \o <<Restart(ap)>>, ap, name, Then(<<>>, <<>>), Then(<<>>, <<>>),
               Then(t, <<>>), Then(r, <<"fresh">>), Then(<<>>, <<>>))
    BY <1>3, <1>4, WritesBoth
  <2>2. QED
    BY <1>2, <2>1
<1>5. CASE beacon = "None"
  <2>1. TellMode(ap, mode, key) = <<Told(ap, "wpa", "0")>> \o <<Restart(ap)>>
    BY <1>5, Zenon DEF TellMode
  <2>2. Writes(<<Told(ap, "wpa", "0")>>, ap, name,
               <<>>, <<>>, For(name, "wpa", "0"), For(name, "wpa", "stale"), <<>>)
    BY <1>1, WritesTold
  <2>3. ModeTold(beacon, auth, key, name) = For(name, "wpa", "0")
    BY <1>5 DEF ModeTold
  <2>4. QED
    BY <1>4, <2>1, <2>2, <2>3, Zenon
<1>6. CASE beacon # "None"
  <2>0. PICK psk \in BOOLEAN : psk = (auth = "PSK")
    OBVIOUS
  <2>1. PICK c, d, u :
          /\ psk = (auth = "PSK") /\ c = When(psk, <<Told(ap, "wpa", WpaTold(beacon))>>)
          /\ d = <<Told(ap, "wpa_pairwise", "CCMP"), Told(ap, "rsn_pairwise", "CCMP")>>
          /\ u = TellKey(ap, key)
    BY <2>0
  <2>2. TellMode(ap, mode, key) = ((c \o d) \o u) \o <<Restart(ap)>>
    BY <1>6, <2>1, Zenon DEF TellMode
  <2>3. Writes(<<Told(ap, "wpa", WpaTold(beacon))>>, ap, name, <<>>, <<>>,
               For(name, "wpa", WpaTold(beacon)), For(name, "wpa", "stale"), <<>>)
    BY <1>1, WritesTold
  <2>4. Writes(c, ap, name, <<>>, <<>>,
               IF psk THEN For(name, "wpa", WpaTold(beacon)) ELSE <<>>,
               IF psk THEN For(name, "wpa", "stale") ELSE <<>>, <<>>)
    <3>1. Writes(c, ap, name, IF psk THEN <<>> ELSE <<>>, IF psk THEN <<>> ELSE <<>>,
                 IF psk THEN For(name, "wpa", WpaTold(beacon)) ELSE <<>>,
                 IF psk THEN For(name, "wpa", "stale") ELSE <<>>,
                 IF psk THEN <<>> ELSE <<>>)
      BY <2>1, <2>3, WritesWhen
    <3>2. QED
      BY <3>1
  <2>5. Writes(d, ap, name, <<>>, <<>>,
               Then(For(name, "wpa_pairwise", "CCMP"), For(name, "rsn_pairwise", "CCMP")),
               Then(For(name, "wpa_pairwise", "stale"), For(name, "rsn_pairwise", "stale")),
               <<>>)
    BY <1>1, <2>1, WritesTwoTold
  <2>6. Writes(u, ap, name, <<>>, <<>>,
               Then(For(name, "wpa_passphrase", key), For(name, "wpa_key_mgmt", "WPA-PSK")),
               Then(For(name, "wpa_passphrase", "stale"), For(name, "wpa_key_mgmt", "stale")),
               <<>>)
    BY <1>1, <2>1, WritesTwoTold DEF TellKey
  <2>7. \E t, r : /\ Writes((c \o d) \o u, ap, name, <<>>, <<>>, t, r, <<>>)
                  /\ t = ModeTold(beacon, auth, key, name)
    <3>1. PICK tc, rc, td, rd, tu, ru :
            /\ tc = IF psk THEN For(name, "wpa", WpaTold(beacon)) ELSE <<>>
            /\ rc = IF psk THEN For(name, "wpa", "stale") ELSE <<>>
            /\ td = Then(For(name, "wpa_pairwise", "CCMP"), For(name, "rsn_pairwise", "CCMP"))
            /\ rd = Then(For(name, "wpa_pairwise", "stale"), For(name, "rsn_pairwise", "stale"))
            /\ tu = Then(For(name, "wpa_passphrase", key), For(name, "wpa_key_mgmt", "WPA-PSK"))
            /\ ru = Then(For(name, "wpa_passphrase", "stale"), For(name, "wpa_key_mgmt", "stale"))
      OBVIOUS
    <3>2. /\ Writes(c, ap, name, <<>>, <<>>, tc, rc, <<>>)
          /\ Writes(d, ap, name, <<>>, <<>>, td, rd, <<>>)
          /\ Writes(u, ap, name, <<>>, <<>>, tu, ru, <<>>)
      BY <2>4, <2>5, <2>6, <3>1, Zenon
    <3>3. Writes((c \o d) \o u, ap, name, Then(Then(<<>>, <<>>), <<>>),
                 Then(Then(<<>>, <<>>), <<>>), Then(Then(tc, td), tu),
                 Then(Then(rc, rd), ru), Then(Then(<<>>, <<>>), <<>>))
      BY <3>2, WritesBoth
    <3>4. Writes((c \o d) \o u, ap, name, <<>>, <<>>, Then(Then(tc, td), tu),
                 Then(Then(rc, rd), ru), <<>>)
      BY <1>2, <3>3
    <3>5. Then(Then(tc, td), tu) = ModeTold(beacon, auth, key, name)
      BY <1>6, <2>1, <3>1 DEF Then, For, ModeTold
    <3>6. QED
      BY <3>4, <3>5, Zenon
  <2>8. QED
    BY <1>4, <2>2, <2>7, Zenon
<1>7. QED
  BY <1>5, <1>6

\* The beacon type.
WpaLine(ap, beacon, junk) == <<WpaWritten(ap, beacon, junk)>>

LEMMA WritesBeacon ==
    ASSUME Filed, NEW ap \in Ap, NEW name, NEW beacon \in Beacon, NEW key \in Text,
           NEW junk \in Text
    PROVE  Writes(BeaconCommands(ap, beacon, key, junk), ap, name,
                  For(name, "wpa", WpaLine(ap, beacon, junk)), <<beacon>>,
                  ModeTold(beacon, "PSK", key, name), <<"fresh">>, <<>>)
<1>1. WpaWritten(ap, beacon, junk) \in Text /\ "wpa" \in One
  BY DEF WpaWritten, Beacon, One, SedName, Text, Written
<1>2. PICK c, d, u, mode :
        /\ c = <<WriteSecMode(ap, beacon)>>
        /\ d = <<HostapdWrite(ap, "wpa", WpaWritten(ap, beacon, junk))>>
        /\ mode = [beacon |-> beacon, auth |-> "PSK"] /\ u = TellMode(ap, mode, key)
  OBVIOUS
<1>3. BeaconCommands(ap, beacon, key, junk) = (c \o d) \o u
  <2>1. PICK x, y : /\ x = WriteSecMode(ap, beacon)
                    /\ y = HostapdWrite(ap, "wpa", WpaWritten(ap, beacon, junk))
    OBVIOUS
  <2>2. <<x, y>> = <<x>> \o <<y>>
    BY TwoCommands
  <2>3. QED
    BY <1>2, <2>1, <2>2, Zenon DEF BeaconCommands
<1>4. Writes(c, ap, name, <<>>, <<beacon>>, <<>>, <<>>, <<>>)
  BY <1>2, WritesMode
<1>5. Writes(d, ap, name, For(name, "wpa", WpaLine(ap, beacon, junk)),
             <<>>, <<>>, <<>>, <<>>)
  BY <1>1, <1>2, WritesHostapd DEF WpaLine
<1>6. Writes(u, ap, name, <<>>, <<>>, ModeTold(beacon, "PSK", key, name), <<"fresh">>, <<>>)
  <2>1. mode.beacon = beacon /\ mode.auth = "PSK"
    BY <1>2
  <2>2. QED
    BY <1>2, <2>1, WritesTellMode
<1>7. PICK f, t : f = For(name, "wpa", WpaLine(ap, beacon, junk))
                  /\ t = ModeTold(beacon, "PSK", key, name)
  OBVIOUS
<1>8. Writes((c \o d) \o u, ap, name, Then(Then(<<>>, f), <<>>), Then(Then(<<beacon>>, <<>>), <<>>),
             Then(Then(<<>>, <<>>), t), Then(Then(<<>>, <<>>), <<"fresh">>),
             Then(Then(<<>>, <<>>), <<>>))
  <2>1. /\ Writes(d, ap, name, f, <<>>, <<>>, <<>>, <<>>)
        /\ Writes(u, ap, name, <<>>, <<>>, t, <<"fresh">>, <<>>)
    BY <1>5, <1>6, <1>7, Zenon
  <2>2. QED
    BY <1>4, <2>1, WritesBoth
<1>9. \A a : Then(a, <<>>) = a /\ Then(<<>>, a) = a
  BY DEF Then
<1>10. Writes((c \o d) \o u, ap, name, f, <<beacon>>, t, <<"fresh">>, <<>>)
  BY <1>8, <1>9
<1>11. QED
  BY <1>3, <1>7, <1>10, Zenon

\* The key management.
KeyLine(auth, name) ==
    IF auth = "None" THEN <<>>
    ELSE For(name, "wpa_key_mgmt", <<IF auth = "EAP" THEN "WPA-EAP" ELSE "WPA-PSK">>)

LEMMA WritesAuth ==
    ASSUME Filed, NEW ap \in Ap, NEW name, NEW auth
    PROVE  Writes(AuthCommands(ap, auth), ap, name,
                  KeyLine(auth, name), <<>>, <<>>, <<>>, <<>>)
<1>1. PICK v : v = IF auth = "EAP" THEN "WPA-EAP" ELSE "WPA-PSK"
  OBVIOUS
<1>2. v \in Text /\ "wpa_key_mgmt" \in One
  BY <1>1 DEF Text, Written, One, SedName
<1>3. Writes(<<HostapdWrite(ap, "wpa_key_mgmt", v)>>, ap, name,
             For(name, "wpa_key_mgmt", <<v>>), <<>>, <<>>, <<>>, <<>>)
  BY <1>2, WritesHostapd
<1>4. CASE auth = "None"
  <2>1. AuthCommands(ap, auth) = <<>> /\ KeyLine(auth, name) = <<>>
    BY <1>4 DEF AuthCommands, When, KeyLine
  <2>2. QED
    BY <2>1, WritesNone
<1>5. CASE auth # "None"
  <2>1. AuthCommands(ap, auth) = <<HostapdWrite(ap, "wpa_key_mgmt", v)>>
    BY <1>1, <1>5, Zenon DEF AuthCommands, When
  <2>2. KeyLine(auth, name) = For(name, "wpa_key_mgmt", <<v>>)
    BY <1>1, <1>5, Zenon DEF KeyLine
  <2>3. QED
    BY <1>3, <2>1, <2>2, Zenon
<1>6. QED
  BY <1>4, <1>5

\* The security mode.
ModeLine(ap, beacon, auth, junk, name) ==
    Then(For(name, "wpa", WpaLine(ap, beacon, junk)), KeyLine(auth, name))

LEMMA WritesSecurityMode ==
    ASSUME Filed, NEW ap \in Ap, NEW name, NEW mode \in Mode, NEW key \in Text,
           NEW junk \in Text
    PROVE  Writes(ModeCommands(ap, mode, key, junk), ap, name,
                  ModeLine(ap, mode.beacon, mode.auth, junk, name), <<mode.beacon>>,
                  ModeTold(mode.beacon, "PSK", key, name), <<"fresh">>, <<>>)
<1>1. PICK beacon, auth : beacon = mode.beacon /\ auth = mode.auth
  OBVIOUS
<1>2. beacon \in Beacon /\ auth \in {"None", "PSK", "EAP"} /\ (beacon = "None" <=> auth = "None")
  BY <1>1 DEF Mode, NoMode, Beacon
<1>3. PICK c, d, u : /\ c = BeaconCommands(ap, beacon, key, junk)
                     /\ d = AuthCommands(ap, auth) /\ u = TellMode(ap, mode, key)
  OBVIOUS
<1>4. ModeCommands(ap, mode, key, junk) = (c \o d) \o u
  BY <1>1, <1>3, Zenon DEF ModeCommands
<1>5. PICK f, k, t, w :
        /\ f = For(name, "wpa", WpaLine(ap, beacon, junk)) /\ k = KeyLine(auth, name)
        /\ t = ModeTold(beacon, "PSK", key, name) /\ w = ModeTold(beacon, auth, key, name)
  OBVIOUS
<1>6. Writes(c, ap, name, f, <<beacon>>, t, <<"fresh">>, <<>>)
  BY <1>2, <1>3, <1>5, WritesBeacon
<1>7. Writes(d, ap, name, k, <<>>, <<>>, <<>>, <<>>)
  BY <1>3, <1>5, WritesAuth
<1>8. Writes(u, ap, name, <<>>, <<>>, w, <<"fresh">>, <<>>)
  BY <1>1, <1>2, <1>3, <1>5, WritesTellMode
<1>9. Writes((c \o d) \o u, ap, name, Then(Then(f, k), <<>>),
             Then(Then(<<beacon>>, <<>>), <<>>), Then(Then(t, <<>>), w),
             Then(Then(<<"fresh">>, <<>>), <<"fresh">>), Then(Then(<<>>, <<>>), <<>>))
  BY <1>6, <1>7, <1>8, WritesBoth
<1>10. Then(t, w) = t
  BY <1>2, <1>5 DEF Then, ModeTold, For
<1>11. \A a : Then(a, <<>>) = a
  BY DEF Then
<1>12. \A a : Then(a, <<"fresh">>) = <<"fresh">>
  BY DEF Then
<1>13. Writes((c \o d) \o u, ap, name, Then(f, k), <<beacon>>, t, <<"fresh">>, <<>>)
  BY <1>9, <1>10, <1>11, <1>12
<1>14. Then(f, k) = ModeLine(ap, beacon, auth, junk, name)
  BY <1>5 DEF ModeLine
<1>15. QED
  BY <1>1, <1>4, <1>5, <1>13, <1>14, Zenon

\* The lines of the ciphers.
Ciphers(beacon) == {Pairwise(beacon)[i] : i \in DOMAIN Pairwise(beacon)}

CipherLine(beacon, e, name) == IF name \in Ciphers(beacon) THEN <<<<e>>>> ELSE <<>>

CipherWrites(ap, beacon, e) ==
    [i \in DOMAIN Pairwise(beacon) |-> HostapdWrite(ap, Pairwise(beacon)[i], e)]

LEMMA CiphersAre ==
    /\ Ciphers("None") = {} /\ Ciphers("WPA") = {"wpa_pairwise"}
    /\ Ciphers("11i") = {"rsn_pairwise"}
    /\ Ciphers("WPAand11i") = {"wpa_pairwise", "rsn_pairwise"}
<1>1. /\ Pairwise("None") = <<>> /\ Pairwise("WPA") = <<"wpa_pairwise">>
      /\ Pairwise("11i") = <<"rsn_pairwise">>
      /\ Pairwise("WPAand11i") = <<"wpa_pairwise", "rsn_pairwise">>
  BY DEF Pairwise
<1>2. Ciphers("None") = {} /\ Ciphers("WPA") = {"wpa_pairwise"}
  BY <1>1 DEF Ciphers
<1>3. Ciphers("11i") = {"rsn_pairwise"}
  BY <1>1 DEF Ciphers
<1>4. Ciphers("WPAand11i") = {"wpa_pairwise", "rsn_pairwise"}
  BY <1>1 DEF Ciphers
<1>5. QED
  BY <1>2, <1>3, <1>4

LEMMA WritesCiphers ==
    ASSUME Filed, NEW ap \in Ap, NEW name, NEW beacon \in Beacon, NEW e \in Text
    PROVE  Writes(CipherWrites(ap, beacon, e), ap, name,
                  CipherLine(beacon, e, name), <<>>, <<>>, <<>>, <<>>)
<1>1. /\ Pairwise("None") = <<>> /\ Pairwise("WPA") = <<"wpa_pairwise">>
      /\ Pairwise("11i") = <<"rsn_pairwise">>
      /\ Pairwise("WPAand11i") = <<"wpa_pairwise", "rsn_pairwise">>
  BY DEF Pairwise
<1>2. "wpa_pairwise" \in One /\ "rsn_pairwise" \in One
  BY DEF One, SedName
<1>3. PICK x, y : x = HostapdWrite(ap, "wpa_pairwise", e) /\ y = HostapdWrite(ap, "rsn_pairwise", e)
  OBVIOUS
<1>4. /\ Writes(<<x>>, ap, name, For(name, "wpa_pairwise", <<e>>), <<>>, <<>>, <<>>, <<>>)
      /\ Writes(<<y>>, ap, name, For(name, "rsn_pairwise", <<e>>), <<>>, <<>>, <<>>, <<>>)
  BY <1>2, <1>3, WritesHostapd
<1>5. CASE beacon = "None"
  <2>1. CipherWrites(ap, beacon, e) = <<>>
    BY <1>1, <1>5 DEF CipherWrites
  <2>2. CipherLine(beacon, e, name) = <<>>
    BY <1>5, CiphersAre DEF CipherLine
  <2>3. QED
    BY <2>1, <2>2, WritesNone
<1>6. CASE beacon = "WPA"
  <2>1. CipherWrites(ap, beacon, e) = <<x>>
    BY <1>1, <1>3, <1>6 DEF CipherWrites
  <2>2. CipherLine(beacon, e, name) = For(name, "wpa_pairwise", <<e>>)
    BY <1>6, CiphersAre DEF CipherLine, For
  <2>3. QED
    BY <1>4, <2>1, <2>2
<1>7. CASE beacon = "11i"
  <2>1. CipherWrites(ap, beacon, e) = <<y>>
    BY <1>1, <1>3, <1>7 DEF CipherWrites
  <2>2. CipherLine(beacon, e, name) = For(name, "rsn_pairwise", <<e>>)
    BY <1>7, CiphersAre DEF CipherLine, For
  <2>3. QED
    BY <1>4, <2>1, <2>2
<1>8. CASE beacon = "WPAand11i"
  <2>1. CipherWrites(ap, beacon, e) = <<x, y>>
    BY <1>1, <1>3, <1>8 DEF CipherWrites
  <2>2. <<x, y>> = <<x>> \o <<y>>
    BY TwoCommands
  <2>3. Writes(<<x>> \o <<y>>, ap, name,
               Then(For(name, "wpa_pairwise", <<e>>), For(name, "rsn_pairwise", <<e>>)),
               Then(<<>>, <<>>), Then(<<>>, <<>>), Then(<<>>, <<>>), Then(<<>>, <<>>))
    BY <1>4, WritesBoth
  <2>4. Then(For(name, "wpa_pairwise", <<e>>), For(name, "rsn_pairwise", <<e>>))
        = CipherLine(beacon, e, name)
    BY <1>8, CiphersAre DEF CipherLine, For, Then
  <2>5. Then(<<>>, <<>>) = <<>>
    BY DEF Then
  <2>6. QED
    BY <2>1, <2>2, <2>3, <2>4, <2>5, Zenon
<1>9. QED
  BY <1>5, <1>6, <1>7, <1>8 DEF Beacon

\* The encryption of a mode.
CipherTold(beacon, auth, cipher, key, name) ==
    CASE name = "wpa" /\ auth = "PSK" -> <<WpaTold(beacon)>>
      [] name \in {"wpa_pairwise", "rsn_pairwise"} -> <<cipher>>
      [] name = "wpa_passphrase" -> <<key>>
      [] name = "wpa_key_mgmt" -> <<"WPA-PSK">>
      [] OTHER -> <<>>

LEMMA WritesEncryption ==
    ASSUME Filed, NEW ap \in Ap, NEW name, NEW mode \in Mode, NEW key \in Text,
           NEW e \in Encryption
    PROVE  Writes(EncryptionCommands(ap, mode, e, key), ap, name,
                  CipherLine(mode.beacon, e, name), <<>>,
                  CipherTold(mode.beacon, mode.auth,
                             IF e = "TKIP CCMP" THEN e ELSE "CCMP", key, name),
                  <<"fresh">>, <<>>)
<1>1. PICK beacon, auth, cipher :
        /\ beacon = mode.beacon /\ auth = mode.auth
        /\ cipher = IF e = "TKIP CCMP" THEN e ELSE "CCMP"
  OBVIOUS
<1> PICK psk \in BOOLEAN : psk = (auth = "PSK")
  OBVIOUS
<1>2. beacon \in Beacon
  <2>1. mode.beacon \in Beacon
    BY DEF Mode, NoMode, Beacon
  <2>2. QED
    BY <1>1, <2>1, Zenon
<1>3. /\ e \in Text /\ cipher \in Text
      /\ {"wpa", "wpa_pairwise", "rsn_pairwise", "wpa_passphrase", "wpa_key_mgmt"} \subseteq Name
  BY <1>1 DEF Text, Written, Encryption, Name, SedName
<1>4. WpaTold(beacon) \in Text /\ "WPA-PSK" \in Text
  <2>1. WpaTold(beacon) \in {"0", "1", "2", "3"}
    BY <1>2 DEF WpaTold, Beacon
  <2>2. {"0", "1", "2", "3", "WPA-PSK"} \subseteq Text
    BY DEF Text, Written
  <2>3. QED
    BY <2>1, <2>2
<1>5. PICK c1, c2, c3, c4, c5 :
        /\ c1 = CipherWrites(ap, beacon, e)
        /\ c2 = <<Told(ap, "wpa_pairwise", cipher), Told(ap, "rsn_pairwise", cipher)>>
        /\ c3 = When(psk, <<Told(ap, "wpa", WpaTold(beacon))>>)
        /\ c4 = TellKey(ap, key) /\ c5 = <<Restart(ap)>>
  OBVIOUS
<1>6. EncryptionCommands(ap, mode, e, key) = (((c1 \o c2) \o c3) \o c4) \o c5
  BY <1>1, <1>5, Zenon DEF EncryptionCommands, CipherWrites
<1>7. PICK f, t2, r2, t3, r3, t4, r4 :
        /\ f = CipherLine(beacon, e, name)
        /\ t2 = Then(For(name, "wpa_pairwise", cipher), For(name, "rsn_pairwise", cipher))
        /\ r2 = Then(For(name, "wpa_pairwise", "stale"), For(name, "rsn_pairwise", "stale"))
        /\ t3 = IF psk THEN For(name, "wpa", WpaTold(beacon)) ELSE <<>>
        /\ r3 = IF psk THEN For(name, "wpa", "stale") ELSE <<>>
        /\ t4 = Then(For(name, "wpa_passphrase", key), For(name, "wpa_key_mgmt", "WPA-PSK"))
        /\ r4 = Then(For(name, "wpa_passphrase", "stale"), For(name, "wpa_key_mgmt", "stale"))
  OBVIOUS
<1>8. Writes(c1, ap, name, f, <<>>, <<>>, <<>>, <<>>)
  BY <1>2, <1>3, <1>5, <1>7, WritesCiphers
<1>9. Writes(c2, ap, name, <<>>, <<>>, t2, r2, <<>>)
  BY <1>3, <1>5, <1>7, WritesTwoTold
<1>10. Writes(c3, ap, name, <<>>, <<>>, t3, r3, <<>>)
  <2>1. Writes(<<Told(ap, "wpa", WpaTold(beacon))>>, ap, name, <<>>, <<>>,
               For(name, "wpa", WpaTold(beacon)), For(name, "wpa", "stale"), <<>>)
    BY <1>3, <1>4, WritesTold
  <2>2. Writes(c3, ap, name, IF psk THEN <<>> ELSE <<>>, IF psk THEN <<>> ELSE <<>>,
               t3, r3, IF psk THEN <<>> ELSE <<>>)
    BY <1>5, <1>7, <2>1, WritesWhen
  <2>3. QED
    BY <2>2
<1>11. Writes(c4, ap, name, <<>>, <<>>, t4, r4, <<>>)
  BY <1>3, <1>4, <1>5, <1>7, WritesTwoTold DEF TellKey
<1>12. Writes(c5, ap, name, <<>>, <<>>, <<>>, <<"fresh">>, <<>>)
  BY <1>5, WritesRestart
<1>13. Writes((c1 \o c2) \o c3, ap, name, Then(Then(f, <<>>), <<>>), Then(Then(<<>>, <<>>), <<>>),
              Then(Then(<<>>, t2), t3), Then(Then(<<>>, r2), r3), Then(Then(<<>>, <<>>), <<>>))
  BY <1>8, <1>9, <1>10, WritesBoth
<1>14. /\ \A a : Then(a, <<>>) = a /\ Then(<<>>, a) = a
       /\ \A a : Then(a, <<"fresh">>) = <<"fresh">>
  BY DEF Then
<1>15. Writes((c1 \o c2) \o c3, ap, name, f, <<>>, Then(t2, t3), Then(r2, r3), <<>>)
  BY <1>13, <1>14
<1>16. Writes((((c1 \o c2) \o c3) \o c4) \o c5, ap, name, Then(Then(f, <<>>), <<>>),
              Then(Then(<<>>, <<>>), <<>>), Then(Then(Then(t2, t3), t4), <<>>),
              Then(Then(Then(r2, r3), r4), <<"fresh">>), Then(Then(<<>>, <<>>), <<>>))
  BY <1>11, <1>12, <1>15, WritesBoth
<1>17. Writes((((c1 \o c2) \o c3) \o c4) \o c5, ap, name, f, <<>>, Then(Then(t2, t3), t4),
              <<"fresh">>, <<>>)
  BY <1>14, <1>16
<1>18. Then(Then(t2, t3), t4) = CipherTold(beacon, auth, cipher, key, name)
  BY <1>7 DEF Then, For, CipherTold
<1>19. QED
  BY <1>1, <1>6, <1>7, <1>17, <1>18, Zenon

\* The methods of WPS.
LEMMA WritesMethods ==
    ASSUME NEW ap \in Ap, NEW name, NEW m \in Method
    PROVE  Writes(WpsMethodCommands(ap, m), ap, name,
                  For(name, "config_methods", IF Kept(m) THEN <<m>> ELSE <<>>), <<>>,
                  For(name, "config_methods", m), <<"fresh">>, <<>>)
<1>1. m \in Text /\ "config_methods" \in Name /\ "config_methods" \notin One
  BY DEF Text, Written, Name, SedName, One
<1>2. <<>> \in Lines /\ <<m>> \in Lines
  BY <1>1, SingleLine DEF Lines
<1>3. PICK kept \in BOOLEAN : kept = Kept(m)
  BY DEF Kept
<1>4. PICK c, d, u, lines :
        /\ c = <<FileLines(ap, "config_methods", <<>>)>>
        /\ d = When(kept, <<FileLines(ap, "config_methods", <<m>>)>>)
        /\ u = <<Told(ap, "config_methods", m), Restart(ap)>>
        /\ lines = <<m>>
  OBVIOUS
<1>5. WpsMethodCommands(ap, m) = (c \o d) \o u
  BY <1>3, <1>4, Zenon DEF WpsMethodCommands
<1>6. PICK f, g, t, r :
        /\ f = For(name, "config_methods", <<>>)
        /\ g = IF kept THEN For(name, "config_methods", lines) ELSE <<>>
        /\ t = For(name, "config_methods", m) /\ r = For(name, "config_methods", "stale")
  OBVIOUS
<1>7. Writes(c, ap, name, f, <<>>, <<>>, <<>>, <<>>)
  BY <1>1, <1>2, <1>4, <1>6, WritesFile
<1>8. Writes(d, ap, name, g, <<>>, <<>>, <<>>, <<>>)
  <2>1. Writes(<<FileLines(ap, "config_methods", lines)>>, ap, name,
               For(name, "config_methods", lines), <<>>, <<>>, <<>>, <<>>)
    BY <1>1, <1>2, <1>4, WritesFile
  <2>2. Writes(d, ap, name, g, IF kept THEN <<>> ELSE <<>>, IF kept THEN <<>> ELSE <<>>,
               IF kept THEN <<>> ELSE <<>>, IF kept THEN <<>> ELSE <<>>)
    BY <1>4, <1>6, <2>1, WritesWhen
  <2>3. QED
    BY <2>2
<1>9. Writes(u, ap, name, <<>>, <<>>, t, <<"fresh">>, <<>>)
  <2>1. PICK x, y : x = Told(ap, "config_methods", m) /\ y = Restart(ap)
    OBVIOUS
  <2>2. <<x, y>> = <<x>> \o <<y>>
    BY TwoCommands
  <2>3. Writes(<<x>>, ap, name, <<>>, <<>>, t, r, <<>>)
    BY <1>1, <1>6, <2>1, WritesTold
  <2>4. Writes(<<y>>, ap, name, <<>>, <<>>, <<>>, <<"fresh">>, <<>>)
    BY <2>1, WritesRestart
  <2>5. Writes(<<x>> \o <<y>>, ap, name, Then(<<>>, <<>>), Then(<<>>, <<>>), Then(t, <<>>),
               Then(r, <<"fresh">>), Then(<<>>, <<>>))
    BY <2>3, <2>4, WritesBoth
  <2>6. Writes(<<x>> \o <<y>>, ap, name, <<>>, <<>>, t, <<"fresh">>, <<>>)
    BY <2>5 DEF Then
  <2>7. QED
    BY <1>4, <2>1, <2>2, <2>6, Zenon
<1>10. Writes((c \o d) \o u, ap, name, Then(Then(f, g), <<>>), Then(Then(<<>>, <<>>), <<>>),
              Then(Then(<<>>, <<>>), t), Then(Then(<<>>, <<>>), <<"fresh">>),
              Then(Then(<<>>, <<>>), <<>>))
  BY <1>7, <1>8, <1>9, WritesBoth
<1>11. \A a : Then(a, <<>>) = a /\ Then(<<>>, a) = a
  BY DEF Then
<1>12. Writes((c \o d) \o u, ap, name, Then(f, g), <<>>, t, <<"fresh">>, <<>>)
  BY <1>10, <1>11
<1>13. Then(f, g) = For(name, "config_methods", IF kept THEN lines ELSE <<>>)
  BY <1>6 DEF Then, For
<1>14. QED
  BY <1>3, <1>4, <1>5, <1>6, <1>12, <1>13, Zenon

\* The lines after a parameter has been inserted if it was absent.
RpiLines(ap, n, v) ==
    IF Value(ap, n) = "" THEN Append(file[ap][n], v)
    ELSE [i \in DOMAIN file[ap][n] |-> v]

LEMMA RpiLinesAre ==
    ASSUME Filed, NEW ap \in Ap, NEW n \in Name, NEW v \in Text
    PROVE  RpiLines(ap, n, v) \in Lines
<1>1. PICK s : s = file[ap][n]
  OBVIOUS
<1>2. s \in Seq(Text)
  BY <1>1 DEF Filed, Lines
<1>3. Append(s, v) \in Seq(Text)
  BY <1>2
<1>4. [i \in DOMAIN s |-> v] \in Seq(Text)
  BY <1>2
<1>5. QED
  BY <1>1, <1>3, <1>4 DEF RpiLines, Lines

LEMMA WritesRpiLine ==
    ASSUME Filed, NEW ap \in Ap, NEW name, NEW n \in RpiName, NEW v \in Text
    PROVE  Writes(<<RpiWrite(ap, n, v)>>, ap, name,
                  For(name, n, RpiLines(ap, n, v)), <<>>, <<>>, <<>>, <<>>)
<1>1. n \in Name /\ n \notin One
  BY DEF Name, RpiName, One, SedName
<1>2. PICK lines : lines = RpiLines(ap, n, v)
  OBVIOUS
<1>3. lines \in Lines
  BY <1>1, <1>2, RpiLinesAre
<1>4. RpiWrite(ap, n, v) = FileLines(ap, n, lines)
  BY <1>2, Zenon DEF RpiWrite, RpiLines
<1>5. Writes(<<FileLines(ap, n, lines)>>, ap, name, For(name, n, lines), <<>>, <<>>, <<>>, <<>>)
  BY <1>1, <1>3, WritesFile
<1>6. QED
  BY <1>2, <1>4, <1>5, Zenon

LEMMA WritesRpi ==
    ASSUME Filed, NEW ap \in Ap, NEW name, NEW n \in RpiName, NEW v \in Text
    PROVE  Writes(RpiCommands(ap, n, v), ap, name,
                  For(name, n, RpiLines(ap, n, v)), <<>>,
                  IF v # "" THEN For(name, n, v) ELSE <<>>, <<"fresh">>, <<>>)
<1>1. n \in Name
  BY DEF Name
<1>2. PICK given \in BOOLEAN : given = (v # "")
  OBVIOUS
<1>3. PICK c, d, u : /\ c = <<RpiWrite(ap, n, v)>> /\ d = When(given, <<Told(ap, n, v)>>)
                     /\ u = <<Restart(ap)>>
  OBVIOUS
<1>4. RpiCommands(ap, n, v) = (c \o d) \o u
  BY <1>2, <1>3, Zenon DEF RpiCommands
<1>5. PICK f, t, r : /\ f = For(name, n, RpiLines(ap, n, v))
                     /\ t = IF given THEN For(name, n, v) ELSE <<>>
                     /\ r = IF given THEN For(name, n, "stale") ELSE <<>>
  OBVIOUS
<1>6. Writes(c, ap, name, f, <<>>, <<>>, <<>>, <<>>)
  BY <1>3, <1>5, WritesRpiLine
<1>7. Writes(d, ap, name, <<>>, <<>>, t, r, <<>>)
  <2>1. Writes(<<Told(ap, n, v)>>, ap, name, <<>>, <<>>,
               For(name, n, v), For(name, n, "stale"), <<>>)
    BY <1>1, WritesTold
  <2>2. Writes(d, ap, name, IF given THEN <<>> ELSE <<>>, IF given THEN <<>> ELSE <<>>,
               t, r, IF given THEN <<>> ELSE <<>>)
    BY <1>3, <1>5, <2>1, WritesWhen
  <2>3. QED
    BY <2>2
<1>8. Writes(u, ap, name, <<>>, <<>>, <<>>, <<"fresh">>, <<>>)
  BY <1>3, WritesRestart
<1>9. Writes((c \o d) \o u, ap, name, Then(Then(f, <<>>), <<>>), Then(Then(<<>>, <<>>), <<>>),
             Then(Then(<<>>, t), <<>>), Then(Then(<<>>, r), <<"fresh">>),
             Then(Then(<<>>, <<>>), <<>>))
  BY <1>6, <1>7, <1>8, WritesBoth
<1>10. /\ \A a : Then(a, <<>>) = a /\ Then(<<>>, a) = a
       /\ \A a : Then(a, <<"fresh">>) = <<"fresh">>
  BY DEF Then
<1>11. Writes((c \o d) \o u, ap, name, f, <<>>, t, <<"fresh">>, <<>>)
  BY <1>9, <1>10
<1>12. t = IF v # "" THEN For(name, n, v) ELSE <<>>
  BY <1>2, <1>5
<1>13. QED
  BY <1>4, <1>5, <1>11, <1>12, Zenon

-----------------------------------------------------------------------------
(***************************************************************************)
(* Where the commands of a call lead.                                      *)
(***************************************************************************)

\* The line that is read, and the line that hostapd loads.
First(lines) == IF lines = <<>> THEN "" ELSE Head(lines)
Final(lines) == IF lines = <<>> THEN "" ELSE lines[Len(lines)]

\* A value of wpa, and what hostapd was given, of a security mode.
WpaAgrees(beacon, wpa, given) ==
    /\ beacon \in {"WPA", "11i"} => wpa = WpaTold(beacon) /\ given = WpaTold(beacon)
    /\ beacon = "WPAand11i" => wpa # "0" /\ given \in {wpa, "3"}
    /\ beacon = "None" => wpa \in Junk /\ given \in {wpa, "0"}

\* What a place holds now, and what it holds after a list of commands.
Now(what, ap, name) ==
    CASE what = "file" -> file[ap][name]
      [] what = "sec" -> sec[ap]
      [] what = "told" -> told[ap][name]
      [] what = "fresh" -> IF told[ap][name] = air[ap][name] THEN "fresh" ELSE "stale"
      [] what = "open" -> IF <<ap, name>> \in open THEN "open" ELSE "sure"

After(s, what, ap, name) == Over(Now(what, ap, name), Net(s, what, ap, name))

\* A list leads to a parameter that the file, hostapd and the interface agree on.
Leads(s, ap, name) ==
    After(s, "open", ap, name) = "sure" =>
        /\ After(s, "fresh", ap, name) = "fresh"
        /\ First(After(s, "file", ap, name)) = Final(After(s, "file", ap, name))
        /\ name # "wpa" => After(s, "told", ap, name) = First(After(s, "file", ap, name))
        /\ name = "wpa" => WpaAgrees(After(s, "sec", ap, name),
                                     First(After(s, "file", ap, name)),
                                     After(s, "told", ap, name))

\* All parameters of an access point.
Sound(s, ap) == s \in Seq(CommandOf(ap)) /\ \A name \in Name : Leads(s, ap, name)

\* Between the calls.
Settled == Filed /\ sec \in [Ap -> Beacon] /\ \A ap \in Ap, name \in Name : Leads(<<>>, ap, name)

\* What there is after a list of which it is known what it writes.
Leaves(s, ap, name, f, m, t, r, o) ==
    /\ After(s, "file", ap, name) = Over(file[ap][name], f)
    /\ After(s, "sec", ap, name) = Over(sec[ap], m)
    /\ After(s, "told", ap, name) = Over(told[ap][name], t)
    /\ After(s, "fresh", ap, name)
          = Over(IF told[ap][name] = air[ap][name] THEN "fresh" ELSE "stale", r)
    /\ After(s, "open", ap, name)
          = Over(IF <<ap, name>> \in open THEN "open" ELSE "sure", o)

LEMMA AfterWrites ==
    ASSUME NEW ap, NEW name, NEW s, NEW f, NEW m, NEW t, NEW r, NEW o,
           Writes(s, ap, name, f, m, t, r, o)
    PROVE  Leaves(s, ap, name, f, m, t, r, o)
BY DEF Writes, After, Now, Leaves

LEMMA AfterNone ==
    ASSUME NEW ap, NEW name
    PROVE  /\ After(<<>>, "file", ap, name) = file[ap][name]
           /\ After(<<>>, "sec", ap, name) = sec[ap]
           /\ After(<<>>, "told", ap, name) = told[ap][name]
           /\ After(<<>>, "fresh", ap, name)
                = IF told[ap][name] = air[ap][name] THEN "fresh" ELSE "stale"
           /\ After(<<>>, "open", ap, name) = IF <<ap, name>> \in open THEN "open" ELSE "sure"
<1>1. Writes(<<>>, ap, name, <<>>, <<>>, <<>>, <<>>, <<>>)
  BY WritesNone
<1>2. \A a : Over(a, <<>>) = a
  BY DEF Over
<1>3. Leaves(<<>>, ap, name, <<>>, <<>>, <<>>, <<>>, <<>>)
  BY <1>1, AfterWrites, Zenon
<1>4. QED
  BY <1>2, <1>3 DEF Leaves

\* A parameter that the call leaves alone.
LEMMA Untouched ==
    ASSUME NEW ap, NEW name, NEW s, NEW m, NEW r, Leads(<<>>, ap, name),
           Writes(s, ap, name, <<>>, m, <<>>, r, <<>>),
           r \in {<<>>, <<"fresh">>}, name # "wpa" \/ m = <<>>
    PROVE  Leads(s, ap, name)
<1>1. /\ \A a : Over(a, <<>>) = a
      /\ \A a : Over(a, <<"fresh">>) = "fresh"
  BY DEF Over
<1>2. Leaves(s, ap, name, <<>>, m, <<>>, r, <<>>)
  BY AfterWrites, Zenon
<1>3. /\ After(s, "file", ap, name) = After(<<>>, "file", ap, name)
      /\ name = "wpa" => After(s, "sec", ap, name) = After(<<>>, "sec", ap, name)
      /\ After(s, "told", ap, name) = After(<<>>, "told", ap, name)
      /\ After(<<>>, "fresh", ap, name) = "fresh" => After(s, "fresh", ap, name) = "fresh"
      /\ After(s, "open", ap, name) = After(<<>>, "open", ap, name)
  BY <1>1, <1>2, AfterNone DEF Leaves
<1>4. QED
  BY <1>3 DEF Leads

\* A parameter that hostapd need not have.
LEMMA Opened ==
    ASSUME NEW ap, NEW name, NEW s, NEW f, NEW m, NEW t, NEW r,
           Writes(s, ap, name, f, m, t, r, <<"open">>)
    PROVE  Leads(s, ap, name)
<1> Leaves(s, ap, name, f, m, t, r, <<"open">>)
  BY AfterWrites, Zenon
<1>1. After(s, "open", ap, name) = "open"
  BY DEF Leaves, Over
<1>2. QED
  BY <1>1 DEF Leads

\* A parameter that is written and given to hostapd.
LEMMA GivenTo ==
    ASSUME NEW ap, NEW name, NEW s, NEW lines, NEW m, NEW v, NEW o, name # "wpa",
           Writes(s, ap, name, <<lines>>, m, <<v>>, <<"fresh">>, o),
           First(lines) = v, Final(lines) = v
    PROVE  Leads(s, ap, name)
<1>1. \A a, b : Over(a, <<b>>) = b
  BY DEF Over
<1>2. Leaves(s, ap, name, <<lines>>, m, <<v>>, <<"fresh">>, o)
  BY AfterWrites, Zenon
<1>3. QED
  BY <1>1, <1>2 DEF Leads, Leaves

LEMMA HeadOfOne == ASSUME NEW S, NEW s \in Seq(S), Len(s) = 1 PROVE s # <<>> /\ Head(s) = s[1]
OBVIOUS

\* A parameter that hostapd is given as the file has it.
LEMMA ToldAgain ==
    ASSUME Filed, NEW ap \in Ap, NEW name \in One \ {"wpa"}, NEW s, NEW m, NEW o,
           Writes(s, ap, name, <<>>, m, <<Value(ap, name)>>, <<"fresh">>, o)
    PROVE  Leads(s, ap, name)
<1>1. /\ \A a, b : Over(a, <<b>>) = b
      /\ \A a : Over(a, <<>>) = a
  BY DEF Over
<1>2. PICK lines : lines = file[ap][name]
  OBVIOUS
<1>3. lines \in Lines /\ Len(lines) = 1
  BY <1>2 DEF Filed, One, Name
<1>4. First(lines) = lines[1] /\ Final(lines) = lines[1] /\ Value(ap, name) = lines[1]
  <2>1. lines # <<>> /\ Head(lines) = lines[1]
    BY <1>3, HeadOfOne DEF Lines
  <2>2. QED
    BY <1>2, <1>3, <2>1 DEF First, Final, Value
<1>5. Leaves(s, ap, name, <<>>, m, <<Value(ap, name)>>, <<"fresh">>, o)
  BY AfterWrites, Zenon
<1>6. QED
  BY <1>1, <1>2, <1>4, <1>5 DEF Leads, Leaves

\* The value of wpa, with the security mode.
LEMMA WpaGiven ==
    ASSUME NEW ap, NEW s, NEW beacon, NEW wpa, NEW given, NEW o,
           Writes(s, ap, "wpa", <<<<wpa>>>>, <<beacon>>, <<given>>, <<"fresh">>, o),
           WpaAgrees(beacon, wpa, given)
    PROVE  Leads(s, ap, "wpa")
<1>1. \A a, b : Over(a, <<b>>) = b
  BY DEF Over
<1>2. First(<<wpa>>) = wpa /\ Final(<<wpa>>) = wpa
  BY DEF First, Final
<1>3. Leaves(s, ap, "wpa", <<<<wpa>>>>, <<beacon>>, <<given>>, <<"fresh">>, o)
  BY AfterWrites, Zenon
<1>4. QED
  BY <1>1, <1>2, <1>3 DEF Leads, Leaves

\* The value of wpa again, from the security file.
LEMMA WpaAgain ==
    ASSUME NEW ap, NEW s, Leads(<<>>, ap, "wpa"), sec[ap] \in Beacon \ {"None"},
           Writes(s, ap, "wpa", <<>>, <<>>, <<WpaTold(sec[ap])>>, <<"fresh">>, <<>>)
    PROVE  Leads(s, ap, "wpa")
<1>1. /\ \A a, b : Over(a, <<b>>) = b
      /\ \A a : Over(a, <<>>) = a
  BY DEF Over
<1>2. /\ sec[ap] \in {"WPA", "11i", "WPAand11i"}
      /\ sec[ap] = "WPAand11i" => WpaTold(sec[ap]) = "3"
  BY DEF WpaTold, Beacon
<1> Leaves(s, ap, "wpa", <<>>, <<>>, <<WpaTold(sec[ap])>>, <<"fresh">>, <<>>)
  BY AfterWrites, Zenon
<1>3. SUFFICES ASSUME After(s, "open", ap, "wpa") = "sure"
               PROVE  /\ After(s, "fresh", ap, "wpa") = "fresh"
                      /\ First(After(s, "file", ap, "wpa")) = Final(After(s, "file", ap, "wpa"))
                      /\ WpaAgrees(After(s, "sec", ap, "wpa"),
                                   First(After(s, "file", ap, "wpa")),
                                   After(s, "told", ap, "wpa"))
  BY DEF Leads
<1>4. After(<<>>, "open", ap, "wpa") = "sure"
  BY <1>1, <1>3, AfterNone DEF Leaves
<1>5. /\ First(file[ap]["wpa"]) = Final(file[ap]["wpa"])
      /\ WpaAgrees(sec[ap], First(file[ap]["wpa"]), told[ap]["wpa"])
  BY <1>4, AfterNone DEF Leads
<1>6. WpaAgrees(sec[ap], First(file[ap]["wpa"]), WpaTold(sec[ap]))
  BY <1>2, <1>5 DEF WpaAgrees
<1>7. QED
  BY <1>1, <1>5, <1>6 DEF Leaves

\* The end of a call.
LEMMA Returned ==
    ASSUME NEW ap \in Ap, NEW name, NEW s, NEW f, NEW m, NEW t, NEW r,
           Writes(s, ap, name, f, m, t, r, <<>>),
           NEW given \in SUBSET Name, NEW not \in SUBSET Name
    PROVE  Writes(s \o <<Return(ap, given, not)>>, ap, name,
                  f, m, t, r, Noted(name, given, not))
<1>1. PICK u, o : u = <<Return(ap, given, not)>> /\ o = Noted(name, given, not)
  OBVIOUS
<1>2. Writes(u, ap, name, <<>>, <<>>, <<>>, <<>>, o)
  BY <1>1, WritesReturn
<1>3. Writes(s \o u, ap, name, Then(f, <<>>), Then(m, <<>>), Then(t, <<>>),
             Then(r, <<>>), Then(<<>>, o))
  BY <1>2, WritesBoth
<1>4. \A a : Then(a, <<>>) = a /\ Then(<<>>, a) = a
  BY DEF Then
<1>5. Writes(s \o u, ap, name, f, m, t, r, o)
  BY <1>3, <1>4
<1>6. QED
  BY <1>1, <1>5, Zenon

\* The call of one parameter.
LEMMA ParameterLeads ==
    ASSUME Settled, NEW ap \in Ap, NEW n \in Name \ {"wpa"}, NEW s, NEW lines, NEW v,
           \A name : Writes(s, ap, name, For(name, n, lines), <<>>, For(name, n, v),
                            <<"fresh">>, <<>>),
           First(lines) = v, Final(lines) = v
    PROVE  Sound(s \o <<Return(ap, {n}, {})>>, ap)
<1>1. PICK u : u = s \o <<Return(ap, {n}, {})>>
  OBVIOUS
<1>2. {n} \in SUBSET Name /\ {} \in SUBSET Name
  OBVIOUS
<1>3. ASSUME NEW name \in Name
      PROVE  /\ Writes(u, ap, name, For(name, n, lines), <<>>, For(name, n, v),
                       <<"fresh">>, Noted(name, {n}, {}))
             /\ Leads(u, ap, name)
  <2>1. Writes(s, ap, name, For(name, n, lines), <<>>, For(name, n, v), <<"fresh">>, <<>>)
    OBVIOUS
  <2>2. Writes(u, ap, name, For(name, n, lines), <<>>, For(name, n, v), <<"fresh">>,
               Noted(name, {n}, {}))
    BY <1>1, <1>2, <2>1, Returned
  <2>3. CASE name = n
    <3>1. Writes(u, ap, name, <<lines>>, <<>>, <<v>>, <<"fresh">>, Noted(name, {n}, {}))
      BY <2>2, <2>3 DEF For
    <3>2. Leads(u, ap, name)
      BY <2>3, <3>1, GivenTo
    <3>3. QED
      BY <2>2, <3>2
  <2>4. CASE name # n
    <3>1. Writes(u, ap, name, <<>>, <<>>, <<>>, <<"fresh">>, <<>>)
      BY <2>2, <2>4 DEF For, Noted
    <3>2. Leads(<<>>, ap, name)
      BY DEF Settled
    <3>3. Leads(u, ap, name)
      BY <3>1, <3>2, Untouched
    <3>4. QED
      BY <2>2, <3>3
  <2>5. QED
    BY <2>3, <2>4
<1>4. u \in Seq(CommandOf(ap))
  BY <1>3 DEF Writes
<1>5. QED
  BY <1>1, <1>3, <1>4 DEF Sound

\* The call of one parameter that hostapd need not get.
LEMMA ParameterOpens ==
    ASSUME Settled, NEW ap \in Ap, NEW n \in Name \ {"wpa"}, NEW s,
           \A name : \E f, t, r :
               /\ Writes(s, ap, name, f, <<>>, t, r, <<>>)
               /\ name # n => f = <<>> /\ t = <<>> /\ r \in {<<>>, <<"fresh">>}
    PROVE  Sound(s \o <<Return(ap, {}, {n})>>, ap)
<1>1. PICK u : u = s \o <<Return(ap, {}, {n})>>
  OBVIOUS
<1>2. {n} \in SUBSET Name /\ {} \in SUBSET Name
  OBVIOUS
<1>3. ASSUME NEW name \in Name
      PROVE  u \in Seq(CommandOf(ap)) /\ Leads(u, ap, name)
  <2>1. PICK f, t, r : /\ Writes(s, ap, name, f, <<>>, t, r, <<>>)
                       /\ name # n => f = <<>> /\ t = <<>> /\ r \in {<<>>, <<"fresh">>}
    OBVIOUS
  <2>2. Writes(u, ap, name, f, <<>>, t, r, Noted(name, {}, {n}))
    BY <1>1, <1>2, <2>1, Returned
  <2>3. CASE name = n
    <3>1. Writes(u, ap, name, f, <<>>, t, r, <<"open">>)
      BY <2>2, <2>3 DEF Noted
    <3>2. QED
      BY <3>1, Opened DEF Writes
  <2>4. CASE name # n
    <3>1. Writes(u, ap, name, <<>>, <<>>, <<>>, r, <<>>)
      BY <2>1, <2>2, <2>4 DEF Noted
    <3>2. Leads(<<>>, ap, name)
      BY DEF Settled
    <3>3. Leads(u, ap, name)
      BY <2>1, <2>4, <3>1, <3>2, Untouched
    <3>4. QED
      BY <3>1, <3>3 DEF Writes
  <2>5. QED
    BY <2>3, <2>4
<1>4. u \in Seq(CommandOf(ap))
  BY <1>3 DEF Name, SedName
<1>5. QED
  BY <1>1, <1>3, <1>4 DEF Sound

-----------------------------------------------------------------------------
(* The calls.                                                              *)

\* What callers set is text.
LEMMA Texts ==
    /\ Ssid \subseteq Text /\ Key \subseteq Text /\ Junk \subseteq Text
    /\ Encryption \subseteq Text /\ Method \subseteq Text
    /\ {"", "0", "1", "2", "5", "10", "1234", "5678"} \subseteq Text
BY ApConfigAssumption DEF Text, Written

\* The line that is read of a parameter.
LEMMA ValueIsText == ASSUME Filed, NEW ap \in Ap, NEW n \in Name PROVE Value(ap, n) \in Text
<1>1. PICK s : s = file[ap][n]
  OBVIOUS
<1>2. s \in Seq(Text)
  BY <1>1 DEF Filed, Lines
<1>3. "" \in Text
  BY DEF Text, Written
<1>4. s # <<>> => Head(s) \in Text
  BY <1>2
<1>5. QED
  BY <1>1, <1>3, <1>4 DEF Value

\* The line of one value.
LEMMA LineSays == ASSUME NEW v PROVE First(<<v>>) = v /\ Final(<<v>>) = v
BY DEF First, Final

LEMMA SsidLeads ==
    ASSUME Settled, NEW ap \in Ap, NEW ssid \in Text, NEW key, key = Value(ap, "wpa_passphrase")
    PROVE  Sound(SsidCommands(ap, ssid, key)
                 \o <<Return(ap, {"ssid", "wpa_passphrase"}, {})>>, ap)
<1>1. PICK s, u, given : /\ s = SsidCommands(ap, ssid, key)
                         /\ u = s \o <<Return(ap, given, {})>>
                         /\ given = {"ssid", "wpa_passphrase"}
  OBVIOUS
<1>2. given \in SUBSET Name /\ {} \in SUBSET Name /\ "wpa_passphrase" \in One \ {"wpa"}
  BY <1>1 DEF Name, SedName, One
<1>3. key \in Text
  BY <1>2, ValueIsText DEF Settled, One, Name
<1>4. ASSUME NEW name \in Name
      PROVE  u \in Seq(CommandOf(ap)) /\ Leads(u, ap, name)
  <2>1. PICK f, t, o : /\ f = For(name, "ssid", <<ssid>>)
                       /\ t = Then(For(name, "ssid", ssid), For(name, "wpa_passphrase", key))
                       /\ o = Noted(name, given, {})
    OBVIOUS
  <2>2. Writes(s, ap, name, f, <<>>, t, <<"fresh">>, <<>>)
    BY <1>1, <1>3, <2>1, WritesSsid DEF Settled
  <2>3. Writes(u, ap, name, f, <<>>, t, <<"fresh">>, o)
    BY <1>1, <1>2, <2>1, <2>2, Returned
  <2>4. CASE name = "ssid"
    <3>1. f = <<<<ssid>>>> /\ t = <<ssid>>
      BY <2>1, <2>4 DEF For, Then
    <3>2. Leads(u, ap, name)
      BY <2>3, <2>4, <3>1, LineSays, GivenTo
    <3>3. QED
      BY <2>3, <3>2 DEF Writes
  <2>5. CASE name = "wpa_passphrase"
    <3>1. f = <<>> /\ t = <<key>>
      BY <2>1, <2>5 DEF For, Then
    <3>2. Leads(u, ap, name)
      BY <1>2, <2>3, <2>5, <3>1, ToldAgain DEF Settled
    <3>3. QED
      BY <2>3, <3>2 DEF Writes
  <2>6. CASE name \notin {"ssid", "wpa_passphrase"}
    <3>1. f = <<>> /\ t = <<>> /\ o = <<>>
      BY <1>1, <2>1, <2>6 DEF For, Then, Noted
    <3>2. Leads(<<>>, ap, name)
      BY DEF Settled
    <3>3. Leads(u, ap, name)
      BY <2>3, <3>1, <3>2, Untouched
    <3>4. QED
      BY <2>3, <3>3 DEF Writes
  <2>7. QED
    BY <2>4, <2>5, <2>6
<1>5. "ssid" \in Name
  BY DEF Name, SedName
<1>6. Sound(u, ap)
  BY <1>4, <1>5 DEF Sound
<1>7. QED
  BY <1>1, <1>6, Zenon

\* A value that sed replaces.
LEMMA SedLeads ==
    ASSUME Settled, NEW ap \in Ap, NEW n \in One \ {"wpa"}, NEW v \in Text
    PROVE  Sound(<<HostapdWrite(ap, n, v), Told(ap, n, v), Restart(ap)>>
                 \o <<Return(ap, {n}, {})>>, ap)
<1>1. PICK s, lines : /\ s = <<HostapdWrite(ap, n, v), Told(ap, n, v), Restart(ap)>>
                      /\ lines = <<v>>
  OBVIOUS
<1>2. ASSUME NEW name
      PROVE  Writes(s, ap, name, For(name, n, lines), <<>>, For(name, n, v), <<"fresh">>, <<>>)
  BY <1>1, WritesSedSetting DEF Settled
<1>3. First(lines) = v /\ Final(lines) = v
  BY <1>1, LineSays
<1>4. n \in Name \ {"wpa"}
  BY DEF One, Name
<1>5. Sound(s \o <<Return(ap, {n}, {})>>, ap)
  BY <1>2, <1>3, <1>4, ParameterLeads
<1>6. QED
  BY <1>1, <1>5, Zenon

\* The methods of WPS.
LEMMA MethodsLead ==
    ASSUME Settled, NEW ap \in Ap, NEW m \in Method
    PROVE  Sound(WpsMethodCommands(ap, m)
                 \o <<IF Kept(m) THEN Return(ap, {"config_methods"}, {})
                                 ELSE Return(ap, {}, {"config_methods"})>>, ap)
<1>1. PICK s, n, lines : /\ s = WpsMethodCommands(ap, m) /\ n = "config_methods"
                         /\ lines = IF Kept(m) THEN <<m>> ELSE <<>>
  OBVIOUS
<1>2. ASSUME NEW name
      PROVE  Writes(s, ap, name, For(name, n, lines), <<>>, For(name, n, m), <<"fresh">>, <<>>)
  BY <1>1, WritesMethods
<1>3. n \in Name \ {"wpa"}
  BY <1>1 DEF Name, SedName
<1>4. CASE Kept(m)
  <2>1. First(lines) = m /\ Final(lines) = m
    BY <1>1, <1>4, LineSays
  <2>2. Sound(s \o <<Return(ap, {n}, {})>>, ap)
    BY <1>2, <1>3, <2>1, ParameterLeads
  <2>3. QED
    BY <1>1, <1>4, <2>2, Zenon
<1>5. CASE ~Kept(m)
  <2>1. ASSUME NEW name
        PROVE  \E f, t, r :
                  /\ Writes(s, ap, name, f, <<>>, t, r, <<>>)
                  /\ name # n => f = <<>> /\ t = <<>> /\ r \in {<<>>, <<"fresh">>}
    <3>1. name # n => For(name, n, lines) = <<>> /\ For(name, n, m) = <<>>
      BY DEF For
    <3>2. QED
      BY <1>2, <3>1
  <2>2. Sound(s \o <<Return(ap, {}, {n})>>, ap)
    BY <1>3, <2>1, ParameterOpens
  <2>3. QED
    BY <1>1, <1>5, <2>2, Zenon
<1>6. QED
  BY <1>4, <1>5

\* A list that is not empty, and one that repeats a value.
LEMMA AppendToNone == ASSUME NEW v PROVE Append(<<>>, v) = <<v>>
OBVIOUS

LEMMA SomeLines ==
    ASSUME NEW S, NEW s \in Seq(S), s # <<>>
    PROVE  /\ Len(s) \in Nat \ {0} /\ DOMAIN s = 1 .. Len(s)
           /\ Head(s) = s[1] /\ 1 \in DOMAIN s
OBVIOUS

Repeat(k, v) == [i \in 1 .. k |-> v]

LEMMA RepeatSays ==
    ASSUME NEW k \in Nat \ {0}, NEW v
    PROVE  First(Repeat(k, v)) = v /\ Final(Repeat(k, v)) = v
<1>1. PICK u : u = Repeat(k, v)
  OBVIOUS
<1>2. u \in Seq({v}) /\ 1 \in 1 .. k /\ k \in 1 .. k
  BY <1>1 DEF Repeat
<1>3. Len(u) = k /\ u[1] = v /\ u[k] = v
  BY <1>1, <1>2 DEF Repeat
<1>4. u # <<>> /\ Head(u) = u[1]
  BY <1>2, <1>3
<1>5. QED
  BY <1>1, <1>3, <1>4 DEF First, Final

\* Lines that are not empty, and those after a value was set.
LEMMA RpiLinesSay ==
    ASSUME Filed, NEW ap \in Ap, NEW n \in Name, NEW v, v # "",
           \A i \in DOMAIN file[ap][n] : file[ap][n][i] # ""
    PROVE  First(RpiLines(ap, n, v)) = v /\ Final(RpiLines(ap, n, v)) = v
<1>1. PICK s : s = file[ap][n]
  OBVIOUS
<1>2. s \in Seq(Text)
  BY <1>1 DEF Filed, Lines
<1>3. CASE s = <<>>
  <2>1. Append(s, v) = <<v>>
    BY <1>3, AppendToNone, Zenon
  <2>2. RpiLines(ap, n, v) = <<v>>
    BY <1>1, <1>3, <2>1 DEF RpiLines, Value
  <2>3. QED
    BY <2>2, LineSays
<1>4. CASE s # <<>>
  <2>1. PICK k : k = Len(s)
    OBVIOUS
  <2>2. k \in Nat \ {0} /\ DOMAIN s = 1 .. k /\ Head(s) = s[1] /\ 1 \in DOMAIN s
    BY <1>2, <1>4, <2>1, SomeLines
  <2>3. Value(ap, n) # ""
    BY <1>1, <1>4, <2>2 DEF Value
  <2>4. RpiLines(ap, n, v) = Repeat(k, v)
    BY <1>1, <2>2, <2>3 DEF RpiLines, Repeat
  <2>5. First(Repeat(k, v)) = v /\ Final(Repeat(k, v)) = v
    BY <2>2, RepeatSays, Zenon
  <2>6. QED
    BY <2>4, <2>5, Zenon
<1>5. QED
  BY <1>3, <1>4

\* A parameter that is inserted if absent.
LEMMA RpiLeads ==
    ASSUME Settled, NEW ap \in Ap, NEW n \in RpiName, NEW v \in Text, NEW c,
           \/ /\ c = Return(ap, {n}, {}) /\ v # ""
              /\ \A i \in DOMAIN file[ap][n] : file[ap][n][i] # ""
           \/ c = Return(ap, {}, {n})
    PROVE  Sound(RpiCommands(ap, n, v) \o <<c>>, ap)
<1>1. PICK s, lines, t : s = RpiCommands(ap, n, v) /\ lines = RpiLines(ap, n, v)
  OBVIOUS
<1>2. n \in Name \ {"wpa"} /\ Filed
  BY DEF Name, RpiName, Settled
<1>3. ASSUME NEW name
      PROVE  Writes(s, ap, name, For(name, n, lines), <<>>,
                    IF v # "" THEN For(name, n, v) ELSE <<>>, <<"fresh">>, <<>>)
  BY <1>1, <1>2, WritesRpi
<1>4. CASE /\ c = Return(ap, {n}, {}) /\ v # ""
           /\ \A i \in DOMAIN file[ap][n] : file[ap][n][i] # ""
  <2>1. First(lines) = v /\ Final(lines) = v
    BY <1>1, <1>2, <1>4, RpiLinesSay
  <2>2. ASSUME NEW name
        PROVE  Writes(s, ap, name, For(name, n, lines), <<>>, For(name, n, v), <<"fresh">>, <<>>)
    BY <1>3, <1>4
  <2>3. Sound(s \o <<Return(ap, {n}, {})>>, ap)
    BY <1>2, <2>1, <2>2, ParameterLeads
  <2>4. QED
    BY <1>1, <1>4, <2>3, Zenon
<1>5. CASE c = Return(ap, {}, {n})
  <2>1. ASSUME NEW name
        PROVE  \E f, t1, r :
                  /\ Writes(s, ap, name, f, <<>>, t1, r, <<>>)
                  /\ name # n => f = <<>> /\ t1 = <<>> /\ r \in {<<>>, <<"fresh">>}
    <3>1. name # n => For(name, n, lines) = <<>> /\ For(name, n, v) = <<>>
      BY DEF For
    <3>2. QED
      BY <1>3, <3>1
  <2>2. Sound(s \o <<Return(ap, {}, {n})>>, ap)
    BY <1>2, <2>1, ParameterOpens
  <2>3. QED
    BY <1>1, <1>5, <2>2, Zenon
<1>6. QED
  BY <1>4, <1>5

\* The isolation of the stations.
LEMMA IsolationLeads ==
    ASSUME Settled, NEW ap \in Ap, NEW v \in Text
    PROVE  Sound(<<RpiWrite(ap, "ap_isolate", v), Return(ap, {}, {"ap_isolate"})>>, ap)
<1>1. PICK c, d, n : /\ c = RpiWrite(ap, "ap_isolate", v) /\ n = "ap_isolate"
                     /\ d = Return(ap, {}, {"ap_isolate"})
  OBVIOUS
<1>2. n \in Name \ {"wpa"} /\ n \in RpiName
  BY <1>1 DEF Name, RpiName
<1>3. ASSUME NEW name
      PROVE  \E f, t, r :
                /\ Writes(<<c>>, ap, name, f, <<>>, t, r, <<>>)
                /\ name # n => f = <<>> /\ t = <<>> /\ r \in {<<>>, <<"fresh">>}
  <2>1. Writes(<<c>>, ap, name, For(name, n, RpiLines(ap, n, v)), <<>>, <<>>, <<>>, <<>>)
    BY <1>1, <1>2, WritesRpiLine DEF Settled
  <2>2. name # n => For(name, n, RpiLines(ap, n, v)) = <<>>
    BY DEF For
  <2>3. QED
    BY <2>1, <2>2
<1>4. Sound(<<c>> \o <<Return(ap, {}, {n})>>, ap)
  BY <1>2, <1>3, ParameterOpens
<1>5. <<c, d>> = <<c>> \o <<d>>
  BY TwoCommands
<1>6. QED
  BY <1>1, <1>4, <1>5, Zenon

\* The key management on its own.
LEMMA AuthLeads ==
    ASSUME Settled, NEW ap \in Ap, NEW auth
    PROVE  Sound(AuthCommands(ap, auth) \o <<Return(ap, {}, {"wpa_key_mgmt"})>>, ap)
<1>1. PICK s, n : s = AuthCommands(ap, auth) /\ n = "wpa_key_mgmt"
  OBVIOUS
<1>2. n \in Name \ {"wpa"}
  BY <1>1 DEF Name, SedName
<1>3. ASSUME NEW name
      PROVE  \E f, t, r :
                /\ Writes(s, ap, name, f, <<>>, t, r, <<>>)
                /\ name # n => f = <<>> /\ t = <<>> /\ r \in {<<>>, <<"fresh">>}
  <2>1. Writes(s, ap, name, KeyLine(auth, name), <<>>, <<>>, <<>>, <<>>)
    BY <1>1, WritesAuth DEF Settled
  <2>2. name # n => KeyLine(auth, name) = <<>>
    BY <1>1 DEF For, KeyLine
  <2>3. QED
    BY <2>1, <2>2
<1>4. Sound(s \o <<Return(ap, {}, {n})>>, ap)
  BY <1>2, <1>3, ParameterOpens
<1>5. QED
  BY <1>1, <1>4, Zenon

\* What both files hold for a security mode, and what hostapd is told.
LEMMA WpaOfMode ==
    ASSUME NEW ap, NEW beacon \in Beacon, NEW junk \in Junk
    PROVE  WpaAgrees(beacon, WpaWritten(ap, beacon, junk),
                     IF beacon = "None" THEN "0" ELSE WpaTold(beacon))
BY DEF WpaAgrees, WpaWritten, WpaTold, Beacon, Junk

\* A list that writes a security mode.
SetsMode(s, ap, beacon, junk, key) ==
    \A name : \E f :
        /\ Writes(s, ap, name, f, <<beacon>>, ModeTold(beacon, "PSK", key, name),
                  <<"fresh">>, <<>>)
        /\ name = "wpa" => f = <<WpaLine(ap, beacon, junk)>>
        /\ name \notin Security => f = <<>>

LEMMA ModeLeads ==
    ASSUME Settled, NEW ap \in Ap, NEW mode, NEW beacon \in Beacon, mode.beacon = beacon,
           NEW junk \in Junk, NEW key, key = Value(ap, "wpa_passphrase"), NEW s,
           SetsMode(s, ap, beacon, junk, key)
    PROVE  Sound(s \o <<ReturnMode(ap, mode)>>, ap)
<1>1. PICK given, not, u :
        /\ given = IF beacon = "None" THEN {"wpa"} ELSE {"wpa", "wpa_passphrase"}
        /\ not = Security \ {"wpa"} /\ u = s \o <<Return(ap, given, not)>>
  OBVIOUS
<1>2. given \in SUBSET Name /\ not \in SUBSET Name
  BY <1>1 DEF Security, Name, SedName
<1>3. not = {"wpa_key_mgmt", "wpa_pairwise", "rsn_pairwise"}
  BY <1>1 DEF Security
<1>4. ASSUME NEW name \in Name
      PROVE  u \in Seq(CommandOf(ap)) /\ Leads(u, ap, name)
  <2>1. PICK f : /\ Writes(s, ap, name, f, <<beacon>>, ModeTold(beacon, "PSK", key, name),
                           <<"fresh">>, <<>>)
                 /\ name = "wpa" => f = <<WpaLine(ap, beacon, junk)>>
                 /\ name \notin Security => f = <<>>
    BY DEF SetsMode
  <2>2. PICK t, o, m : /\ t = ModeTold(beacon, "PSK", key, name)
                       /\ o = Noted(name, given, not) /\ m = <<beacon>>
    OBVIOUS
  <2>3. Writes(u, ap, name, f, m, t, <<"fresh">>, o)
    BY <1>1, <1>2, <2>1, <2>2, Returned
  <2>4. CASE name = "wpa"
    <3>1. PICK wpa, told1 : /\ wpa = WpaWritten(ap, beacon, junk)
                            /\ told1 = IF beacon = "None" THEN "0" ELSE WpaTold(beacon)
      OBVIOUS
    <3>2. f = <<<<wpa>>>>
      BY <2>1, <2>4, <3>1, Zenon DEF WpaLine
    <3>3. t = <<told1>>
      BY <2>2, <2>4, <3>1 DEF ModeTold, For
    <3>4. WpaAgrees(beacon, wpa, told1)
      BY <3>1, WpaOfMode
    <3>5. Writes(u, ap, "wpa", <<<<wpa>>>>, <<beacon>>, <<told1>>, <<"fresh">>, o)
      BY <2>2, <2>3, <2>4, <3>2, <3>3
    <3>6. Leads(u, ap, "wpa")
      BY <3>4, <3>5, WpaGiven
    <3>7. QED
      BY <2>3, <2>4, <3>6 DEF Writes
  <2>5. CASE name \in {"wpa_key_mgmt", "wpa_pairwise", "rsn_pairwise"}
    <3>1. o = <<"open">>
      BY <1>3, <2>2, <2>5 DEF Noted
    <3>2. QED
      BY <2>3, <3>1, Opened DEF Writes
  <2>6. CASE name = "wpa_passphrase" /\ beacon # "None"
    <3>1. f = <<>> /\ t = <<key>> /\ name \in One \ {"wpa"}
      BY <2>1, <2>2, <2>6 DEF ModeTold, Security, One, SedName
    <3>2. Leads(u, ap, name)
      BY <2>3, <2>6, <3>1, ToldAgain DEF Settled
    <3>3. QED
      BY <2>3, <3>2 DEF Writes
  <2>7. CASE \/ name = "wpa_passphrase" /\ beacon = "None"
             \/ name \notin Security \cup {"wpa_passphrase"}
    <3>1. f = <<>> /\ t = <<>> /\ o = <<>> /\ name # "wpa"
      BY <1>1, <1>3, <2>1, <2>2, <2>7 DEF ModeTold, Security, For, Noted
    <3>2. Leads(<<>>, ap, name)
      BY DEF Settled
    <3>3. Leads(u, ap, name)
      BY <2>3, <3>1, <3>2, Untouched
    <3>4. QED
      BY <2>3, <3>3 DEF Writes
  <2>8. QED
    BY <2>4, <2>5, <2>6, <2>7 DEF Security
<1>5. "wpa" \in Name
  BY DEF Name, SedName
<1>6. Sound(u, ap)
  BY <1>4, <1>5 DEF Sound
<1>7. ReturnMode(ap, mode) = Return(ap, given, not)
  BY <1>1, Zenon DEF ReturnMode
<1>8. QED
  BY <1>1, <1>6, <1>7, Zenon

LEMMA BeaconLeads ==
    ASSUME Settled, NEW ap \in Ap, NEW beacon \in Beacon, NEW junk \in Junk
    PROVE  Sound(BeaconCommands(ap, beacon, Value(ap, "wpa_passphrase"), junk)
                 \o <<ReturnMode(ap, [beacon |-> beacon, auth |-> "PSK"])>>, ap)
<1>1. PICK key, s, mode : /\ key = Value(ap, "wpa_passphrase")
                          /\ s = BeaconCommands(ap, beacon, key, junk)
                          /\ mode = [beacon |-> beacon, auth |-> "PSK"]
  OBVIOUS
<1>2. key \in Text /\ junk \in Text /\ Filed
  BY <1>1, ValueIsText, Texts DEF Settled, Name, SedName
<1>3. ASSUME NEW name
      PROVE  \E f : /\ Writes(s, ap, name, f, <<beacon>>, ModeTold(beacon, "PSK", key, name),
                              <<"fresh">>, <<>>)
                    /\ name = "wpa" => f = <<WpaLine(ap, beacon, junk)>>
                    /\ name \notin Security => f = <<>>
  <2>1. Writes(s, ap, name, For(name, "wpa", WpaLine(ap, beacon, junk)), <<beacon>>,
               ModeTold(beacon, "PSK", key, name), <<"fresh">>, <<>>)
    BY <1>1, <1>2, WritesBeacon
  <2>2. /\ name = "wpa" => For(name, "wpa", WpaLine(ap, beacon, junk))
                             = <<WpaLine(ap, beacon, junk)>>
        /\ name \notin Security => For(name, "wpa", WpaLine(ap, beacon, junk)) = <<>>
    BY DEF For, Security
  <2>3. QED
    BY <2>1, <2>2
<1>4. SetsMode(s, ap, beacon, junk, key)
  BY <1>3 DEF SetsMode
<1>5. mode.beacon = beacon
  BY <1>1
<1>6. Sound(s \o <<ReturnMode(ap, mode)>>, ap)
  BY <1>1, <1>4, <1>5, ModeLeads
<1>7. QED
  BY <1>1, <1>6, Zenon

LEMMA SecurityModeLeads ==
    ASSUME Settled, NEW ap \in Ap, NEW mode \in Mode, NEW junk \in Junk
    PROVE  Sound(ModeCommands(ap, mode, Value(ap, "wpa_passphrase"), junk)
                 \o <<ReturnMode(ap, mode)>>, ap)
<1>1. PICK key, s, beacon : /\ key = Value(ap, "wpa_passphrase")
                            /\ s = ModeCommands(ap, mode, key, junk)
                            /\ beacon = mode.beacon
  OBVIOUS
<1>2. key \in Text /\ junk \in Text /\ Filed
  BY <1>1, ValueIsText, Texts DEF Settled, Name, SedName
<1>3. beacon \in Beacon
  <2>1. mode.beacon \in Beacon
    BY DEF Mode, NoMode, Beacon
  <2>2. QED
    BY <1>1, <2>1, Zenon
<1>4. ASSUME NEW name
      PROVE  \E f : /\ Writes(s, ap, name, f, <<beacon>>, ModeTold(beacon, "PSK", key, name),
                              <<"fresh">>, <<>>)
                    /\ name = "wpa" => f = <<WpaLine(ap, beacon, junk)>>
                    /\ name \notin Security => f = <<>>
  <2>1. PICK f : f = ModeLine(ap, beacon, mode.auth, junk, name)
    OBVIOUS
  <2>2. Writes(s, ap, name, f, <<beacon>>, ModeTold(beacon, "PSK", key, name),
               <<"fresh">>, <<>>)
    BY <1>1, <1>2, <2>1, WritesSecurityMode
  <2>3. /\ name = "wpa" => f = <<WpaLine(ap, beacon, junk)>>
        /\ name \notin Security => f = <<>>
    BY <2>1 DEF ModeLine, Then, For, KeyLine, Security
  <2>4. QED
    BY <2>2, <2>3
<1>5. SetsMode(s, ap, beacon, junk, key)
  BY <1>4 DEF SetsMode
<1>6. Sound(s \o <<ReturnMode(ap, mode)>>, ap)
  BY <1>1, <1>3, <1>5, ModeLeads
<1>7. QED
  BY <1>1, <1>6, Zenon

LEMMA EncryptionLeads ==
    ASSUME Settled, NEW ap \in Ap, NEW e \in Encryption, NEW names, NEW given,
           names = Pairwise(sec[ap]),
           given = {names[i] : i \in {j \in DOMAIN names : e # "TKIP"}}
    PROVE  Sound(EncryptionCommands(ap, SecurityMode(ap), e, Value(ap, "wpa_passphrase"))
                 \o <<Return(ap, given, Security \ ({"wpa"} \cup given))>>, ap)
<1>1. PICK key, s, mode, beacon, auth, cipher, not, u :
        /\ mode = SecurityMode(ap) /\ beacon = sec[ap] /\ auth = mode.auth
        /\ key = Value(ap, "wpa_passphrase") /\ s = EncryptionCommands(ap, mode, e, key)
        /\ cipher = (IF e = "TKIP CCMP" THEN e ELSE "CCMP")
        /\ not = Security \ ({"wpa"} \cup given) /\ u = s \o <<Return(ap, given, not)>>
  OBVIOUS
<1>2. key \in Text /\ Filed
  BY <1>1, ValueIsText DEF Settled, Name, SedName
<1>3. beacon \in Beacon
  BY <1>1 DEF Settled
<1>4. mode \in Mode /\ mode.beacon = beacon /\ (auth = "PSK" => beacon # "None")
  BY <1>1, <1>3 DEF SecurityMode, Mode, NoMode, Beacon
<1>5. /\ e = "TKIP" => given = {}
      /\ e # "TKIP" => given = Ciphers(beacon)
  BY <1>1 DEF Ciphers
<1>6. given \in SUBSET {"wpa_pairwise", "rsn_pairwise"} /\ given \subseteq Ciphers(beacon)
  BY <1>3, <1>5, CiphersAre DEF Beacon
<1>7. given \in SUBSET Name /\ not \in SUBSET Name
  BY <1>1, <1>6 DEF Security, Name, SedName
<1>8. not = {"wpa_key_mgmt", "wpa_pairwise", "rsn_pairwise"} \ given
  BY <1>1, <1>6 DEF Security
<1>9. Ciphers(beacon) \subseteq {"wpa_pairwise", "rsn_pairwise"}
  BY <1>3, CiphersAre DEF Beacon
<1>10. ASSUME NEW name \in Name
       PROVE  u \in Seq(CommandOf(ap)) /\ Leads(u, ap, name)
  <2>1. PICK f, t, o : /\ f = CipherLine(beacon, e, name)
                       /\ t = CipherTold(beacon, auth, cipher, key, name)
                       /\ o = Noted(name, given, not)
    OBVIOUS
  <2>2. Writes(s, ap, name, f, <<>>, t, <<"fresh">>, <<>>)
    <3>1. Writes(s, ap, name, CipherLine(mode.beacon, e, name), <<>>,
                 CipherTold(mode.beacon, mode.auth,
                            IF e = "TKIP CCMP" THEN e ELSE "CCMP", key, name),
                 <<"fresh">>, <<>>)
      BY <1>1, <1>2, <1>4, WritesEncryption
    <3>2. QED
      BY <1>1, <1>4, <2>1, <3>1, Zenon
  <2>3. Writes(u, ap, name, f, <<>>, t, <<"fresh">>, o)
    BY <1>1, <1>7, <2>1, <2>2, Returned
  <2>4. Leads(<<>>, ap, name) /\ u \in Seq(CommandOf(ap))
    BY <2>3 DEF Settled, Writes
  <2>5. CASE name = "wpa" /\ auth = "PSK"
    <3>1. f = <<>> /\ t = <<WpaTold(sec[ap])>> /\ o = <<>>
      BY <1>1, <1>6, <1>8, <1>9, <2>1, <2>5 DEF CipherLine, CipherTold, Noted
    <3>2. sec[ap] \in Beacon \ {"None"}
      BY <1>1, <1>3, <1>4, <2>5
    <3>3. Writes(u, ap, "wpa", <<>>, <<>>, <<WpaTold(sec[ap])>>, <<"fresh">>, <<>>)
      BY <2>3, <2>5, <3>1
    <3>4. Leads(u, ap, "wpa")
      BY <2>4, <2>5, <3>2, <3>3, WpaAgain
    <3>5. QED
      BY <2>4, <2>5, <3>4
  <2>6. CASE name \in given
    <3>1. f = <<<<e>>>> /\ t = <<e>> /\ name # "wpa"
      BY <1>1, <1>5, <1>6, <2>1, <2>6 DEF CipherLine, CipherTold, Encryption
    <3>2. Leads(u, ap, name)
      BY <2>3, <3>1, LineSays, GivenTo
    <3>3. QED
      BY <2>4, <3>2
  <2>7. CASE name \in not
    <3>1. o = <<"open">>
      BY <2>1, <2>7 DEF Noted
    <3>2. QED
      BY <2>3, <2>4, <3>1, Opened
  <2>8. CASE name = "wpa_passphrase"
    <3>1. f = <<>> /\ t = <<key>> /\ name \in One \ {"wpa"}
      BY <1>9, <2>1, <2>8 DEF CipherLine, CipherTold, One, SedName
    <3>2. Leads(u, ap, name)
      BY <1>1, <1>2, <2>3, <2>8, <3>1, ToldAgain
    <3>3. QED
      BY <2>4, <3>2
  <2>9. CASE /\ name \notin {"wpa_passphrase", "wpa_key_mgmt", "wpa_pairwise", "rsn_pairwise"}
             /\ name = "wpa" => auth # "PSK"
    <3>1. f = <<>> /\ t = <<>> /\ o = <<>>
      BY <1>6, <1>8, <1>9, <2>1, <2>9 DEF CipherLine, CipherTold, Noted
    <3>2. Leads(u, ap, name)
      BY <2>3, <2>4, <3>1, Untouched
    <3>3. QED
      BY <2>4, <3>2
  <2>10. QED
    BY <1>8, <2>5, <2>6, <2>7, <2>8, <2>9
<1>11. "wpa" \in Name
  BY DEF Name, SedName
<1>12. Sound(u, ap)
  BY <1>10, <1>11 DEF Sound
<1>13. QED
  BY <1>1, <1>12, Zenon

\* The reset of one access point.
ResetList(ap, ssid, key, mode) ==
    <<HostapdWrite(ap, "ssid", ssid), HostapdWrite(ap, "wpa_passphrase", key),
      WriteSecMode(ap, mode.beacon),
      HostapdWrite(ap, "wpa", WpaWritten(ap, mode.beacon, ""))>>
    \o CipherWrites(ap, mode.beacon, "CCMP")
    \o AuthCommands(ap, mode.auth)

Resets(s, ap, name) ==
    \E f, m : /\ Writes(s, ap, name, f, m, <<>>, <<>>, <<>>)
              /\ name \notin {"ssid", "wpa_passphrase"} \cup Security =>
                    f = <<>> /\ name # "wpa"

LEMMA WritesReset ==
    ASSUME Filed, NEW ap \in Ap, NEW name, NEW ssid \in Text, NEW key \in Text, NEW mode \in Mode
    PROVE  Resets(ResetList(ap, ssid, key, mode), ap, name)
<1>1. PICK beacon, auth, wpa :
        /\ beacon = mode.beacon /\ auth = mode.auth /\ wpa = WpaWritten(ap, beacon, "")
  OBVIOUS
<1>2. beacon \in Beacon
  <2>1. mode.beacon \in Beacon
    BY DEF Mode, NoMode, Beacon
  <2>2. QED
    BY <1>1, <2>1, Zenon
<1>3. wpa \in Text /\ "CCMP" \in Text
  <2>1. wpa \in {"", "1", "2", "3"}
    BY <1>1, <1>2 DEF WpaWritten, Beacon
  <2>2. {"", "1", "2", "3", "CCMP"} \subseteq Text
    BY DEF Text, Written, Encryption
  <2>3. QED
    BY <2>1, <2>2
<1>4. {"ssid", "wpa_passphrase", "wpa"} \subseteq One
  BY DEF One, SedName
<1>5. PICK w, x, y, z : /\ w = HostapdWrite(ap, "ssid", ssid)
                        /\ x = HostapdWrite(ap, "wpa_passphrase", key)
                        /\ y = WriteSecMode(ap, beacon) /\ z = HostapdWrite(ap, "wpa", wpa)
  OBVIOUS
<1>6. PICK d, u : d = CipherWrites(ap, beacon, "CCMP") /\ u = AuthCommands(ap, auth)
  OBVIOUS
<1>7. <<w, x, y, z>> = (<<w>> \o <<x>>) \o (<<y>> \o <<z>>)
  <2>1. <<w, x, y, z>> = (<<w>> \o <<x>>) \o <<y, z>>
    BY FourCommands
  <2>2. <<y, z>> = <<y>> \o <<z>>
    BY TwoCommands
  <2>3. QED
    BY <2>1, <2>2, Zenon
<1>8. ResetList(ap, ssid, key, mode) = (((<<w>> \o <<x>>) \o (<<y>> \o <<z>>)) \o d) \o u
  BY <1>1, <1>5, <1>6, <1>7, Zenon DEF ResetList
<1>9. PICK f1, f2, f3, f4, f5, m :
        /\ f1 = For(name, "ssid", <<ssid>>) /\ f2 = For(name, "wpa_passphrase", <<key>>)
        /\ f3 = For(name, "wpa", <<wpa>>) /\ f4 = CipherLine(beacon, "CCMP", name)
        /\ f5 = KeyLine(auth, name) /\ m = <<beacon>>
  OBVIOUS
<1>10. /\ Writes(<<w>>, ap, name, f1, <<>>, <<>>, <<>>, <<>>)
       /\ Writes(<<x>>, ap, name, f2, <<>>, <<>>, <<>>, <<>>)
       /\ Writes(<<z>>, ap, name, f3, <<>>, <<>>, <<>>, <<>>)
  BY <1>3, <1>4, <1>5, <1>9, WritesHostapd
<1>11. Writes(<<y>>, ap, name, <<>>, m, <<>>, <<>>, <<>>)
  BY <1>2, <1>5, <1>9, WritesMode
<1>12. Writes(d, ap, name, f4, <<>>, <<>>, <<>>, <<>>)
  BY <1>2, <1>3, <1>6, <1>9, WritesCiphers
<1>13. Writes(u, ap, name, f5, <<>>, <<>>, <<>>, <<>>)
  BY <1>6, <1>9, WritesAuth
<1>14. \A a : Then(a, <<>>) = a /\ Then(<<>>, a) = a
  BY DEF Then
<1>15. Writes(<<w>> \o <<x>>, ap, name, Then(f1, f2), <<>>, <<>>, <<>>, <<>>)
  <2>1. Writes(<<w>> \o <<x>>, ap, name, Then(f1, f2), Then(<<>>, <<>>), Then(<<>>, <<>>),
               Then(<<>>, <<>>), Then(<<>>, <<>>))
    BY <1>10, WritesBoth
  <2>2. QED
    BY <1>14, <2>1
<1>16. Writes(<<y>> \o <<z>>, ap, name, f3, m, <<>>, <<>>, <<>>)
  <2>1. Writes(<<y>> \o <<z>>, ap, name, Then(<<>>, f3), Then(m, <<>>), Then(<<>>, <<>>),
               Then(<<>>, <<>>), Then(<<>>, <<>>))
    BY <1>10, <1>11, WritesBoth
  <2>2. QED
    BY <1>14, <2>1
<1>17. PICK g : g = Then(f1, f2)
  OBVIOUS
<1>18. Writes((<<w>> \o <<x>>) \o (<<y>> \o <<z>>), ap, name, Then(g, f3), m, <<>>, <<>>, <<>>)
  <2>1. Writes((<<w>> \o <<x>>) \o (<<y>> \o <<z>>), ap, name, Then(g, f3), Then(<<>>, m),
               Then(<<>>, <<>>), Then(<<>>, <<>>), Then(<<>>, <<>>))
    BY <1>15, <1>16, <1>17, WritesBoth
  <2>2. QED
    BY <1>14, <2>1
<1>19. PICK a, h : a = (<<w>> \o <<x>>) \o (<<y>> \o <<z>>) /\ h = Then(g, f3)
  OBVIOUS
<1>20. Writes((a \o d) \o u, ap, name, Then(Then(h, f4), f5), m, <<>>, <<>>, <<>>)
  <2>1. Writes(a, ap, name, h, m, <<>>, <<>>, <<>>)
    BY <1>18, <1>19, Zenon
  <2>2. Writes((a \o d) \o u, ap, name, Then(Then(h, f4), f5), Then(Then(m, <<>>), <<>>),
               Then(Then(<<>>, <<>>), <<>>), Then(Then(<<>>, <<>>), <<>>),
               Then(Then(<<>>, <<>>), <<>>))
    BY <1>12, <1>13, <2>1, WritesBoth
  <2>3. QED
    BY <1>14, <2>2
<1>21. Ciphers(beacon) \subseteq {"wpa_pairwise", "rsn_pairwise"}
  BY <1>2, CiphersAre DEF Beacon
<1>22. name \notin {"ssid", "wpa_passphrase"} \cup Security =>
          Then(Then(h, f4), f5) = <<>> /\ name # "wpa"
  BY <1>9, <1>17, <1>19, <1>21 DEF Then, For, CipherLine, KeyLine, Security
<1>23. QED
  BY <1>8, <1>19, <1>20, <1>22 DEF Resets

LEMMA ResetLeads ==
    ASSUME Settled, NEW ap \in Ap, NEW ssid \in Text, NEW key \in Text, NEW mode \in Mode
    PROVE  Sound(ResetList(ap, ssid, key, mode)
                 \o <<Return(ap, {}, {"ssid", "wpa_passphrase"} \cup Security)>>, ap)
<1>1. PICK s, u, not : /\ s = ResetList(ap, ssid, key, mode)
                       /\ u = s \o <<Return(ap, {}, not)>>
                       /\ not = {"ssid", "wpa_passphrase"} \cup Security
  OBVIOUS
<1>2. not \in SUBSET Name /\ {} \in SUBSET Name
  BY <1>1 DEF Security, Name, SedName
<1>3. ASSUME NEW name \in Name
      PROVE  u \in Seq(CommandOf(ap)) /\ Leads(u, ap, name)
  <2>1. PICK f, m : /\ Writes(s, ap, name, f, m, <<>>, <<>>, <<>>)
                    /\ name \notin not => f = <<>> /\ name # "wpa"
    <3>1. Resets(s, ap, name)
      BY <1>1, WritesReset DEF Settled
    <3>2. QED
      BY <1>1, <3>1 DEF Resets
  <2>2. Writes(u, ap, name, f, m, <<>>, <<>>, Noted(name, {}, not))
    BY <1>1, <1>2, <2>1, Returned
  <2>3. CASE name \in not
    <3>1. Noted(name, {}, not) = <<"open">>
      BY <2>3 DEF Noted
    <3>2. QED
      BY <2>2, <3>1, Opened DEF Writes
  <2>4. CASE name \notin not
    <3>1. Writes(u, ap, name, <<>>, m, <<>>, <<>>, <<>>)
      BY <2>1, <2>2, <2>4 DEF Noted
    <3>2. Leads(<<>>, ap, name)
      BY DEF Settled
    <3>3. Leads(u, ap, name)
      BY <2>1, <2>4, <3>1, <3>2, Untouched
    <3>4. QED
      BY <3>1, <3>3 DEF Writes
  <2>5. QED
    BY <2>3, <2>4
<1>4. "wpa" \in Name
  BY DEF Name, SedName
<1>5. Sound(u, ap)
  BY <1>3, <1>4 DEF Sound
<1>6. QED
  BY <1>1, <1>5, Zenon

\* A call of one access point begins.
Begins(ap) == \E s : Sound(s, ap) /\ todo = <<>> /\ todo' = s /\ UNCHANGED configVars

LEMMA NameCallBegins ==
    ASSUME Settled, NEW ap \in Ap, NameCall(ap)
    PROVE  Begins(ap)
<1>1. ASSUME NEW key \in Key, SetPreSharedKey(ap, key)
      PROVE  Begins(ap)
  <2>1. key \in Text /\ "wpa_passphrase" \in One \ {"wpa"}
    BY Texts DEF One, SedName
  <2>2. Sound(KeyCommands(ap, key) \o <<Return(ap, {"wpa_passphrase"}, {})>>, ap)
    BY <2>1, SedLeads, Zenon DEF KeyCommands
  <2>3. QED
    BY <1>1, <2>2, Zenon DEF SetPreSharedKey, Call, Begins
<1>2. ASSUME NEW ssid \in Ssid, SetSSIDName(ap, ssid)
      PROVE  Begins(ap)
  <2>1. ssid \in Text
    BY Texts
  <2>2. Sound(SsidCommands(ap, ssid, Value(ap, "wpa_passphrase"))
              \o <<Return(ap, {"ssid", "wpa_passphrase"}, {})>>, ap)
    BY <2>1, SsidLeads, Zenon
  <2>3. QED
    BY <1>2, <2>2, Zenon DEF SetSSIDName, Call, Begins
<1>3. ASSUME NEW enable \in BOOLEAN, SetSsidAdvertisement(ap, enable)
      PROVE  Begins(ap)
  <2>1. PICK v : v = IF enable THEN "0" ELSE "1"
    OBVIOUS
  <2>2. v \in Text /\ "ignore_broadcast_ssid" \in One \ {"wpa"}
    BY <2>1, Texts DEF One, SedName
  <2>3. AdvertisementCommands(ap, enable)
        = <<HostapdWrite(ap, "ignore_broadcast_ssid", v),
            Told(ap, "ignore_broadcast_ssid", v), Restart(ap)>>
    BY <2>1, Zenon DEF AdvertisementCommands
  <2>4. Sound(AdvertisementCommands(ap, enable)
              \o <<Return(ap, {"ignore_broadcast_ssid"}, {})>>, ap)
    BY <2>2, <2>3, SedLeads, Zenon
  <2>5. QED
    BY <1>3, <2>4, Zenon DEF SetSsidAdvertisement, Call, Begins
<1>4. QED
  BY <1>1, <1>2, <1>3, Zenon DEF NameCall, SetKeyPassphrase

LEMMA SecurityCallBegins ==
    ASSUME Settled, NEW ap \in Ap, SecurityCall(ap)
    PROVE  Begins(ap)
<1>1. ASSUME NEW mode \in Mode, NEW junk \in Junk, SetSecurityMode(ap, mode, junk)
      PROVE  Begins(ap)
  <2>1. Sound(ModeCommands(ap, mode, Value(ap, "wpa_passphrase"), junk)
              \o <<ReturnMode(ap, mode)>>, ap)
    BY SecurityModeLeads, Zenon
  <2>2. QED
    BY <1>1, <2>1, Zenon DEF SetSecurityMode, Call, Begins
<1>2. ASSUME NEW mode \in Mode, NEW junk \in Junk, SetBeaconType(ap, mode.beacon, junk)
      PROVE  Begins(ap)
  <2>1. mode.beacon \in Beacon
    BY DEF Mode, NoMode, Beacon
  <2>2. PICK beacon : beacon = mode.beacon
    OBVIOUS
  <2>3. Sound(BeaconCommands(ap, beacon, Value(ap, "wpa_passphrase"), junk)
              \o <<ReturnMode(ap, [beacon |-> beacon, auth |-> "PSK"])>>, ap)
    BY <2>1, <2>2, BeaconLeads, Zenon
  <2>4. QED
    BY <1>2, <2>2, <2>3, Zenon DEF SetBeaconType, Call, Begins
<1>3. ASSUME NEW mode \in Mode, SetBasicAuthenticationMode(ap, mode.auth)
      PROVE  Begins(ap)
  <2>1. Sound(AuthCommands(ap, mode.auth) \o <<Return(ap, {}, {"wpa_key_mgmt"})>>, ap)
    BY AuthLeads, Zenon
  <2>2. QED
    BY <1>3, <2>1, Zenon DEF SetBasicAuthenticationMode, Call, Begins
<1>4. ASSUME NEW e \in Encryption, SetEncryptionMode(ap, e)
      PROVE  Begins(ap)
  <2>1. PICK names, given : /\ names = Pairwise(sec[ap])
                            /\ given = {names[i] : i \in {j \in DOMAIN names : e # "TKIP"}}
    OBVIOUS
  <2>2. Sound(EncryptionCommands(ap, SecurityMode(ap), e, Value(ap, "wpa_passphrase"))
              \o <<Return(ap, given, Security \ ({"wpa"} \cup given))>>, ap)
    BY <2>1, EncryptionLeads
  <2>3. QED
    BY <1>4, <2>1, <2>2, Zenon DEF SetEncryptionMode, Call, Begins
<1>5. QED
  BY <1>1, <1>2, <1>3, <1>4, Zenon DEF SecurityCall, ModeCall

LEMMA WpsCallBegins ==
    ASSUME Settled, NEW ap \in Ap, WpsCall(ap)
    PROVE  Begins(ap)
<1>1. ASSUME NEW enable \in BOOLEAN, SetWpsEnable(ap, enable)
      PROVE  Begins(ap)
  <2>1. PICK v : v = IF enable THEN "2" ELSE "0"
    OBVIOUS
  <2>2. v \in Text /\ "wps_state" \in One \ {"wpa"}
    BY <2>1, Texts DEF One, SedName
  <2>3. WpsEnableCommands(ap, enable)
        = <<HostapdWrite(ap, "wps_state", v), Told(ap, "wps_state", v), Restart(ap)>>
    BY <2>1, Zenon DEF WpsEnableCommands
  <2>4. Sound(WpsEnableCommands(ap, enable) \o <<Return(ap, {"wps_state"}, {})>>, ap)
    BY <2>2, <2>3, SedLeads, Zenon
  <2>5. QED
    BY <1>1, <2>4, Zenon DEF SetWpsEnable, Call, Begins
<1>2. ASSUME NEW m \in Method, SetWpsConfigMethods(ap, m)
      PROVE  Begins(ap)
  BY <1>2, MethodsLead, Zenon DEF SetWpsConfigMethods, Call, Begins
<1>3. ASSUME NEW pin \in {"1234", "5678"}, SetWpsDevicePIN(ap, pin)
      PROVE  Begins(ap)
  <2>1. pin \in Text /\ "ap_pin" \in One \ {"wpa"}
    BY Texts DEF One, SedName
  <2>2. Sound(WpsPinCommands(ap, pin) \o <<Return(ap, {"ap_pin"}, {})>>, ap)
    BY <2>1, SedLeads, Zenon DEF WpsPinCommands
  <2>3. QED
    BY <1>3, <2>2, Zenon DEF SetWpsDevicePIN, Call, Begins
<1>4. QED
  BY <1>1, <1>2, <1>3, Zenon DEF WpsCall

LEMMA ParameterCallBegins ==
    ASSUME Settled, NEW ap \in Ap, ParameterCall(ap)
    PROVE  Begins(ap)
<1>1. ASSUME NEW n \in RpiName, NEW v \in Text, SetParameter(ap, n, v)
      PROVE  Begins(ap)
  <2>1. PICK read \in BOOLEAN :
           read = (v # "" /\ \A i \in DOMAIN file[ap][n] : file[ap][n][i] # "")
    OBVIOUS
  <2>2. PICK c : c = IF read THEN Return(ap, {n}, {}) ELSE Return(ap, {}, {n})
    OBVIOUS
  <2>3. Sound(RpiCommands(ap, n, v) \o <<c>>, ap)
    BY <2>1, <2>2, RpiLeads, Zenon
  <2>4. Call(RpiCommands(ap, n, v) \o <<c>>)
    BY <1>1, <2>1, <2>2, Zenon DEF SetParameter
  <2>5. QED
    BY <2>3, <2>4, Zenon DEF Call, Begins
<1>2. ASSUME NEW enable \in BOOLEAN
      PROVE  Flag(enable) \in Text
  BY Texts DEF Flag
<1>3. {"wmm_enabled", "uapsd_advertisement_enabled", "max_num_sta", "ieee80211w",
       "bss_transition", "rrm_neighbor_report"} \subseteq RpiName
  BY DEF RpiName
<1>4. ASSUME NEW enable \in BOOLEAN,
             \/ SetWmmEnable(ap, enable) \/ SetWmmUapsdEnable(ap, enable)
             \/ SetBSSTransition(ap, enable) \/ SetNeighborReport(ap, enable)
      PROVE  Begins(ap)
  <2>1. "wmm_enabled" \in RpiName /\ "uapsd_advertisement_enabled" \in RpiName
        /\ "bss_transition" \in RpiName /\ "rrm_neighbor_report" \in RpiName
    BY <1>3
  <2>2. QED
    BY <1>1, <1>2, <1>4, <2>1, Zenon
    DEF SetWmmEnable, SetWmmUapsdEnable, SetBSSTransition, SetNeighborReport
<1>5. ASSUME NEW enable \in BOOLEAN, SetIsolation(ap, enable)
      PROVE  Begins(ap)
  <2>1. Sound(<<RpiWrite(ap, "ap_isolate", Flag(enable)), Return(ap, {}, {"ap_isolate"})>>, ap)
    BY <1>2, IsolationLeads, Zenon
  <2>2. QED
    BY <1>5, <2>1, Zenon DEF SetIsolation, Call, Begins
<1>6. ASSUME NEW n \in {"5", "10"}, SetMaxAssociatedDevices(ap, n)
      PROVE  Begins(ap)
  <2>1. n \in Text /\ "max_num_sta" \in RpiName
    BY <1>3, Texts
  <2>2. QED
    BY <1>1, <1>6, <2>1, Zenon DEF SetMaxAssociatedDevices
<1>7. ASSUME NEW v \in {"0", "1", "2", ""}, SetMFPConfig(ap, v)
      PROVE  Begins(ap)
  <2>1. v \in Text /\ "ieee80211w" \in RpiName
    BY <1>3, Texts
  <2>2. QED
    BY <1>1, <1>7, <2>1, Zenon DEF SetMFPConfig
<1>8. QED
  BY <1>4, <1>5, <1>6, <1>7, Zenon DEF ParameterCall

LEMMA FactoryResetApBegins ==
    ASSUME Settled, NEW ap \in Ap, NEW ssid \in Ssid, NEW key \in Key,
           FactoryResetAp(ap, ssid, key)
    PROVE  Begins(ap)
<1>1. PICK mode : mode = DefaultMode[ap]
  OBVIOUS
<1>2. mode \in Mode /\ ssid \in Text /\ key \in Text
  BY <1>1, Texts, ApConfigAssumption
<1>3. Sound(ResetList(ap, ssid, key, mode)
            \o <<Return(ap, {}, {"ssid", "wpa_passphrase"} \cup Security)>>, ap)
  BY <1>2, ResetLeads, Zenon
<1>4. Call(ResetList(ap, ssid, key, mode)
           \o <<Return(ap, {}, {"ssid", "wpa_passphrase"} \cup Security)>>)
  BY <1>1, Zenon DEF FactoryResetAp, ResetList, CipherWrites
<1>5. QED
  BY <1>3, <1>4, Zenon DEF Call, Begins

-----------------------------------------------------------------------------
(***************************************************************************)
(* The invariant.                                                          *)
(***************************************************************************)

StateTyped ==
    /\ file \in [Ap -> [Name -> Lines]] /\ sec \in [Ap -> Beacon]
    /\ told \in [Ap -> [Name -> Text]] /\ air \in [Ap -> [Name -> Text]]
    /\ open \in SUBSET (Ap \X Name)

Typed == StateTyped /\ todo \in Seq(Command)

\* A file that has the lines that are replaced in place.
Whole(f) == \A n \in One : Len(f[n]) = 1

\* What is left of a call of one access point; of a reset of both, which leaves a file
\* empty in between.
OfOne(s) == Filed /\ \E ap \in Ap : s \in Seq(CommandOf(ap))

AnewCommand == {c \in Command : \/ c.do = "return"
                                \/ c.do = "replace" /\ (c.to = Absent \/ Whole(c.to))}

OfBoth(s) ==
    /\ s \in Seq(AnewCommand)
    /\ \A ap \in Ap : file[ap] = Absent \/ Whole(file[ap])
    /\ \A ap \in Ap, n \in One : Len(After(s, "file", ap, n)) = 1

\* Commands that may be left.
Bound(s) ==
    /\ StateTyped /\ s \in Seq(Command)
    /\ OfOne(s) \/ OfBoth(s)
    /\ \A ap \in Ap, name \in Name : Leads(s, ap, name)

IInv == \E s : todo = s /\ Bound(s)

\* Commands about one access point write nothing of the other.
LEMMA ElsewhereSame ==
    ASSUME NEW ap, NEW q, q # ap, NEW name, NEW s \in Seq(CommandOf(ap)), NEW what
    PROVE  After(s, what, q, name) = After(<<>>, what, q, name)
<1>1. ASSUME NEW c \in CommandOf(ap)
      PROVE  Effect(c, what, q, name) = <<>>
  <2>1. /\ c.do # "replace" /\ (c.do # "return" => c.ap = ap)
        /\ c.do = "return" => \A an \in c.given \cup c.not : an[1] = ap
    BY DEF CommandOf
  <2>2. c.do = "return" => <<q, name>> \notin c.given /\ <<q, name>> \notin c.not
    <3>1. ASSUME c.do = "return", <<q, name>> \in c.given \cup c.not
          PROVE  FALSE
      <4>1. <<q, name>>[1] = ap
        BY <2>1, <3>1, Zenon
      <4>2. QED
        BY <4>1
    <3>2. QED
      BY <3>1
  <2>3. QED
    BY <2>1, <2>2 DEF Effect
<1>2. \A i \in DOMAIN s : Keeps(s, i, what, q, name)
  <2>1. \A i \in DOMAIN s : s[i] \in CommandOf(ap)
    OBVIOUS
  <2>2. QED
    BY <1>1, <2>1 DEF Keeps
<1>3. Net(s, what, q, name) = <<>>
  BY <1>2, NetIs
<1>4. QED
  BY <1>3, NetNone DEF After

\* Nor do they change what is said of it.
LEMMA Elsewhere ==
    ASSUME NEW ap, NEW q, q # ap, NEW name, NEW s \in Seq(CommandOf(ap)), Leads(<<>>, q, name)
    PROVE  Leads(s, q, name)
<1>1. \A what : After(s, what, q, name) = After(<<>>, what, q, name)
  BY ElsewhereSame
<1>2. QED
  BY <1>1, Zenon DEF Leads

\* Commands that wait while nothing changes lead to the same.
LEMMA BoundStays ==
    ASSUME UNCHANGED configVars, NEW s, Bound(s)
    PROVE  Bound(s)'
<1>1. UNCHANGED <<file, sec, told, air, open>>
  BY DEF configVars
<1>2. \A what, ap, name : Now(what, ap, name)' = Now(what, ap, name)
  BY <1>1 DEF Now
<1>3. \A what, ap, name : After(s, what, ap, name)' = After(s, what, ap, name)
  BY <1>2 DEF After, Over
<1>4. \A ap \in Ap, name \in Name : Leads(s, ap, name)'
  BY <1>3 DEF Bound, Leads
<1>5. StateTyped'
  BY <1>1 DEF Bound, StateTyped
<1>6. OfOne(s) => OfOne(s)'
  BY <1>1 DEF OfOne, Filed
<1>7. OfBoth(s) => OfBoth(s)'
  BY <1>1, <1>3 DEF OfBoth, Whole
<1>8. QED
  BY <1>4, <1>5, <1>6, <1>7 DEF Bound

\* Between the calls the invariant says what the calls need.
LEMMA BetweenCalls ==
    ASSUME Bound(<<>>)
    PROVE  Settled
<1>1. OfBoth(<<>>) => Filed
  <2>1. SUFFICES ASSUME OfBoth(<<>>), NEW ap \in Ap, NEW n \in One
                 PROVE  Len(file[ap][n]) = 1
    BY DEF Bound, StateTyped, Filed
  <2>2. After(<<>>, "file", ap, n) = file[ap][n]
    BY AfterNone
  <2>3. Len(After(<<>>, "file", ap, n)) = 1
    BY <2>1 DEF OfBoth
  <2>4. QED
    BY <2>2, <2>3
<1>2. Filed
  BY <1>1 DEF Bound, OfOne
<1>3. QED
  BY <1>2 DEF Settled, Bound, StateTyped

\* No commands are left when every parameter is settled.
LEMMA SettledBound ==
    ASSUME StateTyped, Settled
    PROVE  Bound(<<>>)
<1>1. <<>> \in Seq(Command) /\ <<>> \in Seq(CommandOf(0)) /\ 0 \in Ap
  BY DEF Ap
<1>2. OfOne(<<>>)
  BY <1>1 DEF OfOne, Settled
<1>3. QED
  BY <1>1, <1>2 DEF Bound, Settled

\* A call may begin.
LEMMA CallBound ==
    ASSUME Bound(<<>>), NEW ap \in Ap, NEW s, Sound(s, ap)
    PROVE  Bound(s)
<1>1. Settled /\ StateTyped
  BY BetweenCalls DEF Bound
<1>2. s \in Seq(CommandOf(ap)) /\ \A name \in Name : Leads(s, ap, name)
  BY DEF Sound
<1>3. s \in Seq(Command)
  <2>1. CommandOf(ap) \subseteq Command
    BY DEF CommandOf
  <2>2. QED
    BY <1>2, <2>1
<1>4. OfOne(s)
  BY <1>1, <1>2 DEF Settled, OfOne
<1>5. ASSUME NEW q \in Ap, NEW name \in Name
      PROVE  Leads(s, q, name)
  <2>1. Leads(<<>>, q, name)
    BY <1>1 DEF Settled
  <2>2. QED
    BY <1>2, <2>1, Elsewhere
<1>6. QED
  BY <1>1, <1>3, <1>4, <1>5 DEF Bound

\* The parts of a command.
LEMMA CommandParts ==
    ASSUME NEW c \in Command
    PROVE  /\ c.do \in {"file", "replace", "sec", "told", "restart", "return"}
           /\ c.do # "return" => c.ap \in Ap
           /\ c.do = "file" => c.name \in Name /\ c.to \in Lines
           /\ c.do = "replace" => c.to \in [Name -> Lines]
           /\ c.do = "sec" => c.to \in Beacon
           /\ c.do = "told" => c.name \in Name /\ c.to \in Text
           /\ c.do = "return" => c.given \in SUBSET (Ap \X Name) /\ c.not \in SUBSET (Ap \X Name)
BY DEF Command

\* One value of an access point replaced.
Put(f, ap, name, v) == [f EXCEPT ![ap][name] = v]

LEMMA PutLines ==
    ASSUME file \in [Ap -> [Name -> Lines]], NEW ap \in Ap, NEW name \in Name, NEW v \in Lines,
           file' = Put(file, ap, name, v)
    PROVE  /\ file' \in [Ap -> [Name -> Lines]]
           /\ \A q \in Ap, n \in Name :
                 file'[q][n] = IF q = ap /\ n = name THEN v ELSE file[q][n]
<1>1. PICK f, g, S : f = file /\ g = file' /\ S = Lines
  OBVIOUS
<1>2. f \in [Ap -> [Name -> S]] /\ v \in S /\ g = Put(f, ap, name, v)
  BY <1>1, Zenon
<1>3. /\ g \in [Ap -> [Name -> S]]
      /\ \A q \in Ap, n \in Name : g[q][n] = IF q = ap /\ n = name THEN v ELSE f[q][n]
  BY <1>2 DEF Put
<1>4. QED
  BY <1>1, <1>3, Zenon

LEMMA PutText ==
    ASSUME told \in [Ap -> [Name -> Text]], NEW ap \in Ap, NEW name \in Name, NEW v \in Text,
           told' = Put(told, ap, name, v)
    PROVE  /\ told' \in [Ap -> [Name -> Text]]
           /\ \A q \in Ap, n \in Name :
                 told'[q][n] = IF q = ap /\ n = name THEN v ELSE told[q][n]
<1>1. PICK f, g, S : f = told /\ g = told' /\ S = Text
  OBVIOUS
<1>2. f \in [Ap -> [Name -> S]] /\ v \in S /\ g = Put(f, ap, name, v)
  BY <1>1, Zenon
<1>3. /\ g \in [Ap -> [Name -> S]]
      /\ \A q \in Ap, n \in Name : g[q][n] = IF q = ap /\ n = name THEN v ELSE f[q][n]
  BY <1>2 DEF Put
<1>4. QED
  BY <1>1, <1>3, Zenon

\* A command writes what its effect is.
WritAt(c, ap, name) ==
    /\ file'[ap][name] = Over(file[ap][name], Effect(c, "file", ap, name))
    /\ sec'[ap] = Over(sec[ap], Effect(c, "sec", ap, name))
    /\ told'[ap][name] = Over(told[ap][name], Effect(c, "told", ap, name))
    /\ Effect(c, "fresh", ap, name) = <<>> =>
          told'[ap][name] = told[ap][name] /\ air'[ap][name] = air[ap][name]
    /\ Effect(c, "fresh", ap, name) \in {<<>>, <<"stale">>, <<"fresh">>}
    /\ Effect(c, "fresh", ap, name) = <<"fresh">> => air'[ap][name] = told'[ap][name]
    /\ <<ap, name>> \in open' <=>
          Over(IF <<ap, name>> \in open THEN "open" ELSE "sure",
               Effect(c, "open", ap, name)) = "open"

Writ(c) == \A ap \in Ap, name \in Name : WritAt(c, ap, name)

LEMMA StepValues ==
    ASSUME StateTyped, NEW c \in Command, ConfigStep(c)
    PROVE  Writ(c) /\ StateTyped'
<1> /\ \A a : Over(a, <<>>) = a
    /\ \A a, b : Over(a, <<b>>) = b
  BY DEF Over
<1>1. CASE c.do = "file"
  <2>1. /\ c.ap \in Ap /\ c.name \in Name /\ c.to \in Lines
        /\ file' = Put(file, c.ap, c.name, c.to) /\ UNCHANGED <<sec, told, air, open>>
    BY <1>1, CommandParts DEF ConfigStep, Put
  <2>2. /\ file' \in [Ap -> [Name -> Lines]]
        /\ \A q \in Ap, n \in Name :
              file'[q][n] = IF q = c.ap /\ n = c.name THEN c.to ELSE file[q][n]
    <3>1. file \in [Ap -> [Name -> Lines]]
      BY DEF StateTyped
    <3>2. PICK q, n, v : q = c.ap /\ n = c.name /\ v = c.to
      OBVIOUS
    <3>3. q \in Ap /\ n \in Name /\ v \in Lines /\ file' = Put(file, q, n, v)
      BY <2>1, <3>2, Zenon
    <3>4. QED
      BY <3>1, <3>2, <3>3, PutLines
  <2>3. \A q \in Ap, n \in Name :
           /\ Effect(c, "file", q, n) = IF q = c.ap /\ n = c.name THEN <<c.to>> ELSE <<>>
           /\ Effect(c, "sec", q, n) = <<>> /\ Effect(c, "told", q, n) = <<>>
           /\ Effect(c, "fresh", q, n) = <<>> /\ Effect(c, "open", q, n) = <<>>
    BY <1>1 DEF Effect
  <2>4. ASSUME NEW q \in Ap, NEW n \in Name
        PROVE  WritAt(c, q, n)
    BY <2>1, <2>2, <2>3 DEF WritAt
  <2>5. QED
    BY <2>1, <2>2, <2>4 DEF StateTyped, Writ
<1>2. CASE c.do = "replace"
  <2>1. /\ c.ap \in Ap /\ c.to \in [Name -> Lines]
        /\ file' = [file EXCEPT ![c.ap] = c.to] /\ UNCHANGED <<sec, told, air, open>>
    BY <1>2, CommandParts DEF ConfigStep
  <2>2. /\ file' \in [Ap -> [Name -> Lines]]
        /\ \A q \in Ap, n \in Name : file'[q][n] = IF q = c.ap THEN c.to[n] ELSE file[q][n]
    BY <2>1 DEF StateTyped
  <2>3. \A q \in Ap, n \in Name :
           /\ Effect(c, "file", q, n) = IF q = c.ap THEN <<c.to[n]>> ELSE <<>>
           /\ Effect(c, "sec", q, n) = <<>> /\ Effect(c, "told", q, n) = <<>>
           /\ Effect(c, "fresh", q, n) = <<>> /\ Effect(c, "open", q, n) = <<>>
    BY <1>2 DEF Effect
  <2>4. ASSUME NEW q \in Ap, NEW n \in Name
        PROVE  WritAt(c, q, n)
    BY <2>1, <2>2, <2>3 DEF WritAt
  <2>5. QED
    BY <2>1, <2>2, <2>4 DEF StateTyped, Writ
<1>3. CASE c.do = "sec"
  <2>1. /\ c.ap \in Ap /\ c.to \in Beacon
        /\ sec' = [sec EXCEPT ![c.ap] = c.to] /\ UNCHANGED <<file, told, air, open>>
    BY <1>3, CommandParts DEF ConfigStep
  <2>2. /\ sec' \in [Ap -> Beacon]
        /\ \A q \in Ap : sec'[q] = IF q = c.ap THEN c.to ELSE sec[q]
    BY <2>1 DEF StateTyped
  <2>3. \A q \in Ap, n \in Name :
           /\ Effect(c, "sec", q, n) = IF q = c.ap THEN <<c.to>> ELSE <<>>
           /\ Effect(c, "file", q, n) = <<>> /\ Effect(c, "told", q, n) = <<>>
           /\ Effect(c, "fresh", q, n) = <<>> /\ Effect(c, "open", q, n) = <<>>
    BY <1>3 DEF Effect
  <2>4. ASSUME NEW q \in Ap, NEW n \in Name
        PROVE  WritAt(c, q, n)
    BY <2>1, <2>2, <2>3 DEF WritAt
  <2>5. QED
    BY <2>1, <2>2, <2>4 DEF StateTyped, Writ
<1>4. CASE c.do = "told"
  <2>1. /\ c.ap \in Ap /\ c.name \in Name /\ c.to \in Text
        /\ told' = Put(told, c.ap, c.name, c.to) /\ UNCHANGED <<file, sec, air, open>>
    BY <1>4, CommandParts DEF ConfigStep, Put
  <2>2. /\ told' \in [Ap -> [Name -> Text]]
        /\ \A q \in Ap, n \in Name :
              told'[q][n] = IF q = c.ap /\ n = c.name THEN c.to ELSE told[q][n]
    <3>1. told \in [Ap -> [Name -> Text]]
      BY DEF StateTyped
    <3>2. PICK q, n, v : q = c.ap /\ n = c.name /\ v = c.to
      OBVIOUS
    <3>3. q \in Ap /\ n \in Name /\ v \in Text /\ told' = Put(told, q, n, v)
      BY <2>1, <3>2, Zenon
    <3>4. QED
      BY <3>1, <3>2, <3>3, PutText
  <2>3. \A q \in Ap, n \in Name :
           /\ Effect(c, "told", q, n) = IF q = c.ap /\ n = c.name THEN <<c.to>> ELSE <<>>
           /\ Effect(c, "fresh", q, n) = IF q = c.ap /\ n = c.name THEN <<"stale">> ELSE <<>>
           /\ Effect(c, "file", q, n) = <<>> /\ Effect(c, "sec", q, n) = <<>>
           /\ Effect(c, "open", q, n) = <<>>
    BY <1>4 DEF Effect
  <2>4. ASSUME NEW q \in Ap, NEW n \in Name
        PROVE  WritAt(c, q, n)
    BY <2>1, <2>2, <2>3 DEF WritAt
  <2>5. QED
    BY <2>1, <2>2, <2>4 DEF StateTyped, Writ
<1>5. CASE c.do = "restart"
  <2>1. /\ c.ap \in Ap
        /\ air' = [air EXCEPT ![c.ap] = told[c.ap]] /\ UNCHANGED <<file, sec, told, open>>
    BY <1>5, CommandParts DEF ConfigStep
  <2>2. /\ air' \in [Ap -> [Name -> Text]]
        /\ \A q \in Ap : air'[q] = IF q = c.ap THEN told[q] ELSE air[q]
    BY <2>1 DEF StateTyped
  <2>3. \A q \in Ap, n \in Name :
           /\ Effect(c, "fresh", q, n) = IF q = c.ap THEN <<"fresh">> ELSE <<>>
           /\ Effect(c, "file", q, n) = <<>> /\ Effect(c, "sec", q, n) = <<>>
           /\ Effect(c, "told", q, n) = <<>> /\ Effect(c, "open", q, n) = <<>>
    BY <1>5 DEF Effect
  <2>4. ASSUME NEW q \in Ap, NEW n \in Name
        PROVE  WritAt(c, q, n)
    BY <2>1, <2>2, <2>3 DEF WritAt
  <2>5. QED
    BY <2>1, <2>2, <2>4 DEF StateTyped, Writ
<1>6. CASE c.do = "return"
  <2>1. /\ c.given \in SUBSET (Ap \X Name) /\ c.not \in SUBSET (Ap \X Name)
        /\ open' = (open \ c.given) \cup c.not /\ UNCHANGED <<file, sec, told, air>>
    BY <1>6, CommandParts DEF ConfigStep
  <2>2. \A q \in Ap, n \in Name :
           /\ Effect(c, "open", q, n) = IF <<q, n>> \in c.not THEN <<"open">>
                                        ELSE IF <<q, n>> \in c.given THEN <<"sure">> ELSE <<>>
           /\ Effect(c, "file", q, n) = <<>> /\ Effect(c, "sec", q, n) = <<>>
           /\ Effect(c, "told", q, n) = <<>> /\ Effect(c, "fresh", q, n) = <<>>
    BY <1>6 DEF Effect
  <2>3. ASSUME NEW q \in Ap, NEW n \in Name
        PROVE  WritAt(c, q, n)
    BY <2>1, <2>2 DEF WritAt
  <2>4. QED
    BY <2>1, <2>3 DEF StateTyped, Writ
<1>7. QED
  BY <1>1, <1>2, <1>3, <1>4, <1>5, <1>6, CommandParts

\* What is left writes over what a command has written.
LEMMA OverThen == ASSUME NEW was, NEW a, NEW b PROVE Over(was, Then(a, b)) = Over(Over(was, a), b)
BY DEF Over, Then

\* The first command of a list and the others.
LEMMA HeadTail ==
    ASSUME NEW S, NEW s \in Seq(S), s # <<>>
    PROVE  Head(s) \in S /\ Tail(s) \in Seq(S) /\ s = <<Head(s)>> \o Tail(s)
<1>1. Head(s) \in S /\ Tail(s) \in Seq(S) /\ Head(s) = s[1] /\ 1 \in DOMAIN s
  OBVIOUS
<1>2. Len(Tail(s)) = Len(s) - 1 /\ Len(s) \in Nat \ {0}
  OBVIOUS
<1>3. \A i \in DOMAIN Tail(s) : i + 1 \in DOMAIN s /\ Tail(s)[i] = s[i + 1] /\ i \in Nat \ {0}
  OBVIOUS
<1>4. s = <<Head(s)>> \o Tail(s)
  <2> DEFINE d == <<Head(s)>> \o Tail(s)
  <2>1. d \in Seq(S) /\ Len(d) = Len(s)
    BY <1>1, <1>2
  <2>2. \A i \in 1..Len(s) : d[i] = s[i]
    BY <1>1, <1>2, <1>3
  <2> HIDE DEF d
  <2>3. s = [i \in 1..Len(s) |-> s[i]] /\ d = [i \in 1..Len(d) |-> d[i]]
    BY <2>1
  <2>4. s = d
    BY <2>1, <2>2, <2>3
  <2>5. QED
    BY <2>4 DEF d
<1>5. QED
  BY <1>1, <1>4

\* What a command writes is no longer left.
LEMMA StepNet ==
    ASSUME NEW s \in Seq(Command), s # <<>>, NEW what, NEW ap, NEW name
    PROVE  Net(s, what, ap, name)
             = Then(Effect(Head(s), what, ap, name), Net(Tail(s), what, ap, name))
<1>1. Tail(s) \in Seq(Command) /\ s = <<Head(s)>> \o Tail(s) /\ <<Head(s)>> \in Seq(Command)
  BY HeadTail
<1>2. PICK one, rest : one = <<Head(s)>> /\ rest = Tail(s)
  OBVIOUS
<1>3. one \in Seq(Command) /\ rest \in Seq(Command) /\ s = one \o rest
  BY <1>1, <1>2
<1>4. Net(one \o rest, what, ap, name)
        = Then(Net(one, what, ap, name), Net(rest, what, ap, name))
  BY <1>3, NetBoth
<1>5. Net(one, what, ap, name) = Effect(Head(s), what, ap, name)
  BY <1>2, NetOne
<1>6. QED
  BY <1>2, <1>3, <1>4, <1>5, Zenon

\* A command leaves what a call leads to as it is.
LEMMA StepAfter ==
    ASSUME StateTyped, NEW s \in Seq(Command), s # <<>>, NEW t, t = Tail(s),
           ConfigStep(Head(s)), NEW ap \in Ap, NEW name \in Name
    PROVE  /\ After(t, "file", ap, name)' = After(s, "file", ap, name)
           /\ After(t, "sec", ap, name)' = After(s, "sec", ap, name)
           /\ After(t, "told", ap, name)' = After(s, "told", ap, name)
           /\ After(t, "open", ap, name)' = After(s, "open", ap, name)
           /\ After(s, "fresh", ap, name) = "fresh" => After(t, "fresh", ap, name)' = "fresh"
<1>1. PICK c : c = Head(s)
  OBVIOUS
<1>2. c \in Command /\ ConfigStep(c)
  BY <1>1, HeadTail
<1>3. Writ(c)
  BY <1>2, StepValues
<1>4. ASSUME NEW what, Now(what, ap, name)' = Over(Now(what, ap, name), Effect(c, what, ap, name))
      PROVE  After(t, what, ap, name)' = After(s, what, ap, name)
  <2>1. Net(s, what, ap, name)
          = Then(Effect(c, what, ap, name), Net(t, what, ap, name))
    BY <1>1, StepNet
  <2>2. After(t, what, ap, name)'
          = Over(Now(what, ap, name)', Net(t, what, ap, name))
    BY DEF After, Over
  <2>3. QED
    BY <1>4, <2>1, <2>2, OverThen DEF After
<1>5. /\ Now("file", ap, name)' = Over(Now("file", ap, name), Effect(c, "file", ap, name))
      /\ Now("sec", ap, name)' = Over(Now("sec", ap, name), Effect(c, "sec", ap, name))
      /\ Now("told", ap, name)' = Over(Now("told", ap, name), Effect(c, "told", ap, name))
  BY <1>3 DEF Now, Writ, WritAt
<1>6. Now("open", ap, name)' = Over(Now("open", ap, name), Effect(c, "open", ap, name))
  <2>1. Effect(c, "open", ap, name) \in {<<>>, <<"open">>, <<"sure">>}
    <3>1. c.do # "return" => Effect(c, "open", ap, name) = <<>>
      BY DEF Effect
    <3>2. c.do = "return" =>
             Effect(c, "open", ap, name) = IF <<ap, name>> \in c.not THEN <<"open">>
                                           ELSE IF <<ap, name>> \in c.given THEN <<"sure">> ELSE <<>>
      BY DEF Effect
    <3>3. QED
      BY <3>1, <3>2
  <2>2. Over(Now("open", ap, name), Effect(c, "open", ap, name)) \in {"open", "sure"}
    BY <2>1 DEF Now, Over
  <2>3. <<ap, name>> \in open' <=>
           Over(Now("open", ap, name), Effect(c, "open", ap, name)) = "open"
    BY <1>3 DEF Now, Writ, WritAt
  <2>4. Now("open", ap, name)' = IF <<ap, name>> \in open' THEN "open" ELSE "sure"
    BY DEF Now
  <2>5. QED
    BY <2>2, <2>3, <2>4
<1>7. After(s, "fresh", ap, name) = "fresh" => After(t, "fresh", ap, name)' = "fresh"
  <2>1. PICK e, n : e = Effect(c, "fresh", ap, name) /\ n = Net(t, "fresh", ap, name)
    OBVIOUS
  <2>2. Net(s, "fresh", ap, name) = Then(e, n)
    BY <1>1, <2>1, StepNet
  <2>3. After(t, "fresh", ap, name)' = Over(Now("fresh", ap, name)', n)
    BY <2>1 DEF After, Over
  <2>4. After(s, "fresh", ap, name) = Over(Over(Now("fresh", ap, name), e), n)
    BY <2>2, OverThen DEF After
  <2>5. Over(Now("fresh", ap, name), e) = "fresh" => Now("fresh", ap, name)' = "fresh"
    <3>1. /\ e = <<>> => told'[ap][name] = told[ap][name] /\ air'[ap][name] = air[ap][name]
          /\ e \in {<<>>, <<"stale">>, <<"fresh">>}
          /\ e = <<"fresh">> => air'[ap][name] = told'[ap][name]
      BY <1>3, <2>1 DEF Writ, WritAt
    <3>2. PICK now : now = Now("fresh", ap, name)
      OBVIOUS
    <3>3. /\ now = IF told[ap][name] = air[ap][name] THEN "fresh" ELSE "stale"
          /\ Now("fresh", ap, name)'
               = IF told'[ap][name] = air'[ap][name] THEN "fresh" ELSE "stale"
      BY <3>2 DEF Now
    <3>4. CASE e = <<>>
      BY <3>1, <3>2, <3>3, <3>4 DEF Over
    <3>5. CASE e = <<"stale">>
      <4>1. Over(now, e) = "stale"
        BY <3>5 DEF Over
      <4>2. QED
        BY <3>2, <4>1
    <3>6. CASE e = <<"fresh">>
      BY <3>1, <3>3, <3>6
    <3>7. QED
      BY <3>1, <3>4, <3>5, <3>6
  <2>6. QED
    BY <2>3, <2>4, <2>5 DEF Over
<1>8. QED
  BY <1>4, <1>5, <1>6, <1>7

LEMMA StepLeads ==
    ASSUME StateTyped, NEW s \in Seq(Command), s # <<>>, NEW t, t = Tail(s),
           ConfigStep(Head(s)), NEW ap \in Ap, NEW name \in Name, Leads(s, ap, name)
    PROVE  Leads(t, ap, name)'
BY StepAfter DEF Leads

-----------------------------------------------------------------------------
(***************************************************************************)
(* The steps.                                                              *)
(***************************************************************************)

\* The commands of one access point leave its file with one line where there is one.
LEMMA CommandOfOne ==
    ASSUME StateTyped, NEW s, OfOne(s), s # <<>>, NEW t, t = Tail(s), ConfigStep(Head(s))
    PROVE  OfOne(t)'
<1>1. PICK ap \in Ap : s \in Seq(CommandOf(ap))
  BY DEF OfOne
<1>2. PICK c : c = Head(s)
  OBVIOUS
<1>3. c \in CommandOf(ap) /\ t \in Seq(CommandOf(ap))
  BY <1>1, <1>2, HeadTail
<1>4. /\ c \in Command
      /\ c.do = "file" => (c.name \in One => Len(c.to) = 1)
      /\ c.do # "replace"
  BY <1>3 DEF CommandOf
<1>5. Writ(c) /\ StateTyped'
  <2>1. ConfigStep(c)
    BY <1>2
  <2>2. QED
    BY <1>4, <2>1, StepValues
<1>6. ASSUME NEW q \in Ap, NEW n \in One
      PROVE  Len(file'[q][n]) = 1
  <2>1. n \in Name
    BY DEF One, Name
  <2>2. file'[q][n] = Over(file[q][n], Effect(c, "file", q, n))
    BY <1>5, <2>1 DEF Writ, WritAt
  <2>3. Len(file[q][n]) = 1
    BY DEF OfOne, Filed
  <2>4. \/ Effect(c, "file", q, n) = <<>>
        \/ n = c.name /\ c.do = "file" /\ Effect(c, "file", q, n) = <<c.to>>
    BY <1>4 DEF Effect
  <2>5. QED
    BY <1>4, <2>2, <2>3, <2>4 DEF Over
<1>7. Filed'
  BY <1>5, <1>6 DEF Filed, StateTyped
<1>8. QED
  BY <1>3, <1>7 DEF OfOne

\* A reset of both files puts a whole file or none.
LEMMA CommandOfBoth ==
    ASSUME StateTyped, NEW s, OfBoth(s), s # <<>>, NEW t, t = Tail(s), ConfigStep(Head(s))
    PROVE  OfBoth(t)'
<1>1. PICK c : c = Head(s)
  OBVIOUS
<1>2. c \in AnewCommand /\ t \in Seq(AnewCommand)
  BY <1>1, HeadTail DEF OfBoth
<1>3. /\ c \in Command
      /\ c.do = "return" \/ (c.do = "replace" /\ (c.to = Absent \/ Whole(c.to)))
  BY <1>2 DEF AnewCommand
<1>4. ASSUME NEW ap \in Ap
      PROVE  file'[ap] = Absent \/ Whole(file'[ap])
  <2>1. file[ap] = Absent \/ Whole(file[ap])
    BY DEF OfBoth
  <2>2. file \in [Ap -> [Name -> Lines]]
    BY DEF StateTyped
  <2>3. CASE c.do = "return"
    <3>1. file' = file
      BY <1>1, <2>3 DEF ConfigStep
    <3>2. QED
      BY <2>1, <3>1 DEF Whole
  <2>4. CASE c.do = "replace"
    <3>1. file' = [file EXCEPT ![c.ap] = c.to]
      BY <1>1, <2>4 DEF ConfigStep
    <3>2. file'[ap] = file[ap] \/ file'[ap] = c.to
      BY <2>2, <3>1
    <3>3. c.to = Absent \/ Whole(c.to)
      BY <1>3, <2>4
    <3>4. QED
      BY <2>1, <3>2, <3>3 DEF Whole
  <2>5. QED
    BY <1>3, <2>3, <2>4
<1>5. ASSUME NEW ap \in Ap, NEW n \in One
      PROVE  Len(After(t, "file", ap, n)') = 1
  <2>1. n \in Name
    BY DEF One, Name
  <2>2. s \in Seq(Command)
    BY DEF OfBoth, AnewCommand
  <2>3. After(t, "file", ap, n)' = After(s, "file", ap, n)
    BY <2>1, <2>2, StepAfter
  <2>4. QED
    BY <2>3 DEF OfBoth
<1>6. QED
  BY <1>2, <1>4, <1>5 DEF OfBoth

LEMMA StepBound ==
    ASSUME NEW s, Bound(s), s # <<>>, NEW t, t = Tail(s), ConfigStep(Head(s))
    PROVE  Bound(t)'
<1>1. StateTyped /\ s \in Seq(Command)
  BY DEF Bound
<1>2. Head(s) \in Command /\ t \in Seq(Command)
  BY <1>1, HeadTail
<1>3. StateTyped'
  BY <1>1, <1>2, StepValues
<1>4. OfOne(t)' \/ OfBoth(t)'
  BY <1>1, CommandOfOne, CommandOfBoth DEF Bound
<1>5. ASSUME NEW ap \in Ap, NEW name \in Name
      PROVE  Leads(t, ap, name)'
  BY <1>1, StepLeads DEF Bound
<1>6. QED
  BY <1>2, <1>3, <1>4, <1>5 DEF Bound

\* The files as they are shipped.
LEMMA Shipped ==
    /\ Default \in [Ap -> [Name -> Lines]] /\ Absent \in [Name -> Lines]
    /\ \A ap \in Ap : Whole(Default[ap]) /\ Default[ap] # Absent
<1>1. Seq(STRING) \subseteq Lines
  <2>1. STRING \subseteq Text
    BY DEF Text
  <2>2. \A S, T : S \subseteq T => Seq(S) \subseteq Seq(T)
    OBVIOUS
  <2>3. QED
    BY <2>1, <2>2 DEF Lines
<1>2. Default \in [Ap -> [Name -> Seq(STRING)]]
  BY ApConfigAssumption, Zenon
<1>3. Default \in [Ap -> [Name -> Lines]]
  <2>1. \A S, T, A, B, f : S \subseteq T /\ f \in [A -> [B -> S]] => f \in [A -> [B -> T]]
    OBVIOUS
  <2>2. QED
    BY <1>1, <1>2, <2>1, Zenon
<1>4. Absent \in [Name -> Lines]
  <2>1. <<>> \in Lines
    BY DEF Lines
  <2>2. QED
    BY <2>1 DEF Absent
<1>5. ASSUME NEW ap \in Ap
      PROVE  Whole(Default[ap]) /\ Default[ap] # Absent
  <2>1. \A n \in One : n \in Name /\ Len(Default[ap][n]) = 1
    BY ApConfigAssumption DEF One, Name
  <2>2. "ssid" \in One
    BY DEF One, SedName
  <2>3. Absent["ssid"] = <<>>
    BY <2>1, <2>2 DEF Absent
  <2>4. Default[ap] # Absent
    <3>1. SUFFICES ASSUME Default[ap] = Absent
                   PROVE  FALSE
      OBVIOUS
    <3>2. Default[ap]["ssid"] = <<>>
      BY <2>3, <3>1
    <3>3. Len(Default[ap]["ssid"]) = 1
      BY <2>1, <2>2
    <3>4. Len(<<>>) = 0
      OBVIOUS
    <3>5. QED
      BY <3>2, <3>3, <3>4
  <2>5. QED
    BY <2>1, <2>4 DEF Whole
<1>6. QED
  BY <1>3, <1>4, <1>5

\* A reset of both files: six commands.
Anew == <<Replace(0, Absent), Replace(1, Absent), Replace(0, Default[0]), Replace(1, Default[1]),
          Return(0, {}, Name), Return(1, {}, Name)>>

LEMMA AnewParts ==
    /\ Anew \in Seq(AnewCommand) /\ DOMAIN Anew = 1..6
    /\ Anew[3] = Replace(0, Default[0]) /\ Anew[4] = Replace(1, Default[1])
    /\ Anew[5] = Return(0, {}, Name) /\ Anew[6] = Return(1, {}, Name)
<1>1. /\ Replace(0, Absent) \in AnewCommand /\ Replace(1, Absent) \in AnewCommand
      /\ Replace(0, Default[0]) \in AnewCommand /\ Replace(1, Default[1]) \in AnewCommand
  <2>1. ASSUME NEW ap \in Ap, NEW f \in [Name -> Lines], f = Absent \/ Whole(f)
        PROVE  Replace(ap, f) \in AnewCommand
    <3>1. Replace(ap, f) \in Command
      BY DEF Replace, Command
    <3>2. Replace(ap, f).do = "replace" /\ Replace(ap, f).to = f
      BY DEF Replace
    <3>3. QED
      BY <2>1, <3>1, <3>2, Zenon DEF AnewCommand
  <2>2. 0 \in Ap /\ 1 \in Ap
    BY DEF Ap
  <2>3. /\ Default[0] \in [Name -> Lines] /\ Whole(Default[0])
        /\ Default[1] \in [Name -> Lines] /\ Whole(Default[1])
        /\ Absent \in [Name -> Lines]
    BY <2>2, Shipped
  <2>4. QED
    BY <2>1, <2>2, <2>3, Zenon
<1>2. Return(0, {}, Name) \in AnewCommand /\ Return(1, {}, Name) \in AnewCommand
  <2>1. ASSUME NEW ap \in Ap
        PROVE  Return(ap, {}, Name) \in AnewCommand
    <3>1. Return(ap, {}, Name) \in Command
      <4>1. {ap} \X {} \in SUBSET (Ap \X Name) /\ {ap} \X Name \in SUBSET (Ap \X Name)
        OBVIOUS
      <4>2. QED
        BY <4>1 DEF Return, Command
    <3>2. Return(ap, {}, Name).do = "return"
      BY DEF Return
    <3>3. QED
      BY <3>1, <3>2, Zenon DEF AnewCommand
  <2>2. QED
    BY <2>1 DEF Ap
<1>3. PICK a, b, c, d, e, f :
        /\ a = Replace(0, Absent) /\ b = Replace(1, Absent) /\ c = Replace(0, Default[0])
        /\ d = Replace(1, Default[1]) /\ e = Return(0, {}, Name) /\ f = Return(1, {}, Name)
  OBVIOUS
<1>4. Anew = <<a, b, c, d, e, f>>
  BY <1>3 DEF Anew
<1>5. /\ a \in AnewCommand /\ b \in AnewCommand /\ c \in AnewCommand
      /\ d \in AnewCommand /\ e \in AnewCommand /\ f \in AnewCommand
  BY <1>1, <1>2, <1>3, Zenon
<1>6. PICK s, S : s = Anew /\ S = AnewCommand
  OBVIOUS
<1>7. /\ s = <<a, b, c, d, e, f>>
      /\ a \in S /\ b \in S /\ c \in S /\ d \in S /\ e \in S /\ f \in S
  BY <1>4, <1>5, <1>6, Zenon
<1>8. s \in Seq(S) /\ DOMAIN s = 1..6 /\ s[3] = c /\ s[4] = d /\ s[5] = e /\ s[6] = f
  BY <1>7
<1>9. QED
  BY <1>3, <1>6, <1>8, Zenon

LEMMA AnewBound ==
    ASSUME Bound(<<>>)
    PROVE  Bound(Anew)
<1>1. Filed /\ StateTyped
  BY BetweenCalls DEF Settled, Bound
<1>2. AnewCommand \subseteq Command
  BY DEF AnewCommand
<1>5. Anew \in Seq(Command)
  BY <1>2, AnewParts
<1>7. ASSUME NEW ap \in Ap, NEW name \in Name
      PROVE  /\ Net(Anew, "file", ap, name) = <<Default[ap][name]>>
             /\ Net(Anew, "open", ap, name) = <<"open">>
  <2>1. PICK s : s = Anew
    OBVIOUS
  <2>2. /\ s \in Seq(Command) /\ DOMAIN s = 1..6
        /\ s[3] = Replace(0, Default[0]) /\ s[4] = Replace(1, Default[1])
        /\ s[5] = Return(0, {}, Name) /\ s[6] = Return(1, {}, Name)
    BY <1>5, <2>1, AnewParts, Zenon
  <2>3. ASSUME NEW q, NEW r
        PROVE  /\ Effect(Replace(q, Default[q]), "file", ap, name)
                    = IF ap = q THEN <<Default[q][name]>> ELSE <<>>
               /\ Effect(Replace(q, Default[q]), "open", ap, name) = <<>>
               /\ Effect(Return(q, {}, Name), "file", ap, name) = <<>>
               /\ Effect(Return(q, {}, Name), "open", ap, name)
                    = IF ap = q THEN <<"open">> ELSE <<>>
    <3>1. Replace(q, Default[q]).do = "replace" /\ Replace(q, Default[q]).ap = q
          /\ Replace(q, Default[q]).to = Default[q]
      BY DEF Replace
    <3>2. /\ Return(q, {}, Name).do = "return" /\ Return(q, {}, Name).given = {}
          /\ Return(q, {}, Name).not = {q} \X Name
      BY DEF Return
    <3>3. <<ap, name>> \in {q} \X Name <=> ap = q
      OBVIOUS
    <3>4. QED
      BY <3>1, <3>2, <3>3 DEF Effect
  <2>4. /\ Effect(s[3], "file", ap, name) = IF ap = 0 THEN <<Default[0][name]>> ELSE <<>>
        /\ Effect(s[4], "file", ap, name) = IF ap = 1 THEN <<Default[1][name]>> ELSE <<>>
        /\ Effect(s[5], "file", ap, name) = <<>> /\ Effect(s[6], "file", ap, name) = <<>>
        /\ Effect(s[5], "open", ap, name) = IF ap = 0 THEN <<"open">> ELSE <<>>
        /\ Effect(s[6], "open", ap, name) = IF ap = 1 THEN <<"open">> ELSE <<>>
    BY <2>2, <2>3
  <2>5. \A v : <<v>> # <<>>
    OBVIOUS
  <2>6. CASE ap = 0
    <3>1. /\ ~Keeps(s, 3, "file", ap, name) /\ Keeps(s, 4, "file", ap, name)
          /\ Keeps(s, 5, "file", ap, name) /\ Keeps(s, 6, "file", ap, name)
          /\ ~Keeps(s, 5, "open", ap, name) /\ Keeps(s, 6, "open", ap, name)
      BY <2>4, <2>5, <2>6 DEF Keeps
    <3>2. \A j \in DOMAIN s : (j > 3 => j = 4 \/ j = 5 \/ j = 6) /\ (j > 5 => j = 6)
      BY <2>2
    <3>3. IsLast(s, 3, "file", ap, name) /\ IsLast(s, 5, "open", ap, name)
      BY <3>1, <3>2, Zenon DEF IsLast
    <3>4. 3 \in DOMAIN s /\ 5 \in DOMAIN s
      BY <2>2
    <3>5. /\ Net(s, "file", ap, name) = Effect(s[3], "file", ap, name)
          /\ Net(s, "open", ap, name) = Effect(s[5], "open", ap, name)
      BY <2>2, <3>3, <3>4, NetIs
    <3>6. QED
      BY <2>1, <2>4, <2>6, <3>5
  <2>7. CASE ap = 1
    <3>1. /\ ~Keeps(s, 4, "file", ap, name) /\ Keeps(s, 5, "file", ap, name)
          /\ Keeps(s, 6, "file", ap, name) /\ ~Keeps(s, 6, "open", ap, name)
      BY <2>4, <2>5, <2>7 DEF Keeps
    <3>2. \A j \in DOMAIN s : (j > 4 => j = 5 \/ j = 6) /\ ~(j > 6)
      BY <2>2
    <3>3. IsLast(s, 4, "file", ap, name) /\ IsLast(s, 6, "open", ap, name)
      BY <3>1, <3>2, Zenon DEF IsLast
    <3>4. 4 \in DOMAIN s /\ 6 \in DOMAIN s
      BY <2>2
    <3>5. /\ Net(s, "file", ap, name) = Effect(s[4], "file", ap, name)
          /\ Net(s, "open", ap, name) = Effect(s[6], "open", ap, name)
      BY <2>2, <3>3, <3>4, NetIs
    <3>6. QED
      BY <2>1, <2>4, <2>7, <3>5
  <2>8. QED
    BY <2>6, <2>7 DEF Ap
<1>8. OfBoth(Anew)
  <2>1. ASSUME NEW ap \in Ap
        PROVE  Whole(file[ap])
    BY <1>1 DEF Filed, Whole
  <2>2. ASSUME NEW ap \in Ap, NEW n \in One
        PROVE  Len(After(Anew, "file", ap, n)) = 1
    <3>1. n \in Name
      BY DEF One, Name
    <3>2. After(Anew, "file", ap, n) = Default[ap][n]
      BY <1>7, <3>1 DEF After, Over
    <3>3. QED
      BY <3>2, Shipped DEF Whole
  <2>3. QED
    BY <2>1, <2>2, AnewParts DEF OfBoth
<1>9. ASSUME NEW ap \in Ap, NEW name \in Name
      PROVE  Leads(Anew, ap, name)
  <2>1. After(Anew, "open", ap, name) = "open"
    BY <1>7 DEF After, Over
  <2>2. QED
    BY <2>1 DEF Leads
<1>10. QED
  BY <1>1, <1>5, <1>8, <1>9 DEF Bound

\* hostapd starts with the last line of each parameter.
LEMMA LoadsFile ==
    ASSUME Filed, NEW ap \in Ap, NEW name \in Name
    PROVE  /\ Loaded(ap, name) = Final(file[ap][name]) /\ Loaded(ap, name) \in Text
           /\ Len(file[ap][name]) <= 1 =>
                 First(file[ap][name]) = Final(file[ap][name])
<1>1. PICK s : s = file[ap][name]
  OBVIOUS
<1>2. s \in Seq(Text)
  BY <1>1 DEF Filed, Lines
<1>3. s # <<>> => Len(s) \in Nat \ {0} /\ s[Len(s)] \in Text /\ Head(s) = s[1]
  BY <1>2
<1>4. "" \in Text
  BY DEF Text, Written
<1>5. Loaded(ap, name) = Final(s)
  BY <1>1, Zenon DEF Loaded, Final
<1>6. Final(s) \in Text
  BY <1>3, <1>4 DEF Final
<1>7. Len(s) <= 1 => First(s) = Final(s)
  <2>1. CASE s = <<>>
    BY <2>1 DEF First, Final
  <2>2. ASSUME s # <<>>, Len(s) <= 1
        PROVE  First(s) = Final(s)
    <3>1. Len(s) = 1
      <4>1. PICK n : n = Len(s)
        OBVIOUS
      <4>2. n \in Nat \ {0} /\ n <= 1
        BY <1>3, <2>2, <4>1, Zenon
      <4>3. n = 1
        BY <4>2
      <4>4. QED
        BY <4>1, <4>3
    <3>2. QED
      BY <1>3, <2>2, <3>1 DEF First, Final
  <2>3. QED
    BY <2>1, <2>2
<1>8. QED
  BY <1>1, <1>5, <1>6, <1>7

LEMMA HostapdBound ==
    ASSUME Bound(<<>>), HostapdRestarts
    PROVE  Bound(<<>>)'
<1>1. /\ air' = told' /\ UNCHANGED <<file, sec>>
      /\ told' = [ap \in Ap |-> [name \in Name |-> Loaded(ap, name)]]
      /\ open' = {an \in Ap \X Name : \/ an[2] = "wpa" /\ an \in open
                                     \/ Len(file[an[1]][an[2]]) > 1}
  BY DEF HostapdRestarts
<1>2. StateTyped /\ Filed /\ \A ap \in Ap, name \in Name : Leads(<<>>, ap, name)
  BY BetweenCalls DEF Settled, Bound
<1>3. \A ap \in Ap, name \in Name : Loaded(ap, name) \in Text
  BY <1>2, LoadsFile
<1>4. /\ told' \in [Ap -> [Name -> Text]]
      /\ \A ap \in Ap, name \in Name : told'[ap][name] = Loaded(ap, name)
  BY <1>1, <1>3
<1>5. open' \in SUBSET (Ap \X Name)
  BY <1>1
<1>6. StateTyped'
  BY <1>1, <1>2, <1>4, <1>5 DEF StateTyped
<1>7. Filed'
  BY <1>1, <1>2 DEF Filed
<1>8. ASSUME NEW ap \in Ap, NEW name \in Name
      PROVE  Leads(<<>>, ap, name)'
  <2>1. PICK s : s = file[ap][name]
    OBVIOUS
  <2>2. /\ After(<<>>, "file", ap, name)' = s
        /\ After(<<>>, "sec", ap, name)' = sec[ap]
        /\ After(<<>>, "told", ap, name)' = told'[ap][name]
        /\ After(<<>>, "fresh", ap, name)' = "fresh"
        /\ After(<<>>, "open", ap, name)' = IF <<ap, name>> \in open' THEN "open" ELSE "sure"
    <3>1. \A what : After(<<>>, what, ap, name)' = Now(what, ap, name)'
      BY NetNone DEF After, Over
    <3>2. QED
      BY <1>1, <2>1, <3>1 DEF Now
  <2>3. <<ap, name>> \notin open' =>
           /\ name = "wpa" => <<ap, name>> \notin open
           /\ ~(Len(s) > 1)
    <3>1. ASSUME <<ap, name>> \in Ap \X Name,
                 \/ name = "wpa" /\ <<ap, name>> \in open
                 \/ Len(s) > 1
          PROVE  <<ap, name>> \in open'
      <4>1. PICK an : an = <<ap, name>>
        OBVIOUS
      <4>2. an[1] = ap /\ an[2] = name /\ an \in Ap \X Name
        BY <4>1
      <4>3. \/ an[2] = "wpa" /\ an \in open
            \/ Len(file[an[1]][an[2]]) > 1
        BY <2>1, <3>1, <4>1, <4>2
      <4>4. QED
        BY <1>1, <4>1, <4>2, <4>3
    <3>2. <<ap, name>> \in Ap \X Name
      OBVIOUS
    <3>3. QED
      BY <3>1, <3>2
  <2>4. /\ Loaded(ap, name) = Final(s) /\ told'[ap][name] = Loaded(ap, name)
        /\ Len(s) <= 1 => First(s) = Final(s)
    BY <1>2, <1>4, <2>1, LoadsFile
  <2>5. Len(s) \in Nat
    BY <1>2, <2>1 DEF Filed, Lines
  <2>6. <<ap, name>> \notin open' => First(s) = Final(s) /\ told'[ap][name] = First(s)
    BY <2>3, <2>4, <2>5
  <2>7. ASSUME name = "wpa", <<ap, name>> \notin open'
        PROVE  WpaAgrees(sec[ap], First(s), told'[ap][name])
    <3>1. <<ap, name>> \notin open
      BY <2>3, <2>7
    <3>2. Leads(<<>>, ap, name)
      BY <1>2
    <3>3. /\ After(<<>>, "open", ap, name) = "sure" /\ After(<<>>, "sec", ap, name) = sec[ap]
          /\ After(<<>>, "file", ap, name) = s
      BY <2>1, <3>1, AfterNone
    <3>4. WpaAgrees(sec[ap], First(s), After(<<>>, "told", ap, name))
      BY <2>7, <3>2, <3>3, Zenon DEF Leads
    <3>5. QED
      BY <2>6, <2>7, <3>4 DEF WpaAgrees
  <2>8. After(<<>>, "open", ap, name)' = "sure" => <<ap, name>> \notin open'
    BY <2>2
  <2>9. QED
    BY <2>2, <2>6, <2>7, <2>8 DEF Leads
<1>9. <<>> \in Seq(Command) /\ <<>> \in Seq(CommandOf(0)) /\ 0 \in Ap
  BY DEF Ap
<1>10. OfOne(<<>>)'
  BY <1>7, <1>9 DEF OfOne
<1>11. QED
  BY <1>6, <1>8, <1>9, <1>10 DEF Bound

LEMMA ProcessBound ==
    ASSUME NEW s, Bound(s), ProcessRestarts
    PROVE  Bound(<<>>)'
<1>1. /\ open' = Ap \X Name /\ UNCHANGED <<sec, told, air>>
      /\ file' = [ap \in Ap |-> IF file[ap] = Absent THEN Default[ap] ELSE file[ap]]
  BY DEF ProcessRestarts
<1>2. StateTyped
  BY DEF Bound
<1>3. \A ap \in Ap : file[ap] \in [Name -> Lines] /\ Default[ap] \in [Name -> Lines]
  BY <1>2, Shipped DEF StateTyped
<1>4. /\ file' \in [Ap -> [Name -> Lines]]
      /\ \A ap \in Ap : file'[ap] = IF file[ap] = Absent THEN Default[ap] ELSE file[ap]
  BY <1>1, <1>3
<1>5. ASSUME NEW ap \in Ap
      PROVE  Whole(file'[ap])
  <2>1. file[ap] = Absent \/ Whole(file[ap])
    BY DEF Bound, OfOne, OfBoth, Filed, Whole
  <2>2. QED
    BY <1>4, <2>1, Shipped
<1>6. StateTyped'
  BY <1>1, <1>2, <1>4 DEF StateTyped
<1>7. Filed'
  BY <1>4, <1>5 DEF Filed, Whole
<1>8. ASSUME NEW ap \in Ap, NEW name \in Name
      PROVE  Leads(<<>>, ap, name)'
  <2>1. <<ap, name>> \in open'
    BY <1>1
  <2>2. After(<<>>, "open", ap, name)' = "open"
    BY <2>1, NetNone DEF After, Over, Now
  <2>3. QED
    BY <2>2 DEF Leads
<1>9. <<>> \in Seq(Command) /\ <<>> \in Seq(CommandOf(0)) /\ 0 \in Ap
  BY DEF Ap
<1>10. OfOne(<<>>)'
  BY <1>7, <1>9 DEF OfOne
<1>11. QED
  BY <1>6, <1>8, <1>9, <1>10 DEF Bound

LEMMA InitBound ==
    ASSUME ConfigInit
    PROVE  todo = <<>> /\ Bound(<<>>)
<1>1. /\ file = Default /\ sec = [ap \in Ap |-> DefaultMode[ap].beacon]
      /\ told = [ap \in Ap |-> [name \in Name |-> Loaded(ap, name)]]
      /\ air = told /\ todo = <<>> /\ open = {}
  BY DEF ConfigInit
<1>2. Filed
  <2>1. file \in [Ap -> [Name -> Lines]] /\ \A ap \in Ap : Whole(file[ap])
    BY <1>1, Shipped
  <2>2. QED
    BY <2>1 DEF Filed, Whole
<1>3. \A ap \in Ap, name \in Name : Loaded(ap, name) \in Text
  BY <1>2, LoadsFile
<1>4. /\ told \in [Ap -> [Name -> Text]]
      /\ \A ap \in Ap, name \in Name : told[ap][name] = Loaded(ap, name)
  BY <1>1, <1>3
<1>5. \A ap \in Ap : DefaultMode[ap].beacon \in Beacon
  <2>1. \A mode \in Mode : mode.beacon \in Beacon
    BY DEF Mode, NoMode, Beacon
  <2>2. QED
    BY <2>1, ApConfigAssumption
<1>6. sec \in [Ap -> Beacon] /\ \A ap \in Ap : sec[ap] = DefaultMode[ap].beacon
  BY <1>1, <1>5
<1>7. StateTyped
  BY <1>1, <1>2, <1>4, <1>6 DEF StateTyped, Filed
<1>10. ASSUME NEW ap \in Ap, NEW name \in Name
       PROVE  Leads(<<>>, ap, name)
  <2>1. PICK s : s = file[ap][name]
    OBVIOUS
  <2>2. Leads(<<>>, ap, name)
    <3>1. /\ After(<<>>, "file", ap, name) = s
          /\ After(<<>>, "sec", ap, name) = sec[ap]
          /\ After(<<>>, "told", ap, name) = told[ap][name]
          /\ After(<<>>, "fresh", ap, name) = "fresh"
      <4>1. told[ap][name] = air[ap][name]
        BY <1>1
      <4>2. After(<<>>, "fresh", ap, name) = "fresh"
        BY <4>1, AfterNone
      <4>3. After(<<>>, "file", ap, name) = s
        BY <2>1, AfterNone
      <4>4. QED
        BY <4>2, <4>3, AfterNone
    <3>2. Len(s) <= 1
      BY <1>1, <2>1, ApConfigAssumption
    <3>3. First(s) = Final(s) /\ told[ap][name] = First(s)
      BY <1>2, <1>4, <2>1, <3>2, LoadsFile
    <3>4. ASSUME name = "wpa"
          PROVE  WpaAgrees(sec[ap], First(s), told[ap][name])
      <4>1. PICK wpa, beacon : wpa = Head(Default[ap]["wpa"]) /\ beacon = DefaultMode[ap].beacon
        OBVIOUS
      <4>2. /\ beacon \in {"None", "WPA", "11i"} => wpa = WpaTold(beacon)
            /\ beacon = "WPAand11i" => wpa # "0"
        BY <4>1, ApConfigAssumption, Zenon
      <4>3. Len(s) = 1
        <5>1. "wpa" \in One
          BY DEF One, SedName
        <5>2. QED
          BY <1>2, <2>1, <3>4, <5>1 DEF Filed
      <4>4. s # <<>>
        <5>1. s \in Seq(Text)
          BY <1>2, <2>1 DEF Filed, Lines
        <5>2. QED
          BY <4>3, <5>1, HeadOfOne
      <4>5. First(s) = wpa /\ sec[ap] = beacon
        BY <1>1, <1>6, <2>1, <3>4, <4>1, <4>4 DEF First
      <4>6. QED
        BY <3>3, <4>2, <4>5 DEF WpaAgrees, WpaTold, Junk
    <3>5. QED
      BY <3>1, <3>3, <3>4 DEF Leads
  <2>3. QED
    BY <1>1, <2>2
<1>11. QED
  BY <1>1, <1>2, <1>7, <1>10, SettledBound DEF Settled, StateTyped

\* What follows between the calls.
LEMMA SettledApplied ==
    ASSUME todo = <<>> => Bound(<<>>)
    PROVE  Applied /\ SecureOnAir
<1>1. SUFFICES ASSUME todo = <<>>
               PROVE  Applied /\ SecureOnAir
  BY DEF Applied, SecureOnAir
<1>2. StateTyped /\ Filed /\ \A ap \in Ap, name \in Name : Leads(<<>>, ap, name)
  BY <1>1, BetweenCalls DEF Settled, Bound
<1>3. ASSUME NEW ap \in Ap, NEW name \in Name, <<ap, name>> \notin open
      PROVE  /\ told[ap][name] = air[ap][name] /\ Value(ap, name) = Loaded(ap, name)
             /\ name # "wpa" => told[ap][name] = Value(ap, name)
             /\ name = "wpa" => WpaAgrees(sec[ap], Value(ap, name), told[ap][name])
  <2>1. /\ After(<<>>, "file", ap, name) = file[ap][name]
        /\ After(<<>>, "sec", ap, name) = sec[ap]
        /\ After(<<>>, "told", ap, name) = told[ap][name]
        /\ After(<<>>, "fresh", ap, name)
              = IF told[ap][name] = air[ap][name] THEN "fresh" ELSE "stale"
        /\ After(<<>>, "open", ap, name) = "sure"
    BY <1>3, AfterNone
  <2>2. Value(ap, name) = First(file[ap][name]) /\ Loaded(ap, name) = Final(file[ap][name])
    BY Zenon DEF Value, Loaded, First, Final
  <2>3. /\ After(<<>>, "fresh", ap, name) = "fresh"
        /\ First(file[ap][name]) = Final(file[ap][name])
        /\ name # "wpa" => told[ap][name] = First(file[ap][name])
        /\ name = "wpa" => WpaAgrees(sec[ap], First(file[ap][name]), told[ap][name])
    BY <1>2, <2>1, Zenon DEF Leads
  <2>4. told[ap][name] = air[ap][name]
    BY <2>1, <2>3
  <2>5. QED
    BY <2>2, <2>3, <2>4, Zenon
<1>4. Applied
  <2>1. ASSUME NEW ap \in Ap, NEW name \in Name, <<ap, name>> \notin open
        PROVE  /\ told[ap][name] = air[ap][name] /\ Value(ap, name) = Loaded(ap, name)
               /\ (name = "wpa" => sec[ap] \in {"WPA", "11i"}) =>
                     told[ap][name] = Value(ap, name)
    BY <1>3, <2>1 DEF WpaAgrees
  <2>2. QED
    BY <2>1 DEF Applied
<1>5. SecureOnAir
  <2>1. ASSUME NEW ap \in Ap, <<ap, "wpa">> \notin open, SecurityMode(ap) # NoMode
        PROVE  air[ap]["wpa"] # "0"
    <3>1. "wpa" \in Name
      BY DEF Name, SedName
    <3>2. sec[ap] \in {"WPA", "11i", "WPAand11i"}
      <4>1. sec[ap] \in Beacon
        BY <1>2 DEF StateTyped
      <4>2. sec[ap] # "None"
        BY <2>1, Zenon DEF SecurityMode
      <4>3. QED
        BY <4>1, <4>2 DEF Beacon
    <3>3. /\ WpaAgrees(sec[ap], Value(ap, "wpa"), told[ap]["wpa"])
          /\ told[ap]["wpa"] = air[ap]["wpa"]
      BY <1>3, <2>1, <3>1
    <3>4. told[ap]["wpa"] # "0"
      BY <3>2, <3>3 DEF WpaAgrees, WpaTold
    <3>5. QED
      BY <3>3, <3>4
  <2>2. QED
    BY <2>1 DEF SecureOnAir
<1>6. QED
  BY <1>4, <1>5

\* A setter, or a reset, leaves commands that may be left.
AnyCall(ap) ==
    NameCall(ap) \/ SecurityCall(ap) \/ WpsCall(ap) \/ ParameterCall(ap) \/ ResetCall(ap)

LEMMA AnyCallBegins ==
    ASSUME NEW ap \in Ap, AnyCall(ap)
    PROVE  /\ todo = <<>> /\ UNCHANGED configVars
           /\ Bound(<<>>) => \E s : todo' = s /\ Bound(s)
<1>1. todo = <<>> /\ UNCHANGED configVars
  <2>1. NameCall(ap) => todo = <<>> /\ UNCHANGED configVars
    BY DEF NameCall, SetSSIDName, SetPreSharedKey, SetKeyPassphrase,
           SetSsidAdvertisement, Call
  <2>2. SecurityCall(ap) => todo = <<>> /\ UNCHANGED configVars
    BY DEF SecurityCall, ModeCall, SetSecurityMode, SetBeaconType,
           SetBasicAuthenticationMode, SetEncryptionMode, Call
  <2>3. WpsCall(ap) => todo = <<>> /\ UNCHANGED configVars
    BY DEF WpsCall, SetWpsEnable, SetWpsConfigMethods, SetWpsDevicePIN, Call
  <2>4. ParameterCall(ap) => todo = <<>> /\ UNCHANGED configVars
    BY DEF ParameterCall, SetWmmEnable, SetWmmUapsdEnable, SetBSSTransition,
           SetNeighborReport, SetIsolation, SetMaxAssociatedDevices, SetMFPConfig,
           SetParameter, Call
  <2>5. ResetCall(ap) => todo = <<>> /\ UNCHANGED configVars
    BY DEF ResetCall, FactoryResetAp, FactoryReset, Call
  <2>6. QED
    BY <2>1, <2>2, <2>3, <2>4, <2>5 DEF AnyCall
<1>2. SUFFICES ASSUME Bound(<<>>)
               PROVE  \E s : todo' = s /\ Bound(s)
  BY <1>1
<1>3. CASE FactoryReset
  <2>1. todo' = Anew
    BY <1>3 DEF FactoryReset, Anew, Call
  <2>2. QED
    BY <1>2, <2>1, AnewBound
<1>4. ASSUME ~FactoryReset
      PROVE  \E s : todo' = s /\ Bound(s)
  <2>1. Settled
    BY <1>2, BetweenCalls
  <2>2. ResetCall(ap) => \E ssid \in Ssid, key \in Key : FactoryResetAp(ap, ssid, key)
    BY <1>4 DEF ResetCall
  <2>3. Begins(ap)
    BY <2>1, <2>2, NameCallBegins, SecurityCallBegins, WpsCallBegins,
       ParameterCallBegins, FactoryResetApBegins DEF AnyCall
  <2>4. PICK s : Sound(s, ap) /\ todo' = s
    BY <2>3 DEF Begins
  <2>5. Bound(s)
    BY <1>2, <2>4, CallBound
  <2>6. QED
    BY <2>4, <2>5
<1>5. QED
  BY <1>3, <1>4

LEMMA NextInvariant == ASSUME IInv, [ConfigNext]_configAll PROVE IInv'
<1>1. PICK s : todo = s /\ Bound(s)
  BY DEF IInv
<1>2. SUFFICES \E t : todo' = t /\ Bound(t)'
  BY DEF IInv
<1>3. CASE UNCHANGED configAll
  <2>1. UNCHANGED configVars /\ todo' = s
    BY <1>1, <1>3 DEF configAll, configVars
  <2>2. Bound(s)'
    BY <1>1, <2>1, BoundStays
  <2>3. QED
    BY <2>1, <2>2
<1>4. CASE ConfigCommand
  <2>1. PICK t : t = Tail(s)
    OBVIOUS
  <2>2. s # <<>> /\ todo' = t /\ ConfigStep(Head(s))
    BY <1>1, <1>4, <2>1 DEF ConfigCommand
  <2>3. Bound(t)'
    BY <1>1, <2>1, <2>2, StepBound
  <2>4. QED
    BY <2>2, <2>3
<1>5. CASE HostapdRestarts
  <2>1. s = <<>> /\ todo' = <<>>
    BY <1>1, <1>5 DEF HostapdRestarts
  <2>2. Bound(<<>>)
    BY <1>1, <2>1
  <2>3. Bound(<<>>)'
    BY <1>5, <2>2, HostapdBound
  <2>4. QED
    BY <2>1, <2>3
<1>6. CASE ProcessRestarts
  <2>1. todo' = <<>>
    BY <1>6 DEF ProcessRestarts
  <2>2. Bound(<<>>)'
    BY <1>1, <1>6, ProcessBound
  <2>3. QED
    BY <2>1, <2>2
<1>7. ASSUME NEW ap \in Ap, AnyCall(ap)
      PROVE  \E t : todo' = t /\ Bound(t)'
  <2>1. s = <<>> /\ UNCHANGED configVars
    BY <1>1, <1>7, AnyCallBegins
  <2>2. Bound(<<>>)
    BY <1>1, <2>1
  <2>3. PICK t : todo' = t /\ Bound(t)
    BY <1>7, <2>2, AnyCallBegins
  <2>4. Bound(t)'
    BY <2>1, <2>3, BoundStays
  <2>5. QED
    BY <2>3, <2>4
<1>8. QED
  BY <1>3, <1>4, <1>5, <1>6, <1>7 DEF ConfigNext, AnyCall

LEMMA Invariant == ConfigSpec => []IInv
<1>1. ConfigInit => IInv
  BY InitBound DEF IInv
<1>2. ASSUME IInv, [ConfigNext]_configAll
      PROVE  IInv'
  BY <1>2, NextInvariant
<1>3. QED
  BY <1>1, <1>2, PTL DEF ConfigSpec

\* The files hold lists of texts, and what is left is a list of commands about parameters of
\* the access points, whatever calls are made, cut or made again.
THEOREM ConfigTypes == ConfigSpec => []Typed
<1>1. IInv => Typed
  BY DEF IInv, Bound, Typed
<1>2. QED
  BY <1>1, Invariant, PTL

\* Between two calls of the HAL, what the last setter of a parameter has given to hostapd
\* is what a getter reads, what hostapd would load and what is on air, for any names and
\* keys, any shipped files and any order of calls, restarts and cut calls.
THEOREM SettingsAreApplied == ConfigSpec => []Applied
<1>1. IInv => Applied
  BY SettledApplied DEF IInv
<1>2. QED
  BY <1>1, Invariant, PTL

\* An access point whose security mode is read as one with a key is not on air without
\* one: the security file, hostapd's file and hostapd follow each other through every
\* order of mode, beacon type and cipher setters.
THEOREM SecuredIsOnAir == ConfigSpec => []SecureOnAir
<1>1. IInv => SecureOnAir
  BY SettledApplied DEF IInv
<1>2. QED
  BY <1>1, Invariant, PTL

-----------------------------------------------------------------------------
(***************************************************************************)
(* Band steering copies the settings of one access point.                  *)
(***************************************************************************)

Copied == {"ssid", "wpa", "wpa_passphrase"}

LEMMA PersonalModes ==
    ASSUME NEW wpa
    PROVE  /\ PersonalMode(wpa) \in Mode /\ PersonalMode(wpa).beacon \in Beacon
           /\ PersonalMode(wpa).auth = IF PersonalMode(wpa).beacon = "None" THEN "None" ELSE "PSK"
BY DEF PersonalMode, Mode, NoMode, Beacon

\* What the list writes for a parameter of the 5 GHz access point.
CopyLine(from, mode, junk, name) ==
    Then(Then(For(name, "ssid", <<Value(from, "ssid")>>),
              ModeLine(index5G, mode.beacon, mode.auth, junk, name)),
         For(name, "wpa_passphrase", <<Value(from, "wpa_passphrase")>>))

CopyTold(from, mode, name) ==
    Then(Then(Then(For(name, "ssid", Value(from, "ssid")),
                   For(name, "wpa_passphrase", Value(index5G, "wpa_passphrase"))),
              ModeTold(mode.beacon, "PSK", Value(index5G, "wpa_passphrase"), name)),
         For(name, "wpa_passphrase", Value(from, "wpa_passphrase")))

LEMMA CopyWrites ==
    ASSUME Filed, NEW from \in Ap, NEW junk \in Junk, NEW name \in Name,
           NEW mode, mode = PersonalMode(Value(from, "wpa"))
    PROVE  Writes(CopySettings(from, junk), index5G, name,
                  CopyLine(from, mode, junk, name), <<mode.beacon>>,
                  CopyTold(from, mode, name), <<"fresh">>, Noted(name, Copied, Security \ {"wpa"}))
<1>1. PICK ssid, own, key :
        /\ ssid = Value(from, "ssid") /\ own = Value(index5G, "wpa_passphrase")
        /\ key = Value(from, "wpa_passphrase")
  OBVIOUS
<1>2. index5G \in Ap
  BY DEF index5G, Ap
<1>3. ssid \in Text /\ own \in Text /\ key \in Text /\ junk \in Text
  BY <1>1, <1>2, ValueIsText, Texts DEF Name, SedName
<1>4. mode \in Mode
  BY PersonalModes
<1>5. PICK a, b, c : /\ a = SsidCommands(index5G, ssid, own)
                     /\ b = ModeCommands(index5G, mode, own, junk)
                     /\ c = KeyCommands(index5G, key)
  OBVIOUS
<1>6. PICK fa, ta, fb, tb, fc, tc, m :
        /\ fa = For(name, "ssid", <<ssid>>)
        /\ ta = Then(For(name, "ssid", ssid), For(name, "wpa_passphrase", own))
        /\ fb = ModeLine(index5G, mode.beacon, mode.auth, junk, name)
        /\ tb = ModeTold(mode.beacon, "PSK", own, name)
        /\ fc = For(name, "wpa_passphrase", <<key>>)
        /\ tc = For(name, "wpa_passphrase", key)
        /\ m = <<mode.beacon>>
  OBVIOUS
<1>7. Writes(a, index5G, name, fa, <<>>, ta, <<"fresh">>, <<>>)
  BY <1>2, <1>3, <1>5, <1>6, WritesSsid
<1>8. Writes(b, index5G, name, fb, m, tb, <<"fresh">>, <<>>)
  BY <1>2, <1>3, <1>4, <1>5, <1>6, WritesSecurityMode
<1>9. Writes(c, index5G, name, fc, <<>>, tc, <<"fresh">>, <<>>)
  <2>1. "wpa_passphrase" \in One
    BY DEF One, SedName
  <2>2. QED
    BY <1>2, <1>3, <1>5, <1>6, <2>1, WritesSedSetting DEF KeyCommands
<1>10. Writes((a \o b) \o c, index5G, name, Then(Then(fa, fb), fc),
              Then(Then(<<>>, m), <<>>), Then(Then(ta, tb), tc),
              Then(Then(<<"fresh">>, <<"fresh">>), <<"fresh">>), Then(Then(<<>>, <<>>), <<>>))
  BY <1>7, <1>8, <1>9, WritesBoth
<1>11. /\ \A u : Then(u, <<>>) = u /\ Then(<<>>, u) = u
       /\ \A u : Then(u, <<"fresh">>) = <<"fresh">>
  BY DEF Then
<1>12. Writes((a \o b) \o c, index5G, name, Then(Then(fa, fb), fc), m,
              Then(Then(ta, tb), tc), <<"fresh">>, <<>>)
  BY <1>10, <1>11
<1>13. PICK given, not : given = Copied /\ not = Security \ {"wpa"}
  OBVIOUS
<1>14. given \in SUBSET Name /\ not \in SUBSET Name
  BY <1>13 DEF Copied, Security, Name, SedName
<1>15. Writes(((a \o b) \o c) \o <<Return(index5G, given, not)>>, index5G, name,
              Then(Then(fa, fb), fc), m, Then(Then(ta, tb), tc), <<"fresh">>,
              Noted(name, given, not))
  BY <1>2, <1>12, <1>14, Returned
<1>16. CopySettings(from, junk) = ((a \o b) \o c) \o <<Return(index5G, given, not)>>
  BY <1>1, <1>5, <1>13, Zenon DEF CopySettings, Copied
<1>17. /\ Then(Then(fa, fb), fc) = CopyLine(from, mode, junk, name)
       /\ Then(Then(ta, tb), tc) = CopyTold(from, mode, name)
  BY <1>1, <1>6, Zenon DEF CopyLine, CopyTold
<1>18. QED
  BY <1>6, <1>13, <1>15, <1>16, <1>17, Zenon

\* The settings that are copied, one by one.
LEMMA CopyValues ==
    ASSUME NEW from, NEW junk, NEW mode, NEW name,
           mode.beacon \in Beacon,
           mode.auth = IF mode.beacon = "None" THEN "None" ELSE "PSK"
    PROVE  /\ name = "ssid" =>
                 /\ CopyLine(from, mode, junk, name) = <<<<Value(from, name)>>>>
                 /\ CopyTold(from, mode, name) = <<Value(from, name)>>
           /\ name = "wpa_passphrase" =>
                 /\ CopyLine(from, mode, junk, name) = <<<<Value(from, name)>>>>
                 /\ CopyTold(from, mode, name) = <<Value(from, name)>>
           /\ name = "wpa" =>
                 /\ CopyLine(from, mode, junk, name)
                      = <<<<WpaWritten(index5G, mode.beacon, junk)>>>>
                 /\ CopyTold(from, mode, name) = <<WpaTold(mode.beacon)>>
           /\ name = "wpa_key_mgmt" /\ mode.beacon # "None" =>
                 CopyLine(from, mode, junk, name) = <<<<"WPA-PSK">>>>
           /\ name \notin Copied \cup {"wpa_key_mgmt"} => CopyLine(from, mode, junk, name) = <<>>
           /\ name \notin Copied \cup Security => CopyTold(from, mode, name) = <<>>
<1>1. PICK beacon, auth : beacon = mode.beacon /\ auth = mode.auth
  OBVIOUS
<1>2. PICK ssid, own, key :
        /\ ssid = Value(from, "ssid") /\ own = Value(index5G, "wpa_passphrase")
        /\ key = Value(from, "wpa_passphrase")
  OBVIOUS
<1>3. PICK fb, tb : /\ fb = ModeLine(index5G, beacon, auth, junk, name)
                    /\ tb = ModeTold(beacon, "PSK", own, name)
  OBVIOUS
<1>4. /\ \A u : Then(u, <<>>) = u /\ Then(<<>>, u) = u
      /\ \A u, v : Then(u, <<v>>) = <<v>>
  BY DEF Then
<1>5. /\ CopyLine(from, mode, junk, name)
           = Then(Then(For(name, "ssid", <<ssid>>), fb), For(name, "wpa_passphrase", <<key>>))
      /\ CopyTold(from, mode, name)
           = Then(Then(Then(For(name, "ssid", ssid), For(name, "wpa_passphrase", own)), tb),
                  For(name, "wpa_passphrase", key))
  BY <1>1, <1>2, <1>3, Zenon DEF CopyLine, CopyTold
<1>6. /\ name = "wpa" => fb = <<<<WpaWritten(index5G, beacon, junk)>>>>
      /\ name = "wpa_key_mgmt" /\ beacon # "None" => fb = <<<<"WPA-PSK">>>>
      /\ name \notin {"wpa", "wpa_key_mgmt"} => fb = <<>>
  <2>1. beacon # "None" => auth = "PSK"
    BY <1>1
  <2>2. QED
    BY <1>3, <2>1 DEF ModeLine, WpaLine, KeyLine, For, Then
<1>7. /\ name = "wpa" => tb = <<WpaTold(beacon)>>
      /\ name \notin Security \cup {"wpa_passphrase"} => tb = <<>>
  <2>1. WpaTold("None") = "0"
    BY DEF WpaTold
  <2>2. QED
    BY <1>3, <2>1 DEF ModeTold, For, Security
<1>8. CASE name = "ssid"
  BY <1>2, <1>4, <1>5, <1>6, <1>7, <1>8 DEF For, Security, Copied
<1>9. CASE name = "wpa_passphrase"
  BY <1>2, <1>4, <1>5, <1>6, <1>9 DEF For, Security, Copied
<1>10. CASE name = "wpa"
  BY <1>1, <1>4, <1>5, <1>6, <1>7, <1>10 DEF For, Security, Copied
<1>11. CASE name \in Security \ {"wpa"}
  BY <1>1, <1>4, <1>5, <1>6, <1>11 DEF For, Security, Copied
<1>12. CASE name \notin Copied \cup Security
  BY <1>4, <1>5, <1>6, <1>7, <1>12 DEF For, Security, Copied
<1>13. QED
  BY <1>8, <1>9, <1>10, <1>11, <1>12 DEF Copied

\* Copying is a call like those of the setters.
LEMMA CopyLeads ==
    ASSUME Settled, NEW from \in Ap, NEW junk \in Junk
    PROVE  Sound(CopySettings(from, junk), index5G)
<1>1. PICK mode, s : mode = PersonalMode(Value(from, "wpa")) /\ s = CopySettings(from, junk)
  OBVIOUS
<1>2. /\ mode \in Mode /\ mode.beacon \in Beacon
      /\ mode.auth = IF mode.beacon = "None" THEN "None" ELSE "PSK"
  BY <1>1, PersonalModes
<1>3. ASSUME NEW name \in Name
      PROVE  s \in Seq(CommandOf(index5G)) /\ Leads(s, index5G, name)
  <2>1. PICK f, t, o, m : /\ f = CopyLine(from, mode, junk, name) /\ t = CopyTold(from, mode, name)
                          /\ o = Noted(name, Copied, Security \ {"wpa"}) /\ m = <<mode.beacon>>
    OBVIOUS
  <2>2. Writes(s, index5G, name, f, m, t, <<"fresh">>, o)
    BY <1>1, <2>1, CopyWrites DEF Settled
  <2>3. CASE name \in {"ssid", "wpa_passphrase"}
    <3>1. f = <<<<Value(from, name)>>>> /\ t = <<Value(from, name)>>
      BY <1>2, <2>1, <2>3, CopyValues
    <3>2. Leads(s, index5G, name)
      BY <2>2, <2>3, <3>1, LineSays, GivenTo
    <3>3. QED
      BY <2>2, <3>2 DEF Writes
  <2>4. CASE name = "wpa"
    <3>1. PICK wpa, given, beacon :
            /\ wpa = WpaWritten(index5G, mode.beacon, junk) /\ beacon = mode.beacon
            /\ given = WpaTold(mode.beacon)
      OBVIOUS
    <3>2. f = <<<<wpa>>>> /\ t = <<given>> /\ m = <<beacon>>
      BY <1>2, <2>1, <2>4, <3>1, CopyValues
    <3>3. WpaAgrees(beacon, wpa, given)
      <4>1. WpaTold("None") = "0"
        BY DEF WpaTold
      <4>2. QED
        BY <1>2, <3>1, <4>1, WpaOfMode
    <3>4. Leads(s, index5G, "wpa")
      BY <2>2, <2>4, <3>2, <3>3, WpaGiven
    <3>5. QED
      BY <2>2, <2>4, <3>4 DEF Writes
  <2>5. CASE name \in Security \ {"wpa"}
    <3>1. o = <<"open">>
      BY <2>1, <2>5 DEF Noted
    <3>2. QED
      BY <2>2, <3>1, Opened DEF Writes
  <2>6. CASE name \notin Copied \cup Security
    <3>1. f = <<>> /\ t = <<>> /\ o = <<>> /\ name # "wpa"
      BY <1>2, <2>1, <2>6, CopyValues DEF Noted, Copied, Security
    <3>2. Leads(<<>>, index5G, name)
      BY DEF Settled, index5G, Ap
    <3>3. Leads(s, index5G, name)
      BY <2>2, <3>1, <3>2, Untouched
    <3>4. QED
      BY <2>2, <3>3 DEF Writes
  <2>7. QED
    BY <2>3, <2>4, <2>5, <2>6 DEF Copied
<1>4. "ssid" \in Name
  BY DEF Name, SedName
<1>5. Sound(s, index5G)
  BY <1>3, <1>4 DEF Sound
<1>6. QED
  BY <1>1, <1>5

\* What copying leaves: the name, the mode and the key are hostapd's, and the security mode
\* is the one that the 2.4 GHz value of wpa stands for.
Copies(s) ==
    /\ \A name \in Copied : After(s, "open", index5G, name) = "sure"
    /\ After(s, "told", index5G, "wpa") = WpaTold(After(s, "sec", index5G, "wpa"))
    /\ After(s, "sec", index5G, "wpa")
         = PersonalMode(First(After(s, "file", index2G, "wpa"))).beacon

LEMMA CopyCopies ==
    ASSUME Settled, NEW junk \in Junk
    PROVE  Copies(CopySettings(index2G, junk))
<1>1. PICK mode, s : mode = PersonalMode(Value(index2G, "wpa")) /\ s = CopySettings(index2G, junk)
  OBVIOUS
<1>2. /\ mode.beacon \in Beacon /\ index2G \in Ap /\ index2G # index5G
      /\ mode.auth = IF mode.beacon = "None" THEN "None" ELSE "PSK"
  BY <1>1, PersonalModes DEF index2G, index5G, Ap
<1>3. ASSUME NEW name \in Copied
      PROVE  After(s, "open", index5G, name) = "sure"
  <2>1. name \in Name
    BY DEF Copied, Name, SedName
  <2>2. PICK f, t, m : Writes(s, index5G, name, f, m, t, <<"fresh">>,
                              Noted(name, Copied, Security \ {"wpa"}))
    BY <1>1, <1>2, <2>1, CopyWrites DEF Settled
  <2>3. Noted(name, Copied, Security \ {"wpa"}) = <<"sure">>
    BY DEF Noted, Copied, Security
  <2>4. Leaves(s, index5G, name, f, m, t, <<"fresh">>, <<"sure">>)
    BY <2>2, <2>3, AfterWrites
  <2>5. QED
    BY <2>4 DEF Leaves, Over
<1>4. /\ After(s, "told", index5G, "wpa") = WpaTold(mode.beacon)
      /\ After(s, "sec", index5G, "wpa") = mode.beacon
  <2>1. "wpa" \in Name
    BY DEF Name, SedName
  <2>2. PICK name : name = "wpa"
    OBVIOUS
  <2>3. PICK f, t, m, o : /\ Writes(s, index5G, name, f, m, t, <<"fresh">>, o)
                          /\ t = CopyTold(index2G, mode, name) /\ m = <<mode.beacon>>
    BY <1>1, <1>2, <2>1, <2>2, CopyWrites DEF Settled
  <2>4. t = <<WpaTold(mode.beacon)>>
    BY <1>2, <2>2, <2>3, CopyValues
  <2>5. Leaves(s, index5G, name, f, m, t, <<"fresh">>, o)
    BY <2>3, AfterWrites
  <2>6. \A u, v : Over(u, <<v>>) = v
    BY DEF Over
  <2>7. /\ After(s, "told", index5G, name) = Over(told[index5G][name], <<WpaTold(mode.beacon)>>)
        /\ After(s, "sec", index5G, name) = Over(sec[index5G], <<mode.beacon>>)
    BY <2>3, <2>4, <2>5, Zenon DEF Leaves
  <2>8. QED
    BY <2>2, <2>6, <2>7, Zenon
<1>5. First(After(s, "file", index2G, "wpa")) = Value(index2G, "wpa")
  <2>1. s \in Seq(CommandOf(index5G))
    BY <1>1, <1>2, CopyLeads DEF Sound
  <2>2. After(s, "file", index2G, "wpa") = file[index2G]["wpa"]
    <3>1. After(s, "file", index2G, "wpa") = After(<<>>, "file", index2G, "wpa")
      BY <1>2, <2>1, ElsewhereSame, Zenon
    <3>2. QED
      BY <3>1, AfterNone, Zenon
  <2>3. QED
    BY <2>2, Zenon DEF First, Value
<1>6. QED
  BY <1>1, <1>3, <1>4, <1>5, Zenon DEF Copies

\* What the backup was made of.
Memory == {settings \in [file : [Name -> Lines], sec : Beacon] : Whole(settings.file)}

Remembered ==
    \/ before = {} /\ backup = {}
    \/ \E settings \in Memory : before = {settings} /\ backup \in {{}, {settings.file}}

\* Once the backup is gone, its lines are in the file.
SameFile(s, settings) ==
    \A name \in Name : After(s, "file", index5G, name) = settings.file[name]

\* They are hostapd's as well when the settings have been applied again.
SameSetting(s, settings) ==
    /\ SameFile(s, settings)
    /\ After(s, "sec", index5G, "wpa") = settings.sec
    /\ \A name \in Copied : /\ After(s, "fresh", index5G, name) = "fresh"
                            /\ After(s, "told", index5G, name) = First(settings.file[name])

Lasting(settings) == TwoFour = index2G /\ backup = {} /\ Described(settings)

FileBack(s) == \A settings \in before : Lasting(settings) => SameFile(s, settings)
Back(s)     == \A settings \in before : Lasting(settings) => SameSetting(s, settings)

\* A file with one line of each copied parameter is written as it is.
LEMMA SameLine ==
    ASSUME Filed, NEW ap \in Ap, NEW n \in One
    PROVE  /\ file[ap][n] = <<Value(ap, n)>> /\ Value(ap, n) = First(file[ap][n])
           /\ file[ap][n] # <<>>
<1>1. PICK s : s = file[ap][n]
  OBVIOUS
<1>2. s \in Seq(Text) /\ Len(s) = 1
  BY <1>1 DEF Filed, Lines, One, Name
<1>3. s # <<>> /\ Head(s) = s[1] /\ s = <<s[1]>>
  BY <1>2
<1>4. QED
  BY <1>1, <1>3 DEF Value, First

\* Applying the settings again leaves them as they are.
LEMMA CopyBack ==
    ASSUME Settled, FileBack(<<>>), NEW junk \in Junk
    PROVE  Back(CopySettings(index5G, junk))
<1>1. PICK s : s = CopySettings(index5G, junk)
  OBVIOUS
<1>2. SUFFICES ASSUME NEW settings \in before, Lasting(settings)
               PROVE  SameSetting(s, settings)
  BY <1>1 DEF Back
<1>3. Filed /\ index5G \in Ap
  BY DEF Settled, index5G, Ap
<1>4. \A name \in Name : file[index5G][name] = settings.file[name]
  <2>1. SameFile(<<>>, settings)
    BY <1>2 DEF FileBack
  <2>2. QED
    BY <2>1, AfterNone DEF SameFile
<1>5. Copied \subseteq One /\ One \subseteq Name /\ "wpa_key_mgmt" \in One
  BY DEF Copied, One, Name, SedName
<1>6. PICK mode, beacon :
        mode = PersonalMode(Value(index5G, "wpa")) /\ beacon = mode.beacon
  OBVIOUS
<1>7. /\ beacon = settings.sec /\ beacon # "None" /\ beacon \in Beacon
      /\ Value(index5G, "wpa_key_mgmt") = "WPA-PSK"
      /\ mode.auth = IF mode.beacon = "None" THEN "None" ELSE "PSK"
  <2>1. /\ settings.sec # "None" /\ Head(settings.file["wpa_key_mgmt"]) = "WPA-PSK"
        /\ PersonalMode(Head(settings.file["wpa"])) = [beacon |-> settings.sec, auth |-> "PSK"]
    BY <1>2 DEF Lasting, Described
  <2>2. /\ Value(index5G, "wpa") = Head(settings.file["wpa"])
        /\ Value(index5G, "wpa_key_mgmt") = Head(settings.file["wpa_key_mgmt"])
    <3>1. "wpa" \in One
      BY <1>5 DEF Copied
    <3>2. QED
      BY <1>3, <1>4, <1>5, <3>1, SameLine DEF First
  <2>3. mode = [beacon |-> settings.sec, auth |-> "PSK"]
    BY <1>6, <2>1, <2>2
  <2>4. mode.beacon = settings.sec
    BY <2>3
  <2>5. QED
    BY <1>6, <2>1, <2>2, <2>4, PersonalModes
<1>8. WpaWritten(index5G, beacon, junk) = Value(index5G, "wpa")
      /\ WpaTold(beacon) = Value(index5G, "wpa")
  <2>1. TwoFour # index5G
    BY <1>2 DEF Lasting, index2G, index5G
  <2>2. PICK wpa : wpa = Value(index5G, "wpa")
    OBVIOUS
  <2>3. beacon \in {"WPA", "11i", "WPAand11i"} /\ beacon = PersonalMode(wpa).beacon
    BY <1>6, <1>7, <2>2 DEF Beacon
  <2>4. \/ beacon = "WPA" /\ wpa = "1"
        \/ beacon = "11i" /\ wpa = "2"
        \/ beacon = "WPAand11i" /\ wpa = "3"
    <3>1. /\ wpa = "1" => PersonalMode(wpa).beacon = "WPA"
          /\ wpa = "2" => PersonalMode(wpa).beacon = "11i"
          /\ wpa = "3" => PersonalMode(wpa).beacon = "WPAand11i"
          /\ wpa \notin {"1", "2", "3"} => PersonalMode(wpa).beacon = "None"
      BY DEF PersonalMode, NoMode
    <3>2. QED
      BY <2>3, <3>1
  <2>5. QED
    BY <2>1, <2>2, <2>4 DEF WpaWritten, WpaTold
<1>9. ASSUME NEW name \in Name
      PROVE  /\ After(s, "file", index5G, name) = settings.file[name]
             /\ After(s, "sec", index5G, name) = settings.sec
             /\ name \in Copied => /\ After(s, "fresh", index5G, name) = "fresh"
                                   /\ After(s, "told", index5G, name) = First(settings.file[name])
  <2>1. PICK f, t, m, o : /\ Writes(s, index5G, name, f, m, t, <<"fresh">>, o)
                          /\ f = CopyLine(index5G, mode, junk, name)
                          /\ t = CopyTold(index5G, mode, name) /\ m = <<beacon>>
    BY <1>1, <1>3, <1>6, CopyWrites
  <2>2. Leaves(s, index5G, name, f, m, t, <<"fresh">>, o)
    BY <2>1, AfterWrites
  <2>3. /\ After(s, "sec", index5G, name) = beacon
        /\ After(s, "fresh", index5G, name) = "fresh"
    BY <2>1, <2>2 DEF Leaves, Over
  <2>4. name \in Copied =>
           f = <<<<Value(index5G, name)>>>> /\ t = <<Value(index5G, name)>>
    BY <1>6, <1>7, <1>8, <2>1, CopyValues DEF Copied
  <2>5. name = "wpa_key_mgmt" => f = <<<<Value(index5G, name)>>>>
    BY <1>6, <1>7, <2>1, CopyValues
  <2>6. name \notin Copied \cup {"wpa_key_mgmt"} => f = <<>>
    BY <1>6, <1>7, <2>1, CopyValues
  <2>7. name \in Copied \cup {"wpa_key_mgmt"} =>
           /\ file[index5G][name] = <<Value(index5G, name)>>
           /\ Value(index5G, name) = First(file[index5G][name])
    BY <1>3, <1>5, SameLine
  <2>8. After(s, "file", index5G, name) = file[index5G][name]
    BY <2>2, <2>4, <2>5, <2>6, <2>7 DEF Leaves, Over
  <2>9. name \in Copied => After(s, "told", index5G, name) = First(file[index5G][name])
    <3>1. \A u, v : Over(u, <<v>>) = v
      BY DEF Over
    <3>2. QED
      BY <2>2, <2>4, <2>7, <3>1, Zenon DEF Leaves
  <2>10. QED
    BY <1>4, <1>7, <2>3, <2>8, <2>9
<1>10. QED
  BY <1>5, <1>9 DEF SameSetting, SameFile, Copied

-----------------------------------------------------------------------------
(***************************************************************************)
(* The steps of steering.                                                  *)
(***************************************************************************)

Together ==
    \A name \in Copied :
        <<index2G, name>> \notin open => air[index2G][name] = air[index5G][name]

\* Nothing of the settings is changed.
LEMMA CopiesStay ==
    ASSUME UNCHANGED configVars, NEW s, Copies(s)
    PROVE  Copies(s)'
<1>1. UNCHANGED <<file, sec, told, air, open>>
  BY DEF configVars
<1>2. \A what, ap, name : Now(what, ap, name)' = Now(what, ap, name)
  BY <1>1 DEF Now
<1>3. \A what, ap, name : After(s, what, ap, name)' = After(s, what, ap, name)
  BY <1>2 DEF After, Over
<1>4. QED
  BY <1>3 DEF Copies

LEMMA BackStays ==
    ASSUME UNCHANGED configVars, backup' = backup, before' = before, NEW s
    PROVE  (FileBack(s) => FileBack(s)') /\ (Back(s) => Back(s)')
<1>1. UNCHANGED <<file, sec, told, air, open>>
  BY DEF configVars
<1>2. \A what, ap, name : Now(what, ap, name)' = Now(what, ap, name)
  BY <1>1 DEF Now
<1>3. \A what, ap, name : After(s, what, ap, name)' = After(s, what, ap, name)
  BY <1>2 DEF After, Over
<1>4. \A settings : /\ SameFile(s, settings) => SameFile(s, settings)'
                    /\ SameSetting(s, settings) => SameSetting(s, settings)'
                    /\ Lasting(settings)' <=> Lasting(settings)
  BY <1>3 DEF SameFile, SameSetting, Lasting
<1>5. QED
  BY <1>4 DEF FileBack, Back

\* A command of a list is one step of it.
LEMMA FactsStep ==
    ASSUME NEW s, Bound(s), s # <<>>, NEW t, t = Tail(s), ConfigStep(Head(s)),
           backup' = backup, before' = before
    PROVE  (Copies(s) => Copies(t)') /\ (Back(s) => Back(t)')
<1>1. StateTyped /\ s \in Seq(Command)
  BY DEF Bound
<1>2. ASSUME NEW ap \in Ap, NEW name \in Name
      PROVE  /\ After(t, "file", ap, name)' = After(s, "file", ap, name)
             /\ After(t, "sec", ap, name)' = After(s, "sec", ap, name)
             /\ After(t, "told", ap, name)' = After(s, "told", ap, name)
             /\ After(t, "open", ap, name)' = After(s, "open", ap, name)
             /\ After(s, "fresh", ap, name) = "fresh" => After(t, "fresh", ap, name)' = "fresh"
  BY <1>1, StepAfter
<1>3. index2G \in Ap /\ index5G \in Ap /\ Copied \subseteq Name /\ "wpa" \in Name
  BY DEF index2G, index5G, Ap, Copied, Name, SedName
<1>4. Copies(s) => Copies(t)'
  BY <1>2, <1>3 DEF Copies
<1>5. \A settings : /\ SameSetting(s, settings) => SameSetting(t, settings)'
                    /\ Lasting(settings)' <=> Lasting(settings)
  BY <1>2, <1>3 DEF SameFile, SameSetting, Lasting
<1>6. QED
  BY <1>4, <1>5 DEF Back

\* The check finds both bands on air with what was copied.
LEMMA CheckedTogether ==
    ASSUME Bound(<<>>), Copies(<<>>), SameSettings
    PROVE  Together
<1>1. Settled
  BY BetweenCalls
<1>2. /\ index2G \in Ap /\ index5G \in Ap /\ index2G # index5G
      /\ Copied \subseteq Name /\ Copied \subseteq One
  BY DEF index2G, index5G, Ap, Copied, Name, SedName, One
<1>3. ASSUME NEW ap \in Ap, NEW name \in Copied, <<ap, name>> \notin open
      PROVE  /\ told[ap][name] = air[ap][name]
             /\ name # "wpa" => told[ap][name] = Value(ap, name)
             /\ name = "wpa" => WpaAgrees(sec[ap], Value(ap, name), told[ap][name])
  <2>1. /\ After(<<>>, "file", ap, name) = file[ap][name]
        /\ After(<<>>, "sec", ap, name) = sec[ap]
        /\ After(<<>>, "told", ap, name) = told[ap][name]
        /\ After(<<>>, "fresh", ap, name)
              = IF told[ap][name] = air[ap][name] THEN "fresh" ELSE "stale"
        /\ After(<<>>, "open", ap, name) = "sure"
    BY <1>3, AfterNone
  <2>2. Value(ap, name) = First(file[ap][name])
    BY Zenon DEF Value, First
  <2>3. Leads(<<>>, ap, name)
    BY <1>1, <1>2 DEF Settled
  <2>4. /\ After(<<>>, "fresh", ap, name) = "fresh"
        /\ name # "wpa" => told[ap][name] = First(file[ap][name])
        /\ name = "wpa" => WpaAgrees(sec[ap], First(file[ap][name]), told[ap][name])
    BY <2>1, <2>3, Zenon DEF Leads
  <2>5. told[ap][name] = air[ap][name]
    BY <2>1, <2>4
  <2>6. QED
    BY <2>2, <2>4, <2>5, Zenon
<1>4. \A name \in Copied : <<index5G, name>> \notin open
  <2>1. ASSUME NEW name \in Copied
        PROVE  <<index5G, name>> \notin open
    <3>1. After(<<>>, "open", index5G, name) = "sure"
      BY DEF Copies
    <3>2. QED
      BY <3>1, AfterNone
  <2>2. QED
    BY <2>1
<1>5. PICK wpa, beacon, own :
        /\ wpa = Value(index2G, "wpa") /\ beacon = sec[index5G] /\ own = told[index5G]["wpa"]
  OBVIOUS
<1>6. own = WpaTold(beacon) /\ beacon = PersonalMode(wpa).beacon
  <2>1. /\ After(<<>>, "told", index5G, "wpa") = told[index5G]["wpa"]
        /\ After(<<>>, "sec", index5G, "wpa") = sec[index5G]
        /\ After(<<>>, "file", index2G, "wpa") = file[index2G]["wpa"]
    BY AfterNone, Zenon
  <2>2. First(file[index2G]["wpa"]) = Value(index2G, "wpa")
    BY Zenon DEF First, Value
  <2>3. QED
    BY <1>5, <2>1, <2>2, Zenon DEF Copies
<1>7. sec[index2G] = beacon
  <2>1. SecurityMode(index2G) = SecurityMode(index5G)
    BY DEF SameSettings
  <2>2. \A ap \in Ap : SecurityMode(ap).beacon = sec[ap]
    BY DEF SecurityMode, NoMode
  <2>3. QED
    BY <1>2, <1>5, <2>1, <2>2
<1>8. ASSUME <<index2G, "wpa">> \notin open
      PROVE  air[index2G]["wpa"] = air[index5G]["wpa"]
  <2>1. "wpa" \in Copied
    BY DEF Copied
  <2>2. PICK given : given = told[index2G]["wpa"]
    OBVIOUS
  <2>3. /\ given = air[index2G]["wpa"] /\ own = air[index5G]["wpa"]
        /\ WpaAgrees(beacon, wpa, given)
    BY <1>2, <1>3, <1>4, <1>5, <1>7, <1>8, <2>1, <2>2
  <2>4. /\ wpa = "1" => PersonalMode(wpa).beacon = "WPA"
        /\ wpa = "2" => PersonalMode(wpa).beacon = "11i"
        /\ wpa = "3" => PersonalMode(wpa).beacon = "WPAand11i"
        /\ wpa \notin {"1", "2", "3"} => PersonalMode(wpa).beacon = "None"
    BY DEF PersonalMode, NoMode
  <2>5. given = own
    BY <1>6, <2>3, <2>4 DEF WpaAgrees, WpaTold, Junk
  <2>6. QED
    BY <2>3, <2>5
<1>9. ASSUME NEW name \in Copied \ {"wpa"}, <<index2G, name>> \notin open
      PROVE  air[index2G][name] = air[index5G][name]
  <2>1. Value(index2G, name) = Value(index5G, name)
    BY DEF Copied, SameSettings
  <2>2. QED
    BY <1>2, <1>3, <1>4, <1>9, <2>1
<1>10. QED
  BY <1>8, <1>9 DEF Together

\* The backup takes the place of the file.
Restores ==
    /\ file' = [file EXCEPT ![index5G] = IF backup = {} THEN @ ELSE CHOOSE f \in backup : TRUE]
    /\ open' = open \cup {index5G} \X {name \in Name : file'[index5G][name] # file[index5G][name]}
    /\ backup' = {}
    /\ UNCHANGED <<sec, told, air, before>>

LEMMA RestoreBound ==
    ASSUME Bound(<<>>), Remembered, FileBack(<<>>), Restores
    PROVE  Bound(<<>>)' /\ Remembered' /\ FileBack(<<>>)'
<1>1. Settled /\ StateTyped /\ Filed /\ index5G \in Ap /\ file \in [Ap -> [Name -> Lines]]
  BY BetweenCalls DEF Bound, Settled, StateTyped, index5G, Ap
<1>2. PICK f : f = IF backup = {} THEN file[index5G] ELSE CHOOSE g \in backup : TRUE
  OBVIOUS
<1>3. /\ f \in [Name -> Lines] /\ Whole(f)
      /\ \A settings \in before : Lasting(settings)' => \A name \in Name : f[name] = settings.file[name]
  <2>1. CASE backup = {}
    <3>1. f = file[index5G]
      BY <1>2, <2>1
    <3>2. f \in [Name -> Lines] /\ Whole(f)
      BY <1>1, <3>1 DEF Filed, Whole
    <3>3. ASSUME NEW settings \in before, Lasting(settings)', NEW name \in Name
          PROVE  f[name] = settings.file[name]
      <4>1. Lasting(settings)
        BY <2>1, <3>3 DEF Lasting
      <4>2. After(<<>>, "file", index5G, name) = settings.file[name]
        BY <4>1 DEF FileBack, SameFile
      <4>3. QED
        BY <3>1, <4>2, AfterNone
    <3>4. QED
      BY <3>2, <3>3
  <2>2. CASE backup # {}
    <3>1. PICK settings \in Memory : before = {settings} /\ backup = {settings.file}
      BY <2>2 DEF Remembered
    <3>2. f = settings.file
      <4>1. PICK g : g = settings.file
        OBVIOUS
      <4>2. f \in {g}
        BY <1>2, <2>2, <3>1, <4>1
      <4>3. QED
        BY <4>1, <4>2
    <3>3. settings.file \in [Name -> Lines] /\ Whole(settings.file)
      BY <3>1 DEF Memory
    <3>4. QED
      BY <3>1, <3>2, <3>3
  <2>3. QED
    BY <2>1, <2>2
<1>4. /\ file' \in [Ap -> [Name -> Lines]] /\ file'[index5G] = f
      /\ \A ap \in Ap \ {index5G} : file'[ap] = file[ap]
  <2>1. PICK S, g, h : S = [Name -> Lines] /\ g = file /\ h = file'
    OBVIOUS
  <2>2. g \in [Ap -> S] /\ f \in S /\ h = [g EXCEPT ![index5G] = f]
    <3>1. backup = {} => f = file[index5G]
      BY <1>2
    <3>2. backup # {} => f = CHOOSE e \in backup : TRUE
      BY <1>2
    <3>3. file' = [file EXCEPT ![index5G] = f]
      BY <3>1, <3>2 DEF Restores
    <3>4. QED
      BY <1>1, <1>3, <2>1, <3>3, Zenon
  <2>3. /\ h \in [Ap -> S] /\ h[index5G] = f
        /\ \A ap \in Ap \ {index5G} : h[ap] = g[ap]
    BY <1>1, <2>2
  <2>4. QED
    BY <2>1, <2>3, Zenon
<1>5. ASSUME NEW ap \in Ap, NEW name \in Name, <<ap, name>> \notin open'
      PROVE  <<ap, name>> \notin open /\ file'[ap][name] = file[ap][name]
  <2>1. <<ap, name>> \notin open
    BY <1>5 DEF Restores
  <2>2. CASE ap = index5G
    <3>1. file'[index5G][name] # file[index5G][name] => <<index5G, name>> \in open'
      BY DEF Restores
    <3>2. QED
      BY <1>5, <2>1, <2>2, <3>1
  <2>3. QED
    BY <1>4, <2>1, <2>2
<1>6. UNCHANGED <<sec, told, air, before>> /\ backup' = {}
  BY DEF Restores
<1>7. StateTyped'
  <2>1. open' \in SUBSET (Ap \X Name)
    BY <1>1 DEF StateTyped, Restores
  <2>2. QED
    BY <1>1, <1>4, <1>6, <2>1 DEF StateTyped
<1>8. Filed'
  <2>1. \A ap \in Ap, n \in One : Len(file'[ap][n]) = 1
    <3>1. ASSUME NEW ap \in Ap, NEW n \in One
          PROVE  Len(file'[ap][n]) = 1
      <4>1. Len(file[ap][n]) = 1 /\ Len(f[n]) = 1
        BY <1>1, <1>3 DEF Filed, Whole
      <4>2. QED
        BY <1>4, <4>1
    <3>2. QED
      BY <3>1
  <2>2. QED
    BY <1>4, <2>1 DEF Filed
<1>9. ASSUME NEW ap \in Ap, NEW name \in Name
      PROVE  Leads(<<>>, ap, name)'
  <2>1. \A what : /\ After(<<>>, what, ap, name)' = Now(what, ap, name)'
                  /\ After(<<>>, what, ap, name) = Now(what, ap, name)
    BY NetNone DEF After, Over
  <2>2. CASE <<ap, name>> \in open'
    <3>1. After(<<>>, "open", ap, name)' = "open"
      BY <2>1, <2>2 DEF Now
    <3>2. QED
      BY <3>1 DEF Leads
  <2>3. CASE <<ap, name>> \notin open'
    <3>1. /\ Now("file", ap, name)' = Now("file", ap, name)
          /\ Now("sec", ap, name)' = Now("sec", ap, name)
          /\ Now("told", ap, name)' = Now("told", ap, name)
          /\ Now("fresh", ap, name)' = Now("fresh", ap, name)
          /\ Now("open", ap, name)' = Now("open", ap, name)
      BY <1>5, <1>6, <2>3 DEF Now
    <3>2. Leads(<<>>, ap, name)
      BY <1>1 DEF Settled
    <3>3. QED
      BY <2>1, <3>1, <3>2 DEF Leads
  <2>4. QED
    BY <2>2, <2>3
<1>10. Bound(<<>>)'
  <2>1. <<>> \in Seq(Command) /\ <<>> \in Seq(CommandOf(0)) /\ 0 \in Ap
    BY DEF Ap
  <2>2. OfOne(<<>>)'
    BY <1>8, <2>1 DEF OfOne
  <2>3. QED
    BY <1>7, <1>9, <2>1, <2>2 DEF Bound
<1>11. Remembered'
  BY <1>6 DEF Remembered
<1>12. FileBack(<<>>)'
  <2>1. ASSUME NEW settings \in before, Lasting(settings)', NEW name \in Name
        PROVE  After(<<>>, "file", index5G, name)' = settings.file[name]
    <3>1. After(<<>>, "file", index5G, name)' = file'[index5G][name]
      BY NetNone DEF After, Over, Now
    <3>2. QED
      BY <1>3, <1>4, <2>1, <3>1
  <2>2. QED
    BY <1>6, <2>1 DEF FileBack, SameFile
<1>13. QED
  BY <1>10, <1>11, <1>12

\* The parts of two lists in one.
LEMMA Parts ==
    ASSUME NEW S, NEW s \in Seq(S), NEW u \in Seq(S)
    PROVE  /\ s \o u \in Seq(S) /\ Len(s \o u) = Len(s) + Len(u)
           /\ \A i \in 1..Len(s) : (s \o u)[i] = s[i]
           /\ \A i \in 1..Len(u) : (s \o u)[Len(s) + i] = u[i]
OBVIOUS

\* Commands of a list that others follow.
LEMMA Followed ==
    ASSUME NEW S, NEW s \in Seq(S), NEW c
    PROVE  /\ s # <<>> => /\ s \o <<c>> # <<>> /\ Head(s \o <<c>>) = Head(s)
                          /\ Tail(s \o <<c>>) = Tail(s) \o <<c>>
           /\ s = <<>> => s \o <<c>> = <<c>>
<1>1. PICK T, u : T = S \cup {c} /\ u = <<c>>
  OBVIOUS
<1>2. s \in Seq(T) /\ u \in Seq(T) /\ Len(u) = 1
  <2>1. \A A, B : A \subseteq B => Seq(A) \subseteq Seq(B)
    OBVIOUS
  <2>2. S \subseteq T /\ c \in T
    BY <1>1
  <2>3. u \in Seq(T) /\ Len(u) = 1
    BY <1>1, <2>2
  <2>4. QED
    BY <2>1, <2>2, <2>3
<1>3. ASSUME s # <<>>
      PROVE  s \o u # <<>> /\ Head(s \o u) = Head(s) /\ Tail(s \o u) = Tail(s) \o u
  <2>1. PICK d : d = s \o u
    OBVIOUS
  <2>2. /\ d \in Seq(T) /\ Len(d) = Len(s) + 1 /\ Len(s) \in Nat \ {0}
        /\ \A i \in 1..Len(s) : d[i] = s[i]
        /\ \A i \in 1..Len(u) : d[Len(s) + i] = u[i]
    <3>1. Len(d) = Len(s) + Len(u)
      BY <1>2, <2>1, Parts
    <3>2. Len(s) \in Nat \ {0}
      BY <1>2, <1>3
    <3>3. Len(d) = Len(s) + 1
      BY <1>2, <3>1
    <3>4. QED
      BY <1>2, <2>1, <3>2, <3>3, Parts
  <2>3. \A i \in 1..Len(s) : d[i] = s[i]
    BY <2>2
  <2>4. d # <<>> /\ Head(d) = d[1] /\ Head(s) = s[1] /\ 1 \in 1..Len(s)
    BY <1>2, <1>3, <2>2
  <2>5. d # <<>> /\ Head(d) = Head(s)
    BY <2>3, <2>4
  <2>6. Tail(d) = Tail(s) \o u
    <3>1. /\ Tail(d) \in Seq(T) /\ Len(Tail(d)) = Len(s)
          /\ Tail(s) \in Seq(T) /\ Len(Tail(s)) = Len(s) - 1
          /\ \A i \in 1..Len(s) : Tail(d)[i] = d[i + 1]
          /\ \A i \in 1..(Len(s) - 1) : Tail(s)[i] = s[i + 1]
      BY <1>2, <1>3, <2>2
    <3>2. d[Len(s) + 1] = u[1]
      BY <1>2, <2>2
    <3>3. \A i \in 1..Len(Tail(s)) : Tail(d)[i] = Tail(s)[i]
      BY <2>2, <2>3, <3>1
    <3>4. \A i \in 1..Len(u) : Tail(d)[Len(Tail(s)) + i] = u[i]
      BY <1>2, <2>2, <3>1, <3>2
    <3>5. Len(Tail(d)) = Len(Tail(s)) + Len(u)
      BY <1>2, <2>2, <3>1
    <3>6. QED
      BY <1>2, <3>1, <3>3, <3>4, <3>5, Joined
  <2>7. QED
    BY <2>1, <2>5, <2>6
<1>4. s = <<>> => s \o u = u
  BY <1>2
<1>5. QED
  BY <1>1, <1>3, <1>4, Zenon

\* One command before a list.
LEMMA Preceded ==
    ASSUME NEW S, NEW s \in Seq(S), NEW c
    PROVE  <<c>> \o s # <<>> /\ Head(<<c>> \o s) = c /\ Tail(<<c>> \o s) = s
<1>1. PICK T, d, u : T = S \cup {c} /\ u = <<c>> /\ d = u \o s
  OBVIOUS
<1>2. s \in Seq(T) /\ u \in Seq(T) /\ Len(u) = 1 /\ u[1] = c
  <2>1. \A A, B : A \subseteq B => Seq(A) \subseteq Seq(B)
    OBVIOUS
  <2>2. S \subseteq T /\ c \in T
    BY <1>1
  <2>3. u \in Seq(T) /\ Len(u) = 1 /\ u[1] = c
    BY <1>1, <2>2
  <2>4. QED
    BY <2>1, <2>2, <2>3
<1>3. /\ d \in Seq(T) /\ Len(d) = Len(s) + 1 /\ d[1] = c
      /\ \A i \in 1..Len(s) : d[i + 1] = s[i]
  BY <1>1, <1>2
<1>4. d # <<>> /\ Head(d) = c
  BY <1>2, <1>3
<1>5. Tail(d) = s
  <2>1. Tail(d) \in Seq(T) /\ Len(Tail(d)) = Len(s) /\ \A i \in 1..Len(s) : Tail(d)[i] = d[i + 1]
    BY <1>2, <1>3
  <2>2. \A e \in Seq(T) : e = [i \in 1..Len(e) |-> e[i]]
    OBVIOUS
  <2>3. PICK e : e = Tail(d)
    OBVIOUS
  <2>4. e \in Seq(T) /\ Len(e) = Len(s) /\ \A i \in 1..Len(s) : e[i] = s[i]
    BY <1>3, <2>1, <2>3
  <2>5. s = [i \in 1..Len(s) |-> s[i]] /\ e = [i \in 1..Len(s) |-> e[i]]
    BY <1>2, <2>2, <2>4
  <2>6. QED
    BY <2>3, <2>4, <2>5
<1>6. QED
  BY <1>1, <1>4, <1>5

\* The first of up to three commands, and the others.
LEMMA ListParts ==
    /\ \A a : Head(<<a>>) = a /\ Tail(<<a>>) = <<>>
    /\ \A a, b : Head(<<a, b>>) = a /\ Tail(<<a, b>>) = <<b>>
    /\ \A a, b, c : Head(<<a, b, c>>) = a /\ Tail(<<a, b, c>>) = <<b, c>>
OBVIOUS

Resetting == {<<Restore, Reapply>>, <<Restore, Reapply, SteeringFlag(FALSE)>>}
Reapplying == {<<Reapply>>, <<Reapply, SteeringFlag(FALSE)>>}

\* What a call of steering has left, of which s are commands of the setters.
Enabling(s) == /\ todo = <<Backup>> \o (s \o <<Check>>) /\ Filed /\ Copies(s)
Checking(s) == todo = s \o <<Check>> /\ Copies(s) /\ backup # {}
Enabled(s)  == s = <<>> /\ todo = <<SteeringFlag(TRUE)>> /\ Together /\ backup # {}
Taking(s)   == s = <<>> /\ todo \in Resetting \cup Reapplying /\ FileBack(<<>>)
Settling(s) == todo \in {s, s \o <<SteeringFlag(FALSE)>>} /\ Back(s)

SteeringInv ==
    \E s : /\ Bound(s) /\ Remembered
           /\ Enabling(s) \/ Checking(s) \/ Enabled(s) \/ Taking(s) \/ Settling(s)

\* The first command that is left.
LEMMA SettersCommand ==
    ASSUME SteeringCommand, Head(todo) \in Command
    PROVE  ConfigStep(Head(todo)) /\ todo' = Tail(todo) /\ UNCHANGED steeringVars
<1>1. Head(todo).do \in {"file", "replace", "sec", "told", "restart", "return"}
  BY CommandParts
<1>2. QED
  BY <1>1 DEF SteeringCommand

LEMMA BackupCommand ==
    ASSUME SteeringCommand, Head(todo) = Backup
    PROVE  /\ backup' = {file[index5G]} /\ before' = {Settings(index5G)}
           /\ todo' = Tail(todo) /\ UNCHANGED configVars
<1>1. Head(todo).do = "backup"
  BY DEF Backup
<1>2. QED
  BY <1>1 DEF SteeringCommand, ConfigStep

LEMMA CheckCommand ==
    ASSUME SteeringCommand, Head(todo) = Check
    PROVE  /\ \/ SameSettings /\ todo' = <<SteeringFlag(TRUE)>>
              \/ todo' = ResetBandSteeringParams
           /\ UNCHANGED <<configVars, steeringVars>>
<1>1. Head(todo).do = "check"
  BY DEF Check
<1>2. QED
  BY <1>1 DEF SteeringCommand, ConfigStep

LEMMA RestoreCommand ==
    ASSUME SteeringCommand, Head(todo) = Restore
    PROVE  Restores /\ todo' = Tail(todo)
<1>1. Head(todo).do = "restore"
  BY DEF Restore
<1>2. QED
  BY <1>1 DEF SteeringCommand, ConfigStep, Restores

LEMMA ReapplyCommand ==
    ASSUME SteeringCommand, Head(todo) = Reapply
    PROVE  /\ \E junk \in Junk : todo' = CopySettings(index5G, junk) \o Tail(todo)
           /\ UNCHANGED <<configVars, steeringVars>>
<1>1. Head(todo).do = "reapply"
  BY DEF Reapply
<1>2. QED
  BY <1>1 DEF SteeringCommand, ConfigStep

LEMMA FlagCommand ==
    ASSUME SteeringCommand, NEW v, Head(todo) = SteeringFlag(v)
    PROVE  todo' = Tail(todo) /\ UNCHANGED <<configVars, backup, before>>
<1>1. Head(todo).do = "flag"
  BY DEF SteeringFlag
<1>2. QED
  BY <1>1 DEF SteeringCommand, ConfigStep

LEMMA EnablingStep ==
    ASSUME NEW s, Bound(s), Remembered, Enabling(s), SteeringCommand
    PROVE  SteeringInv'
<1>1. PICK t : t = s \o <<Check>>
  OBVIOUS
<1>2. Head(todo) = Backup /\ Tail(todo) = t
  <2>1. s \in Seq(Command)
    BY DEF Bound
  <2>2. PICK S : S = Command \cup {Check}
    OBVIOUS
  <2>3. t \in Seq(S)
    BY <1>1, <2>1, <2>2
  <2>4. QED
    BY <1>1, <2>3, Preceded DEF Enabling
<1>3. /\ backup' = {file[index5G]} /\ before' = {Settings(index5G)}
      /\ todo' = t /\ UNCHANGED configVars
  BY <1>2, BackupCommand
<1>4. Bound(s)' /\ Copies(s)'
  BY <1>3, BoundStays, CopiesStay DEF Enabling
<1>5. Remembered'
  <2>1. PICK settings : settings = Settings(index5G)
    OBVIOUS
  <2>2. settings.file = file[index5G] /\ settings.sec = sec[index5G]
        /\ settings = [file |-> file[index5G], sec |-> sec[index5G]]
    BY <2>1 DEF Settings
  <2>3. file[index5G] \in [Name -> Lines] /\ sec[index5G] \in Beacon /\ Whole(file[index5G])
    BY DEF Enabling, Filed, Bound, StateTyped, Whole, index5G, Ap
  <2>4. settings \in Memory
    BY <2>2, <2>3 DEF Memory
  <2>5. QED
    BY <1>3, <2>1, <2>2, <2>4 DEF Remembered
<1>6. Checking(s)'
  BY <1>1, <1>3, <1>4 DEF Checking
<1>7. QED
  BY <1>4, <1>5, <1>6 DEF SteeringInv

LEMMA CheckingStep ==
    ASSUME NEW s, Bound(s), Remembered, Checking(s), SteeringCommand
    PROVE  SteeringInv'
<1>1. s \in Seq(Command)
  BY DEF Bound
<1>2. ASSUME s # <<>>
      PROVE  SteeringInv'
  <2>1. PICK t : t = Tail(s)
    OBVIOUS
  <2>2. Head(todo) = Head(s) /\ Tail(todo) = t \o <<Check>> /\ Head(s) \in Command
    BY <1>1, <1>2, <2>1, Followed, HeadTail DEF Checking
  <2>3. ConfigStep(Head(s)) /\ todo' = t \o <<Check>> /\ UNCHANGED steeringVars
    BY <2>2, SettersCommand
  <2>4. backup' = backup /\ before' = before
    BY <2>3 DEF steeringVars
  <2>5. Bound(t)' /\ Copies(t)'
    BY <1>2, <2>1, <2>3, <2>4, StepBound, FactsStep DEF Checking
  <2>6. Checking(t)' /\ Remembered'
    BY <2>3, <2>4, <2>5 DEF Checking, Remembered
  <2>7. QED
    BY <2>5, <2>6 DEF SteeringInv
<1>3. ASSUME s = <<>>
      PROVE  SteeringInv'
  <2>1. Head(todo) = Check
    <3>1. todo = <<Check>>
      BY <1>1, <1>3, Followed DEF Checking
    <3>2. QED
      BY <3>1
  <2>2. /\ \/ SameSettings /\ todo' = <<SteeringFlag(TRUE)>>
           \/ todo' = ResetBandSteeringParams
        /\ UNCHANGED <<configVars, steeringVars>>
    BY <2>1, CheckCommand
  <2>3. UNCHANGED configVars /\ backup' = backup /\ before' = before
    BY <2>2 DEF steeringVars
  <2>4. Bound(<<>>) /\ Bound(<<>>)' /\ Remembered'
    BY <1>3, <2>3, BoundStays DEF Remembered
  <2>5. ASSUME SameSettings, todo' = <<SteeringFlag(TRUE)>>
        PROVE  Enabled(<<>>)'
    <3>1. Together
      BY <1>3, <2>4, <2>5, CheckedTogether DEF Checking
    <3>2. Together'
      BY <2>3, <3>1 DEF Together, configVars
    <3>3. QED
      BY <2>3, <2>5, <3>2 DEF Enabled, Checking
  <2>6. ASSUME todo' = ResetBandSteeringParams
        PROVE  Taking(<<>>)'
    <3>1. FileBack(<<>>)'
      BY <2>3 DEF FileBack, Lasting, Checking
    <3>2. QED
      BY <2>6, <3>1 DEF Taking, Resetting, ResetBandSteeringParams
  <2>7. QED
    BY <2>2, <2>4, <2>5, <2>6 DEF SteeringInv
<1>4. QED
  BY <1>2, <1>3

LEMMA EnabledStep ==
    ASSUME NEW s, Bound(s), Remembered, Enabled(s), SteeringCommand
    PROVE  SteeringInv'
<1>1. Head(todo) = SteeringFlag(TRUE) /\ Tail(todo) = <<>> /\ s = <<>>
  BY DEF Enabled
<1>2. todo' = <<>> /\ UNCHANGED <<configVars, backup, before>>
  BY <1>1, FlagCommand
<1>3. Bound(<<>>)' /\ Remembered'
  BY <1>1, <1>2, BoundStays DEF Remembered
<1>4. Back(<<>>)'
  BY <1>2 DEF Back, Lasting, Enabled
<1>5. Settling(<<>>)'
  BY <1>2, <1>4 DEF Settling
<1>6. QED
  BY <1>3, <1>5 DEF SteeringInv

LEMMA TakingStep ==
    ASSUME NEW s, Bound(s), Remembered, Taking(s), SteeringCommand
    PROVE  SteeringInv'
<1>1. Bound(<<>>) /\ FileBack(<<>>)
  BY DEF Taking
<1>2. ASSUME todo \in Resetting
      PROVE  SteeringInv'
  <2>1. Head(todo) = Restore /\ Tail(todo) \in Reapplying
    <3>1. PICK a, b, c : a = Restore /\ b = Reapply /\ c = SteeringFlag(FALSE)
      OBVIOUS
    <3>2. todo = <<a, b>> \/ todo = <<a, b, c>>
      BY <1>2, <3>1 DEF Resetting
    <3>3. Head(todo) = a /\ Tail(todo) \in {<<b>>, <<b, c>>}
      <4>1. Head(<<a, b>>) = a /\ Tail(<<a, b>>) = <<b>>
        BY ListParts, Zenon
      <4>2. Head(<<a, b, c>>) = a /\ Tail(<<a, b, c>>) = <<b, c>>
        BY ListParts, Zenon
      <4>3. QED
        BY <3>2, <4>1, <4>2, Zenon
    <3>4. QED
      BY <3>1, <3>3 DEF Reapplying
  <2>2. Restores /\ todo' = Tail(todo)
    BY <2>1, RestoreCommand
  <2>3. Bound(<<>>)' /\ Remembered' /\ FileBack(<<>>)'
    BY <1>1, <2>2, RestoreBound
  <2>4. Taking(<<>>)'
    BY <2>1, <2>2, <2>3 DEF Taking
  <2>5. QED
    BY <2>3, <2>4 DEF SteeringInv
<1>3. ASSUME todo \in Reapplying
      PROVE  SteeringInv'
  <2>1. Head(todo) = Reapply /\ Tail(todo) \in {<<>>, <<SteeringFlag(FALSE)>>}
    BY <1>3, ListParts DEF Reapplying
  <2>2. PICK junk \in Junk : todo' = CopySettings(index5G, junk) \o Tail(todo)
    BY <2>1, ReapplyCommand
  <2>3. UNCHANGED configVars /\ backup' = backup /\ before' = before
    BY <2>1, ReapplyCommand DEF steeringVars
  <2>4. PICK t : t = CopySettings(index5G, junk)
    OBVIOUS
  <2>5. Bound(t) /\ Back(t)
    <3>1. Settled /\ index5G \in Ap
      BY <1>1, BetweenCalls DEF index5G, Ap
    <3>2. Sound(t, index5G)
      BY <2>4, <3>1, CopyLeads
    <3>3. QED
      BY <1>1, <2>4, <3>1, <3>2, CallBound, CopyBack
  <2>6. Bound(t)' /\ Back(t)' /\ Remembered'
    BY <2>3, <2>5, BoundStays, BackStays DEF Remembered
  <2>7. todo' \in {t, t \o <<SteeringFlag(FALSE)>>}
    <3>1. t \in Seq(Command)
      BY <2>5 DEF Bound
    <3>2. t \o <<>> = t
      BY <3>1
    <3>3. QED
      BY <2>1, <2>2, <2>4, <3>2
  <2>8. Settling(t)'
    BY <2>6, <2>7 DEF Settling
  <2>9. QED
    BY <2>6, <2>8 DEF SteeringInv
<1>4. QED
  BY <1>2, <1>3 DEF Taking

LEMMA SettlingStep ==
    ASSUME NEW s, Bound(s), Remembered, Settling(s), SteeringCommand
    PROVE  SteeringInv'
<1>1. s \in Seq(Command) /\ todo # <<>>
  BY DEF Bound, SteeringCommand
<1>2. ASSUME s # <<>>
      PROVE  SteeringInv'
  <2>1. PICK t : t = Tail(s)
    OBVIOUS
  <2>2. /\ Head(todo) = Head(s) /\ Head(s) \in Command
        /\ Tail(todo) \in {t, t \o <<SteeringFlag(FALSE)>>}
    BY <1>1, <1>2, <2>1, Followed, HeadTail DEF Settling
  <2>3. ConfigStep(Head(s)) /\ todo' = Tail(todo) /\ UNCHANGED steeringVars
    BY <2>2, SettersCommand
  <2>4. backup' = backup /\ before' = before
    BY <2>3 DEF steeringVars
  <2>5. Bound(t)' /\ Back(t)'
    BY <1>2, <2>1, <2>3, <2>4, StepBound, FactsStep DEF Settling
  <2>6. Settling(t)' /\ Remembered'
    BY <2>2, <2>3, <2>4, <2>5 DEF Settling, Remembered
  <2>7. QED
    BY <2>5, <2>6 DEF SteeringInv
<1>3. ASSUME s = <<>>
      PROVE  SteeringInv'
  <2>1. todo = <<SteeringFlag(FALSE)>>
    BY <1>1, <1>3, Followed DEF Settling
  <2>2. Head(todo) = SteeringFlag(FALSE) /\ Tail(todo) = <<>>
    BY <2>1
  <2>3. todo' = <<>> /\ UNCHANGED <<configVars, backup, before>>
    BY <2>2, FlagCommand
  <2>4. Bound(<<>>)' /\ Back(<<>>)' /\ Remembered'
    BY <1>3, <2>3, BoundStays, BackStays DEF Remembered, Settling
  <2>5. Settling(<<>>)'
    BY <2>3, <2>4 DEF Settling
  <2>6. QED
    BY <2>4, <2>5 DEF SteeringInv
<1>4. QED
  BY <1>2, <1>3

\* The first command that is left says how far the call has come.
LEMMA FirstLeft ==
    ASSUME NEW s, s \in Seq(Command)
    PROVE  /\ Enabling(s) => todo # <<>> /\ Head(todo) = Backup
           /\ Checking(s) => todo # <<>> /\ (Head(todo) = Check \/ Head(todo) \in Command)
           /\ Taking(s) => todo # <<>> /\ Head(todo) \in {Restore, Reapply}
           /\ Settling(s) => \/ todo = <<>> /\ s = <<>>
                             \/ todo # <<>> /\ Head(todo) \in {SteeringFlag(FALSE)} \cup Command
<1>1. \A c : <<c>> # <<>> /\ Head(<<c>>) = c
  OBVIOUS
<1>2. \A c : \/ s \o <<c>> = <<c>>
             \/ s \o <<c>> # <<>> /\ Head(s \o <<c>>) \in Command
  <2>1. s # <<>> => Head(s) \in Command
    BY HeadTail
  <2>2. QED
    BY <2>1, Followed
<1>3. ASSUME Enabling(s)
      PROVE  todo # <<>> /\ Head(todo) = Backup
  <2>1. PICK t : t = s \o <<Check>>
    OBVIOUS
  <2>2. PICK S : S = Command \cup {Check}
    OBVIOUS
  <2>3. t \in Seq(S)
    BY <2>1, <2>2
  <2>4. QED
    BY <1>3, <2>1, <2>3, Preceded DEF Enabling
<1>4. ASSUME Checking(s)
      PROVE  todo # <<>> /\ (Head(todo) = Check \/ Head(todo) \in Command)
  BY <1>1, <1>2, <1>4, Zenon DEF Checking
<1>5. ASSUME Taking(s)
      PROVE  todo # <<>> /\ Head(todo) \in {Restore, Reapply}
  <2>1. PICK a, b, c : a = Restore /\ b = Reapply /\ c = SteeringFlag(FALSE)
    OBVIOUS
  <2>2. todo \in {<<a, b>>, <<a, b, c>>, <<b>>, <<b, c>>}
    BY <1>5, <2>1, Zenon DEF Taking, Resetting, Reapplying
  <2>3. /\ <<a, b>> # <<>> /\ Head(<<a, b>>) = a /\ <<a, b, c>> # <<>> /\ Head(<<a, b, c>>) = a
        /\ <<b>> # <<>> /\ Head(<<b>>) = b /\ <<b, c>> # <<>> /\ Head(<<b, c>>) = b
    OBVIOUS
  <2>4. todo # <<>> /\ Head(todo) \in {a, b}
    <3>1. ASSUME NEW t \in {<<a, b>>, <<a, b, c>>, <<b>>, <<b, c>>}
          PROVE  t # <<>> /\ Head(t) \in {a, b}
      BY <2>3
    <3>2. QED
      BY <2>2, <3>1, Zenon
  <2>5. QED
    BY <2>1, <2>4
<1>6. ASSUME Settling(s)
      PROVE  \/ todo = <<>> /\ s = <<>>
             \/ todo # <<>> /\ Head(todo) \in {SteeringFlag(FALSE)} \cup Command
  <2>1. s # <<>> => Head(s) \in Command
    BY HeadTail
  <2>2. PICK c : c = SteeringFlag(FALSE)
    OBVIOUS
  <2>3. todo = s \/ todo = s \o <<c>>
    BY <1>6, <2>2 DEF Settling
  <2>4. \/ todo = <<>> /\ s = <<>>
        \/ todo # <<>> /\ (Head(todo) = c \/ Head(todo) \in Command)
    BY <1>1, <1>2, <2>1, <2>3, Zenon
  <2>5. QED
    BY <2>2, <2>4
<1>7. QED
  BY <1>3, <1>4, <1>5, <1>6

\* Between the calls nothing is left of steering but what its last call has restored.
LEMMA SteeringAtRest ==
    ASSUME SteeringInv, todo = <<>>
    PROVE  Bound(<<>>) /\ Remembered /\ Back(<<>>)
<1>1. PICK s : /\ Bound(s) /\ Remembered
               /\ Enabling(s) \/ Checking(s) \/ Enabled(s) \/ Taking(s) \/ Settling(s)
  BY DEF SteeringInv
<1>2. s \in Seq(Command)
  BY <1>1 DEF Bound
<1>3. ~Enabling(s) /\ ~Checking(s) /\ ~Taking(s)
  BY <1>2, FirstLeft
<1>4. ~Enabled(s)
  BY DEF Enabled
<1>5. Settling(s) /\ s = <<>>
  BY <1>1, <1>2, <1>3, <1>4, FirstLeft
<1>6. QED
  BY <1>1, <1>5 DEF Settling

\* A call that is not one of steering takes from the memory what was restored.
LEMMA Forgotten ==
    ASSUME Remembered, Forget, backup' = backup, NEW s
    PROVE  Remembered' /\ Back(s)'
<1>1. CASE backup = {}
  <2>1. before' = {} /\ backup' = {}
    BY <1>1 DEF Forget
  <2>2. QED
    BY <2>1 DEF Remembered, Back
<1>2. CASE backup # {}
  <2>1. before' = before /\ backup' = backup /\ backup' # {}
    BY <1>2 DEF Forget
  <2>2. QED
    BY <2>1 DEF Remembered, Back, Lasting
<1>3. QED
  BY <1>1, <1>2

\* hostapd loads what was restored.
LEMMA HostapdBack ==
    ASSUME Bound(<<>>), Back(<<>>), HostapdRestarts, UNCHANGED steeringVars
    PROVE  Back(<<>>)'
<1>1. /\ air' = told' /\ UNCHANGED <<file, sec>>
      /\ told' = [ap \in Ap |-> [name \in Name |-> Loaded(ap, name)]]
      /\ backup' = backup /\ before' = before
  BY DEF HostapdRestarts, steeringVars
<1>2. SUFFICES ASSUME NEW settings \in before, Lasting(settings)
               PROVE  SameSetting(<<>>, settings)'
  BY <1>1 DEF Back, Lasting
<1>3. SameSetting(<<>>, settings)
  BY <1>2 DEF Back
<1>4. Filed /\ index5G \in Ap /\ Copied \subseteq Name /\ Copied \subseteq One
  BY BetweenCalls DEF Settled, index5G, Ap, Copied, Name, SedName, One
<1>5. \A what, name : /\ After(<<>>, what, index5G, name)' = Now(what, index5G, name)'
                      /\ After(<<>>, what, index5G, name) = Now(what, index5G, name)
  BY NetNone DEF After, Over
<1>6. \A name : /\ Now("file", index5G, name)' = Now("file", index5G, name)
                /\ Now("sec", index5G, name)' = Now("sec", index5G, name)
                /\ Now("fresh", index5G, name)' = "fresh"
                /\ Now("told", index5G, name)' = told'[index5G][name]
                /\ Now("file", index5G, name) = file[index5G][name]
  BY <1>1 DEF Now
<1>7. ASSUME NEW name \in Copied
      PROVE  told'[index5G][name] = First(settings.file[name])
  <2>1. PICK s : s = file[index5G][name]
    OBVIOUS
  <2>2. told'[index5G][name] = Loaded(index5G, name)
    BY <1>1, <1>4
  <2>3. Len(s) = 1
    BY <1>4, <2>1 DEF Filed
  <2>4. Loaded(index5G, name) = First(s)
    <3>1. /\ Loaded(index5G, name) = Final(s)
          /\ Len(s) <= 1 => First(s) = Final(s)
      BY <1>4, <2>1, LoadsFile
    <3>2. QED
      BY <2>3, <3>1
  <2>5. s = settings.file[name]
    BY <1>3, <1>4, <1>5, <1>6, <2>1 DEF SameSetting, SameFile
  <2>6. QED
    BY <2>2, <2>4, <2>5
<1>8. QED
  BY <1>3, <1>4, <1>5, <1>6, <1>7 DEF SameSetting, SameFile

\* The calls of steering begin between the calls.
LEMMA SteeringBegins ==
    ASSUME SteeringInv, SteeringCall
    PROVE  SteeringInv'
<1>1. todo = <<>> /\ UNCHANGED configVars /\ backup' = backup /\ before' = before
  <2>1. todo = <<>> /\ UNCHANGED configVars
    BY DEF SteeringCall, GetBandSteeringEnable, EnableBandSteering, DisableBandSteering, Call,
           configAll, configVars
  <2>2. backup' = backup /\ before' = before
    BY DEF SteeringCall, GetBandSteeringEnable, EnableBandSteering, DisableBandSteering,
           steeringVars
  <2>3. QED
    BY <2>1, <2>2
<1>2. Bound(<<>>) /\ Remembered /\ Back(<<>>)
  BY <1>1, SteeringAtRest
<1>3. Bound(<<>>)' /\ Remembered' /\ Back(<<>>)'
  BY <1>1, <1>2, BoundStays, BackStays DEF Remembered
<1>4. ASSUME todo' = <<>>
      PROVE  SteeringInv'
  <2>1. Settling(<<>>)'
    BY <1>3, <1>4 DEF Settling
  <2>2. QED
    BY <1>3, <2>1 DEF SteeringInv
<1>5. ASSUME DisableBandSteering
      PROVE  SteeringInv'
  <2>1. PICK a, b, c : a = Restore /\ b = Reapply /\ c = SteeringFlag(FALSE)
    OBVIOUS
  <2>2. todo' = <<a, b>> \o <<c>>
    BY <1>5, <2>1 DEF DisableBandSteering, Call, ResetBandSteeringParams
  <2>3. <<a, b>> \o <<c>> = <<a, b, c>>
    <3>1. <<a, b>> = <<a>> \o <<b>>
      BY TwoCommands
    <3>2. <<a, b, c>> = (<<a>> \o <<b>>) \o <<c>>
      BY ThreeCommands
    <3>3. QED
      BY <3>1, <3>2, Zenon
  <2>4. todo' \in Resetting
    BY <2>1, <2>2, <2>3 DEF Resetting
  <2>5. FileBack(<<>>)'
    BY <1>3 DEF Back, FileBack, SameSetting
  <2>6. Taking(<<>>)'
    BY <2>4, <2>5 DEF Taking
  <2>7. QED
    BY <1>3, <2>6 DEF SteeringInv
<1>6. ASSUME NEW dual \in BOOLEAN, NEW junk \in Junk, EnableBandSteering(dual, junk)
      PROVE  SteeringInv'
  <2>1. Settled /\ index2G \in Ap /\ index5G \in Ap
    BY <1>2, BetweenCalls DEF index2G, index5G, Ap
  <2>2. PICK s : s = CopySettings(index2G, junk)
    OBVIOUS
  <2>3. Bound(s) /\ Copies(s)
    <3>1. Sound(s, index5G)
      BY <2>1, <2>2, CopyLeads
    <3>2. Bound(s)
      BY <1>2, <2>1, <3>1, CallBound
    <3>3. QED
      BY <2>1, <2>2, <3>2, CopyCopies
  <2>4. todo' = <<Backup>> \o (s \o <<Check>>)
    <3>1. PICK S, a, b : S = Command \cup {Backup, Check} /\ a = <<Backup>> /\ b = <<Check>>
      OBVIOUS
    <3>2. a \in Seq(S) /\ b \in Seq(S) /\ s \in Seq(S)
      <4>1. s \in Seq(Command)
        BY <2>3 DEF Bound
      <4>2. QED
        BY <3>1, <4>1
    <3>3. todo' = (a \o s) \o b
      BY <1>6, <2>2, <3>1 DEF EnableBandSteering, Call, SetBandSteeringParams
    <3>4. (a \o s) \o b = a \o (s \o b)
      BY <3>2, ConcatAssociative
    <3>5. QED
      BY <3>1, <3>3, <3>4
  <2>5. Bound(s)' /\ Copies(s)' /\ Filed'
    <3>1. Bound(s)' /\ Copies(s)'
      BY <1>1, <2>3, BoundStays, CopiesStay
    <3>2. Filed'
      BY <1>1, <2>1 DEF Filed, Settled, configVars
    <3>3. QED
      BY <3>1, <3>2
  <2>6. Enabling(s)'
    BY <2>4, <2>5 DEF Enabling
  <2>7. QED
    BY <1>3, <2>5, <2>6 DEF SteeringInv
<1>7. ASSUME NEW dual \in BOOLEAN, GetBandSteeringEnable(dual)
      PROVE  todo' = <<>>
  BY <1>7 DEF GetBandSteeringEnable, configAll
<1>8. QED
  BY <1>4, <1>5, <1>6, <1>7 DEF SteeringCall

LEMMA SteeringStays == ASSUME SteeringInv, UNCHANGED steeringAll PROVE SteeringInv'
<1>1. PICK s : /\ Bound(s) /\ Remembered
               /\ Enabling(s) \/ Checking(s) \/ Enabled(s) \/ Taking(s) \/ Settling(s)
  BY DEF SteeringInv
<1>2. /\ UNCHANGED configVars /\ todo' = todo /\ backup' = backup /\ before' = before
      /\ UNCHANGED <<file, sec, told, air, open>>
  BY DEF steeringAll, configAll, configVars, steeringVars
<1>3. Bound(s)' /\ Remembered'
  BY <1>1, <1>2, BoundStays DEF Remembered
<1>4. /\ Copies(s) => Copies(s)'
      /\ Back(s) => Back(s)'
      /\ FileBack(<<>>) => FileBack(<<>>)'
      /\ Filed => Filed'
      /\ Together => Together'
  <2>1. Copies(s) => Copies(s)'
    BY <1>2, CopiesStay
  <2>2. (Back(s) => Back(s)') /\ (FileBack(<<>>) => FileBack(<<>>)')
    BY <1>2, BackStays
  <2>3. (Filed => Filed') /\ (Together => Together')
    BY <1>2 DEF Filed, Together
  <2>4. QED
    BY <2>1, <2>2, <2>3
<1>5. Enabling(s)' \/ Checking(s)' \/ Enabled(s)' \/ Taking(s)' \/ Settling(s)'
  BY <1>1, <1>2, <1>4, Zenon DEF Enabling, Checking, Enabled, Taking, Settling
<1>6. QED
  BY <1>3, <1>5 DEF SteeringInv

LEMMA SteeringStarts == ASSUME SteeringInit PROVE SteeringInv
<1>1. todo = <<>> /\ Bound(<<>>)
  BY InitBound DEF SteeringInit
<1>2. Remembered /\ Back(<<>>)
  BY DEF SteeringInit, Remembered, Back
<1>3. Settling(<<>>)
  BY <1>1, <1>2 DEF Settling
<1>4. QED
  BY <1>1, <1>2, <1>3 DEF SteeringInv

LEMMA SteeringNextInvariant == ASSUME SteeringInv, [SteeringNext]_steeringAll PROVE SteeringInv'
<1>1. CASE SteeringCommand
  <2>1. PICK s : /\ Bound(s) /\ Remembered
                 /\ Enabling(s) \/ Checking(s) \/ Enabled(s) \/ Taking(s) \/ Settling(s)
    BY DEF SteeringInv
  <2>2. QED
    BY <1>1, <2>1, EnablingStep, CheckingStep, EnabledStep, TakingStep, SettlingStep
<1>2. CASE OtherCall(ProcessRestarts)
  <2>1. PICK s : Bound(s) /\ Remembered
    BY DEF SteeringInv
  <2>2. ProcessRestarts /\ Forget /\ backup' = backup /\ todo' = <<>>
    BY <1>2 DEF OtherCall, ProcessRestarts
  <2>3. Bound(<<>>)' /\ Remembered' /\ Back(<<>>)'
    BY <2>1, <2>2, ProcessBound, Forgotten
  <2>4. Settling(<<>>)'
    BY <2>2, <2>3 DEF Settling
  <2>5. QED
    BY <2>3, <2>4 DEF SteeringInv
<1>3. CASE HostapdRestarts /\ UNCHANGED steeringVars
  <2>1. todo = <<>> /\ todo' = <<>> /\ backup' = backup /\ before' = before
    BY <1>3 DEF HostapdRestarts, steeringVars
  <2>2. Bound(<<>>) /\ Remembered /\ Back(<<>>)
    BY <2>1, SteeringAtRest
  <2>3. Bound(<<>>)' /\ Back(<<>>)' /\ Remembered'
    BY <1>3, <2>1, <2>2, HostapdBound, HostapdBack DEF Remembered
  <2>4. Settling(<<>>)'
    BY <2>1, <2>3 DEF Settling
  <2>5. QED
    BY <2>3, <2>4 DEF SteeringInv
<1>4. ASSUME NEW ap \in Ap, OtherCall(AnyCall(ap))
      PROVE  SteeringInv'
  <2>1. AnyCall(ap) /\ Forget /\ backup' = backup
    BY <1>4 DEF OtherCall
  <2>2. todo = <<>> /\ UNCHANGED configVars
    BY <2>1, AnyCallBegins
  <2>3. Bound(<<>>) /\ Remembered
    BY <2>2, SteeringAtRest
  <2>4. PICK s : todo' = s /\ Bound(s)
    BY <2>1, <2>3, AnyCallBegins
  <2>5. Bound(s)' /\ Remembered' /\ Back(s)'
    BY <2>1, <2>2, <2>3, <2>4, BoundStays, Forgotten
  <2>6. Settling(s)'
    BY <2>4, <2>5 DEF Settling
  <2>7. QED
    BY <2>5, <2>6 DEF SteeringInv
<1>5. QED
  BY <1>1, <1>2, <1>3, <1>4, SteeringBegins, SteeringStays DEF SteeringNext, AnyCall, OtherCall

LEMMA SteeringInvariant == SteeringSpec => []SteeringInv
<1>1. SteeringInit => SteeringInv
  BY SteeringStarts
<1>2. ASSUME SteeringInv, [SteeringNext]_steeringAll
      PROVE  SteeringInv'
  BY <1>2, SteeringNextInvariant
<1>3. QED
  BY <1>1, <1>2, PTL DEF SteeringSpec

\* The settings of the access points are applied between the calls while steering copies
\* those of one to the other, checks them and takes them back as well: only parameters
\* that the restored file takes back are not hostapd's.
THEOREM SteeredSettingsApplied == SteeringSpec => []Applied
<1>1. SteeringInv => Applied
  BY SteeringAtRest, SettledApplied
<1>2. QED
  BY <1>1, SteeringInvariant, PTL

\* And no access point with a security mode is on air without one.
THEOREM SteeredIsSecure == SteeringSpec => []SecureOnAir
<1>1. SteeringInv => SecureOnAir
  BY SteeringAtRest, SettledApplied
<1>2. QED
  BY <1>1, SteeringInvariant, PTL

\* Steering is declared enabled with one name, one key and one kind of security on air in
\* both bands: the check reads files, and what copying has done to hostapd follows them.
THEOREM SteeringTogether == SteeringSpec => []SteeredTogether
<1>1. SteeringInv => SteeredTogether
  <2>1. SUFFICES ASSUME SteeringInv, todo = <<SteeringFlag(TRUE)>>
                 PROVE  Together
    BY DEF SteeredTogether, Together, Copied
  <2>2. PICK s : /\ Bound(s)
                 /\ Enabling(s) \/ Checking(s) \/ Enabled(s) \/ Taking(s) \/ Settling(s)
    BY <2>1 DEF SteeringInv
  <2>3. s \in Seq(Command)
    BY <2>2 DEF Bound
  <2>4. Head(todo) = SteeringFlag(TRUE)
    BY <2>1
  <2>5. /\ SteeringFlag(TRUE) \notin {Backup, Check, Restore, Reapply}
        /\ SteeringFlag(TRUE) # SteeringFlag(FALSE)
        /\ SteeringFlag(TRUE) \notin Command
    <3>1. SteeringFlag(TRUE).do = "flag" /\ SteeringFlag(TRUE).to = TRUE
      BY DEF SteeringFlag
    <3>2. SteeringFlag(TRUE) \notin Command
      BY <3>1, CommandParts
    <3>3. SteeringFlag(TRUE) # SteeringFlag(FALSE)
      <4>1. SteeringFlag(FALSE).to = FALSE
        BY DEF SteeringFlag
      <4>2. QED
        BY <3>1, <4>1, Zenon
    <3>4. /\ Backup.do = "backup" /\ Check.do = "check"
          /\ Restore.do = "restore" /\ Reapply.do = "reapply"
      BY DEF Backup, Check, Restore, Reapply
    <3>5. SteeringFlag(TRUE) \notin {Backup, Check, Restore, Reapply}
      BY <3>1, <3>4
    <3>6. QED
      BY <3>2, <3>3, <3>5
  <2>6. todo # <<>>
    BY <2>1
  <2>7. Enabled(s)
    BY <2>2, <2>3, <2>4, <2>5, <2>6, FirstLeft
  <2>8. QED
    BY <2>7 DEF Enabled
<1>2. QED
  BY <1>1, SteeringInvariant, PTL

\* Taking steering back brings the 5 GHz access point to the settings it had when the
\* backup was made, in the files and on air, through any calls in between, a failed
\* check, restarts and cut calls, where its wpa says what its security mode is and the
\* 2.4 GHz radio is that of access point 0, as it is but for an 802.11a wlan0
\* (wifi_getApIndexForWiFiBand).
THEOREM SteeringTakenBack ==
    ASSUME TwoFour = index2G PROVE SteeringSpec => []SteeringRestores
<1>1. SteeringInv => SteeringRestores
  <2>1. SUFFICES ASSUME SteeringInv, todo = <<>>, backup = {},
                        NEW settings \in before, Described(settings)
                 PROVE  /\ Settings(index5G) = settings
                        /\ \A name \in Copied : air[index5G][name] = Head(settings.file[name])
    BY DEF SteeringRestores, Copied
  <2>2. Bound(<<>>) /\ Remembered /\ Back(<<>>)
    BY <2>1, SteeringAtRest
  <2>3. SameSetting(<<>>, settings)
    BY <2>1, <2>2 DEF Back, Lasting
  <2>4. settings \in Memory /\ Whole(settings.file)
    BY <2>1, <2>2 DEF Remembered, Memory
  <2>5. PICK f, g, m : f = file[index5G] /\ g = settings.file /\ m = sec[index5G]
    OBVIOUS
  <2>6. f \in [Name -> Lines] /\ g \in [Name -> Lines]
    BY <2>2, <2>4, <2>5 DEF Bound, StateTyped, Memory, index5G, Ap
  <2>7. (\A name \in Name : f[name] = g[name]) /\ m = settings.sec
    BY <2>3, <2>5, AfterNone DEF SameSetting, SameFile
  <2>8. f = g
    <3>1. f = [name \in Name |-> f[name]] /\ g = [name \in Name |-> g[name]]
      BY <2>6
    <3>2. QED
      BY <2>7, <3>1
  <2>9. Settings(index5G) = settings
    <3>1. settings = [file |-> settings.file, sec |-> settings.sec]
      BY <2>4 DEF Memory
    <3>2. Settings(index5G) = [file |-> f, sec |-> m]
      BY <2>5 DEF Settings
    <3>3. QED
      BY <2>5, <2>7, <2>8, <3>1, <3>2, Zenon
  <2>10. ASSUME NEW name \in Copied
         PROVE  air[index5G][name] = Head(settings.file[name])
    <3>1. /\ After(<<>>, "fresh", index5G, name) = "fresh"
          /\ After(<<>>, "told", index5G, name) = First(settings.file[name])
      BY <2>3 DEF SameSetting
    <3>2. told[index5G][name] = air[index5G][name] /\ told[index5G][name] = First(g[name])
      BY <2>5, <3>1, AfterNone
    <3>3. name \in One /\ name \in Name
      BY DEF Copied, One, Name, SedName
    <3>4. Len(g[name]) = 1 /\ g[name] # <<>>
      BY <2>4, <2>5, <3>3 DEF Whole
    <3>5. QED
      BY <2>5, <3>2, <3>4 DEF First
  <2>11. QED
    BY <2>9, <2>10
<1>2. QED
  BY <1>1, SteeringInvariant, PTL

-----------------------------------------------------------------------------
(***************************************************************************)
(* One call of the VAP interface makes all settings.                       *)
(***************************************************************************)

\* Commands that write lines f, a security mode m and give hostapd t, and restart the
\* interface after that.
Adds(s, ap, name, f, m, t) ==
    \E r \in {<<>>, <<"fresh">>} :
        Writes(s, ap, name, f, m, t, r, <<>>) /\ (t # <<>> => r = <<"fresh">>)

LEMMA AddsBoth ==
    ASSUME NEW ap, NEW name, NEW s, NEW u,
           NEW f1, NEW m1, NEW t1, Adds(s, ap, name, f1, m1, t1),
           NEW f2, NEW m2, NEW t2, Adds(u, ap, name, f2, m2, t2)
    PROVE  Adds(s \o u, ap, name, Then(f1, f2), Then(m1, m2), Then(t1, t2))
<1>1. PICK r1 \in {<<>>, <<"fresh">>} :
        Writes(s, ap, name, f1, m1, t1, r1, <<>>) /\ (t1 # <<>> => r1 = <<"fresh">>)
  BY DEF Adds
<1>2. PICK r2 \in {<<>>, <<"fresh">>} :
        Writes(u, ap, name, f2, m2, t2, r2, <<>>) /\ (t2 # <<>> => r2 = <<"fresh">>)
  BY DEF Adds
<1>3. Writes(s \o u, ap, name, Then(f1, f2), Then(m1, m2), Then(t1, t2), Then(r1, r2),
             Then(<<>>, <<>>))
  BY <1>1, <1>2, WritesBoth
<1>4. /\ Then(<<>>, <<>>) = <<>> /\ Then(r1, r2) \in {<<>>, <<"fresh">>}
      /\ Then(t1, t2) # <<>> => Then(r1, r2) = <<"fresh">>
  BY <1>1, <1>2 DEF Then
<1>5. PICK r : r = Then(r1, r2)
  OBVIOUS
<1>6. Writes(s \o u, ap, name, Then(f1, f2), Then(m1, m2), Then(t1, t2), r, <<>>)
  BY <1>3, <1>4, <1>5, Zenon
<1>7. r \in {<<>>, <<"fresh">>} /\ (Then(t1, t2) # <<>> => r = <<"fresh">>)
  BY <1>4, <1>5, Zenon
<1>8. QED
  BY <1>6, <1>7, Zenon DEF Adds

\* Commands that restart the interface in the end.
LEMMA AddsFresh ==
    ASSUME NEW ap, NEW name, NEW s, NEW f, NEW m, NEW t,
           Writes(s, ap, name, f, m, t, <<"fresh">>, <<>>)
    PROVE  Adds(s, ap, name, f, m, t)
BY DEF Adds

\* Commands that are given under a condition.
LEMMA AddsWhen ==
    ASSUME NEW condition \in BOOLEAN, NEW ap, NEW name, NEW s,
           NEW f, NEW m, NEW t, condition => Adds(s, ap, name, f, m, t)
    PROVE  Adds(When(condition, s), ap, name,
                IF condition THEN f ELSE <<>>, IF condition THEN m ELSE <<>>,
                IF condition THEN t ELSE <<>>)
<1>1. CASE condition
  BY <1>1 DEF When
<1>2. CASE ~condition
  <2>1. Writes(<<>>, ap, name, <<>>, <<>>, <<>>, <<>>, <<>>)
    BY WritesNone
  <2>2. Adds(<<>>, ap, name, <<>>, <<>>, <<>>)
    BY <2>1 DEF Adds
  <2>3. QED
    BY <1>2, <2>2 DEF When
<1>3. QED
  BY <1>1, <1>2

\* The texts of a VAP.
LEMMA VapTexts ==
    ASSUME NEW vap \in VapSettings
    PROVE  /\ vap.ssid \in Text /\ vap.key \in Text /\ vap.pin \in Text
           /\ Limit(vap) \in Text /\ Limit(vap) # ""
           /\ vap.mfp \in Text /\ vap.mfp # ""
           /\ \A b \in BOOLEAN : Flag(b) \in Text /\ Flag(b) # ""
           /\ vap.mode \in Mode \cup {WPA3} /\ vap.encr \in Encryption
           /\ vap.methods \in Method \cup {""}
           /\ vap.showSsid \in BOOLEAN /\ vap.isolation \in BOOLEAN
           /\ vap.transition \in BOOLEAN /\ vap.neighbor \in BOOLEAN
           /\ vap.wps \in BOOLEAN /\ vap.wmm \in BOOLEAN /\ vap.enabled \in BOOLEAN
<1>1. /\ vap.ssid \in Ssid /\ vap.key \in STRING /\ vap.pin \in STRING
      /\ vap.bssMaxSta \in STRING \ {""} /\ vap.mfp \in {"0", "1", "2"}
      /\ vap.mode \in Mode \cup {WPA3} /\ vap.encr \in Encryption
      /\ vap.methods \in Method \cup {""}
      /\ vap.showSsid \in BOOLEAN /\ vap.isolation \in BOOLEAN
      /\ vap.transition \in BOOLEAN /\ vap.neighbor \in BOOLEAN
      /\ vap.wps \in BOOLEAN /\ vap.wmm \in BOOLEAN /\ vap.enabled \in BOOLEAN
  BY DEF VapSettings
<1>2. {"0", "1", "2", "75"} \subseteq Text /\ STRING \subseteq Text /\ Ssid \subseteq Text
  BY Texts DEF Text, Written
<1>3. Limit(vap) \in Text /\ Limit(vap) # ""
  BY <1>1, <1>2 DEF Limit
<1>4. \A b \in BOOLEAN : Flag(b) \in Text /\ Flag(b) # ""
  BY <1>2 DEF Flag
<1>5. QED
  BY <1>1, <1>2, <1>3, <1>4

\* The security mode that a VAP gets.
VapMode(vap) == IF vap.mode \in Mode THEN vap.mode ELSE NoMode

\* The parameters of rpi_hostapdWrite that a VAP has, and their values.
VapRpi == RpiName \ {"uapsd_advertisement_enabled"}

RpiValue(vap, n) ==
    CASE n = "ap_isolate" -> Flag(vap.isolation)
      [] n = "max_num_sta" -> Limit(vap)
      [] n = "bss_transition" -> Flag(vap.transition)
      [] n = "rrm_neighbor_report" -> Flag(vap.neighbor)
      [] n = "ieee80211w" -> vap.mfp
      [] n = "wmm_enabled" -> Flag(vap.wmm)

ShowLine(vap) == IF vap.showSsid THEN "0" ELSE "1"
WpsLine(vap)  == IF vap.wps THEN "2" ELSE "0"

\* The first six setters: name, advertisement, isolation, limit and reports.
NameSetters(ap, vap, key) ==
    SsidCommands(ap, vap.ssid, key)
    \o AdvertisementCommands(ap, vap.showSsid)
    \o <<RpiWrite(ap, "ap_isolate", Flag(vap.isolation))>>
    \o RpiCommands(ap, "max_num_sta", Limit(vap))
    \o RpiCommands(ap, "bss_transition", Flag(vap.transition))
    \o RpiCommands(ap, "rrm_neighbor_report", Flag(vap.neighbor))

\* What they write for a parameter.
NameWrites(ap, vap, key, name, f, t) ==
    /\ name = "ssid" => f = <<<<vap.ssid>>>> /\ t = <<vap.ssid>>
    /\ name = "wpa_passphrase" => f = <<>> /\ t = <<key>>
    /\ name = "ignore_broadcast_ssid" => f = <<<<ShowLine(vap)>>>> /\ t = <<ShowLine(vap)>>
    /\ name = "ap_isolate" => f = <<RpiLines(ap, name, RpiValue(vap, name))>>
    /\ name \in {"max_num_sta", "bss_transition", "rrm_neighbor_report"} =>
          f = <<RpiLines(ap, name, RpiValue(vap, name))>> /\ t = <<RpiValue(vap, name)>>
    /\ name \notin {"ssid", "wpa_passphrase", "ignore_broadcast_ssid", "ap_isolate",
                    "max_num_sta", "bss_transition", "rrm_neighbor_report"} =>
          f = <<>> /\ t = <<>>

LEMMA AddsRpi ==
    ASSUME Filed, NEW ap \in Ap, NEW name, NEW n \in RpiName, NEW v \in Text, v # ""
    PROVE  Adds(RpiCommands(ap, n, v), ap, name, For(name, n, RpiLines(ap, n, v)), <<>>,
                For(name, n, v))
<1>1. Writes(RpiCommands(ap, n, v), ap, name,
             For(name, n, RpiLines(ap, n, v)), <<>>,
             IF v # "" THEN For(name, n, v) ELSE <<>>, <<"fresh">>, <<>>)
  BY WritesRpi
<1>2. (IF v # "" THEN For(name, n, v) ELSE <<>>) = For(name, n, v)
  OBVIOUS
<1>3. QED
  BY <1>1, <1>2, AddsFresh

LEMMA NameAdds ==
    ASSUME Filed, NEW ap \in Ap, NEW vap \in VapSettings, NEW key \in Text, NEW name
    PROVE  \E f, t : /\ Adds(NameSetters(ap, vap, key), ap, name, f, <<>>, t)
                     /\ NameWrites(ap, vap, key, name, f, t)
<1>1. PICK p1, p2, p3, p4, p5, p6 :
        /\ p1 = SsidCommands(ap, vap.ssid, key)
        /\ p2 = AdvertisementCommands(ap, vap.showSsid)
        /\ p3 = <<RpiWrite(ap, "ap_isolate", Flag(vap.isolation))>>
        /\ p4 = RpiCommands(ap, "max_num_sta", Limit(vap))
        /\ p5 = RpiCommands(ap, "bss_transition", Flag(vap.transition))
        /\ p6 = RpiCommands(ap, "rrm_neighbor_report", Flag(vap.neighbor))
  OBVIOUS
<1>2. NameSetters(ap, vap, key) = ((((p1 \o p2) \o p3) \o p4) \o p5) \o p6
  BY <1>1, Zenon DEF NameSetters
<1>3. PICK f1, t1, f2, t2, f3, f4, t4, f5, t5, f6, t6 :
        /\ f1 = For(name, "ssid", <<vap.ssid>>)
        /\ t1 = Then(For(name, "ssid", vap.ssid), For(name, "wpa_passphrase", key))
        /\ f2 = For(name, "ignore_broadcast_ssid", <<ShowLine(vap)>>)
        /\ t2 = For(name, "ignore_broadcast_ssid", ShowLine(vap))
        /\ f3 = For(name, "ap_isolate", RpiLines(ap, "ap_isolate", Flag(vap.isolation)))
        /\ f4 = For(name, "max_num_sta", RpiLines(ap, "max_num_sta", Limit(vap)))
        /\ t4 = For(name, "max_num_sta", Limit(vap))
        /\ f5 = For(name, "bss_transition", RpiLines(ap, "bss_transition", Flag(vap.transition)))
        /\ t5 = For(name, "bss_transition", Flag(vap.transition))
        /\ f6 = For(name, "rrm_neighbor_report",
                    RpiLines(ap, "rrm_neighbor_report", Flag(vap.neighbor)))
        /\ t6 = For(name, "rrm_neighbor_report", Flag(vap.neighbor))
  OBVIOUS
<1>4. {"ap_isolate", "max_num_sta", "bss_transition", "rrm_neighbor_report"} \subseteq RpiName
  BY DEF RpiName
<1>5. Adds(p1, ap, name, f1, <<>>, t1)
  <2>1. Writes(p1, ap, name, f1, <<>>, t1, <<"fresh">>, <<>>)
    BY <1>1, <1>3, VapTexts, WritesSsid
  <2>2. QED
    BY <2>1, AddsFresh
<1>6. Adds(p2, ap, name, f2, <<>>, t2)
  <2>1. PICK v : v = ShowLine(vap)
    OBVIOUS
  <2>2. v \in Text /\ "ignore_broadcast_ssid" \in One
    BY <2>1, Texts DEF ShowLine, One, SedName
  <2>3. p2 = <<HostapdWrite(ap, "ignore_broadcast_ssid", v),
               Told(ap, "ignore_broadcast_ssid", v), Restart(ap)>>
    BY <1>1, <2>1, Zenon DEF AdvertisementCommands, ShowLine
  <2>4. Writes(p2, ap, name, f2, <<>>, t2, <<"fresh">>, <<>>)
    BY <1>3, <2>1, <2>2, <2>3, WritesSedSetting
  <2>5. QED
    BY <2>4, AddsFresh
<1>7. Adds(p3, ap, name, f3, <<>>, <<>>)
  <2>1. Writes(p3, ap, name, f3, <<>>, <<>>, <<>>, <<>>)
    BY <1>1, <1>3, <1>4, VapTexts, WritesRpiLine
  <2>2. QED
    BY <2>1 DEF Adds
<1>8. /\ Adds(p4, ap, name, f4, <<>>, t4) /\ Adds(p5, ap, name, f5, <<>>, t5)
      /\ Adds(p6, ap, name, f6, <<>>, t6)
  BY <1>1, <1>3, <1>4, VapTexts, AddsRpi
<1>9. Adds((p1 \o p2) \o p3, ap, name, Then(Then(f1, f2), f3), Then(Then(<<>>, <<>>), <<>>),
           Then(Then(t1, t2), <<>>))
  BY <1>5, <1>6, <1>7, AddsBoth
<1>10. PICK fa, ta : fa = Then(Then(f1, f2), f3) /\ ta = Then(t1, t2)
  OBVIOUS
<1>11. \A a : Then(a, <<>>) = a
  BY DEF Then
<1>12. Adds((p1 \o p2) \o p3, ap, name, fa, <<>>, ta)
  BY <1>9, <1>10, <1>11
<1>13. Adds((((p1 \o p2) \o p3) \o p4) \o p5, ap, name, Then(Then(fa, f4), f5),
            Then(Then(<<>>, <<>>), <<>>), Then(Then(ta, t4), t5))
  BY <1>8, <1>12, AddsBoth
<1>14. PICK fb, tb : fb = Then(Then(fa, f4), f5) /\ tb = Then(Then(ta, t4), t5)
  OBVIOUS
<1>15. Adds((((p1 \o p2) \o p3) \o p4) \o p5, ap, name, fb, <<>>, tb)
  BY <1>11, <1>13, <1>14
<1>16. Adds(((((p1 \o p2) \o p3) \o p4) \o p5) \o p6, ap, name, Then(fb, f6),
            Then(<<>>, <<>>), Then(tb, t6))
  BY <1>8, <1>15, AddsBoth
<1>17. PICK f, t : f = Then(fb, f6) /\ t = Then(tb, t6)
  OBVIOUS
<1>18. Adds(NameSetters(ap, vap, key), ap, name, f, <<>>, t)
  BY <1>2, <1>11, <1>16, <1>17
<1>19. NameWrites(ap, vap, key, name, f, t)
  BY <1>3, <1>10, <1>14, <1>17 DEF Then, For, NameWrites, RpiValue
<1>20. QED
  BY <1>18, <1>19

\* The security mode, with the key management and the ciphers told as its setter does.
SecurityTold(vap, key, name, t) ==
    /\ name = "wpa" => t = <<IF VapMode(vap) = NoMode THEN "0" ELSE WpaTold(VapMode(vap).beacon)>>
    /\ name = "wpa_passphrase" => t \in {<<>>, <<key>>}
    /\ name = "wpa_passphrase" /\ VapMode(vap) # NoMode => t = <<key>>
    /\ name \notin Security \cup {"wpa_passphrase"} => t = <<>>

LEMMA ModesOfVap ==
    ASSUME NEW vap, vap.mode \in Mode \cup {WPA3}
    PROVE  /\ VapMode(vap) \in Mode /\ VapMode(vap).beacon \in Beacon
           /\ VapMode(vap) = NoMode <=> VapMode(vap).beacon = "None"
           /\ vap.mode = NoMode => vap.mode \in Mode /\ VapMode(vap) = NoMode
           /\ vap.mode \in Mode => VapMode(vap) = vap.mode
           /\ vap.mode \notin Mode => vap.mode = WPA3 /\ VapMode(vap) = NoMode
           /\ VapMode(vap) # NoMode => VapMode(vap).auth \in {"PSK", "EAP"}
           /\ VapMode(vap).auth = "PSK" => SetsKey(vap)
           /\ NoMode.beacon = "None" /\ NoMode.auth = "None"
<1>1. NoMode \in Mode /\ NoMode.beacon = "None" /\ NoMode.auth = "None"
  BY DEF NoMode, Mode
<1>2. \A mode \in Mode : /\ mode.beacon \in Beacon
                         /\ mode = NoMode <=> mode.beacon = "None"
                         /\ mode # NoMode => mode.auth \in {"PSK", "EAP"}
  BY DEF NoMode, Mode, Beacon
<1>3. QED
  BY <1>1, <1>2 DEF VapMode, SetsKey

LEMMA ModeAdds ==
    ASSUME Filed, NEW ap \in Ap, NEW vap, vap.mode \in Mode \cup {WPA3}, NEW key \in Text,
           NEW junk \in Junk, NEW name
    PROVE  \E t : /\ Adds(VapModeCommands(ap, vap.mode, key, junk), ap, name,
                          ModeLine(ap, VapMode(vap).beacon, VapMode(vap).auth, junk, name),
                          <<VapMode(vap).beacon>>, t)
                  /\ SecurityTold(vap, key, name, t)
<1>1. PICK mode, beacon, f, t :
        /\ mode = VapMode(vap) /\ beacon = mode.beacon
        /\ f = ModeLine(ap, beacon, mode.auth, junk, name)
        /\ t = ModeTold(beacon, "PSK", key, name)
  OBVIOUS
<1>2. junk \in Text
  BY Texts
<1>3. /\ mode \in Mode /\ beacon \in Beacon /\ (mode = NoMode <=> beacon = "None")
      /\ vap.mode \in Mode => mode = vap.mode
      /\ vap.mode \notin Mode => vap.mode = WPA3 /\ mode = NoMode
      /\ NoMode.auth = "None" /\ NoMode.beacon = "None"
  BY <1>1, ModesOfVap
<1>4. SecurityTold(vap, key, name, t)
  BY <1>1, <1>3 DEF SecurityTold, ModeTold, For, Security
<1>5. CASE vap.mode \in Mode
  <2>1. VapModeCommands(ap, vap.mode, key, junk) = ModeCommands(ap, mode, key, junk)
    BY <1>3, <1>5, Zenon DEF VapModeCommands
  <2>2. Writes(ModeCommands(ap, mode, key, junk), ap, name, f, <<beacon>>, t,
               <<"fresh">>, <<>>)
    BY <1>1, <1>2, <1>3, WritesSecurityMode
  <2>3. Adds(VapModeCommands(ap, vap.mode, key, junk), ap, name, f, <<beacon>>, t)
    BY <2>1, <2>2, AddsFresh, Zenon
  <2>4. QED
    BY <1>1, <1>4, <2>3, Zenon
<1>6. CASE vap.mode \notin Mode
  <2>1. PICK c, d : /\ c = BeaconCommands(ap, "None", key, junk)
                    /\ d = TellMode(ap, [vap.mode EXCEPT !.auth = "EAP"], key)
    OBVIOUS
  <2>2. VapModeCommands(ap, vap.mode, key, junk) = c \o d
    BY <1>6, <2>1, Zenon DEF VapModeCommands
  <2>3. beacon = "None"
    BY <1>3, <1>6
  <2>4. Writes(c, ap, name, For(name, "wpa", WpaLine(ap, "None", junk)), <<"None">>,
               ModeTold("None", "PSK", key, name), <<"fresh">>, <<>>)
    <3>1. "None" \in Beacon
      BY DEF Beacon
    <3>2. QED
      BY <1>2, <2>1, <3>1, WritesBeacon
  <2>5. PICK w : w = ModeTold("WPA", "EAP", key, name)
    OBVIOUS
  <2>6. Writes(d, ap, name, <<>>, <<>>, w, <<"fresh">>, <<>>)
    <3>1. PICK m, n : /\ m = [beacon |-> "WPA", auth |-> "EAP"]
                      /\ n = [vap.mode EXCEPT !.auth = "EAP"]
      OBVIOUS
    <3>2. /\ m.beacon = "WPA" /\ m.auth = "EAP" /\ "WPA" \in Beacon
          /\ n.beacon = "WPA3" /\ n.auth = "EAP"
      BY <1>3, <1>6, <3>1 DEF WPA3, Beacon
    <3>3. Writes(TellMode(ap, m, key), ap, name, <<>>, <<>>, w, <<"fresh">>, <<>>)
      BY <2>5, <3>2, WritesTellMode
    <3>4. TellMode(ap, n, key) = TellMode(ap, m, key)
      <4>1. \A a : ~(m.auth = "PSK") /\ ~(n.auth = "PSK") /\ When(FALSE, a) = <<>>
        BY <3>2 DEF When
      <4>2. /\ ~(m.beacon = "None") /\ ~(n.beacon = "None")
            /\ When(m.auth = "PSK", <<Told(ap, "wpa", WpaTold(m.beacon))>>) = <<>>
            /\ When(n.auth = "PSK", <<Told(ap, "wpa", WpaTold(n.beacon))>>) = <<>>
        BY <3>2 DEF When
      <4>3. QED
        BY <4>2, Zenon DEF TellMode
    <3>5. QED
      BY <2>1, <3>1, <3>3, <3>4, Zenon
  <2>7. PICK g, u : /\ g = For(name, "wpa", WpaLine(ap, "None", junk))
                    /\ u = ModeTold("None", "PSK", key, name)
    OBVIOUS
  <2>8. Writes(c \o d, ap, name, Then(g, <<>>), Then(<<"None">>, <<>>), Then(u, w),
               Then(<<"fresh">>, <<"fresh">>), Then(<<>>, <<>>))
    BY <2>4, <2>6, <2>7, WritesBoth
  <2>9. PICK v : v = Then(u, w)
    OBVIOUS
  <2>10. Then(g, <<>>) = f
    BY <1>1, <1>3, <1>6, <2>3, <2>7 DEF Then, ModeLine, KeyLine
  <2>11. Writes(c \o d, ap, name, f, <<beacon>>, v, <<"fresh">>, <<>>)
    <3>1. /\ Then(<<"None">>, <<>>) = <<beacon>> /\ Then(<<>>, <<>>) = <<>>
          /\ Then(<<"fresh">>, <<"fresh">>) = <<"fresh">>
      BY <2>3 DEF Then
    <3>2. QED
      BY <2>8, <2>9, <2>10, <3>1, Zenon
  <2>12. SecurityTold(vap, key, name, v)
    BY <1>1, <1>3, <1>6, <2>3, <2>5, <2>7, <2>9 DEF SecurityTold, ModeTold, For, Then, Security
  <2>13. Adds(VapModeCommands(ap, vap.mode, key, junk), ap, name, f, <<beacon>>, v)
    BY <2>2, <2>11, AddsFresh, Zenon
  <2>14. QED
    BY <1>1, <2>12, <2>13, Zenon
<1>7. QED
  BY <1>5, <1>6

\* What wifi_updateApSecurity writes.
SecurityWrites(ap, vap, key, junk, name, f, t) ==
    /\ name = "ieee80211w" =>
          f = <<RpiLines(ap, name, RpiValue(vap, name))>> /\ t = <<RpiValue(vap, name)>>
    /\ name = "wpa" =>
          /\ f = <<WpaLine(ap, VapMode(vap).beacon, junk)>>
          /\ t = <<IF VapMode(vap) = NoMode THEN "0" ELSE WpaTold(VapMode(vap).beacon)>>
    /\ name = "wpa_key_mgmt" => f = KeyLine(VapMode(vap).auth, name)
    /\ name \in {"wpa_pairwise", "rsn_pairwise"} =>
          f = CipherLine(VapMode(vap).beacon, vap.encr, name)
    /\ name = "wpa_passphrase" =>
          IF SetsKey(vap) /\ ~Fails(vap) THEN f = <<<<vap.key>>>> /\ t = <<vap.key>>
                                         ELSE f = <<>> /\ t \in {<<>>, <<key>>}
    /\ name \notin Security \cup {"ieee80211w", "wpa_passphrase"} => f = <<>> /\ t = <<>>

LEMMA SecurityAdds ==
    ASSUME Filed, NEW ap \in Ap, NEW vap \in VapSettings, NEW key \in Text,
           NEW junk \in Junk, NEW name
    PROVE  \E f, t : /\ Adds(UpdateApSecurity(ap, vap, key, junk), ap, name, f,
                             <<VapMode(vap).beacon>>, t)
                     /\ SecurityWrites(ap, vap, key, junk, name, f, t)
<1>1. PICK mode, beacon, secured, keyed, q1, q2, q3, q4 :
        /\ mode = VapMode(vap) /\ beacon = mode.beacon
        /\ secured \in BOOLEAN /\ secured = (vap.mode # NoMode)
        /\ keyed \in BOOLEAN /\ keyed = (SetsKey(vap) /\ ~Fails(vap))
        /\ q1 = RpiCommands(ap, "ieee80211w", vap.mfp)
        /\ q2 = VapModeCommands(ap, vap.mode, key, junk)
        /\ q3 = When(secured, EncryptionCommands(ap, mode, vap.encr, key))
        /\ q4 = When(keyed, KeyCommands(ap, vap.key))
  BY DEF SetsKey, Fails
<1>2. UpdateApSecurity(ap, vap, key, junk) = ((q1 \o q2) \o q3) \o q4
  BY <1>1, Zenon DEF UpdateApSecurity, VapMode
<1>3. /\ vap.mode \in Mode \cup {WPA3} /\ vap.encr \in Encryption
      /\ vap.key \in Text /\ vap.mfp \in Text /\ vap.mfp # ""
  BY VapTexts
<1>4. /\ mode \in Mode /\ beacon \in Beacon /\ (mode = NoMode <=> beacon = "None")
      /\ mode = NoMode => mode.auth = "None"
      /\ ~secured => mode = NoMode
      /\ mode.auth = "PSK" => mode # NoMode
  <2>1. mode \in Mode /\ beacon \in Beacon /\ (mode = NoMode <=> beacon = "None")
    BY <1>1, <1>3, ModesOfVap
  <2>2. NoMode.auth = "None"
    BY <1>3, ModesOfVap
  <2>3. ~secured => mode = NoMode
    BY <1>1, <1>3, ModesOfVap
  <2>4. QED
    BY <2>1, <2>2, <2>3
<1>5. PICK f1, t1, f2, m2, f3, t3, f4, t4 :
        /\ f1 = For(name, "ieee80211w", RpiLines(ap, "ieee80211w", vap.mfp))
        /\ t1 = For(name, "ieee80211w", vap.mfp)
        /\ f2 = ModeLine(ap, beacon, mode.auth, junk, name) /\ m2 = <<beacon>>
        /\ f3 = IF secured THEN CipherLine(beacon, vap.encr, name) ELSE <<>>
        /\ t3 = IF secured
                THEN CipherTold(beacon, mode.auth,
                                IF vap.encr = "TKIP CCMP" THEN vap.encr ELSE "CCMP", key, name)
                ELSE <<>>
        /\ f4 = IF keyed THEN For(name, "wpa_passphrase", <<vap.key>>) ELSE <<>>
        /\ t4 = IF keyed THEN For(name, "wpa_passphrase", vap.key) ELSE <<>>
  OBVIOUS
<1>6. Adds(q1, ap, name, f1, <<>>, t1)
  <2>1. "ieee80211w" \in RpiName
    BY DEF RpiName
  <2>2. QED
    BY <1>1, <1>3, <1>5, <2>1, AddsRpi
<1>7. PICK t2 : Adds(q2, ap, name, f2, m2, t2) /\ SecurityTold(vap, key, name, t2)
  <2>1. \E t : /\ Adds(VapModeCommands(ap, vap.mode, key, junk), ap, name,
                       ModeLine(ap, VapMode(vap).beacon, VapMode(vap).auth, junk, name),
                       <<VapMode(vap).beacon>>, t)
               /\ SecurityTold(vap, key, name, t)
    BY <1>3, ModeAdds
  <2>2. QED
    BY <1>1, <1>5, <2>1, Zenon
<1>8. Adds(q3, ap, name, f3, <<>>, t3)
  <2>1. PICK s, f, t :
          /\ s = EncryptionCommands(ap, mode, vap.encr, key)
          /\ f = CipherLine(beacon, vap.encr, name)
          /\ t = CipherTold(beacon, mode.auth,
                            IF vap.encr = "TKIP CCMP" THEN vap.encr ELSE "CCMP", key, name)
    OBVIOUS
  <2>2. Writes(s, ap, name, f, <<>>, t, <<"fresh">>, <<>>)
    BY <1>1, <1>3, <1>4, <2>1, WritesEncryption
  <2>3. Adds(s, ap, name, f, <<>>, t)
    BY <2>2, AddsFresh
  <2>4. Adds(When(secured, s), ap, name, IF secured THEN f ELSE <<>>,
             IF secured THEN <<>> ELSE <<>>, IF secured THEN t ELSE <<>>)
    BY <1>1, <2>3, AddsWhen
  <2>5. (IF secured THEN <<>> ELSE <<>>) = <<>>
    OBVIOUS
  <2>6. q3 = When(secured, s)
    BY <1>1, <2>1, Zenon
  <2>7. f3 = (IF secured THEN f ELSE <<>>) /\ t3 = (IF secured THEN t ELSE <<>>)
    BY <1>5, <2>1, Zenon
  <2>8. QED
    BY <2>4, <2>5, <2>6, <2>7
<1>9. Adds(q4, ap, name, f4, <<>>, t4)
  <2>1. PICK s, f, t : /\ s = KeyCommands(ap, vap.key)
                       /\ f = For(name, "wpa_passphrase", <<vap.key>>)
                       /\ t = For(name, "wpa_passphrase", vap.key)
    OBVIOUS
  <2>2. "wpa_passphrase" \in One
    BY DEF One, SedName
  <2>3. Writes(s, ap, name, f, <<>>, t, <<"fresh">>, <<>>)
    BY <1>3, <2>1, <2>2, WritesSedSetting DEF KeyCommands
  <2>4. Adds(s, ap, name, f, <<>>, t)
    BY <2>3, AddsFresh
  <2>5. Adds(When(keyed, s), ap, name, IF keyed THEN f ELSE <<>>,
             IF keyed THEN <<>> ELSE <<>>, IF keyed THEN t ELSE <<>>)
    BY <1>1, <2>4, AddsWhen
  <2>6. (IF keyed THEN <<>> ELSE <<>>) = <<>>
    OBVIOUS
  <2>7. q4 = When(keyed, s)
    BY <1>1, <2>1, Zenon
  <2>8. f4 = (IF keyed THEN f ELSE <<>>) /\ t4 = (IF keyed THEN t ELSE <<>>)
    BY <1>5, <2>1, Zenon
  <2>9. QED
    BY <2>5, <2>6, <2>7, <2>8
<1>10. \A a : Then(a, <<>>) = a /\ Then(<<>>, a) = a
  BY DEF Then
<1>11. Adds((q1 \o q2) \o q3, ap, name, Then(Then(f1, f2), f3), Then(Then(<<>>, m2), <<>>),
            Then(Then(t1, t2), t3))
  BY <1>6, <1>7, <1>8, AddsBoth
<1>12. PICK fa, ta : fa = Then(Then(f1, f2), f3) /\ ta = Then(Then(t1, t2), t3)
  OBVIOUS
<1>13. Adds((q1 \o q2) \o q3, ap, name, fa, m2, ta)
  BY <1>10, <1>11, <1>12
<1>14. Adds(((q1 \o q2) \o q3) \o q4, ap, name, Then(fa, f4), Then(m2, <<>>), Then(ta, t4))
  BY <1>9, <1>13, AddsBoth
<1>15. PICK f, t : f = Then(fa, f4) /\ t = Then(ta, t4)
  OBVIOUS
<1>16. Adds(UpdateApSecurity(ap, vap, key, junk), ap, name, f, <<VapMode(vap).beacon>>, t)
  BY <1>1, <1>2, <1>5, <1>10, <1>14, <1>15
<1>17. Ciphers(beacon) \subseteq {"wpa_pairwise", "rsn_pairwise"}
       /\ (beacon = "None" => Ciphers(beacon) = {})
  BY <1>4, CiphersAre DEF Beacon
<1>18. SecurityWrites(ap, vap, key, junk, name, f, t)
  <2>1. CASE name = "ieee80211w"
    <3>1. f1 = <<RpiLines(ap, "ieee80211w", vap.mfp)>> /\ t1 = <<vap.mfp>>
      BY <1>5, <2>1 DEF For
    <3>2. f2 = <<>> /\ f3 = <<>> /\ t3 = <<>> /\ f4 = <<>> /\ t4 = <<>>
      BY <1>5, <1>17, <2>1 DEF For, ModeLine, KeyLine, Then, CipherLine, CipherTold
    <3>3. t2 = <<>>
      BY <1>7, <2>1 DEF SecurityTold, Security
    <3>4. f = f1 /\ t = t1
      BY <1>10, <1>12, <1>15, <3>2, <3>3
    <3>5. RpiValue(vap, name) = vap.mfp
      BY <2>1 DEF RpiValue
    <3>6. QED
      BY <2>1, <3>1, <3>4, <3>5 DEF SecurityWrites, Security
  <2>2. CASE name = "wpa"
    <3>1. /\ f1 = <<>> /\ t1 = <<>> /\ f2 = <<WpaLine(ap, beacon, junk)>>
          /\ f3 = <<>> /\ f4 = <<>> /\ t4 = <<>>
      BY <1>5, <1>17, <2>2 DEF For, ModeLine, KeyLine, Then, CipherLine
    <3>2. t2 = <<IF mode = NoMode THEN "0" ELSE WpaTold(beacon)>>
      BY <1>1, <1>7, <2>2 DEF SecurityTold
    <3>3. t3 \in {<<>>, t2}
      BY <1>4, <1>5, <2>2, <3>2 DEF CipherTold
    <3>4. f = f2 /\ t = t2
      BY <1>10, <1>12, <1>15, <3>1, <3>3 DEF Then
    <3>5. QED
      BY <1>1, <2>2, <3>1, <3>2, <3>4 DEF SecurityWrites, Security
  <2>3. CASE name = "wpa_key_mgmt"
    <3>1. f1 = <<>> /\ f2 = KeyLine(mode.auth, name) /\ f3 = <<>> /\ f4 = <<>>
      BY <1>5, <1>17, <2>3 DEF For, ModeLine, Then, CipherLine
    <3>2. f = f2
      BY <1>10, <1>12, <1>15, <3>1
    <3>3. QED
      BY <1>1, <2>3, <3>1, <3>2 DEF SecurityWrites, Security
  <2>4. CASE name \in {"wpa_pairwise", "rsn_pairwise"}
    <3>1. f1 = <<>> /\ f2 = <<>> /\ f4 = <<>> /\ f3 = CipherLine(beacon, vap.encr, name)
      BY <1>4, <1>5, <1>17, <2>4 DEF For, ModeLine, KeyLine, Then, CipherLine
    <3>2. f = f3
      BY <1>10, <1>12, <1>15, <3>1
    <3>3. QED
      BY <1>1, <2>4, <3>1, <3>2 DEF SecurityWrites, Security
  <2>5. CASE name = "wpa_passphrase"
    <3>1. f1 = <<>> /\ t1 = <<>> /\ f2 = <<>> /\ f3 = <<>>
      BY <1>5, <1>17, <2>5 DEF For, ModeLine, KeyLine, Then, CipherLine
    <3>2. t2 \in {<<>>, <<key>>} /\ t3 \in {<<>>, <<key>>}
      BY <1>5, <1>7, <2>5 DEF SecurityTold, CipherTold
    <3>3. /\ f4 = IF keyed THEN <<<<vap.key>>>> ELSE <<>>
          /\ t4 = IF keyed THEN <<vap.key>> ELSE <<>>
      BY <1>5, <2>5 DEF For
    <3>4. f = f4 /\ (keyed => t = t4) /\ (~keyed => t \in {<<>>, <<key>>})
      BY <1>12, <1>15, <3>1, <3>2, <3>3 DEF Then
    <3>5. QED
      BY <1>1, <2>5, <3>3, <3>4 DEF SecurityWrites, Security
  <2>6. CASE name \notin Security \cup {"ieee80211w", "wpa_passphrase"}
    <3>1. /\ f1 = <<>> /\ t1 = <<>> /\ f2 = <<>> /\ f3 = <<>> /\ t3 = <<>>
          /\ f4 = <<>> /\ t4 = <<>>
      BY <1>5, <1>17, <2>6 DEF For, ModeLine, KeyLine, Then, CipherLine, CipherTold, Security
    <3>2. t2 = <<>>
      BY <1>7, <2>6 DEF SecurityTold
    <3>3. f = <<>> /\ t = <<>>
      BY <1>10, <1>12, <1>15, <3>1, <3>2
    <3>4. QED
      BY <2>6, <3>3 DEF SecurityWrites, Security
  <2>7. QED
    BY <2>1, <2>2, <2>3, <2>4, <2>5, <2>6 DEF Security
<1>19. QED
  BY <1>16, <1>18

\* What the last setters write, which a call with a key that is too short does not reach.
WpsWrites(ap, vap, name, f, t) ==
    /\ name = "wps_state" /\ ~Fails(vap) => f = <<<<WpsLine(vap)>>>> /\ t = <<WpsLine(vap)>>
    /\ name = "ap_pin" /\ ~Fails(vap) /\ vap.pin # "" => f = <<<<vap.pin>>>> /\ t = <<vap.pin>>
    /\ name = "config_methods" /\ ~Fails(vap) /\ vap.methods # "" =>
          /\ f = <<IF Kept(vap.methods) THEN <<vap.methods>> ELSE <<>>>>
          /\ t = <<vap.methods>>
    /\ name = "wmm_enabled" /\ ~Fails(vap) =>
          f = <<RpiLines(ap, name, RpiValue(vap, name))>> /\ t = <<RpiValue(vap, name)>>
    /\ \/ name \notin {"wps_state", "ap_pin", "config_methods", "wmm_enabled"}
       \/ Fails(vap)
       \/ name = "ap_pin" /\ vap.pin = ""
       \/ name = "config_methods" /\ vap.methods = ""
       => f = <<>> /\ t = <<>>

WpsSetters(ap, vap) ==
    When(~Fails(vap), WpsConfiguration(ap, vap)
                      \o RpiCommands(ap, "wmm_enabled", Flag(vap.wmm)))

LEMMA WpsAdds ==
    ASSUME Filed, NEW ap \in Ap, NEW vap \in VapSettings, NEW name
    PROVE  \E f, t : /\ Adds(WpsSetters(ap, vap), ap, name, f, <<>>, t)
                     /\ WpsWrites(ap, vap, name, f, t)
<1>1. PICK ended, pins, methods, w1, w2, w3, w4 :
        /\ ended \in BOOLEAN /\ ended = ~Fails(vap)
        /\ pins \in BOOLEAN /\ pins = (vap.pin # "")
        /\ methods \in BOOLEAN /\ methods = (vap.methods # "")
        /\ w1 = WpsEnableCommands(ap, vap.wps) /\ w2 = When(pins, WpsPinCommands(ap, vap.pin))
        /\ w3 = When(methods, WpsMethodCommands(ap, vap.methods))
        /\ w4 = RpiCommands(ap, "wmm_enabled", Flag(vap.wmm))
  BY DEF Fails, SetsKey
<1>2. WpsSetters(ap, vap) = When(ended, ((w1 \o w2) \o w3) \o w4)
  BY <1>1, Zenon DEF WpsSetters, WpsConfiguration
<1>3. /\ vap.methods \in Method \cup {""} /\ vap.pin \in Text
      /\ Flag(vap.wmm) \in Text /\ Flag(vap.wmm) # ""
  BY VapTexts
<1>4. PICK f1, t1, f2, t2, f3, t3, f4, t4 :
        /\ f1 = For(name, "wps_state", <<WpsLine(vap)>>)
        /\ t1 = For(name, "wps_state", WpsLine(vap))
        /\ f2 = IF pins THEN For(name, "ap_pin", <<vap.pin>>) ELSE <<>>
        /\ t2 = IF pins THEN For(name, "ap_pin", vap.pin) ELSE <<>>
        /\ f3 = IF methods THEN For(name, "config_methods",
                                    IF Kept(vap.methods) THEN <<vap.methods>> ELSE <<>>) ELSE <<>>
        /\ t3 = IF methods THEN For(name, "config_methods", vap.methods) ELSE <<>>
        /\ f4 = For(name, "wmm_enabled", RpiLines(ap, "wmm_enabled", Flag(vap.wmm)))
        /\ t4 = For(name, "wmm_enabled", Flag(vap.wmm))
  OBVIOUS
<1>5. Adds(w1, ap, name, f1, <<>>, t1)
  <2>1. PICK v : v = WpsLine(vap)
    OBVIOUS
  <2>2. v \in Text /\ "wps_state" \in One
    BY <2>1, Texts DEF WpsLine, One, SedName
  <2>3. w1 = <<HostapdWrite(ap, "wps_state", v), Told(ap, "wps_state", v), Restart(ap)>>
    BY <1>1, <2>1, Zenon DEF WpsEnableCommands, WpsLine
  <2>4. Writes(w1, ap, name, f1, <<>>, t1, <<"fresh">>, <<>>)
    BY <1>4, <2>1, <2>2, <2>3, WritesSedSetting
  <2>5. QED
    BY <2>4, AddsFresh
<1>6. Adds(w2, ap, name, f2, <<>>, t2)
  <2>1. PICK s, f, t : /\ s = WpsPinCommands(ap, vap.pin)
                       /\ f = For(name, "ap_pin", <<vap.pin>>)
                       /\ t = For(name, "ap_pin", vap.pin)
    OBVIOUS
  <2>2. "ap_pin" \in One
    BY DEF One, SedName
  <2>3. Writes(s, ap, name, f, <<>>, t, <<"fresh">>, <<>>)
    BY <1>3, <2>1, <2>2, WritesSedSetting DEF WpsPinCommands
  <2>4. Adds(s, ap, name, f, <<>>, t)
    BY <2>3, AddsFresh
  <2>5. Adds(When(pins, s), ap, name, IF pins THEN f ELSE <<>>,
             IF pins THEN <<>> ELSE <<>>, IF pins THEN t ELSE <<>>)
    BY <1>1, <2>4, AddsWhen
  <2>6. (IF pins THEN <<>> ELSE <<>>) = <<>>
    OBVIOUS
  <2>7. w2 = When(pins, s)
    BY <1>1, <2>1, Zenon
  <2>8. f2 = (IF pins THEN f ELSE <<>>) /\ t2 = (IF pins THEN t ELSE <<>>)
    BY <1>4, <2>1, Zenon
  <2>9. QED
    BY <2>5, <2>6, <2>7, <2>8
<1>7. Adds(w3, ap, name, f3, <<>>, t3)
  <2>1. PICK s, f, t : /\ s = WpsMethodCommands(ap, vap.methods)
                       /\ f = For(name, "config_methods",
                                  IF Kept(vap.methods) THEN <<vap.methods>> ELSE <<>>)
                       /\ t = For(name, "config_methods", vap.methods)
    OBVIOUS
  <2>2. methods => Adds(s, ap, name, f, <<>>, t)
    <3>1. SUFFICES ASSUME methods
                   PROVE  Adds(s, ap, name, f, <<>>, t)
      OBVIOUS
    <3>2. vap.methods \in Method
      BY <1>1, <1>3, <3>1
    <3>3. Writes(s, ap, name, f, <<>>, t, <<"fresh">>, <<>>)
      BY <2>1, <3>2, WritesMethods
    <3>4. QED
      BY <3>3, AddsFresh
  <2>3. Adds(When(methods, s), ap, name, IF methods THEN f ELSE <<>>,
             IF methods THEN <<>> ELSE <<>>, IF methods THEN t ELSE <<>>)
    BY <1>1, <2>2, AddsWhen
  <2>4. (IF methods THEN <<>> ELSE <<>>) = <<>>
    OBVIOUS
  <2>5. w3 = When(methods, s)
    BY <1>1, <2>1, Zenon
  <2>6. f3 = (IF methods THEN f ELSE <<>>) /\ t3 = (IF methods THEN t ELSE <<>>)
    BY <1>4, <2>1, Zenon
  <2>7. QED
    BY <2>3, <2>4, <2>5, <2>6
<1>8. Adds(w4, ap, name, f4, <<>>, t4)
  <2>1. "wmm_enabled" \in RpiName
    BY DEF RpiName
  <2>2. QED
    BY <1>1, <1>3, <1>4, <2>1, AddsRpi
<1>9. \A a : Then(a, <<>>) = a /\ Then(<<>>, a) = a
  BY DEF Then
<1>10. Adds((w1 \o w2) \o w3, ap, name, Then(Then(f1, f2), f3), Then(Then(<<>>, <<>>), <<>>),
            Then(Then(t1, t2), t3))
  BY <1>5, <1>6, <1>7, AddsBoth
<1>11. PICK fa, ta : fa = Then(Then(f1, f2), f3) /\ ta = Then(Then(t1, t2), t3)
  OBVIOUS
<1>12. Adds((w1 \o w2) \o w3, ap, name, fa, <<>>, ta)
  BY <1>9, <1>10, <1>11
<1>13. Adds(((w1 \o w2) \o w3) \o w4, ap, name, Then(fa, f4), Then(<<>>, <<>>), Then(ta, t4))
  BY <1>8, <1>12, AddsBoth
<1>14. PICK fb, tb : fb = Then(fa, f4) /\ tb = Then(ta, t4)
  OBVIOUS
<1>15. Adds(((w1 \o w2) \o w3) \o w4, ap, name, fb, <<>>, tb)
  BY <1>9, <1>13, <1>14
<1>16. PICK f, t : f = (IF ended THEN fb ELSE <<>>) /\ t = (IF ended THEN tb ELSE <<>>)
  OBVIOUS
<1>17. Adds(WpsSetters(ap, vap), ap, name, f, <<>>, t)
  <2>1. Adds(When(ended, ((w1 \o w2) \o w3) \o w4), ap, name, IF ended THEN fb ELSE <<>>,
             IF ended THEN <<>> ELSE <<>>, IF ended THEN tb ELSE <<>>)
    BY <1>1, <1>15, AddsWhen
  <2>2. (IF ended THEN <<>> ELSE <<>>) = <<>>
    OBVIOUS
  <2>3. QED
    BY <1>2, <1>16, <2>1, <2>2
<1>18. WpsWrites(ap, vap, name, f, t)
  <2>1. CASE ~ended
    BY <1>1, <1>16, <2>1 DEF WpsWrites
  <2>2. CASE ended
    <3>1. f = Then(Then(Then(f1, f2), f3), f4) /\ t = Then(Then(Then(t1, t2), t3), t4)
      BY <1>11, <1>14, <1>16, <2>2
    <3>2. CASE name = "wps_state"
      BY <1>1, <1>4, <2>2, <3>1, <3>2 DEF For, Then, WpsWrites
    <3>3. CASE name = "ap_pin"
      BY <1>1, <1>4, <2>2, <3>1, <3>3 DEF For, Then, WpsWrites
    <3>4. CASE name = "config_methods"
      BY <1>1, <1>4, <2>2, <3>1, <3>4 DEF For, Then, WpsWrites
    <3>5. CASE name = "wmm_enabled"
      <4>1. f = <<RpiLines(ap, name, Flag(vap.wmm))>> /\ t = <<Flag(vap.wmm)>>
        BY <1>4, <3>1, <3>5 DEF For, Then
      <4>2. RpiValue(vap, name) = Flag(vap.wmm)
        BY <3>5 DEF RpiValue
      <4>3. QED
        BY <1>1, <2>2, <3>5, <4>1, <4>2 DEF WpsWrites
    <3>6. CASE name \notin {"wps_state", "ap_pin", "config_methods", "wmm_enabled"}
      BY <1>4, <3>1, <3>6 DEF For, Then, WpsWrites
    <3>7. QED
      BY <3>2, <3>3, <3>4, <3>5, <3>6
  <2>3. QED
    BY <1>1, <2>1, <2>2
<1>19. QED
  BY <1>17, <1>18

\* All of them.
VapWrites(ap, vap, key, junk, name, f, t) ==
    \E fa, ta, fb, tb, fc, tc :
        /\ NameWrites(ap, vap, key, name, fa, ta)
        /\ SecurityWrites(ap, vap, key, junk, name, fb, tb)
        /\ WpsWrites(ap, vap, name, fc, tc)
        /\ f = Then(Then(fa, fb), fc) /\ t = Then(Then(ta, tb), tc)

LEMMA VapAdds ==
    ASSUME Filed, NEW ap \in Ap, NEW vap \in VapSettings, NEW junk \in Junk, NEW name,
           NEW key, key = Value(ap, "wpa_passphrase")
    PROVE  \E f, t : /\ Adds(VapSetters(ap, vap, junk), ap, name, f, <<VapMode(vap).beacon>>, t)
                     /\ VapWrites(ap, vap, key, junk, name, f, t)
<1>1. key \in Text
  BY ValueIsText DEF Name, SedName
<1>2. PICK a, b, c, m : /\ a = NameSetters(ap, vap, key) /\ b = UpdateApSecurity(ap, vap, key, junk)
                        /\ c = WpsSetters(ap, vap) /\ m = <<VapMode(vap).beacon>>
  OBVIOUS
<1>3. VapSetters(ap, vap, junk) = (a \o b) \o c
  BY <1>2, Zenon DEF VapSetters, NameSetters, WpsSetters
<1>4. PICK fa, ta : Adds(a, ap, name, fa, <<>>, ta) /\ NameWrites(ap, vap, key, name, fa, ta)
  BY <1>1, <1>2, NameAdds
<1>5. PICK fb, tb : Adds(b, ap, name, fb, m, tb) /\ SecurityWrites(ap, vap, key, junk, name, fb, tb)
  BY <1>1, <1>2, SecurityAdds
<1>6. PICK fc, tc : Adds(c, ap, name, fc, <<>>, tc) /\ WpsWrites(ap, vap, name, fc, tc)
  BY <1>2, WpsAdds
<1>7. Adds((a \o b) \o c, ap, name, Then(Then(fa, fb), fc), Then(Then(<<>>, m), <<>>),
           Then(Then(ta, tb), tc))
  BY <1>4, <1>5, <1>6, AddsBoth
<1>8. Then(Then(<<>>, m), <<>>) = m
  BY DEF Then
<1>9. PICK f, t : f = Then(Then(fa, fb), fc) /\ t = Then(Then(ta, tb), tc)
  OBVIOUS
<1>10. VapWrites(ap, vap, key, junk, name, f, t)
  BY <1>4, <1>5, <1>6, <1>9 DEF VapWrites
<1>11. QED
  BY <1>2, <1>3, <1>7, <1>8, <1>9, <1>10

\* Each parameter is written by one of the groups of setters, and the key by two.
LEMMA VapWritten ==
    ASSUME NEW ap, NEW vap, NEW key, NEW junk, NEW name, NEW f, NEW t,
           VapWrites(ap, vap, key, junk, name, f, t)
    PROVE  /\ name \in {"ssid", "ignore_broadcast_ssid", "ap_isolate", "max_num_sta",
                        "bss_transition", "rrm_neighbor_report"} =>
                 NameWrites(ap, vap, key, name, f, t)
           /\ name \in Security \cup {"ieee80211w"} =>
                 SecurityWrites(ap, vap, key, junk, name, f, t)
           /\ name = "wpa_passphrase" =>
                 IF SetsKey(vap) /\ ~Fails(vap) THEN f = <<<<vap.key>>>> /\ t = <<vap.key>>
                                                ELSE f = <<>> /\ t = <<key>>
           /\ name \in {"wps_state", "ap_pin", "config_methods", "wmm_enabled"} =>
                 WpsWrites(ap, vap, name, f, t)
           /\ name = "uapsd_advertisement_enabled" => f = <<>> /\ t = <<>>
<1>1. PICK fa, ta, fb, tb, fc, tc :
        /\ NameWrites(ap, vap, key, name, fa, ta)
        /\ SecurityWrites(ap, vap, key, junk, name, fb, tb)
        /\ WpsWrites(ap, vap, name, fc, tc)
        /\ f = Then(Then(fa, fb), fc) /\ t = Then(Then(ta, tb), tc)
  BY DEF VapWrites
<1>2. \A a : Then(a, <<>>) = a /\ Then(<<>>, a) = a
  BY DEF Then
<1>3. name \notin {"wps_state", "ap_pin", "config_methods", "wmm_enabled"} => fc = <<>> /\ tc = <<>>
  BY <1>1 DEF WpsWrites
<1>4. name \notin Security \cup {"ieee80211w", "wpa_passphrase"} => fb = <<>> /\ tb = <<>>
  BY <1>1 DEF SecurityWrites
<1>5. name \notin {"ssid", "wpa_passphrase", "ignore_broadcast_ssid", "ap_isolate",
                   "max_num_sta", "bss_transition", "rrm_neighbor_report"} =>
          fa = <<>> /\ ta = <<>>
  BY <1>1 DEF NameWrites
<1>6. CASE name \in {"ssid", "ignore_broadcast_ssid", "ap_isolate", "max_num_sta",
                     "bss_transition", "rrm_neighbor_report"}
  <2>1. f = fa /\ t = ta
    BY <1>1, <1>2, <1>3, <1>4, <1>6 DEF Security
  <2>2. QED
    BY <1>1, <1>6, <2>1 DEF Security
<1>7. CASE name \in Security \cup {"ieee80211w"}
  <2>1. f = fb /\ t = tb
    BY <1>1, <1>2, <1>3, <1>5, <1>7 DEF Security
  <2>2. QED
    BY <1>1, <1>7, <2>1 DEF Security
<1>8. CASE name = "wpa_passphrase"
  <2>1. fa = <<>> /\ ta = <<key>>
    BY <1>1, <1>8 DEF NameWrites
  <2>2. f = fb /\ t = Then(<<key>>, tb)
    BY <1>1, <1>2, <1>3, <1>8, <2>1
  <2>3. IF SetsKey(vap) /\ ~Fails(vap) THEN fb = <<<<vap.key>>>> /\ tb = <<vap.key>>
                                       ELSE fb = <<>> /\ tb \in {<<>>, <<key>>}
    BY <1>1, <1>8 DEF SecurityWrites
  <2>4. IF SetsKey(vap) /\ ~Fails(vap) THEN f = <<<<vap.key>>>> /\ t = <<vap.key>>
                                       ELSE f = <<>> /\ t = <<key>>
    BY <2>2, <2>3 DEF Then
  <2>5. QED
    BY <1>8, <2>4 DEF Security
<1>9. CASE name \in {"wps_state", "ap_pin", "config_methods", "wmm_enabled"}
  <2>1. f = fc /\ t = tc
    BY <1>1, <1>2, <1>4, <1>5, <1>9 DEF Security
  <2>2. QED
    BY <1>1, <1>9, <2>1 DEF Security
<1>10. CASE name = "uapsd_advertisement_enabled"
  <2>1. f = <<>> /\ t = <<>>
    BY <1>1, <1>2, <1>3, <1>4, <1>5, <1>10 DEF Security
  <2>2. QED
    BY <1>10, <2>1 DEF Security
<1>11. QED
  BY <1>6, <1>7, <1>8, <1>9, <1>10

VapEnd(ap, vap, junk) ==
    VapSetters(ap, vap, junk)
    \o <<Return(ap, Given(vap) \ Hidden(ap), NotGiven(vap) \cup (Given(vap) \cap Hidden(ap)))>>

LEMMA VapNames ==
    ASSUME NEW vap
    PROVE  Given(vap) \in SUBSET Name /\ NotGiven(vap) \in SUBSET Name
BY DEF Given, NotGiven, Name, SedName, RpiName, Security

LEMMA VapEndWrites ==
    ASSUME Filed, NEW ap \in Ap, NEW vap \in VapSettings, NEW junk \in Junk, NEW name,
           NEW key, key = Value(ap, "wpa_passphrase"), NEW o,
           o = Noted(name, Given(vap) \ Hidden(ap), NotGiven(vap) \cup (Given(vap) \cap Hidden(ap)))
    PROVE  \E f, t : \E r \in {<<>>, <<"fresh">>} :
              /\ Writes(VapEnd(ap, vap, junk), ap, name, f, <<VapMode(vap).beacon>>, t, r, o)
              /\ t # <<>> => r = <<"fresh">>
              /\ VapWrites(ap, vap, key, junk, name, f, t)
<1>1. PICK f, t : /\ Adds(VapSetters(ap, vap, junk), ap, name, f, <<VapMode(vap).beacon>>, t)
                  /\ VapWrites(ap, vap, key, junk, name, f, t)
  BY VapAdds
<1>2. PICK r \in {<<>>, <<"fresh">>} :
        /\ Writes(VapSetters(ap, vap, junk), ap, name, f, <<VapMode(vap).beacon>>, t, r, <<>>)
        /\ t # <<>> => r = <<"fresh">>
  BY <1>1 DEF Adds
<1>3. PICK given, not : /\ given = Given(vap) \ Hidden(ap)
                        /\ not = NotGiven(vap) \cup (Given(vap) \cap Hidden(ap))
  OBVIOUS
<1>4. given \in SUBSET Name /\ not \in SUBSET Name
  BY <1>3, VapNames
<1>5. PICK s, m : s = VapSetters(ap, vap, junk) /\ m = <<VapMode(vap).beacon>>
  OBVIOUS
<1>6. Writes(s, ap, name, f, m, t, r, <<>>)
  BY <1>2, <1>5, Zenon
<1>7. Writes(s \o <<Return(ap, given, not)>>, ap, name, f, m, t, r, Noted(name, given, not))
  BY <1>4, <1>6, Returned
<1>8. Writes(VapEnd(ap, vap, junk), ap, name, f, <<VapMode(vap).beacon>>, t, r, o)
  BY <1>3, <1>5, <1>7, Zenon DEF VapEnd
<1>9. QED
  BY <1>1, <1>2, <1>8

LEMMA RpiValues ==
    ASSUME NEW vap \in VapSettings, NEW n \in VapRpi
    PROVE  RpiValue(vap, n) \in Text /\ RpiValue(vap, n) # ""
<1>1. n \in {"wmm_enabled", "ap_isolate", "max_num_sta", "ieee80211w", "bss_transition",
             "rrm_neighbor_report"}
  BY DEF VapRpi, RpiName
<1>2. QED
  BY <1>1, VapTexts DEF RpiValue

LEMMA VapLeads ==
    ASSUME Settled, NEW ap \in Ap, NEW vap \in VapSettings, NEW junk \in Junk
    PROVE  Sound(VapEnd(ap, vap, junk), ap)
<1>1. PICK key, s, given, not, beacon :
        /\ key = Value(ap, "wpa_passphrase") /\ s = VapEnd(ap, vap, junk)
        /\ given = Given(vap) \ Hidden(ap)
        /\ not = NotGiven(vap) \cup (Given(vap) \cap Hidden(ap))
        /\ beacon = VapMode(vap).beacon
  OBVIOUS
<1>2. Filed
  BY DEF Settled
<1>3. ASSUME NEW name \in Name
      PROVE  s \in Seq(CommandOf(ap)) /\ Leads(s, ap, name)
  <2>1. PICK o, m : o = Noted(name, given, not) /\ m = <<beacon>>
    OBVIOUS
  <2>2. PICK f, t, r : /\ r \in {<<>>, <<"fresh">>}
                       /\ Writes(s, ap, name, f, m, t, r, o)
                       /\ t # <<>> => r = <<"fresh">>
                       /\ VapWrites(ap, vap, key, junk, name, f, t)
    <3>1. \E f, t : \E r \in {<<>>, <<"fresh">>} :
              /\ Writes(VapEnd(ap, vap, junk), ap, name, f, <<VapMode(vap).beacon>>, t, r, o)
              /\ t # <<>> => r = <<"fresh">>
              /\ VapWrites(ap, vap, key, junk, name, f, t)
      BY <1>1, <1>2, <2>1, VapEndWrites
    <3>2. QED
      BY <1>1, <2>1, <3>1, Zenon
  <2>3. s \in Seq(CommandOf(ap)) /\ Leads(<<>>, ap, name)
    BY <2>2 DEF Writes, Settled
  <2>4. CASE name \in {"ssid", "ignore_broadcast_ssid"}
    <3>1. NameWrites(ap, vap, key, name, f, t)
      BY <2>2, <2>4, VapWritten
    <3>2. PICK v : f = <<<<v>>>> /\ t = <<v>>
      BY <2>4, <3>1 DEF NameWrites
    <3>3. Leads(s, ap, name)
      BY <2>2, <2>4, <3>2, LineSays, GivenTo
    <3>4. QED
      BY <2>3, <3>3
  <2>5. ASSUME name \in VapRpi \ {"ap_isolate"},
               f = <<RpiLines(ap, name, RpiValue(vap, name))>>, t = <<RpiValue(vap, name)>>,
               name \in Given(vap)
        PROVE  Leads(s, ap, name)
    <3>1. CASE name \in Hidden(ap)
      <4>1. o = <<"open">>
        BY <1>1, <2>1, <2>5, <3>1 DEF Noted
      <4>2. QED
        BY <2>2, <4>1, Opened
    <3>2. CASE name \notin Hidden(ap)
      <4>1. PICK v, lines : v = RpiValue(vap, name) /\ lines = RpiLines(ap, name, v)
        OBVIOUS
      <4>2. v # "" /\ name \in RpiName /\ name # "wpa"
        BY <2>5, <4>1, RpiValues DEF VapRpi, RpiName
      <4>3. \A i \in DOMAIN file[ap][name] : file[ap][name][i] # ""
        BY <3>2, <4>2 DEF Hidden
      <4>4. First(lines) = v /\ Final(lines) = v
        BY <1>2, <4>1, <4>2, <4>3, RpiLinesSay
      <4>5. Writes(s, ap, name, <<lines>>, m, <<v>>, <<"fresh">>, o)
        <5>1. f = <<lines>> /\ t = <<v>> /\ t # <<>>
          BY <2>5, <4>1
        <5>2. QED
          BY <2>2, <5>1
      <4>6. QED
        BY <4>2, <4>4, <4>5, GivenTo
    <3>3. QED
      BY <3>1, <3>2
  <2>6. CASE name \in {"max_num_sta", "bss_transition", "rrm_neighbor_report"}
    <3>1. NameWrites(ap, vap, key, name, f, t)
      BY <2>2, <2>6, VapWritten
    <3>2. name \in VapRpi \ {"ap_isolate"} /\ name \in Given(vap)
      BY <2>6 DEF VapRpi, RpiName, Given
    <3>3. QED
      BY <2>3, <2>5, <2>6, <3>1, <3>2 DEF NameWrites
  <2>7. CASE name = "ieee80211w"
    <3>1. SecurityWrites(ap, vap, key, junk, name, f, t)
      BY <2>2, <2>7, VapWritten
    <3>2. name \in VapRpi \ {"ap_isolate"} /\ name \in Given(vap)
      BY <2>7 DEF VapRpi, RpiName, Given
    <3>3. QED
      BY <2>3, <2>5, <2>7, <3>1, <3>2 DEF SecurityWrites
  <2>8. CASE name \in {"ap_isolate", "wpa_key_mgmt", "wpa_pairwise", "rsn_pairwise"}
    <3>1. name \in not
      BY <1>1, <2>8 DEF NotGiven, Security
    <3>2. o = <<"open">>
      BY <2>1, <3>1 DEF Noted
    <3>3. QED
      BY <2>2, <2>3, <3>2, Opened
  <2>9. CASE name = "wpa"
    <3>1. SecurityWrites(ap, vap, key, junk, name, f, t)
      BY <2>2, <2>9, VapWritten DEF Security
    <3>2. PICK wpa, given1 :
            /\ wpa = WpaWritten(ap, beacon, junk)
            /\ given1 = IF beacon = "None" THEN "0" ELSE WpaTold(beacon)
      OBVIOUS
    <3>3. vap.mode \in Mode \cup {WPA3}
      BY VapTexts
    <3>4. beacon \in Beacon /\ (VapMode(vap) = NoMode <=> beacon = "None")
      BY <1>1, <3>3, ModesOfVap
    <3>5. f = <<<<wpa>>>>
      BY <1>1, <2>9, <3>1, <3>2, Zenon DEF SecurityWrites, WpaLine
    <3>6. t = <<given1>>
      <4>1. t = <<IF VapMode(vap) = NoMode THEN "0" ELSE WpaTold(beacon)>>
        BY <1>1, <2>9, <3>1, Zenon DEF SecurityWrites
      <4>2. QED
        BY <3>2, <3>4, <4>1
    <3>7. WpaAgrees(beacon, wpa, given1)
      BY <3>2, <3>4, WpaOfMode
    <3>8. Writes(s, ap, "wpa", <<<<wpa>>>>, <<beacon>>, <<given1>>, <<"fresh">>, o)
      <4>1. t # <<>>
        BY <3>6
      <4>2. QED
        BY <2>1, <2>2, <2>9, <3>5, <3>6, <4>1
    <3>9. Leads(s, ap, "wpa")
      BY <3>7, <3>8, WpaGiven
    <3>10. QED
      BY <2>3, <2>9, <3>9
  <2>10. CASE name = "wpa_passphrase"
    <3>1. \/ f = <<<<vap.key>>>> /\ t = <<vap.key>>
          \/ f = <<>> /\ t = <<key>>
      BY <2>2, <2>10, VapWritten
    <3>2. r = <<"fresh">>
      BY <2>2, <3>1
    <3>3. CASE f = <<<<vap.key>>>> /\ t = <<vap.key>>
      <4>1. Leads(s, ap, name)
        BY <2>2, <2>10, <3>2, <3>3, LineSays, GivenTo
      <4>2. QED
        BY <2>3, <4>1
    <3>4. CASE f = <<>> /\ t = <<key>>
      <4>1. name \in One \ {"wpa"}
        BY <2>10 DEF One, SedName
      <4>2. Leads(s, ap, name)
        BY <1>1, <1>2, <2>2, <2>10, <3>2, <3>4, <4>1, ToldAgain
      <4>3. QED
        BY <2>3, <4>2
    <3>5. QED
      BY <3>1, <3>3, <3>4
  <2>11. CASE name \in {"wps_state", "ap_pin", "config_methods", "wmm_enabled"}
    <3>1. WpsWrites(ap, vap, name, f, t)
      BY <2>2, <2>11, VapWritten
    <3>2. CASE f = <<>> /\ t = <<>>
      <4>1. CASE o = <<"open">>
        BY <2>2, <2>3, <4>1, Opened
      <4>2. CASE o = <<>>
        <5>1. Leads(s, ap, name)
          BY <2>2, <2>3, <2>11, <3>2, <4>2, Untouched
        <5>2. QED
          BY <2>3, <5>1
      <4>3. \/ Fails(vap)
            \/ name = "ap_pin" /\ vap.pin = ""
            \/ name = "config_methods" /\ vap.methods = ""
        BY <2>11, <3>1, <3>2 DEF WpsWrites
      <4>4. o # <<"sure">>
        <5>1. name \notin Given(vap)
          BY <2>11, <4>3 DEF Given
        <5>2. QED
          BY <1>1, <2>1, <5>1 DEF Noted
      <4>5. o \in {<<>>, <<"open">>, <<"sure">>}
        BY <2>1 DEF Noted
      <4>6. QED
        BY <4>1, <4>2, <4>4, <4>5
    <3>3. CASE name = "wmm_enabled" /\ ~Fails(vap)
      <4>1. name \in VapRpi \ {"ap_isolate"} /\ name \in Given(vap)
        BY <3>3 DEF VapRpi, RpiName, Given
      <4>2. QED
        BY <2>3, <2>5, <3>1, <3>3, <4>1 DEF WpsWrites
    <3>4. CASE \/ name = "wps_state" /\ ~Fails(vap)
               \/ name = "ap_pin" /\ ~Fails(vap) /\ vap.pin # ""
               \/ name = "config_methods" /\ ~Fails(vap) /\ vap.methods # "" /\ Kept(vap.methods)
      <4>1. PICK v : f = <<<<v>>>> /\ t = <<v>>
        BY <3>1, <3>4 DEF WpsWrites
      <4>2. Leads(s, ap, name)
        BY <2>2, <2>11, <4>1, LineSays, GivenTo
      <4>3. QED
        BY <2>3, <4>2
    <3>5. CASE name = "config_methods" /\ ~Fails(vap) /\ vap.methods # "" /\ ~Kept(vap.methods)
      <4>1. name \in not
        BY <1>1, <3>5 DEF NotGiven
      <4>2. o = <<"open">>
        BY <2>1, <4>1 DEF Noted
      <4>3. QED
        BY <2>2, <2>3, <4>2, Opened
    <3>6. (f = <<>> /\ t = <<>>) \/ ~Fails(vap)
      BY <3>1 DEF WpsWrites
    <3>7. /\ name = "ap_pin" /\ vap.pin = "" => f = <<>> /\ t = <<>>
          /\ name = "config_methods" /\ vap.methods = "" => f = <<>> /\ t = <<>>
      BY <3>1 DEF WpsWrites
    <3>8. QED
      BY <2>11, <3>2, <3>3, <3>4, <3>5, <3>6, <3>7
  <2>12. CASE name = "uapsd_advertisement_enabled"
    <3>1. f = <<>> /\ t = <<>>
      BY <2>2, <2>12, VapWritten
    <3>2. o = <<>>
      <4>1. name \notin Given(vap) /\ name \notin NotGiven(vap)
        BY <2>12 DEF Given, NotGiven, Security
      <4>2. QED
        BY <1>1, <2>1, <4>1 DEF Noted
    <3>3. Leads(s, ap, name)
      BY <2>2, <2>3, <2>12, <3>1, <3>2, Untouched
    <3>4. QED
      BY <2>3, <3>3
  <2>13. QED
    BY <2>4, <2>6, <2>7, <2>8, <2>9, <2>10, <2>11, <2>12 DEF Name, SedName, RpiName
<1>4. "wpa" \in Name
  BY DEF Name, SedName
<1>5. Sound(s, ap)
  BY <1>3, <1>4 DEF Sound
<1>6. QED
  BY <1>1, <1>5, Zenon

\* Lines of which none is empty.
NoneEmpty(lines) == \A i \in DOMAIN lines : lines[i] # ""

\* The line of a parameter that is read after a list of commands.
Line(s, ap, name) == First(After(s, "file", ap, name))

\* After a list of commands, the settings of a VAP are read.
Reads(s, ap, vap) ==
    /\ Line(s, ap, "ssid") = vap.ssid
    /\ Line(s, ap, "ignore_broadcast_ssid") = ShowLine(vap)
    /\ Line(s, ap, "wps_state") = WpsLine(vap)
    /\ \A n \in VapRpi : NoneEmpty(After(s, "file", ap, n)) =>
                            Line(s, ap, n) = RpiValue(vap, n)
    /\ After(s, "sec", ap, "wpa") = VapMode(vap).beacon
    /\ VapMode(vap) # NoMode =>
          Line(s, ap, "wpa_key_mgmt") = IF VapMode(vap).auth = "EAP" THEN "WPA-EAP" ELSE "WPA-PSK"
    /\ SetsKey(vap) => Line(s, ap, "wpa_passphrase") = vap.key
    /\ \A n \in Ciphers(VapMode(vap).beacon) : Line(s, ap, n) = vap.encr
    /\ vap.pin # "" => Line(s, ap, "ap_pin") = vap.pin

LEMMA FirstStays ==
    ASSUME NEW S, NEW s \in Seq(S), s # <<>>, NEW v \in S
    PROVE  Append(s, v)[1] = s[1] /\ 1 \in DOMAIN Append(s, v)
<1>1. PICK u : u = Append(s, v)
  OBVIOUS
<1>2. Len(s) \in Nat \ {0} /\ u \in Seq(S) /\ Len(u) = Len(s) + 1
  BY <1>1
<1>3. u[1] = s[1]
  BY <1>1, <1>2
<1>4. 1 \in DOMAIN u
  BY <1>2
<1>5. QED
  BY <1>1, <1>3, <1>4

\* A value that was set is read, unless an empty line is in front of it.
LEMMA RpiLinesRead ==
    ASSUME Filed, NEW ap \in Ap, NEW n \in Name, NEW v \in Text, v # "",
           NoneEmpty(RpiLines(ap, n, v))
    PROVE  First(RpiLines(ap, n, v)) = v
<1>1. PICK s, u : s = file[ap][n] /\ u = RpiLines(ap, n, v)
  OBVIOUS
<1>2. s \in Seq(Text)
  BY <1>1 DEF Filed, Lines
<1>3. CASE s = <<>>
  <2>1. Append(s, v) = <<v>>
    BY <1>3, AppendToNone, Zenon
  <2>2. RpiLines(ap, n, v) = <<v>>
    BY <1>1, <1>3, <2>1 DEF RpiLines, Value
  <2>3. QED
    BY <2>2, LineSays
<1>4. CASE s # <<>> /\ Value(ap, n) = ""
  <2>1. s[1] = "" /\ 1 \in DOMAIN s
    <3>1. Head(s) = s[1] /\ 1 \in DOMAIN s
      BY <1>2, <1>4, SomeLines
    <3>2. QED
      BY <1>1, <1>4, <3>1 DEF Value
  <2>2. u = Append(s, v)
    BY <1>1, <1>4 DEF RpiLines
  <2>3. u[1] = "" /\ 1 \in DOMAIN u
    <3>1. Append(s, v)[1] = s[1] /\ 1 \in DOMAIN Append(s, v)
      BY <1>2, <1>4, FirstStays
    <3>2. QED
      BY <2>1, <2>2, <3>1, Zenon
  <2>4. QED
    BY <1>1, <2>3 DEF NoneEmpty
<1>5. CASE s # <<>> /\ Value(ap, n) # ""
  <2>1. PICK k : k = Len(s)
    OBVIOUS
  <2>2. k \in Nat \ {0} /\ DOMAIN s = 1 .. k
    BY <1>2, <1>5, <2>1, SomeLines
  <2>3. RpiLines(ap, n, v) = Repeat(k, v)
    BY <1>1, <1>5, <2>2 DEF RpiLines, Repeat
  <2>4. First(Repeat(k, v)) = v
    BY <2>2, RepeatSays, Zenon
  <2>5. QED
    BY <2>3, <2>4, Zenon
<1>6. QED
  BY <1>3, <1>4, <1>5

\* What there is after the end of the call.
LEMMA VapAfter ==
    ASSUME Filed, NEW ap \in Ap, NEW vap \in VapSettings, NEW junk \in Junk, NEW name, NEW s,
           s = VapEnd(ap, vap, junk)
    PROVE  \E key, f, t : /\ VapWrites(ap, vap, key, junk, name, f, t)
                          /\ After(s, "file", ap, name) = Over(file[ap][name], f)
                          /\ After(s, "sec", ap, name) = VapMode(vap).beacon
<1>1. PICK key, o, m :
        /\ key = Value(ap, "wpa_passphrase") /\ m = <<VapMode(vap).beacon>>
        /\ o = Noted(name, Given(vap) \ Hidden(ap), NotGiven(vap) \cup (Given(vap) \cap Hidden(ap)))
  OBVIOUS
<1>2. \E f, t : \E r \in {<<>>, <<"fresh">>} :
          /\ Writes(VapEnd(ap, vap, junk), ap, name, f, <<VapMode(vap).beacon>>, t, r, o)
          /\ t # <<>> => r = <<"fresh">>
          /\ VapWrites(ap, vap, key, junk, name, f, t)
  BY <1>1, VapEndWrites
<1>3. PICK f, t, r : Writes(s, ap, name, f, m, t, r, o) /\ VapWrites(ap, vap, key, junk, name, f, t)
  BY <1>1, <1>2, Zenon
<1>4. Leaves(s, ap, name, f, m, t, r, o)
  BY <1>3, AfterWrites
<1>5. Over(sec[ap], m) = VapMode(vap).beacon
  BY <1>1 DEF Over
<1>6. /\ After(s, "file", ap, name) = Over(file[ap][name], f)
      /\ After(s, "sec", ap, name) = VapMode(vap).beacon
  BY <1>4, <1>5, Zenon DEF Leaves
<1>7. QED
  BY <1>3, <1>6

LEMMA VapReads ==
    ASSUME Filed, NEW ap \in Ap, NEW vap \in VapSettings, NEW junk \in Junk, ~Fails(vap)
    PROVE  Reads(VapEnd(ap, vap, junk), ap, vap)
<1>1. PICK s, beacon : s = VapEnd(ap, vap, junk) /\ beacon = VapMode(vap).beacon
  OBVIOUS
<1>2. \A name : \E key, f, t : /\ VapWrites(ap, vap, key, junk, name, f, t)
                               /\ After(s, "file", ap, name) = Over(file[ap][name], f)
                               /\ After(s, "sec", ap, name) = beacon
  BY <1>1, VapAfter
<1>3. \A a, b : Over(a, <<b>>) = b
  BY DEF Over
<1>4. \A v : First(<<v>>) = v
  BY LineSays
<1>5. vap.mode \in Mode \cup {WPA3}
  BY VapTexts
<1>6. /\ VapMode(vap) \in Mode /\ beacon \in Beacon /\ (VapMode(vap) = NoMode <=> beacon = "None")
      /\ VapMode(vap) # NoMode => VapMode(vap).auth \in {"PSK", "EAP"}
  BY <1>1, <1>5, ModesOfVap
<1>7. Line(s, ap, "ssid") = vap.ssid
  <2>1. PICK key, f, t : VapWrites(ap, vap, key, junk, "ssid", f, t)
                         /\ After(s, "file", ap, "ssid") = Over(file[ap]["ssid"], f)
    BY <1>2
  <2>2. f = <<<<vap.ssid>>>>
    BY <2>1, VapWritten DEF NameWrites
  <2>3. QED
    BY <1>3, <1>4, <2>1, <2>2 DEF Line
<1>8. Line(s, ap, "ignore_broadcast_ssid") = ShowLine(vap)
  <2>1. PICK n : n = "ignore_broadcast_ssid"
    OBVIOUS
  <2>2. PICK key, f, t : VapWrites(ap, vap, key, junk, n, f, t)
                         /\ After(s, "file", ap, n) = Over(file[ap][n], f)
    BY <1>2
  <2>3. NameWrites(ap, vap, key, n, f, t)
    BY <2>1, <2>2, VapWritten
  <2>4. f = <<<<ShowLine(vap)>>>>
    BY <2>1, <2>3 DEF NameWrites
  <2>5. QED
    BY <1>3, <1>4, <2>1, <2>2, <2>4 DEF Line
<1>9. Line(s, ap, "wps_state") = WpsLine(vap)
  <2>1. PICK n : n = "wps_state"
    OBVIOUS
  <2>2. PICK key, f, t : VapWrites(ap, vap, key, junk, n, f, t)
                         /\ After(s, "file", ap, n) = Over(file[ap][n], f)
    BY <1>2
  <2>3. WpsWrites(ap, vap, n, f, t)
    BY <2>1, <2>2, VapWritten
  <2>4. f = <<<<WpsLine(vap)>>>>
    BY <2>1, <2>3 DEF WpsWrites
  <2>5. QED
    BY <1>3, <1>4, <2>1, <2>2, <2>4 DEF Line
<1>10. ASSUME NEW n \in VapRpi, NoneEmpty(After(s, "file", ap, n))
       PROVE  Line(s, ap, n) = RpiValue(vap, n)
  <2>1. n \in Name /\ RpiValue(vap, n) \in Text /\ RpiValue(vap, n) # ""
    BY RpiValues DEF VapRpi, Name
  <2>2. PICK key, f, t : VapWrites(ap, vap, key, junk, n, f, t)
                         /\ After(s, "file", ap, n) = Over(file[ap][n], f)
    BY <1>2
  <2>3. f = <<RpiLines(ap, n, RpiValue(vap, n))>>
    <3>1. CASE n \in {"ap_isolate", "max_num_sta", "bss_transition", "rrm_neighbor_report"}
      <4>1. NameWrites(ap, vap, key, n, f, t)
        BY <2>2, <3>1, VapWritten
      <4>2. QED
        BY <3>1, <4>1 DEF NameWrites
    <3>2. CASE n = "ieee80211w"
      <4>1. SecurityWrites(ap, vap, key, junk, n, f, t)
        BY <2>2, <3>2, VapWritten
      <4>2. QED
        BY <3>2, <4>1 DEF SecurityWrites
    <3>3. CASE n = "wmm_enabled"
      <4>1. WpsWrites(ap, vap, n, f, t)
        BY <2>2, <3>3, VapWritten
      <4>2. QED
        BY <3>3, <4>1 DEF WpsWrites
    <3>4. QED
      BY <3>1, <3>2, <3>3 DEF VapRpi, RpiName
  <2>4. PICK lines, v : lines = RpiLines(ap, n, v) /\ v = RpiValue(vap, n)
    OBVIOUS
  <2>5. After(s, "file", ap, n) = lines
    BY <1>3, <2>2, <2>3, <2>4
  <2>6. First(lines) = v
    BY <1>10, <2>1, <2>4, <2>5, RpiLinesRead
  <2>7. QED
    BY <2>4, <2>5, <2>6 DEF Line
<1>11. After(s, "sec", ap, "wpa") = beacon
  BY <1>2
<1>12. VapMode(vap) # NoMode =>
          Line(s, ap, "wpa_key_mgmt") = IF VapMode(vap).auth = "EAP" THEN "WPA-EAP" ELSE "WPA-PSK"
  <2>1. PICK n, v : /\ n = "wpa_key_mgmt"
                    /\ v = IF VapMode(vap).auth = "EAP" THEN "WPA-EAP" ELSE "WPA-PSK"
    OBVIOUS
  <2>2. PICK key, f, t : VapWrites(ap, vap, key, junk, n, f, t)
                         /\ After(s, "file", ap, n) = Over(file[ap][n], f)
    BY <1>2
  <2>3. SecurityWrites(ap, vap, key, junk, n, f, t)
    BY <2>1, <2>2, VapWritten DEF Security
  <2>4. f = KeyLine(VapMode(vap).auth, n)
    BY <2>1, <2>3 DEF SecurityWrites
  <2>5. VapMode(vap) # NoMode => f = <<<<v>>>>
    BY <1>6, <2>1, <2>4 DEF KeyLine, For
  <2>6. QED
    BY <1>3, <1>4, <2>1, <2>2, <2>5 DEF Line
<1>13. SetsKey(vap) => Line(s, ap, "wpa_passphrase") = vap.key
  <2>1. PICK n : n = "wpa_passphrase"
    OBVIOUS
  <2>2. PICK key, f, t : VapWrites(ap, vap, key, junk, n, f, t)
                         /\ After(s, "file", ap, n) = Over(file[ap][n], f)
    BY <1>2
  <2>3. SetsKey(vap) => f = <<<<vap.key>>>>
    BY <2>1, <2>2, VapWritten
  <2>4. QED
    BY <1>3, <1>4, <2>1, <2>2, <2>3 DEF Line
<1>14. ASSUME NEW n \in Ciphers(beacon)
       PROVE  Line(s, ap, n) = vap.encr
  <2>1. n \in {"wpa_pairwise", "rsn_pairwise"}
    BY <1>6, CiphersAre DEF Beacon
  <2>2. PICK key, f, t : VapWrites(ap, vap, key, junk, n, f, t)
                         /\ After(s, "file", ap, n) = Over(file[ap][n], f)
    BY <1>2
  <2>3. SecurityWrites(ap, vap, key, junk, n, f, t)
    BY <2>1, <2>2, VapWritten DEF Security
  <2>4. f = CipherLine(beacon, vap.encr, n)
    BY <1>1, <2>1, <2>3 DEF SecurityWrites
  <2>5. f = <<<<vap.encr>>>>
    BY <1>14, <2>4 DEF CipherLine
  <2>6. QED
    BY <1>3, <1>4, <2>2, <2>5 DEF Line
<1>15. vap.pin # "" => Line(s, ap, "ap_pin") = vap.pin
  <2>1. PICK n : n = "ap_pin"
    OBVIOUS
  <2>2. PICK key, f, t : VapWrites(ap, vap, key, junk, n, f, t)
                         /\ After(s, "file", ap, n) = Over(file[ap][n], f)
    BY <1>2
  <2>3. WpsWrites(ap, vap, n, f, t)
    BY <2>1, <2>2, VapWritten
  <2>4. vap.pin # "" => f = <<<<vap.pin>>>>
    BY <2>1, <2>3 DEF WpsWrites
  <2>5. QED
    BY <1>3, <1>4, <2>1, <2>2, <2>4 DEF Line
<1>16. Reads(s, ap, vap)
  BY <1>1, <1>7, <1>8, <1>9, <1>10, <1>11, <1>12, <1>13, <1>14, <1>15 DEF Reads
<1>17. QED
  BY <1>1, <1>16

-----------------------------------------------------------------------------
(***************************************************************************)
(* The steps of the VAP interface.                                         *)
(***************************************************************************)

\* What is read after two lists, in two states, is the same.
LEMMA ReadsSame ==
    ASSUME NEW s, NEW t, NEW ap \in Ap, NEW vap \in VapSettings, Reads(s, ap, vap),
           \A name \in Name : /\ After(t, "file", ap, name)' = After(s, "file", ap, name)
                              /\ After(t, "sec", ap, name)' = After(s, "sec", ap, name)
    PROVE  Reads(t, ap, vap)'
<1>1. \A name \in Name : Line(t, ap, name)' = Line(s, ap, name)
  BY DEF Line
<1>2. /\ {"ssid", "ignore_broadcast_ssid", "wps_state", "wpa", "wpa_key_mgmt", "wpa_passphrase",
          "ap_pin", "wpa_pairwise", "rsn_pairwise"} \subseteq Name
      /\ VapRpi \subseteq Name
  BY DEF Name, SedName, VapRpi
<1>3. Ciphers(VapMode(vap).beacon) \subseteq {"wpa_pairwise", "rsn_pairwise"}
  <2>1. VapMode(vap).beacon \in Beacon
    BY VapTexts, ModesOfVap
  <2>2. QED
    BY <2>1, CiphersAre DEF Beacon
<1>4. QED
  BY <1>1, <1>2, <1>3 DEF Reads

\* Nothing of the settings is changed.
LEMMA ReadsStay ==
    ASSUME UNCHANGED configVars, NEW s, NEW ap \in Ap, NEW vap \in VapSettings, Reads(s, ap, vap)
    PROVE  Reads(s, ap, vap)'
<1>1. UNCHANGED <<file, sec, told, air, open>>
  BY DEF configVars
<1>2. \A what, q, name : Now(what, q, name)' = Now(what, q, name)
  BY <1>1 DEF Now
<1>3. \A what, q, name : After(s, what, q, name)' = After(s, what, q, name)
  BY <1>2 DEF After, Over
<1>4. QED
  BY <1>3, ReadsSame

\* A command of a list is one step of it.
LEMMA ReadsStep ==
    ASSUME NEW s, Bound(s), s # <<>>, NEW t, t = Tail(s), ConfigStep(Head(s)),
           NEW ap \in Ap, NEW vap \in VapSettings, Reads(s, ap, vap)
    PROVE  Reads(t, ap, vap)'
<1>1. StateTyped /\ s \in Seq(Command)
  BY DEF Bound
<1>2. ASSUME NEW name \in Name
      PROVE  /\ After(t, "file", ap, name)' = After(s, "file", ap, name)
             /\ After(t, "sec", ap, name)' = After(s, "sec", ap, name)
  BY <1>1, StepAfter
<1>3. QED
  BY <1>2, ReadsSame

\* hostapd starts without writing its file.
LEMMA ReadsLoaded ==
    ASSUME HostapdRestarts, NEW ap \in Ap, NEW vap \in VapSettings, Reads(<<>>, ap, vap)
    PROVE  Reads(<<>>, ap, vap)'
<1>1. file' = file /\ sec' = sec
  BY DEF HostapdRestarts
<1>2. \A what, name : /\ After(<<>>, what, ap, name)' = Now(what, ap, name)'
                      /\ After(<<>>, what, ap, name) = Now(what, ap, name)
  BY NetNone DEF After, Over
<1>3. \A name : /\ Now("file", ap, name)' = Now("file", ap, name)
                /\ Now("sec", ap, name)' = Now("sec", ap, name)
  BY <1>1 DEF Now
<1>4. QED
  BY <1>2, <1>3, ReadsSame

\* Commands about another access point.
LEMMA ReadsElsewhere ==
    ASSUME NEW ap, NEW q \in Ap, q # ap, NEW s \in Seq(CommandOf(ap)),
           NEW vap, Reads(<<>>, q, vap)
    PROVE  Reads(s, q, vap)
<1>1. ASSUME NEW name, NEW what
      PROVE  After(s, what, q, name) = After(<<>>, what, q, name)
  BY ElsewhereSame
<1>2. \A name : Line(s, q, name) = Line(<<>>, q, name)
  BY <1>1 DEF Line
<1>3. QED
  BY <1>1, <1>2, Zenon DEF Reads

\* An access point that is disabled keeps its settings.
LEMMA DisabledReads ==
    ASSUME NEW s, NEW ap, NEW vap \in VapSettings, Reads(s, ap, vap), NEW off,
           off = [vap EXCEPT !.enabled = FALSE]
    PROVE  off \in VapSettings /\ off.enabled = FALSE /\ Reads(s, ap, off)
<1>1. /\ off \in VapSettings /\ off.enabled = FALSE
      /\ off.ssid = vap.ssid /\ off.showSsid = vap.showSsid /\ off.wps = vap.wps
      /\ off.isolation = vap.isolation /\ off.bssMaxSta = vap.bssMaxSta
      /\ off.transition = vap.transition /\ off.neighbor = vap.neighbor
      /\ off.mfp = vap.mfp /\ off.wmm = vap.wmm /\ off.mode = vap.mode
      /\ off.key = vap.key /\ off.encr = vap.encr /\ off.pin = vap.pin
  BY DEF VapSettings
<1>2. /\ ShowLine(off) = ShowLine(vap) /\ WpsLine(off) = WpsLine(vap) /\ VapMode(off) = VapMode(vap)
      /\ SetsKey(off) <=> SetsKey(vap)
      /\ Limit(off) = Limit(vap)
  BY <1>1 DEF ShowLine, WpsLine, VapMode, SetsKey, Limit
<1>3. \A n \in VapRpi : RpiValue(off, n) = RpiValue(vap, n)
  BY <1>1, <1>2 DEF RpiValue, VapRpi, RpiName
<1>4. Reads(s, ap, off)
  BY <1>1, <1>2, <1>3 DEF Reads
<1>5. QED
  BY <1>1, <1>4

\* What is read between the calls.
ReadsBack(ap, vap) ==
    LET read == ReadVap(ap) IN
    /\ \A name \in {"enabled", "ssid", "showSsid", "wps"} : read[name] = vap[name]
    /\ \A name \in DOMAIN Parameter : Parameter[name] \notin Hidden(ap) =>
            read[name] = IF name = "bssMaxSta" THEN Limit(vap) ELSE vap[name]
    /\ read.mode = IF vap.mode \in Mode THEN vap.mode ELSE NoMode
    /\ SetsKey(vap) => read.key = vap.key
    /\ vap.mode \in Mode \ {NoMode} =>
            read.encr = IF vap.encr = "TKIP CCMP" THEN "CCMP" ELSE vap.encr
    /\ vap.pin # "" => read.pin = vap.pin

LEMMA ModeRead ==
    ASSUME NEW ap \in Ap, NEW mode \in Mode, sec[ap] = mode.beacon,
           mode # NoMode =>
              Value(ap, "wpa_key_mgmt") = IF mode.auth = "EAP" THEN "WPA-EAP" ELSE "WPA-PSK"
    PROVE  SecurityMode(ap) = mode
<1>1. CASE mode = NoMode
  BY <1>1 DEF SecurityMode, NoMode
<1>2. CASE mode # NoMode
  <2>1. mode \in [beacon : {"WPA", "11i", "WPAand11i"}, auth : {"PSK", "EAP"}]
    BY <1>2 DEF Mode
  <2>2. mode.auth \in {"PSK", "EAP"} /\ mode.beacon # "None"
    BY <2>1
  <2>3. mode = [beacon |-> mode.beacon, auth |-> mode.auth]
    BY <2>1
  <2>4. (IF Value(ap, "wpa_key_mgmt") = "WPA-EAP" THEN "EAP" ELSE "PSK") = mode.auth
    BY <1>2, <2>2
  <2>5. SecurityMode(ap) = [beacon |-> mode.beacon, auth |-> mode.auth]
    BY <2>2, <2>4 DEF SecurityMode
  <2>6. QED
    BY <2>3, <2>5
<1>3. QED
  BY <1>1, <1>2

LEMMA ReadsAtRest ==
    ASSUME Filed, NEW ap \in Ap, NEW vap \in VapSettings, Reads(<<>>, ap, vap),
           flag[ap] = vap.enabled
    PROVE  ReadsBack(ap, vap)
<1>1. \A name : /\ Line(<<>>, ap, name) = Value(ap, name)
                /\ After(<<>>, "sec", ap, name) = sec[ap]
                /\ After(<<>>, "file", ap, name) = file[ap][name]
  <2>1. ASSUME NEW name
        PROVE  /\ After(<<>>, "sec", ap, name) = sec[ap]
               /\ After(<<>>, "file", ap, name) = file[ap][name]
    BY AfterNone
  <2>2. \A name : First(file[ap][name]) = Value(ap, name)
    BY Zenon DEF First, Value
  <2>3. QED
    BY <2>1, <2>2, Zenon DEF Line
<1>2. vap.mode \in Mode \cup {WPA3} /\ vap.encr \in Encryption
      /\ vap.showSsid \in BOOLEAN /\ vap.isolation \in BOOLEAN
      /\ vap.transition \in BOOLEAN /\ vap.neighbor \in BOOLEAN
      /\ vap.wps \in BOOLEAN /\ vap.wmm \in BOOLEAN
  BY VapTexts
<1>3. PICK mode : mode = VapMode(vap)
  OBVIOUS
<1>4. /\ mode \in Mode /\ mode.beacon \in Beacon /\ (mode = NoMode <=> mode.beacon = "None")
      /\ mode = IF vap.mode \in Mode THEN vap.mode ELSE NoMode
  BY <1>2, <1>3, ModesOfVap DEF VapMode
<1>5. PICK read : read = ReadVap(ap)
  OBVIOUS
<1>6. /\ read.enabled = flag[ap] /\ read.ssid = Value(ap, "ssid")
      /\ read.showSsid = (Value(ap, "ignore_broadcast_ssid") # "1")
      /\ read.isolation = (Value(ap, "ap_isolate") = "1")
      /\ read.bssMaxSta = Value(ap, "max_num_sta")
      /\ read.transition = (Value(ap, "bss_transition") = "1")
      /\ read.neighbor = (Value(ap, "rrm_neighbor_report") = "1")
      /\ read.mfp = Value(ap, "ieee80211w") /\ read.mode = SecurityMode(ap)
      /\ read.encr = ReadEncryption(ap) /\ read.key = Value(ap, "wpa_passphrase")
      /\ read.wps = (Value(ap, "wps_state") # "0") /\ read.pin = Value(ap, "ap_pin")
      /\ read.wmm = (Value(ap, "wmm_enabled") = "1")
  BY <1>5 DEF ReadVap, ReadSecurity, ReadWps
<1>7. read.ssid = vap.ssid /\ read.enabled = vap.enabled
  BY <1>1, <1>6 DEF Reads
<1>8. read.showSsid = vap.showSsid
  <2>1. Value(ap, "ignore_broadcast_ssid") = IF vap.showSsid THEN "0" ELSE "1"
    BY <1>1 DEF Reads, ShowLine
  <2>2. QED
    BY <1>2, <1>6, <2>1
<1>9. read.wps = vap.wps
  <2>1. Value(ap, "wps_state") = IF vap.wps THEN "2" ELSE "0"
    BY <1>1 DEF Reads, WpsLine
  <2>2. QED
    BY <1>2, <1>6, <2>1
<1>10. ASSUME NEW n \in VapRpi, n \notin Hidden(ap)
       PROVE  Value(ap, n) = RpiValue(vap, n)
  <2>1. NoneEmpty(file[ap][n])
    BY <1>10 DEF NoneEmpty, Hidden, VapRpi
  <2>2. QED
    BY <1>1, <2>1 DEF Reads
<1>11. ASSUME NEW name \in DOMAIN Parameter, Parameter[name] \notin Hidden(ap)
       PROVE  read[name] = IF name = "bssMaxSta" THEN Limit(vap) ELSE vap[name]
  <2>1. name \in {"isolation", "bssMaxSta", "transition", "neighbor", "mfp", "wmm"}
    BY DEF Parameter
  <2>2. \A b \in BOOLEAN : (Flag(b) = "1") = b
    BY DEF Flag
  <2>3. CASE name = "isolation"
    <3>1. Parameter[name] = "ap_isolate" /\ "ap_isolate" \in VapRpi
      BY <2>3 DEF Parameter, VapRpi, RpiName
    <3>2. Value(ap, "ap_isolate") = Flag(vap.isolation)
      BY <1>10, <1>11, <3>1 DEF RpiValue
    <3>3. QED
      BY <1>2, <1>6, <2>2, <2>3, <3>2
  <2>4. CASE name = "bssMaxSta"
    <3>1. Parameter[name] = "max_num_sta" /\ "max_num_sta" \in VapRpi
      BY <2>4 DEF Parameter, VapRpi, RpiName
    <3>2. Value(ap, "max_num_sta") = Limit(vap)
      BY <1>10, <1>11, <3>1 DEF RpiValue
    <3>3. QED
      BY <1>6, <2>4, <3>2
  <2>5. CASE name = "transition"
    <3>1. Parameter[name] = "bss_transition" /\ "bss_transition" \in VapRpi
      BY <2>5 DEF Parameter, VapRpi, RpiName
    <3>2. Value(ap, "bss_transition") = Flag(vap.transition)
      BY <1>10, <1>11, <3>1 DEF RpiValue
    <3>3. QED
      BY <1>2, <1>6, <2>2, <2>5, <3>2
  <2>6. CASE name = "neighbor"
    <3>1. Parameter[name] = "rrm_neighbor_report" /\ "rrm_neighbor_report" \in VapRpi
      BY <2>6 DEF Parameter, VapRpi, RpiName
    <3>2. Value(ap, "rrm_neighbor_report") = Flag(vap.neighbor)
      BY <1>10, <1>11, <3>1 DEF RpiValue
    <3>3. QED
      BY <1>2, <1>6, <2>2, <2>6, <3>2
  <2>7. CASE name = "mfp"
    <3>1. Parameter[name] = "ieee80211w" /\ "ieee80211w" \in VapRpi
      BY <2>7 DEF Parameter, VapRpi, RpiName
    <3>2. Value(ap, "ieee80211w") = vap.mfp
      BY <1>10, <1>11, <3>1 DEF RpiValue
    <3>3. QED
      BY <1>6, <2>7, <3>2
  <2>8. CASE name = "wmm"
    <3>1. Parameter[name] = "wmm_enabled" /\ "wmm_enabled" \in VapRpi
      BY <2>8 DEF Parameter, VapRpi, RpiName
    <3>2. Value(ap, "wmm_enabled") = Flag(vap.wmm)
      BY <1>10, <1>11, <3>1 DEF RpiValue
    <3>3. QED
      BY <1>2, <1>6, <2>2, <2>8, <3>2
  <2>9. QED
    BY <2>1, <2>3, <2>4, <2>5, <2>6, <2>7, <2>8
<1>12. sec[ap] = mode.beacon
  BY <1>1, <1>3 DEF Reads
<1>13. read.mode = mode
  <2>1. mode # NoMode =>
           Value(ap, "wpa_key_mgmt") = IF mode.auth = "EAP" THEN "WPA-EAP" ELSE "WPA-PSK"
    BY <1>1, <1>3 DEF Reads
  <2>2. QED
    BY <1>4, <1>6, <1>12, <2>1, ModeRead
<1>14. SetsKey(vap) => read.key = vap.key
  BY <1>1, <1>6 DEF Reads
<1>15. vap.pin # "" => read.pin = vap.pin
  BY <1>1, <1>6 DEF Reads
<1>16. ASSUME vap.mode \in Mode \ {NoMode}
       PROVE  read.encr = IF vap.encr = "TKIP CCMP" THEN "CCMP" ELSE vap.encr
  <2>1. mode.beacon \in {"WPA", "11i", "WPAand11i"}
    BY <1>4, <1>16 DEF Beacon
  <2>2. PICK n : n = IF sec[ap] \in {"WPAand11i", "11i"} THEN "rsn_pairwise" ELSE "wpa_pairwise"
    OBVIOUS
  <2>3. n \in Ciphers(mode.beacon)
    BY <1>12, <2>1, <2>2, CiphersAre
  <2>4. Value(ap, n) = vap.encr
    BY <1>1, <1>3, <2>3 DEF Reads
  <2>5. ReadEncryption(ap) = IF Value(ap, n) = "TKIP CCMP" THEN "CCMP" ELSE Value(ap, n)
    BY <2>2, Zenon DEF ReadEncryption
  <2>6. QED
    BY <1>6, <2>4, <2>5
<1>17. \A name \in {"enabled", "ssid", "showSsid", "wps"} : read[name] = vap[name]
  BY <1>7, <1>8, <1>9
<1>18. QED
  BY <1>4, <1>5, <1>11, <1>13, <1>14, <1>15, <1>16, <1>17, Zenon DEF ReadsBack

\* The flags of the access points once the flag of a call, if it is still left, is written.
Flagging(u, flags) ==
    \/ u = <<>> /\ flags = flag
    \/ \E ap \in Ap, up \in BOOLEAN :
          u = <<VapFlag(ap, up)>> /\ flags = [flag EXCEPT ![ap] = up]

\* What a call will have taken, and what the last ones took: it is read.
WillTake(w, s, flags) ==
    \/ w = <<>>
    \/ \E ap \in Ap, vap \in VapSettings :
          w = <<Taken(ap, vap)>> /\ Reads(s, ap, vap) /\ flags[ap] = vap.enabled

HasTaken(s, flags) ==
    \A ap \in Ap : \A vap \in taken[ap] :
        vap \in VapSettings /\ Reads(s, ap, vap) /\ flags[ap] = vap.enabled

\* What is left: the flag u, commands s of setters, and the note w.
VapLeft(u, s, w, flags) ==
    /\ Bound(s) /\ todo = u \o (s \o w)
    /\ flags \in [Ap -> BOOLEAN]
    /\ Flagging(u, flags) /\ WillTake(w, s, flags) /\ HasTaken(s, flags)

VapInv ==
    /\ flag \in [Ap -> BOOLEAN] /\ DOMAIN taken = Ap /\ taken = [ap \in Ap |-> taken[ap]]
    /\ \E u, s, w, flags : VapLeft(u, s, w, flags)

\* The first command of the three parts, and the others.
LEMMA VapLists ==
    ASSUME NEW S, NEW s \in Seq(S), NEW w, w = <<>> \/ \E c : w = <<c>>
    PROVE  /\ <<>> \o (s \o w) = s \o w
           /\ \A c : /\ <<c>> \o (s \o w) # <<>> /\ Head(<<c>> \o (s \o w)) = c
                     /\ Tail(<<c>> \o (s \o w)) = s \o w
           /\ s # <<>> => /\ s \o w # <<>> /\ Head(s \o w) = Head(s)
                          /\ Tail(s \o w) = Tail(s) \o w /\ Head(s) \in S
           /\ s = <<>> => s \o w = w
<1>1. PICK T, d : d = s \o w /\ d \in Seq(T)
  <2>1. CASE w = <<>>
    <3>1. s \o w \in Seq(S)
      BY <2>1
    <3>2. QED
      BY <3>1
  <2>2. ASSUME NEW c, w = <<c>>
        PROVE  \E T : s \o w \in Seq(T)
    <3>1. s \in Seq(S \cup {c}) /\ w \in Seq(S \cup {c})
      <4>1. \A A, B : A \subseteq B => Seq(A) \subseteq Seq(B)
        OBVIOUS
      <4>2. w \in Seq(S \cup {c})
        BY <2>2
      <4>3. QED
        BY <4>1, <4>2
    <3>2. s \o w \in Seq(S \cup {c})
      BY <3>1
    <3>3. QED
      BY <3>2
  <2>3. QED
    BY <2>1, <2>2
<1>2. <<>> \o d = d
  BY <1>1
<1>3. \A c : <<c>> \o d # <<>> /\ Head(<<c>> \o d) = c /\ Tail(<<c>> \o d) = d
  <2>1. ASSUME NEW c
        PROVE  <<c>> \o d # <<>> /\ Head(<<c>> \o d) = c /\ Tail(<<c>> \o d) = d
    BY <1>1, Preceded
  <2>2. QED
    BY <2>1
<1>4. CASE w = <<>>
  <2>1. d = s
    BY <1>1, <1>4
  <2>2. s # <<>> => Head(s) \in S /\ Tail(s) \in Seq(S)
    BY HeadTail
  <2>3. s # <<>> => Tail(s) \o w = Tail(s)
    BY <1>4, <2>2
  <2>4. s # <<>> => d # <<>> /\ Head(d) = Head(s) /\ Tail(d) = Tail(s) \o w /\ Head(s) \in S
    BY <2>1, <2>2, <2>3
  <2>5. s = <<>> => d = w
    BY <1>4, <2>1
  <2>6. QED
    BY <1>1, <1>2, <1>3, <2>4, <2>5, Zenon
<1>5. ASSUME NEW c, w = <<c>>
      PROVE  /\ s # <<>> => /\ d # <<>> /\ Head(d) = Head(s)
                            /\ Tail(d) = Tail(s) \o w /\ Head(s) \in S
             /\ s = <<>> => d = w
  <2>1. s # <<>> => Head(s) \in S
    BY HeadTail
  <2>2. /\ s # <<>> => /\ s \o <<c>> # <<>> /\ Head(s \o <<c>>) = Head(s)
                       /\ Tail(s \o <<c>>) = Tail(s) \o <<c>>
        /\ s = <<>> => s \o <<c>> = <<c>>
    BY Followed
  <2>3. QED
    BY <1>1, <1>5, <2>1, <2>2, Zenon
<1>6. QED
  BY <1>1, <1>2, <1>3, <1>4, <1>5, Zenon

\* The parts of what is left are lists.
LEMMA VapLeftParts ==
    ASSUME NEW u, NEW s, NEW w, NEW flags, VapLeft(u, s, w, flags)
    PROVE  /\ s \in Seq(Command)
           /\ w = <<>> \/ \E c : w = <<c>>
           /\ u = <<>> \/ \E c : u = <<c>>
<1>1. s \in Seq(Command)
  BY DEF VapLeft, Bound
<1>2. w = <<>> \/ \E c : w = <<c>>
  BY Zenon DEF VapLeft, WillTake
<1>3. u = <<>> \/ \E c : u = <<c>>
  BY Zenon DEF VapLeft, Flagging
<1>4. QED
  BY <1>1, <1>2, <1>3

\* The first command that is left.
LEMMA VapSetterCommand ==
    ASSUME VapCommand, Head(todo) \in Command
    PROVE  ConfigStep(Head(todo)) /\ todo' = Tail(todo) /\ flag' = flag /\ taken' = taken
<1>1. Head(todo).do \in {"file", "replace", "sec", "told", "restart", "return"}
  BY CommandParts
<1>2. QED
  BY <1>1 DEF VapCommand, vapVars

LEMMA VapFlagCommand ==
    ASSUME VapCommand, NEW ap, NEW up, Head(todo) = VapFlag(ap, up)
    PROVE  /\ flag' = [flag EXCEPT ![ap] = up]
           /\ todo' = Tail(todo) /\ UNCHANGED configVars /\ taken' = taken
<1>1. Head(todo).do = "enable" /\ Head(todo).ap = ap /\ Head(todo).to = up
  BY DEF VapFlag
<1>2. QED
  BY <1>1 DEF VapCommand, ConfigStep

LEMMA TakenCommand ==
    ASSUME VapCommand, NEW ap, NEW vap, Head(todo) = Taken(ap, vap)
    PROVE  /\ taken' = [taken EXCEPT ![ap] = {vap}]
           /\ todo' = Tail(todo) /\ UNCHANGED configVars /\ flag' = flag
<1>1. Head(todo).do = "taken" /\ Head(todo).ap = ap /\ Head(todo).to = vap
  BY DEF Taken
<1>2. QED
  BY <1>1 DEF VapCommand, ConfigStep

\* Nothing changes but the commands that are left and the flags.
LEMMA LeftStays ==
    ASSUME UNCHANGED configVars, taken' = taken, NEW s, NEW w, NEW flags,
           Bound(s), WillTake(w, s, flags), HasTaken(s, flags)
    PROVE  Bound(s)' /\ WillTake(w, s, flags)' /\ HasTaken(s, flags)'
<1>1. Bound(s)'
  BY BoundStays
<1>2. \A ap \in Ap, vap \in VapSettings : Reads(s, ap, vap) => Reads(s, ap, vap)'
  BY ReadsStay
<1>3. WillTake(w, s, flags)'
  BY <1>2 DEF WillTake
<1>4. HasTaken(s, flags)'
  BY <1>2 DEF HasTaken
<1>5. QED
  BY <1>1, <1>3, <1>4

LEMMA VapCommandStep ==
    ASSUME VapInv, VapCommand
    PROVE  VapInv'
<1>1. PICK u, s, w, flags : VapLeft(u, s, w, flags)
  BY DEF VapInv
<1>2. /\ Bound(s) /\ todo = u \o (s \o w) /\ flags \in [Ap -> BOOLEAN]
      /\ Flagging(u, flags) /\ WillTake(w, s, flags) /\ HasTaken(s, flags)
  BY <1>1 DEF VapLeft
<1>3. s \in Seq(Command) /\ (w = <<>> \/ \E c : w = <<c>>)
  BY <1>1, VapLeftParts
<1>4. PICK d : d = s \o w
  OBVIOUS
<1>5. /\ <<>> \o d = d
      /\ \A c : <<c>> \o d # <<>> /\ Head(<<c>> \o d) = c /\ Tail(<<c>> \o d) = d
      /\ s # <<>> => /\ d # <<>> /\ Head(d) = Head(s)
                     /\ Tail(d) = Tail(s) \o w /\ Head(s) \in Command
      /\ s = <<>> => d = w
  <2>1. /\ <<>> \o (s \o w) = s \o w
        /\ \A c : /\ <<c>> \o (s \o w) # <<>> /\ Head(<<c>> \o (s \o w)) = c
                  /\ Tail(<<c>> \o (s \o w)) = s \o w
        /\ s # <<>> => /\ s \o w # <<>> /\ Head(s \o w) = Head(s)
                       /\ Tail(s \o w) = Tail(s) \o w /\ Head(s) \in Command
        /\ s = <<>> => s \o w = w
    BY <1>3, VapLists
  <2>2. QED
    BY <1>4, <2>1, Zenon
<1>6. /\ todo # <<>> /\ flag \in [Ap -> BOOLEAN]
      /\ DOMAIN taken = Ap /\ taken = [ap \in Ap |-> taken[ap]]
  BY DEF VapCommand, VapInv
<1>7. \A t, v : t \in Seq(Command) /\ (v = <<>> \/ \E c : v = <<c>>) => <<>> \o (t \o v) = t \o v
  <2>1. ASSUME NEW t, NEW v, t \in Seq(Command), v = <<>> \/ \E c : v = <<c>>
        PROVE  <<>> \o (t \o v) = t \o v
    BY <2>1, VapLists
  <2>2. QED
    BY <2>1
<1>8. ASSUME NEW ap \in Ap, NEW up \in BOOLEAN, u = <<VapFlag(ap, up)>>,
             flags = [flag EXCEPT ![ap] = up]
      PROVE  VapInv'
  <2>1. Head(todo) = VapFlag(ap, up) /\ Tail(todo) = d
    BY <1>2, <1>4, <1>5, <1>8
  <2>2. /\ flag' = flags /\ todo' = d /\ UNCHANGED configVars /\ taken' = taken
    BY <1>8, <2>1, VapFlagCommand
  <2>3. Bound(s)' /\ WillTake(w, s, flags)' /\ HasTaken(s, flags)'
    BY <1>2, <2>2, LeftStays
  <2>4. todo' = <<>> \o (s \o w)
    BY <1>4, <1>5, <2>2
  <2>5. VapLeft(<<>>, s, w, flags)'
    BY <1>2, <2>2, <2>3, <2>4 DEF VapLeft, Flagging
  <2>6. QED
    BY <1>2, <1>6, <2>2, <2>5 DEF VapInv
<1>9. ASSUME u = <<>>, flags = flag, s # <<>>
      PROVE  VapInv'
  <2>1. PICK t : t = Tail(s)
    OBVIOUS
  <2>2. todo = d
    BY <1>2, <1>4, <1>5, <1>9
  <2>3. Head(todo) = Head(s) /\ Tail(todo) = t \o w /\ Head(s) \in Command
    BY <1>5, <1>9, <2>1, <2>2
  <2>4. ConfigStep(Head(s)) /\ todo' = t \o w /\ flag' = flag /\ taken' = taken
    BY <2>3, VapSetterCommand
  <2>5. Bound(t)'
    BY <1>2, <1>9, <2>1, <2>4, StepBound
  <2>6. \A ap \in Ap, vap \in VapSettings : Reads(s, ap, vap) => Reads(t, ap, vap)'
    BY <1>2, <1>9, <2>1, <2>4, ReadsStep
  <2>7. WillTake(w, t, flags)'
    BY <1>2, <2>6 DEF WillTake
  <2>8. HasTaken(t, flags)'
    BY <1>2, <2>4, <2>6 DEF HasTaken
  <2>9. todo' = <<>> \o (t \o w)
    <3>1. t \in Seq(Command)
      BY <1>3, <1>9, <2>1, HeadTail
    <3>2. QED
      BY <1>3, <1>7, <2>4, <3>1
  <2>10. VapLeft(<<>>, t, w, flags)'
    BY <1>2, <1>9, <2>4, <2>5, <2>7, <2>8, <2>9 DEF VapLeft, Flagging
  <2>11. QED
    BY <1>6, <2>4, <2>10 DEF VapInv
<1>10. ASSUME u = <<>>, flags = flag, s = <<>>
       PROVE  VapInv'
  <2>1. todo = w
    BY <1>2, <1>4, <1>5, <1>10
  <2>2. PICK ap \in Ap, vap \in VapSettings :
          w = <<Taken(ap, vap)>> /\ Reads(<<>>, ap, vap) /\ flags[ap] = vap.enabled
    BY <1>2, <1>6, <1>10, <2>1 DEF WillTake
  <2>3. Head(todo) = Taken(ap, vap) /\ Tail(todo) = <<>>
    BY <2>1, <2>2, ListParts
  <2>4. /\ taken' = [taken EXCEPT ![ap] = {vap}]
        /\ todo' = <<>> /\ UNCHANGED configVars /\ flag' = flag
    BY <2>3, TakenCommand
  <2>5. /\ DOMAIN taken' = Ap /\ taken' = [q \in Ap |-> taken'[q]]
        /\ \A q \in Ap : taken'[q] = IF q = ap THEN {vap} ELSE taken[q]
    <3>1. PICK f, g, v : f = taken /\ g = taken' /\ v = {vap}
      OBVIOUS
    <3>2. /\ DOMAIN g = Ap /\ g = [q \in Ap |-> g[q]]
          /\ \A q \in Ap : g[q] = IF q = ap THEN v ELSE f[q]
      BY <1>6, <2>4, <3>1
    <3>3. QED
      BY <3>1, <3>2, Zenon
  <2>6. Bound(<<>>)'
    BY <1>2, <1>10, <2>4, BoundStays
  <2>7. \A q \in Ap, t \in VapSettings : Reads(<<>>, q, t) => Reads(<<>>, q, t)'
    BY <2>4, ReadsStay
  <2>8. HasTaken(<<>>, flags)'
    <3>1. ASSUME NEW q \in Ap, NEW t \in taken'[q]
          PROVE  t \in VapSettings /\ Reads(<<>>, q, t)' /\ flags[q] = t.enabled
      <4>1. CASE q = ap
        BY <2>2, <2>5, <2>7, <4>1
      <4>2. CASE q # ap
        BY <1>2, <1>10, <2>5, <2>7, <4>2 DEF HasTaken
      <4>3. QED
        BY <4>1, <4>2
    <3>2. QED
      BY <3>1 DEF HasTaken
  <2>9. todo' = <<>> \o (<<>> \o <<>>)
    BY <2>4
  <2>10. VapLeft(<<>>, <<>>, <<>>, flags)'
    BY <1>2, <1>10, <2>4, <2>6, <2>8, <2>9 DEF VapLeft, Flagging, WillTake
  <2>11. QED
    BY <1>6, <2>4, <2>5, <2>10 DEF VapInv
<1>11. QED
  BY <1>2, <1>8, <1>9, <1>10 DEF Flagging

\* Between the calls nothing is left.
LEMMA VapAtRest ==
    ASSUME VapInv, todo = <<>>
    PROVE  Bound(<<>>) /\ HasTaken(<<>>, flag)
<1>1. PICK u, s, w, flags : VapLeft(u, s, w, flags)
  BY DEF VapInv
<1>2. /\ Bound(s) /\ u \o (s \o w) = <<>> /\ Flagging(u, flags) /\ HasTaken(s, flags)
  BY <1>1 DEF VapLeft
<1>3. s \in Seq(Command) /\ (w = <<>> \/ \E c : w = <<c>>)
  BY <1>1, VapLeftParts
<1>4. /\ \A c : <<c>> \o (s \o w) # <<>>
      /\ <<>> \o (s \o w) = s \o w
      /\ s # <<>> => s \o w # <<>>
  BY <1>3, VapLists
<1>5. u = <<>> /\ flags = flag
  BY <1>2, <1>4 DEF Flagging
<1>6. s = <<>>
  BY <1>2, <1>4, <1>5
<1>7. QED
  BY <1>2, <1>5, <1>6

\* A call begins.
LEMMA CreateVapStep ==
    ASSUME VapInv, NEW ap \in Ap, NEW vap \in Vap, NEW junk \in Junk, CreateVap(ap, vap, junk)
    PROVE  VapInv'
<1>1. /\ todo = <<>> /\ UNCHANGED configVars /\ flag' = flag
      /\ todo' = <<VapFlag(ap, vap.enabled)>>
                 \o IF vap.enabled THEN VapCommands(ap, vap, junk) ELSE <<>>
      /\ taken' = [taken EXCEPT ![ap] = IF vap.enabled THEN {}
                                        ELSE {[t EXCEPT !.enabled = FALSE] : t \in @}]
  BY DEF CreateVap, Call
<1>2. Bound(<<>>) /\ HasTaken(<<>>, flag)
  BY <1>1, VapAtRest
<1>3. Settled /\ Filed
  BY <1>2, BetweenCalls DEF Settled
<1>4. vap \in VapSettings /\ vap.enabled \in BOOLEAN
  BY VapAssumption, VapTexts
<1>5. /\ flag \in [Ap -> BOOLEAN]
      /\ DOMAIN taken = Ap /\ taken = [q \in Ap |-> taken[q]]
  BY DEF VapInv
<1>6. PICK flags : flags = [flag EXCEPT ![ap] = vap.enabled]
  OBVIOUS
<1>7. /\ flags \in [Ap -> BOOLEAN] /\ flags[ap] = vap.enabled
      /\ \A q \in Ap : q # ap => flags[q] = flag[q]
  BY <1>4, <1>5, <1>6
<1>8. /\ DOMAIN taken' = Ap /\ taken' = [q \in Ap |-> taken'[q]]
      /\ taken'[ap] = IF vap.enabled THEN {} ELSE {[t EXCEPT !.enabled = FALSE] : t \in taken[ap]}
      /\ \A q \in Ap : q # ap => taken'[q] = taken[q]
  <2>1. PICK f, g, v : /\ f = taken /\ g = taken'
                       /\ v = IF vap.enabled THEN {}
                              ELSE {[t EXCEPT !.enabled = FALSE] : t \in f[ap]}
    OBVIOUS
  <2>2. g = [f EXCEPT ![ap] = v]
    BY <1>1, <2>1
  <2>3. /\ DOMAIN g = Ap /\ g = [q \in Ap |-> g[q]] /\ g[ap] = v
        /\ \A q \in Ap : q # ap => g[q] = f[q]
    BY <1>5, <2>1, <2>2
  <2>4. QED
    BY <2>1, <2>3, Zenon
<1>9. Flagging(<<VapFlag(ap, vap.enabled)>>, flags)'
  BY <1>1, <1>4, <1>6 DEF Flagging
<1>10. \A s : \A q \in Ap, t \in VapSettings : Reads(s, q, t) => Reads(s, q, t)'
  BY <1>1, ReadsStay
<1>11. CASE vap.enabled
  <2>1. PICK s, w : s = VapEnd(ap, vap, junk) /\ w = When(~Fails(vap), <<Taken(ap, vap)>>)
    OBVIOUS
  <2>2. Sound(s, ap)
    BY <1>3, <1>4, <2>1, VapLeads
  <2>3. Bound(s) /\ s \in Seq(CommandOf(ap))
    BY <1>2, <2>2, CallBound DEF Sound
  <2>4. Bound(s)'
    BY <1>1, <2>3, BoundStays
  <2>5. WillTake(w, s, flags)'
    <3>1. CASE Fails(vap)
      <4>1. w = <<>>
        BY <2>1, <3>1 DEF When
      <4>2. QED
        BY <4>1 DEF WillTake
    <3>2. CASE ~Fails(vap)
      <4>1. w = <<Taken(ap, vap)>>
        BY <2>1, <3>2 DEF When
      <4>2. Reads(s, ap, vap)
        BY <1>3, <1>4, <2>1, <3>2, VapReads
      <4>3. Reads(s, ap, vap)'
        BY <1>4, <1>10, <4>2
      <4>4. QED
        BY <1>4, <1>7, <4>1, <4>3 DEF WillTake
    <3>3. QED
      BY <3>1, <3>2
  <2>6. HasTaken(s, flags)'
    <3>1. ASSUME NEW q \in Ap, NEW t \in taken'[q]
          PROVE  t \in VapSettings /\ Reads(s, q, t)' /\ flags[q] = t.enabled
      <4>1. q # ap /\ t \in taken[q]
        BY <1>8, <1>11, <3>1
      <4>2. t \in VapSettings /\ Reads(<<>>, q, t) /\ flag[q] = t.enabled
        BY <1>2, <4>1 DEF HasTaken
      <4>3. Reads(s, q, t)
        BY <2>3, <4>1, <4>2, ReadsElsewhere
      <4>4. QED
        BY <1>7, <1>10, <4>1, <4>2, <4>3
    <3>2. QED
      BY <3>1 DEF HasTaken
  <2>7. todo' = <<VapFlag(ap, vap.enabled)>> \o (s \o w)
    <3>1. VapCommands(ap, vap, junk) = s \o w
      BY <2>1, Zenon DEF VapCommands, VapEnd
    <3>2. QED
      BY <1>1, <1>11, <3>1, Zenon
  <2>8. VapLeft(<<VapFlag(ap, vap.enabled)>>, s, w, flags)'
    BY <1>7, <1>9, <2>4, <2>5, <2>6, <2>7 DEF VapLeft
  <2>9. QED
    BY <1>1, <1>5, <1>8, <2>8 DEF VapInv
<1>12. CASE ~vap.enabled
  <2>1. Bound(<<>>)'
    BY <1>1, <1>2, BoundStays
  <2>2. HasTaken(<<>>, flags)'
    <3>1. ASSUME NEW q \in Ap, NEW t \in taken'[q]
          PROVE  t \in VapSettings /\ Reads(<<>>, q, t)' /\ flags[q] = t.enabled
      <4>1. CASE q = ap
        <5>1. PICK was \in taken[ap] : t = [was EXCEPT !.enabled = FALSE]
          BY <1>8, <1>12, <3>1, <4>1
        <5>2. was \in VapSettings /\ Reads(<<>>, ap, was)
          BY <1>2, <5>1 DEF HasTaken
        <5>3. t \in VapSettings /\ t.enabled = FALSE /\ Reads(<<>>, ap, t)
          BY <5>1, <5>2, DisabledReads
        <5>4. Reads(<<>>, ap, t)'
          BY <1>10, <5>3
        <5>5. flags[ap] = FALSE
          BY <1>4, <1>7, <1>12
        <5>6. QED
          BY <4>1, <5>3, <5>4, <5>5
      <4>2. CASE q # ap
        <5>1. t \in taken[q]
          BY <1>8, <3>1, <4>2
        <5>2. t \in VapSettings /\ Reads(<<>>, q, t) /\ flag[q] = t.enabled
          BY <1>2, <5>1 DEF HasTaken
        <5>3. QED
          BY <1>7, <1>10, <4>2, <5>2
      <4>3. QED
        BY <4>1, <4>2
    <3>2. QED
      BY <3>1 DEF HasTaken
  <2>3. todo' = <<VapFlag(ap, vap.enabled)>> \o (<<>> \o <<>>)
    <3>1. <<>> \o <<>> = <<>>
      OBVIOUS
    <3>2. QED
      BY <1>1, <1>12, <3>1, Zenon
  <2>4. WillTake(<<>>, <<>>, flags)'
    BY DEF WillTake
  <2>5. VapLeft(<<VapFlag(ap, vap.enabled)>>, <<>>, <<>>, flags)'
    BY <1>7, <1>9, <2>1, <2>2, <2>3, <2>4 DEF VapLeft
  <2>6. QED
    BY <1>1, <1>5, <1>8, <2>5 DEF VapInv
<1>13. QED
  BY <1>11, <1>12

\* Commands of other calls, or none, are left, and nothing is known to have been taken.
LEMMA VapForgets ==
    ASSUME VapInv, NEW s, Bound(s)', todo' = s, flag' = flag, taken' = [ap \in Ap |-> {}]
    PROVE  VapInv'
<1>1. PICK flags : flags = flag
  OBVIOUS
<1>2. flags \in [Ap -> BOOLEAN]
  BY <1>1 DEF VapInv
<1>3. HasTaken(s, flags)'
  BY DEF HasTaken
<1>4. todo' = <<>> \o (s \o <<>>)
  <2>1. s \in Seq(Command)
    BY DEF Bound
  <2>2. QED
    BY <2>1
<1>5. VapLeft(<<>>, s, <<>>, flags)'
  BY <1>1, <1>2, <1>3, <1>4 DEF VapLeft, Flagging, WillTake
<1>6. DOMAIN taken' = Ap /\ taken' = [ap \in Ap |-> taken'[ap]]
  OBVIOUS
<1>7. QED
  BY <1>1, <1>2, <1>5, <1>6 DEF VapInv

LEMMA VapStarts == ASSUME VapInit PROVE VapInv
<1>1. /\ todo = <<>> /\ Bound(<<>>)
      /\ flag = [ap \in Ap |-> FALSE] /\ taken = [ap \in Ap |-> {}]
  BY InitBound DEF VapInit
<1>2. PICK flags : flags = flag
  OBVIOUS
<1>3. flags \in [Ap -> BOOLEAN]
  BY <1>1, <1>2
<1>4. HasTaken(<<>>, flags)
  BY <1>1 DEF HasTaken
<1>5. todo = <<>> \o (<<>> \o <<>>)
  BY <1>1
<1>6. VapLeft(<<>>, <<>>, <<>>, flags)
  BY <1>1, <1>2, <1>3, <1>4, <1>5 DEF VapLeft, Flagging, WillTake
<1>7. DOMAIN taken = Ap /\ taken = [ap \in Ap |-> taken[ap]]
  BY <1>1
<1>8. QED
  BY <1>2, <1>3, <1>6, <1>7 DEF VapInv

LEMMA VapNextInvariant ==
    ASSUME VapInv, [VapNext]_<<configAll, vapVars>>
    PROVE  VapInv'
<1>1. CASE UNCHANGED <<configAll, vapVars>>
  <2>1. UNCHANGED configVars /\ todo' = todo /\ flag' = flag /\ taken' = taken
    BY <1>1 DEF configAll, configVars, vapVars
  <2>2. PICK u, s, w, flags : VapLeft(u, s, w, flags)
    BY DEF VapInv
  <2>3. Bound(s)' /\ WillTake(w, s, flags)' /\ HasTaken(s, flags)'
    BY <2>1, <2>2, LeftStays DEF VapLeft
  <2>4. VapLeft(u, s, w, flags)'
    BY <2>1, <2>2, <2>3 DEF VapLeft, Flagging
  <2>5. QED
    BY <2>1, <2>4 DEF VapInv
<1>2. CASE HostapdRestarts /\ UNCHANGED vapVars
  <2>1. todo = <<>> /\ todo' = <<>> /\ flag' = flag /\ taken' = taken
    BY <1>2 DEF HostapdRestarts, vapVars
  <2>2. Bound(<<>>) /\ HasTaken(<<>>, flag)
    BY <2>1, VapAtRest
  <2>3. Bound(<<>>)'
    BY <1>2, <2>2, HostapdBound
  <2>4. \A ap \in Ap, vap \in VapSettings : Reads(<<>>, ap, vap) => Reads(<<>>, ap, vap)'
    BY <1>2, ReadsLoaded
  <2>5. PICK flags : flags = flag
    OBVIOUS
  <2>6. HasTaken(<<>>, flags)'
    BY <2>1, <2>2, <2>4, <2>5 DEF HasTaken
  <2>7. todo' = <<>> \o (<<>> \o <<>>)
    BY <2>1
  <2>8. flags \in [Ap -> BOOLEAN]
    BY <2>5 DEF VapInv
  <2>9. VapLeft(<<>>, <<>>, <<>>, flags)'
    BY <2>1, <2>3, <2>5, <2>6, <2>7, <2>8 DEF VapLeft, Flagging, WillTake
  <2>10. QED
    BY <2>1, <2>9 DEF VapInv
<1>3. CASE OtherChange(ProcessRestarts)
  <2>1. ProcessRestarts /\ todo' = <<>> /\ flag' = flag /\ taken' = [ap \in Ap |-> {}]
    BY <1>3 DEF OtherChange, ProcessRestarts
  <2>2. PICK u, s, w, flags : VapLeft(u, s, w, flags)
    BY DEF VapInv
  <2>3. Bound(<<>>)'
    BY <2>1, <2>2, ProcessBound DEF VapLeft
  <2>4. QED
    BY <2>1, <2>3, VapForgets
<1>4. ASSUME NEW ap \in Ap, OtherChange(AnyCall(ap))
      PROVE  VapInv'
  <2>1. AnyCall(ap) /\ flag' = flag /\ taken' = [q \in Ap |-> {}]
    BY <1>4 DEF OtherChange
  <2>2. todo = <<>> /\ UNCHANGED configVars
    BY <2>1, AnyCallBegins
  <2>3. Bound(<<>>)
    BY <2>2, VapAtRest
  <2>4. PICK s : todo' = s /\ Bound(s)
    BY <2>1, <2>3, AnyCallBegins
  <2>5. Bound(s)'
    BY <2>2, <2>4, BoundStays
  <2>6. QED
    BY <2>1, <2>4, <2>5, VapForgets
<1>5. QED
  BY <1>1, <1>2, <1>3, <1>4, VapCommandStep, CreateVapStep DEF VapNext, AnyCall, OtherChange

LEMMA VapInvariant == VapSpec => []VapInv
<1>1. VapInit => VapInv
  BY VapStarts
<1>2. ASSUME VapInv, [VapNext]_<<configAll, vapVars>>
      PROVE  VapInv'
  BY <1>2, VapNextInvariant
<1>3. QED
  BY <1>1, <1>2, PTL DEF VapSpec

\* A call that makes all settings of an access point at once leaves hostapd, its file and
\* the air in step as the single setters do, for any settings of the VAP interface: what it
\* does not give to hostapd, or an empty value hides, is all that may differ.
THEOREM VapSettingsApplied == VapSpec => []Applied
<1>1. VapInv => Applied
  BY VapAtRest, SettledApplied
<1>2. QED
  BY <1>1, VapInvariant, PTL

\* And no access point is on air without a key under a mode that has one, also when the
\* call fails for a key that is too short or names a mode that hostapd does not know.
THEOREM VapIsSecure == VapSpec => []SecureOnAir
<1>1. VapInv => SecureOnAir
  BY VapAtRest, SettledApplied
<1>2. QED
  BY <1>1, VapInvariant, PTL

\* wifi_getRadioVapInfoMap reads the settings that wifi_createVAP took to its end, whatever
\* lines the files held before and whatever was done to the other access point, until
\* another call changes them.
THEOREM VapReadsBack == VapSpec => []VapReadBack
<1>1. ASSUME VapInv, todo = <<>>, NEW ap \in Ap, NEW vap \in taken[ap]
      PROVE  ReadsBack(ap, vap)
  <2>1. Bound(<<>>) /\ HasTaken(<<>>, flag)
    BY <1>1, VapAtRest
  <2>2. Filed
    BY <2>1, BetweenCalls DEF Settled
  <2>3. vap \in VapSettings /\ Reads(<<>>, ap, vap) /\ flag[ap] = vap.enabled
    BY <1>1, <2>1 DEF HasTaken
  <2>4. QED
    BY <2>2, <2>3, ReadsAtRest
<1>2. VapInv => VapReadBack
  BY <1>1, Zenon DEF VapReadBack, ReadsBack
<1>3. QED
  BY <1>2, VapInvariant, PTL
=============================================================================
