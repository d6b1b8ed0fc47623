------------------------- MODULE RadioConfigProofs -------------------------
(***************************************************************************)
(* Proofs about RadioConfig and Rates.  The calls are lists of commands,   *)
(* and a setting has several places that a list visits one after another:  *)
(* what the commands that are left will write is compared with what is     *)
(* there.  For the rates, what is left of a call is one of nine shapes.    *)
(***************************************************************************)
EXTENDS Rates, FiniteSetTheorems, TLAPS

-----------------------------------------------------------------------------
(***************************************************************************)
(* What a list of commands writes.                                         *)
(***************************************************************************)

BandOf(channel) == CASE channel \in 1 .. 14 -> 0
                     [] channel > 14 -> 1
                     [] OTHER -> 2

\* What a command writes: the value of a setting, of a place that hostapd has it in, a
\* remark on it, or nothing.  An interface is "fresh" when it runs with what hostapd
\* was given; a channel of the file is "alien" if it is of the other band.
Effect(c, what, of) ==
    CASE c.do = "file" /\ c.name = "channel" /\ what = "channel" /\ of = c.r -> <<c.to>>
      [] c.do = "file" /\ c.name = "width" /\ what = "width" /\ of = c.r -> <<c.to>>
      [] c.do = "file" /\ c.name = "ht" /\ what = "ht" /\ of = c.r -> <<c.to>>
      [] c.do = "file" /\ c.name = "channel" /\ what = "alien" /\ of = c.r
            /\ c.to # 0 /\ BandOf(c.to) # c.r -> <<"alien">>
      [] c.do = "file" /\ c.name = "channel" /\ what = "zero" /\ of = c.r
            /\ c.to = 0 -> <<"zero">>
      [] c.do = "bw" /\ what = "bw" /\ of = c.r -> <<c.to>>
      [] c.do = "truncate" /\ what = "prev" /\ of = c.r -> <<"empty">>
      [] c.do = "prev" /\ what = "prev" /\ of = c.r -> <<"stored">>
      [] c.do = "told" /\ c.name = "channel" /\ what = "toldChannel" /\ of = c.ap -> <<c.to>>
      [] c.do = "told" /\ c.name = "width" /\ what = "toldWidth" /\ of = c.ap -> <<c.to>>
      [] c.do = "told" /\ c.name = "channel" /\ what = "freshChannel" /\ of = c.ap -> <<"stale">>
      [] c.do = "told" /\ c.name = "width" /\ what = "freshWidth" /\ of = c.ap -> <<"stale">>
      [] c.do = "restart" /\ what \in {"freshChannel", "freshWidth"} /\ of = c.ap -> <<"fresh">>
      [] c.do = "return" /\ what = "open" /\ of \in c.open -> <<"open">>
      [] c.do = "return" /\ what = "open" /\ of \in c.sure \ c.open -> <<"sure">>
      [] OTHER -> <<>>

Keeps(s, i, what, of) == Effect(s[i], what, of) = <<>>

IsLast(s, i, what, of) ==
    ~Keeps(s, i, what, of) /\ \A j \in DOMAIN s : j > i => Keeps(s, j, what, of)

\* What commands s write in the end: what the last one writes that writes anything.
Net(s, what, of) ==
    IF \A i \in DOMAIN s : Keeps(s, i, what, of) THEN <<>>
    ELSE Effect(s[CHOOSE i \in DOMAIN s : IsLast(s, i, what, of)], what, of)

\* What two lists write, and the value after a list.
Then(first, second) == IF second = <<>> THEN first ELSE second
Over(was, written)  == IF written = <<>> THEN was ELSE written[1]

\* A set of places in a list has a last one.
LEMMA LastOf ==
    ASSUME NEW n \in Nat, NEW S \in SUBSET (1..n), S # {}
    PROVE  \E i \in S : \A j \in S : j <= i
<1> DEFINE tails == {i..n : i \in S}
<1>1. IsFiniteSet(1..n)
  BY FS_Interval
<1>2. IsWellFoundedOn(StrictSubsetOrdering(1..n), SUBSET (1..n))
  BY <1>1, FS_StrictSubsetOrderingWellFounded, FS_FiniteSubsetsOfFinite, Zenon
<1>3. tails \subseteq SUBSET (1..n) /\ tails # {}
  <2>1. \A i \in S : i..n \in SUBSET (1..n)
    OBVIOUS
  <2>2. QED
    BY <2>1, Zenon
<1>4. PICK t \in tails : \A g \in tails : <<g, t>> \notin StrictSubsetOrdering(1..n)
  <2> HIDE DEF tails
  <2>1. QED
    BY <1>2, <1>3, WFMin, Zenon
<1>5. PICK i \in S : t = i..n
  OBVIOUS
<1>6. ASSUME NEW j \in S, j > i
      PROVE  FALSE
  <2>1. j..n \in tails /\ j..n \subseteq i..n /\ j..n # i..n
    <3>1. i \in i..n /\ i \notin j..n /\ i \in Nat /\ j \in Nat
      BY <1>6
    <3>2. QED
      BY <1>6, <3>1
  <2>2. <<j..n, t>> \in StrictSubsetOrdering(1..n)
    BY <1>3, <1>5, <2>1 DEF StrictSubsetOrdering
  <2>3. QED
    BY <1>4, <2>1, <2>2
<1>7. QED
  BY <1>6

\* The last command that writes a value decides.
LEMMA NetIs ==
    ASSUME NEW S, NEW s \in Seq(S), NEW what, NEW of
    PROVE  /\ (\A i \in DOMAIN s : Keeps(s, i, what, of)) => Net(s, what, of) = <<>>
           /\ \A i \in DOMAIN s : IsLast(s, i, what, of) =>
                 Net(s, what, of) = Effect(s[i], what, of)
           /\ (\A i \in DOMAIN s : Keeps(s, i, what, of))
                 \/ \E i \in DOMAIN s : IsLast(s, i, what, of)
<1>1. Len(s) \in Nat /\ DOMAIN s = 1..Len(s)
  OBVIOUS
<1>2. ASSUME NEW i \in DOMAIN s, IsLast(s, i, what, of)
      PROVE  Net(s, what, of) = Effect(s[i], what, of)
  <2> DEFINE last == CHOOSE j \in DOMAIN s : IsLast(s, j, what, of)
  <2>1. last \in DOMAIN s /\ IsLast(s, last, what, of)
    BY <1>2, Zenon
  <2>2. last = i
    <3> HIDE DEF last
    <3>1. ~(last > i) /\ ~(i > last)
      BY <1>2, <2>1 DEF IsLast
    <3>2. QED
      BY <1>1, <2>1, <3>1
  <2>3. Net(s, what, of) = Effect(s[last], what, of)
    BY <1>2, Zenon DEF Net, IsLast
  <2>4. QED
    BY <2>2, <2>3, Zenon
<1>3. ASSUME NEW k \in DOMAIN s, ~Keeps(s, k, what, of)
      PROVE  \E i \in DOMAIN s : IsLast(s, i, what, of)
  <2> DEFINE writers == {i \in 1..Len(s) : ~Keeps(s, i, what, of)}
  <2>1. writers \in SUBSET (1..Len(s)) /\ writers # {}
    BY <1>1, <1>3, Zenon
  <2>2. PICK i \in writers : \A j \in writers : j <= i
    <3> HIDE DEF writers
    <3>1. QED
      BY <1>1, <2>1, LastOf
  <2>3. IsLast(s, i, what, of)
    BY <1>1, <2>2 DEF IsLast
  <2>4. QED
    BY <1>1, <2>3
<1>4. QED
  BY <1>2, <1>3 DEF Net

\* Of two lists, the second writes over what the first has written.
LEMMA NetBoth ==
    ASSUME NEW S, NEW s \in Seq(S), NEW t \in Seq(S), NEW what, NEW of
    PROVE  Net(s \o t, what, of) = Then(Net(s, what, of), Net(t, what, of))
<1> DEFINE m == Len(s)
           n == Len(t)
           d == s \o t
<1>1. /\ d \in Seq(S) /\ m \in Nat /\ n \in Nat
      /\ DOMAIN s = 1..m /\ DOMAIN t = 1..n /\ DOMAIN d = 1..(m + n)
      /\ \A i \in 1..m : d[i] = s[i]
      /\ \A i \in 1..n : d[m + i] = t[i]
      /\ \A i \in 1..(m + n) : i \in 1..m \/ (i - m \in 1..n /\ m + (i - m) = i)
  OBVIOUS
<1> HIDE DEF m, n, d
<1>2. /\ \A i \in 1..m : Keeps(d, i, what, of) <=> Keeps(s, i, what, of)
      /\ \A i \in 1..n : Keeps(d, m + i, what, of) <=> Keeps(t, i, what, of)
  BY <1>1 DEF Keeps
<1>3. ASSUME NEW i \in 1..n, IsLast(t, i, what, of)
      PROVE  Net(d, what, of) = Net(t, what, of) /\ Net(t, what, of) # <<>>
  <2>1. m + i \in 1..(m + n) /\ ~Keeps(d, m + i, what, of)
    BY <1>1, <1>2, <1>3 DEF IsLast
  <2>2. ASSUME NEW j \in 1..(m + n), j > m + i
        PROVE  Keeps(d, j, what, of)
    <3>1. j - m \in 1..n /\ m + (j - m) = j /\ j - m > i
      BY <1>1, <2>2
    <3>2. Keeps(t, j - m, what, of)
      BY <1>1, <1>3, <3>1 DEF IsLast
    <3>3. QED
      BY <1>2, <3>1, <3>2
  <2>3. IsLast(d, m + i, what, of)
    BY <1>1, <2>1, <2>2 DEF IsLast
  <2>4. Net(d, what, of) = Effect(d[m + i], what, of)
    BY <1>1, <2>1, <2>3, NetIs
  <2>5. Net(t, what, of) = Effect(t[i], what, of)
    BY <1>1, <1>3, NetIs
  <2>6. Effect(t[i], what, of) # <<>>
    BY <1>3 DEF IsLast, Keeps
  <2>7. QED
    BY <1>1, <2>4, <2>5, <2>6
<1>4. ASSUME \A i \in 1..n : Keeps(t, i, what, of)
      PROVE  Net(d, what, of) = Net(s, what, of) /\ Net(t, what, of) = <<>>
  <2>1. Net(t, what, of) = <<>>
    BY <1>1, <1>4, NetIs
  <2>2. CASE \A i \in 1..m : Keeps(s, i, what, of)
    <3>1. \A i \in 1..(m + n) : Keeps(d, i, what, of)
      BY <1>1, <1>2, <1>4, <2>2
    <3>2. Net(d, what, of) = <<>>
      BY <1>1, <3>1, NetIs
    <3>3. Net(s, what, of) = <<>>
      BY <1>1, <2>2, NetIs
    <3>4. QED
      BY <2>1, <3>2, <3>3
  <2>3. ASSUME NEW i \in 1..m, IsLast(s, i, what, of)
        PROVE  Net(d, what, of) = Net(s, what, of)
    <3>1. i \in 1..(m + n) /\ ~Keeps(d, i, what, of)
      BY <1>1, <1>2, <2>3 DEF IsLast
    <3>2. \A j \in 1..(m + n) : j > i => Keeps(d, j, what, of)
      BY <1>1, <1>2, <1>4, <2>3 DEF IsLast
    <3>3. IsLast(d, i, what, of)
      BY <1>1, <3>1, <3>2 DEF IsLast
    <3>4. Net(d, what, of) = Effect(d[i], what, of)
      BY <1>1, <3>1, <3>3, NetIs
    <3>5. Net(s, what, of) = Effect(s[i], what, of)
      BY <1>1, <2>3, NetIs
    <3>6. QED
      BY <1>1, <3>4, <3>5
  <2>4. QED
    BY <1>1, <2>1, <2>2, <2>3, NetIs
<1>5. Net(d, what, of) = Then(Net(s, what, of), Net(t, what, of))
  <2>1. (\A i \in 1..n : Keeps(t, i, what, of)) \/ \E i \in 1..n : IsLast(t, i, what, of)
    BY <1>1, NetIs
  <2>2. QED
    BY <1>3, <1>4, <2>1 DEF Then
<1>6. QED
  BY <1>5 DEF d

\* One command writes what it writes.
LEMMA NetOne ==
    ASSUME NEW c, NEW what, NEW of
    PROVE  Net(<<c>>, what, of) = Effect(c, what, of)
<1> DEFINE s == <<c>>
<1>1. s \in Seq({c}) /\ DOMAIN s = {1} /\ s[1] = c
  OBVIOUS
<1> HIDE DEF s
<1>2. ~Keeps(s, 1, what, of) => IsLast(s, 1, what, of)
  BY <1>1 DEF IsLast
<1>3. Keeps(s, 1, what, of) <=> Effect(c, what, of) = <<>>
  BY <1>1 DEF Keeps
<1>4. CASE Effect(c, what, of) = <<>>
  <2>1. \A i \in DOMAIN s : Keeps(s, i, what, of)
    BY <1>1, <1>3, <1>4
  <2>2. Net(s, what, of) = <<>>
    BY <1>1, <2>1, NetIs
  <2>3. QED
    BY <1>4, <2>2 DEF s
<1>5. CASE Effect(c, what, of) # <<>>
  <2>1. Net(s, what, of) = Effect(s[1], what, of)
    BY <1>1, <1>2, <1>3, <1>5, NetIs
  <2>2. QED
    BY <1>1, <2>1 DEF s
<1>6. QED
  BY <1>4, <1>5

\* No command writes anything.
LEMMA NetNone == ASSUME NEW what, NEW of PROVE Net(<<>>, what, of) = <<>>
BY DEF Net

-----------------------------------------------------------------------------
(***************************************************************************)
(* What the calls write.                                                   *)
(***************************************************************************)

Ht == {"HT40", "HT40+", "HT40-"}
Note == {"channel", "public", "width", "report", "ext"} \X Radio

Command ==
    [do : {"bw"}, r : Radio, to : Width] \cup
    [do : {"file"}, r : Radio, name : {"channel"}, to : Nat] \cup
    [do : {"file"}, r : Radio, name : {"width"}, to : 0 .. 3] \cup
    [do : {"file"}, r : Radio, name : {"n"}, to : {0, 1}] \cup
    [do : {"file"}, r : Radio, name : {"ht"}, to : Ht] \cup
    [do : {"truncate"}, r : Radio] \cup [do : {"prev"}, r : Radio] \cup
    [do : {"told"}, ap : Ap, name : {"channel"}, to : Nat] \cup
    [do : {"told"}, ap : Ap, name : {"width"}, to : 0 .. 3] \cup
    [do : {"restart"}, ap : Ap] \cup
    [do : {"return"}, sure : SUBSET Note, open : SUBSET Note]

\* A list writes the values of w and nothing else.
Writes(s, what, of, w) == s \in Seq(Command) /\ Net(s, what, of) = w

\* Two lists, one after the other.
LEMMA WritesBoth ==
    ASSUME NEW s, NEW t, NEW what, NEW of, NEW a, NEW b,
           Writes(s, what, of, a), Writes(t, what, of, b)
    PROVE  Writes(s \o t, what, of, Then(a, b))
<1>1. s \in Seq(Command) /\ t \in Seq(Command)
  BY DEF Writes
<1>2. s \o t \in Seq(Command)
  BY <1>1
<1>3. Net(s \o t, what, of) = Then(Net(s, what, of), Net(t, what, of))
  BY <1>1, NetBoth
<1>4. QED
  BY <1>2, <1>3 DEF Writes

\* Commands that are given under a condition.
LEMMA WritesWhen ==
    ASSUME NEW condition \in BOOLEAN, NEW s, NEW what, NEW of, NEW a,
           Writes(s, what, of, a)
    PROVE  Writes(When(condition, s), what, of, IF condition THEN a ELSE <<>>)
<1>1. <<>> \in Seq(Command) /\ Net(<<>>, what, of) = <<>>
  BY NetNone
<1>2. QED
  BY <1>1 DEF Writes, When

\* One command.
LEMMA WritesOne ==
    ASSUME NEW c \in Command, NEW what, NEW of
    PROVE  Writes(<<c>>, what, of, Effect(c, what, of))
<1>1. <<c>> \in Seq(Command)
  OBVIOUS
<1>2. QED
  BY <1>1, NetOne DEF Writes

\* A list of two commands.
LEMMA TwoCommands == ASSUME NEW a, NEW b PROVE <<a, b>> = <<a>> \o <<b>>
<1> DEFINE s == <<a, b>>
           t == <<a>> \o <<b>>
<1>1. /\ s \in Seq({a, b}) /\ Len(s) = 2 /\ s[1] = a /\ s[2] = b
      /\ t \in Seq({a, b}) /\ Len(t) = 2 /\ t[1] = a /\ t[2] = b
  OBVIOUS
<1>2. s = t
  <2> HIDE DEF s, t
  <2>1. DOMAIN s = {1, 2} /\ DOMAIN t = {1, 2}
    BY <1>1
  <2>2. s = [i \in DOMAIN s |-> s[i]] /\ t = [i \in DOMAIN t |-> t[i]]
    BY <1>1
  <2>3. QED
    BY <1>1, <2>1, <2>2
<1>3. QED
  BY <1>2

\* Four lists, one after the other.
LEMMA WritesFour ==
    ASSUME NEW s, NEW t, NEW u, NEW v, NEW what, NEW of, NEW a, NEW b, NEW c, NEW d,
           Writes(s, what, of, a), Writes(t, what, of, b),
           Writes(u, what, of, c), Writes(v, what, of, d)
    PROVE  Writes(((s \o t) \o u) \o v, what, of, Then(Then(Then(a, b), c), d))
<1>1. Writes(s \o t, what, of, Then(a, b))
  BY WritesBoth
<1>2. Writes((s \o t) \o u, what, of, Then(Then(a, b), c))
  BY <1>1, WritesBoth
<1>3. QED
  BY <1>2, WritesBoth


\* Three lists, one after the other.
LEMMA WritesThree ==
    ASSUME NEW s, NEW t, NEW u, NEW what, NEW of, NEW a, NEW b, NEW c,
           Writes(s, what, of, a), Writes(t, what, of, b), Writes(u, what, of, c)
    PROVE  Writes((s \o t) \o u, what, of, Then(Then(a, b), c))
<1>1. Writes(s \o t, what, of, Then(a, b))
  BY WritesBoth
<1>2. QED
  BY <1>1, WritesBoth

\* A list that begins as one of two and ends as one of one.
LEMMA TwoAndOne ==
    ASSUME NEW S, NEW s \in Seq(S), NEW u \in Seq(S), NEW w \in Seq(S)
    PROVE  /\ Len(s) = 3 /\ Len(u) = 2 /\ Len(w) = 1
           /\ s[1] = u[1] /\ s[2] = u[2] /\ s[3] = w[1]
           => s = u \o w
<1> DEFINE t == u \o w
<1>1. /\ t \in Seq(S) /\ Len(t) = Len(u) + Len(w)
      /\ \A i \in 1..Len(u) : t[i] = u[i]
      /\ \A i \in 1..Len(w) : t[Len(u) + i] = w[i]
  OBVIOUS
<1> HIDE DEF t
<1>2. ASSUME Len(s) = 3, Len(u) = 2, Len(w) = 1, s[1] = u[1], s[2] = u[2], s[3] = w[1]
      PROVE  s = t
  <2>1. DOMAIN s = {1, 2, 3} /\ DOMAIN t = {1, 2, 3}
    BY <1>1, <1>2
  <2>2. t[1] = u[1] /\ t[2] = u[2] /\ t[3] = w[1]
    BY <1>1, <1>2
  <2>3. s = [i \in DOMAIN s |-> s[i]] /\ t = [i \in DOMAIN t |-> t[i]]
    BY <1>1
  <2>4. QED
    BY <1>2, <2>1, <2>2, <2>3
<1>3. QED
  BY <1>2 DEF t

\* A list of three commands.
LEMMA ThreeCommands == ASSUME NEW a, NEW b, NEW c PROVE <<a, b, c>> = (<<a>> \o <<b>>) \o <<c>>
<1>1. \A s, u, w : /\ s = <<a, b, c>> /\ u = <<a, b>> /\ w = <<c>>
                   => s = u \o w
  <2> SUFFICES ASSUME NEW s, NEW u, NEW w, s = <<a, b, c>>, u = <<a, b>>, w = <<c>>
               PROVE  s = u \o w
    OBVIOUS
  <2>1. s \in Seq({a, b, c}) /\ u \in Seq({a, b, c}) /\ w \in Seq({a, b, c})
    OBVIOUS
  <2>2. /\ Len(s) = 3 /\ Len(u) = 2 /\ Len(w) = 1
        /\ s[1] = u[1] /\ s[2] = u[2] /\ s[3] = w[1]
    OBVIOUS
  <2>3. QED
    BY <2>1, <2>2, TwoAndOne
<1>2. QED
  BY <1>1, TwoCommands, Zenon

\* The channel in the file.
FilesChannel(r, v, what, of) ==
    CASE what = "channel" /\ of = r -> <<v>>
      [] what = "alien" /\ of = r /\ v # 0 /\ BandOf(v) # r -> <<"alien">>
      [] what = "zero" /\ of = r /\ v = 0 -> <<"zero">>
      [] OTHER -> <<>>

\* What each kind of command writes, in every place.
LEMMA WritesChannel ==
    ASSUME NEW r \in Radio, NEW v \in Nat, NEW what, NEW of
    PROVE  Writes(<<HostapdWrite(r, "channel", v)>>, what, of,
                  FilesChannel(r, v, what, of))
<1> DEFINE c == HostapdWrite(r, "channel", v)
<1>1. c \in Command
  BY DEF HostapdWrite, Command
<1>2. c.do = "file" /\ c.r = r /\ c.name = "channel" /\ c.to = v
  BY DEF HostapdWrite
<1> HIDE DEF c
<1>3. Effect(c, what, of) = FilesChannel(r, v, what, of)
  BY <1>2 DEF Effect, FilesChannel
<1>4. Writes(<<c>>, what, of, Effect(c, what, of))
  BY <1>1, WritesOne
<1>5. QED
  BY <1>3, <1>4, Zenon DEF c

\* The other values in the file.
LEMMA WritesWidth ==
    ASSUME NEW r \in Radio, NEW v \in 0 .. 3, NEW what, NEW of
    PROVE  Writes(<<HostapdWrite(r, "width", v)>>, what, of,
                  IF what = "width" /\ of = r THEN <<v>> ELSE <<>>)
<1> DEFINE c == HostapdWrite(r, "width", v)
<1>1. c \in Command
  BY DEF HostapdWrite, Command
<1>2. c.do = "file" /\ c.r = r /\ c.name = "width" /\ c.to = v
  BY DEF HostapdWrite
<1> HIDE DEF c
<1>3. Effect(c, what, of) = IF what = "width" /\ of = r THEN <<v>> ELSE <<>>
  BY <1>2 DEF Effect
<1>4. Writes(<<c>>, what, of, Effect(c, what, of))
  BY <1>1, WritesOne
<1>5. QED
  BY <1>3, <1>4, Zenon DEF c

LEMMA WritesHt ==
    ASSUME NEW r \in Radio, NEW v \in Ht, NEW what, NEW of
    PROVE  Writes(<<HostapdWrite(r, "ht", v)>>, what, of,
                  IF what = "ht" /\ of = r THEN <<v>> ELSE <<>>)
<1> DEFINE c == HostapdWrite(r, "ht", v)
<1>1. c \in Command
  BY DEF HostapdWrite, Command
<1>2. c.do = "file" /\ c.r = r /\ c.name = "ht" /\ c.to = v
  BY DEF HostapdWrite
<1> HIDE DEF c
<1>3. Effect(c, what, of) = IF what = "ht" /\ of = r THEN <<v>> ELSE <<>>
  BY <1>2 DEF Effect
<1>4. Writes(<<c>>, what, of, Effect(c, what, of))
  BY <1>1, WritesOne
<1>5. QED
  BY <1>3, <1>4, Zenon DEF c

LEMMA WritesN ==
    ASSUME NEW r \in Radio, NEW v \in {0, 1}, NEW what, NEW of
    PROVE  Writes(<<HostapdWrite(r, "n", v)>>, what, of, <<>>)
<1> DEFINE c == HostapdWrite(r, "n", v)
<1>1. c \in Command
  BY DEF HostapdWrite, Command
<1>2. c.do = "file" /\ c.name = "n"
  BY DEF HostapdWrite
<1> HIDE DEF c
<1>3. Effect(c, what, of) = <<>>
  BY <1>2 DEF Effect
<1>4. Writes(<<c>>, what, of, Effect(c, what, of))
  BY <1>1, WritesOne
<1>5. QED
  BY <1>3, <1>4, Zenon DEF c

\* The width in a file of its own.
LEMMA WritesBandWidth ==
    ASSUME NEW r \in Radio, NEW w \in Width, NEW what, NEW of
    PROVE  Writes(<<WriteBandWidth(r, w)>>, what, of,
                  IF what = "bw" /\ of = r THEN <<w>> ELSE <<>>)
<1> DEFINE c == WriteBandWidth(r, w)
<1>1. c \in Command
  BY DEF WriteBandWidth, Command
<1>2. c.do = "bw" /\ c.r = r /\ c.to = w
  BY DEF WriteBandWidth
<1> HIDE DEF c
<1>3. Effect(c, what, of) = IF what = "bw" /\ of = r THEN <<w>> ELSE <<>>
  BY <1>2 DEF Effect
<1>4. Writes(<<c>>, what, of, Effect(c, what, of))
  BY <1>1, WritesOne
<1>5. QED
  BY <1>3, <1>4, Zenon DEF c

\* The remembered channel.
LEMMA WritesPrev ==
    ASSUME NEW r \in Radio, NEW what, NEW of
    PROVE  Writes(<<Truncate(r), StorePrev(r)>>, what, of,
                  IF what = "prev" /\ of = r THEN <<"stored">> ELSE <<>>)
<1> DEFINE c == Truncate(r)
           d == StorePrev(r)
<1>1. c \in Command /\ d \in Command
  BY DEF Truncate, StorePrev, Command
<1>2. c.do = "truncate" /\ c.r = r /\ d.do = "prev" /\ d.r = r
  BY DEF Truncate, StorePrev
<1>3. <<c, d>> = <<c>> \o <<d>>
  BY TwoCommands
<1> HIDE DEF c, d
<1>4. Effect(c, what, of) = IF what = "prev" /\ of = r THEN <<"empty">> ELSE <<>>
  BY <1>2 DEF Effect
<1>5. Effect(d, what, of) = IF what = "prev" /\ of = r THEN <<"stored">> ELSE <<>>
  BY <1>2 DEF Effect
<1>6. Writes(<<c>>, what, of, Effect(c, what, of)) /\ Writes(<<d>>, what, of, Effect(d, what, of))
  BY <1>1, WritesOne
<1>7. Writes(<<c>> \o <<d>>, what, of, Then(Effect(c, what, of), Effect(d, what, of)))
  BY <1>6, WritesBoth
<1>8. Then(Effect(c, what, of), Effect(d, what, of))
         = IF what = "prev" /\ of = r THEN <<"stored">> ELSE <<>>
  BY <1>4, <1>5 DEF Then
<1>9. QED
  BY <1>3, <1>7, <1>8, Zenon DEF c, d

\* What hostapd is given.
TellsChannel(ap, v, what, of) == CASE what = "toldChannel" /\ of = ap -> <<v>>
                                   [] what = "freshChannel" /\ of = ap -> <<"stale">>
                                   [] OTHER -> <<>>

\* What an access point is told makes it stale in that respect.
LEMMA WritesToldChannel ==
    ASSUME NEW ap \in Ap, NEW v \in Nat, NEW what, NEW of
    PROVE  Writes(<<Told(ap, "channel", v)>>, what, of, TellsChannel(ap, v, what, of))
<1> DEFINE c == Told(ap, "channel", v)
<1>1. c \in Command
  BY DEF Told, Command
<1>2. c.do = "told" /\ c.ap = ap /\ c.name = "channel" /\ c.to = v
  BY DEF Told
<1> HIDE DEF c
<1>3. Effect(c, what, of) = TellsChannel(ap, v, what, of)
  BY <1>2 DEF Effect, TellsChannel
<1>4. Writes(<<c>>, what, of, Effect(c, what, of))
  BY <1>1, WritesOne
<1>5. QED
  BY <1>3, <1>4, Zenon DEF c

LEMMA WritesToldWidth ==
    ASSUME NEW ap \in Ap, NEW v \in 0 .. 3, NEW what, NEW of
    PROVE  Writes(<<Told(ap, "width", v)>>, what, of,
                  CASE what = "toldWidth" /\ of = ap -> <<v>>
                    [] what = "freshWidth" /\ of = ap -> <<"stale">>
                    [] OTHER -> <<>>)
<1> DEFINE c == Told(ap, "width", v)
<1>1. c \in Command
  BY DEF Told, Command
<1>2. c.do = "told" /\ c.ap = ap /\ c.name = "width" /\ c.to = v
  BY DEF Told
<1> HIDE DEF c
<1>3. Effect(c, what, of) = CASE what = "toldWidth" /\ of = ap -> <<v>>
                              [] what = "freshWidth" /\ of = ap -> <<"stale">>
                              [] OTHER -> <<>>
  BY <1>2 DEF Effect
<1>4. Writes(<<c>>, what, of, Effect(c, what, of))
  BY <1>1, WritesOne
<1>5. QED
  BY <1>3, <1>4, Zenon DEF c

\* A restarted access point runs with what it was told.
LEMMA WritesRestart ==
    ASSUME NEW ap \in Ap, NEW what, NEW of
    PROVE  Writes(<<Restart(ap)>>, what, of,
                  IF what \in {"freshChannel", "freshWidth"} /\ of = ap THEN <<"fresh">> ELSE <<>>)
<1> DEFINE c == Restart(ap)
<1>1. c \in Command
  BY DEF Restart, Command
<1>2. c.do = "restart" /\ c.ap = ap
  BY DEF Restart
<1> HIDE DEF c
<1>3. Effect(c, what, of) =
         IF what \in {"freshChannel", "freshWidth"} /\ of = ap THEN <<"fresh">> ELSE <<>>
  BY <1>2 DEF Effect
<1>4. Writes(<<c>>, what, of, Effect(c, what, of))
  BY <1>1, WritesOne
<1>5. QED
  BY <1>3, <1>4, Zenon DEF c

\* The end of a call.
LEMMA WritesReturn ==
    ASSUME NEW sure \in SUBSET Note, NEW marked \in SUBSET Note, NEW what, NEW of
    PROVE  Writes(<<Return(sure, marked)>>, what, of,
                  CASE what = "open" /\ of \in marked -> <<"open">>
                    [] what = "open" /\ of \in sure \ marked -> <<"sure">>
                    [] OTHER -> <<>>)
<1> DEFINE c == Return(sure, marked)
<1>1. c \in Command
  BY DEF Return, Command
<1>2. c.do = "return" /\ c.sure = sure /\ c.open = marked
  BY DEF Return
<1> HIDE DEF c
<1>3. Effect(c, what, of) = CASE what = "open" /\ of \in marked -> <<"open">>
                              [] what = "open" /\ of \in sure \ marked -> <<"sure">>
                              [] OTHER -> <<>>
  BY <1>2 DEF Effect
<1>4. Writes(<<c>>, what, of, Effect(c, what, of))
  BY <1>1, WritesOne
<1>5. QED
  BY <1>3, <1>4, Zenon DEF c

-----------------------------------------------------------------------------
(* Tables of what the parts of a call write.                               *)

\* The radios and their access points.
LEMMA Numbers ==
    ASSUME NEW r \in Radio
    PROVE  r \in {0, 1} /\ r \in Ap /\ r + 4 \in Ap /\ r + 4 # r /\ r + 4 \notin Radio
BY DEF Radio, Ap

\* The second channel that belongs to a channel of 5 GHz, where there is one.
ExtFor(channel) == IF channel % 8 \in {4, 5} THEN "HT40+" ELSE "HT40-"

\* A channel of a pair has one second channel.
LEMMA ExtKnown ==
    ASSUME NEW v \in Nat, ExtOf(v) # {}
    PROVE  ExtOf(v) = {ExtFor(v)} /\ (CHOOSE ht \in ExtOf(v) : TRUE) = ExtFor(v)
<1>1. CASE v \in {40, 48, 56, 64, 104, 112, 120, 128, 136, 153, 161}
  <2>1. ExtOf(v) = {"HT40-"}
    BY <1>1 DEF ExtOf
  <2>2. v % 8 \in {0, 1}
    BY <1>1
  <2>3. QED
    BY <2>1, <2>2 DEF ExtFor
<1>2. CASE v \in {36, 44, 52, 60, 100, 108, 116, 124, 132, 149, 157}
  <2>1. ExtOf(v) = {"HT40+"}
    BY <1>2 DEF ExtOf
  <2>2. v % 8 \in {4, 5}
    BY <1>2
  <2>3. QED
    BY <2>1, <2>2 DEF ExtFor
<1>3. QED
  BY <1>1, <1>2 DEF ExtOf

\* vht_oper_chwidth.
LEMMA CodeIs ==
    /\ Code("20MHz") = 0 /\ Code("40MHz") = 0
    /\ Code("80MHz") = 1 /\ Code("160MHz") = 2 /\ Code("80+80") = 3
BY DEF Code

\* The number a width has in the files and for hostapd.
LEMMA CodeType == ASSUME NEW w \in Width PROVE Code(w) \in 0 .. 3
BY CodeIs DEF Width

ExtWrites(r, v, w) ==
    IF r = 0 THEN IF w = "40MHz" /\ v \notin 5 .. 7 THEN <<"HT40">> ELSE <<>>
    ELSE IF ExtOf(v) # {} THEN <<ExtFor(v)>> ELSE <<>>

ApplyWrites(r, v, hotspot, what, of) ==
    CASE what = "toldChannel" /\ of \in {r, r + 4} -> <<v>>
      [] what = "freshChannel" /\ of = r -> <<"fresh">>
      [] what = "freshChannel" /\ of = r + 4 -> IF hotspot THEN <<"fresh">> ELSE <<"stale">>
      [] what = "freshWidth" /\ (of = r \/ (hotspot /\ of = r + 4)) -> <<"fresh">>
      [] OTHER -> <<>>

ChannelWrites(r, v, hotspot, w, what, of) ==
    CASE what = "channel" /\ of = r -> <<v>>
      [] what = "alien" /\ of = r /\ v # 0 /\ BandOf(v) # r -> <<"alien">>
      [] what = "zero" /\ of = r /\ v = 0 -> <<"zero">>
      [] what = "ht" /\ of = r -> ExtWrites(r, v, w)
      [] what \in {"toldChannel", "freshChannel", "freshWidth"} ->
            ApplyWrites(r, v, hotspot, what, of)
      [] what = "open" /\ of \in {<<"channel", r>>, <<"public", r>>} -> <<"sure">>
      [] what = "open" /\ of = <<"ext", r>> ->
            IF ExtOf(v) # {} THEN <<"sure">> ELSE <<"open">>
      [] OTHER -> <<>>

WidthWrites(r, w, what, of) ==
    CASE what = "bw" /\ of = r -> <<w>>
      [] what = "width" /\ of = r -> <<Code(w)>>
      [] what = "toldWidth" /\ of = r -> <<IF r = 1 /\ w = "40MHz" THEN 1 ELSE Code(w)>>
      [] what \in {"freshWidth", "freshChannel"} /\ of = r -> <<"fresh">>
      [] what = "open" /\ of = <<"report", r>> -> <<"sure">>
      [] what = "open" /\ of = <<"width", r>> ->
            IF r = 1 /\ w = "40MHz" THEN <<"open">> ELSE <<"sure">>
      [] OTHER -> <<>>

\* The second channel.
LEMMA WritesExt ==
    ASSUME NEW r \in Radio, NEW v \in Nat, NEW w, NEW what, NEW of
    PROVE  Writes(SetExt(r, v, w), what, of,
                  IF what = "ht" /\ of = r THEN ExtWrites(r, v, w) ELSE <<>>)
<1>1. CASE r = 0
  <2> DEFINE b == w = "40MHz" /\ v \notin 5 .. 7
             c == <<HostapdWrite(0, "ht", "HT40")>>
             e == IF what = "ht" /\ of = 0 THEN <<"HT40">> ELSE <<>>
  <2>1. Writes(c, what, of, e)
    BY WritesHt DEF Ht, Radio
  <2>2. SetExt(r, v, w) = When(b, c) /\ b \in BOOLEAN
    BY <1>1 DEF SetExt
  <2>3. (IF b THEN e ELSE <<>>) = IF what = "ht" /\ of = r THEN ExtWrites(r, v, w) ELSE <<>>
    BY <1>1 DEF ExtWrites
  <2> HIDE DEF b, c, e
  <2>4. Writes(When(b, c), what, of, IF b THEN e ELSE <<>>)
    BY <2>1, <2>2, WritesWhen
  <2>5. QED
    BY <2>2, <2>3, <2>4, Zenon
<1>2. CASE r = 1 /\ ExtOf(v) # {}
  <2>1. SetExt(r, v, w) = <<HostapdWrite(r, "ht", ExtFor(v))>>
    BY <1>2, ExtKnown DEF SetExt, When
  <2>2. ExtFor(v) \in Ht
    BY DEF ExtFor, Ht
  <2>3. ExtWrites(r, v, w) = <<ExtFor(v)>>
    BY <1>2 DEF ExtWrites
  <2>4. Writes(<<HostapdWrite(r, "ht", ExtFor(v))>>, what, of,
               IF what = "ht" /\ of = r THEN <<ExtFor(v)>> ELSE <<>>)
    BY <2>2, WritesHt
  <2>5. QED
    BY <2>1, <2>3, <2>4, Zenon
<1>3. CASE r = 1 /\ ExtOf(v) = {}
  <2>1. SetExt(r, v, w) = <<>> /\ ExtWrites(r, v, w) = <<>>
    BY <1>3 DEF SetExt, When, ExtWrites
  <2>2. <<>> \in Seq(Command)
    OBVIOUS
  <2>3. QED
    BY <2>1, <2>2, NetNone DEF Writes
<1>4. QED
  BY <1>1, <1>2, <1>3, Numbers

\* What hostapd is given of a channel, and the restarts.
LEMMA WritesApply ==
    ASSUME NEW r \in Radio, NEW v \in Nat, NEW hotspot \in BOOLEAN, NEW what, NEW of
    PROVE  Writes(ApplyChannel(r, v, hotspot), what, of, ApplyWrites(r, v, hotspot, what, of))
<1> PICK q : q = r + 4
  OBVIOUS
<1> DEFINE c1 == <<Told(r, "channel", v)>>
           c2 == <<Told(q, "channel", v)>>
           c3 == <<Restart(r)>>
           c4 == When(hotspot, <<Restart(q)>>)
           e1 == TellsChannel(r, v, what, of)
           e2 == TellsChannel(q, v, what, of)
           e3 == IF what \in {"freshChannel", "freshWidth"} /\ of = r THEN <<"fresh">> ELSE <<>>
           e4 == IF what \in {"freshChannel", "freshWidth"} /\ of = q THEN <<"fresh">> ELSE <<>>
<1>1. r \in Ap /\ q \in Ap /\ q # r
  BY Numbers
<1>2. ApplyChannel(r, v, hotspot) = ((c1 \o c2) \o c3) \o c4
  BY ThreeCommands DEF ApplyChannel
<1>3. Writes(c1, what, of, e1) /\ Writes(c2, what, of, e2)
  BY <1>1, WritesToldChannel
<1>4. Writes(c3, what, of, e3) /\ Writes(<<Restart(q)>>, what, of, e4)
  BY <1>1, WritesRestart
<1>5. Then(Then(Then(e1, e2), e3), IF hotspot THEN e4 ELSE <<>>)
        = ApplyWrites(r, v, hotspot, what, of)
  <2>1. CASE what = "toldChannel"
    BY <1>1, <2>1 DEF Then, ApplyWrites, TellsChannel
  <2>2. CASE what = "freshChannel"
    <3>1. CASE of = r
      BY <1>1, <2>2, <3>1 DEF Then, ApplyWrites, TellsChannel
    <3>2. CASE of = q
      BY <1>1, <2>2, <3>2 DEF Then, ApplyWrites, TellsChannel
    <3>3. CASE of \notin {r, q}
      BY <1>1, <2>2, <3>3 DEF Then, ApplyWrites, TellsChannel
    <3>4. QED
      BY <3>1, <3>2, <3>3
  <2>3. CASE what = "freshWidth"
    BY <1>1, <2>3 DEF Then, ApplyWrites, TellsChannel
  <2>4. CASE what \notin {"toldChannel", "freshChannel", "freshWidth"}
    BY <2>4 DEF Then, ApplyWrites, TellsChannel
  <2>5. QED
    BY <2>1, <2>2, <2>3, <2>4
<1> HIDE DEF c1, c2, c3, e1, e2, e3, e4
<1>6. Writes(c4, what, of, IF hotspot THEN e4 ELSE <<>>)
  BY <1>4, WritesWhen
<1> HIDE DEF c4
<1>7. Writes(((c1 \o c2) \o c3) \o c4, what, of,
             Then(Then(Then(e1, e2), e3), IF hotspot THEN e4 ELSE <<>>))
  BY <1>3, <1>4, <1>6, WritesFour
<1>8. QED
  BY <1>2, <1>5, <1>7, Zenon

\* A channel, from the second channel to the return.
LEMMA WritesChannelCommands ==
    ASSUME NEW r \in Radio, NEW v \in Nat, NEW hotspot \in BOOLEAN, NEW w, NEW what, NEW of
    PROVE  Writes(ChannelCommands(r, v, hotspot, w), what, of,
                  ChannelWrites(r, v, hotspot, w, what, of))
<1> DEFINE sure == {<<"channel", r>>, <<"public", r>>}
                      \cup (IF ExtOf(v) # {} THEN {<<"ext", r>>} ELSE {})
           marked == IF ExtOf(v) # {} THEN {} ELSE {<<"ext", r>>}
           c1 == SetExt(r, v, w)
           c2 == <<HostapdWrite(r, "channel", v)>>
           c3 == ApplyChannel(r, v, hotspot)
           c4 == <<Return(sure, marked)>>
           e1 == IF what = "ht" /\ of = r THEN ExtWrites(r, v, w) ELSE <<>>
           e2 == FilesChannel(r, v, what, of)
           e3 == ApplyWrites(r, v, hotspot, what, of)
           e4 == CASE what = "open" /\ of \in marked -> <<"open">>
                   [] what = "open" /\ of \in sure \ marked -> <<"sure">>
                   [] OTHER -> <<>>
<1>1. ChannelCommands(r, v, hotspot, w) = ((c1 \o c2) \o c3) \o c4
  BY Zenon DEF ChannelCommands
<1>2. sure \in SUBSET Note /\ marked \in SUBSET Note
  BY DEF Note
<1>3. Writes(c1, what, of, e1) /\ Writes(c2, what, of, e2)
  BY WritesExt, WritesChannel
<1>4. Writes(c3, what, of, e3)
  BY WritesApply
<1>5. Then(Then(Then(e1, e2), e3), e4) = ChannelWrites(r, v, hotspot, w, what, of)
  <2>1. what \notin {"toldChannel", "freshChannel", "freshWidth"} => e3 = <<>>
    BY DEF ApplyWrites
  <2>2. what \in {"toldChannel", "freshChannel", "freshWidth"} =>
           e1 = <<>> /\ e2 = <<>> /\ e4 = <<>> /\ ChannelWrites(r, v, hotspot, w, what, of) = e3
    BY DEF ChannelWrites, FilesChannel
  <2>3. what = "open" => /\ e1 = <<>> /\ e2 = <<>>
                         /\ e4 = ChannelWrites(r, v, hotspot, w, what, of)
    BY DEF ChannelWrites, FilesChannel
  <2>4. what = "ht" => /\ e2 = <<>> /\ e4 = <<>>
                       /\ e1 = ChannelWrites(r, v, hotspot, w, what, of)
    BY DEF ChannelWrites, FilesChannel
  <2>5. what \notin {"toldChannel", "freshChannel", "freshWidth", "open", "ht"} =>
           e1 = <<>> /\ e4 = <<>> /\ e2 = ChannelWrites(r, v, hotspot, w, what, of)
    BY DEF ChannelWrites, FilesChannel
  <2> HIDE DEF e1, e2, e3, e4
  <2>6. QED
    BY <2>1, <2>2, <2>3, <2>4, <2>5 DEF Then
<1> HIDE DEF sure, marked
<1>6. Writes(c4, what, of, e4)
  BY <1>2, WritesReturn
<1> HIDE DEF c1, c2, c3, c4, e1, e2, e3, e4
<1>7. Writes(((c1 \o c2) \o c3) \o c4, what, of, Then(Then(Then(e1, e2), e3), e4))
  BY <1>3, <1>4, <1>6, WritesFour
<1>8. QED
  BY <1>1, <1>5, <1>7, Zenon

\* A width, from the file of its own to the return.
LEMMA WritesWidthCommands ==
    ASSUME NEW r \in Radio, NEW w \in Width, NEW what, NEW of
    PROVE  Writes(WidthCommands(r, w), what, of, WidthWrites(r, w, what, of))
<1> DEFINE n == IF w = "20MHz" THEN 0 ELSE 1
           narrow == r = 1 /\ w \in {"20MHz", "40MHz"}
           given == IF narrow THEN n ELSE Code(w)
           marked == IF r = 1 /\ w = "40MHz" THEN {<<"width", r>>} ELSE {}
           sure == {<<"report", r>>, <<"width", r>>}
           c1 == <<WriteBandWidth(r, w)>>
           c2 == <<HostapdWrite(r, "width", Code(w))>>
           c3 == When(narrow, <<HostapdWrite(r, "n", n)>>)
           c4 == <<Told(r, "width", given)>>
           c5 == <<Restart(r)>>
           c6 == <<Return(sure, marked)>>
           e1 == IF what = "bw" /\ of = r THEN <<w>> ELSE <<>>
           e2 == IF what = "width" /\ of = r THEN <<Code(w)>> ELSE <<>>
           e4 == CASE what = "toldWidth" /\ of = r -> <<given>>
                   [] what = "freshWidth" /\ of = r -> <<"stale">>
                   [] OTHER -> <<>>
           e5 == IF what \in {"freshChannel", "freshWidth"} /\ of = r THEN <<"fresh">> ELSE <<>>
           e6 == CASE what = "open" /\ of \in marked -> <<"open">>
                   [] what = "open" /\ of \in sure \ marked -> <<"sure">>
                   [] OTHER -> <<>>
<1>1. WidthCommands(r, w) = ((c1 \o c2) \o c3) \o ((c4 \o c5) \o c6)
  <2>1. WidthCommands(r, w) = <<WriteBandWidth(r, w), HostapdWrite(r, "width", Code(w))>>
                              \o c3 \o <<Told(r, "width", given), Restart(r), Return(sure, marked)>>
    BY Zenon DEF WidthCommands
  <2> HIDE DEF given, sure, marked, c3
  <2>2. <<WriteBandWidth(r, w), HostapdWrite(r, "width", Code(w))>> = c1 \o c2
    BY TwoCommands
  <2>3. <<Told(r, "width", given), Restart(r), Return(sure, marked)>> = (c4 \o c5) \o c6
    BY ThreeCommands
  <2>4. QED
    BY <2>1, <2>2, <2>3, Zenon
<1>2. /\ n \in {0, 1} /\ narrow \in BOOLEAN /\ Code(w) \in 0 .. 3 /\ given \in 0 .. 3
      /\ given = IF r = 1 /\ w = "40MHz" THEN 1 ELSE Code(w)
      /\ sure \in SUBSET Note /\ marked \in SUBSET Note /\ r \in Ap
  <2>1. n \in {0, 1} /\ narrow \in BOOLEAN /\ Code(w) \in 0 .. 3 /\ r \in Ap
    BY CodeType, Numbers
  <2>2. given = IF r = 1 /\ w = "40MHz" THEN 1 ELSE Code(w)
    BY CodeIs
  <2>3. given \in 0 .. 3
    BY <2>1, <2>2
  <2>4. sure \in SUBSET Note /\ marked \in SUBSET Note
    BY DEF Note
  <2>5. QED
    BY <2>1, <2>2, <2>3, <2>4
<1>3. Writes(c1, what, of, e1) /\ Writes(c2, what, of, e2)
  BY <1>2, WritesBandWidth, WritesWidth
<1>4. Then(Then(Then(e1, e2), <<>>), Then(Then(e4, e5), e6)) = WidthWrites(r, w, what, of)
  <2>1. CASE what = "open"
    <3>1. /\ e1 = <<>> /\ e2 = <<>> /\ e4 = <<>> /\ e5 = <<>>
          /\ e6 = WidthWrites(r, w, what, of)
      BY <2>1 DEF WidthWrites
    <3> HIDE DEF e1, e2, e4, e5, e6
    <3>2. QED
      BY <3>1 DEF Then
  <2>2. CASE what \in {"bw", "width"}
    BY <2>2 DEF Then, WidthWrites
  <2>3. CASE what = "toldWidth"
    <3>1. /\ e1 = <<>> /\ e2 = <<>> /\ e5 = <<>> /\ e6 = <<>>
          /\ e4 = WidthWrites(r, w, what, of)
      BY <1>2, <2>3 DEF WidthWrites
    <3> HIDE DEF e1, e2, e4, e5, e6
    <3>2. QED
      BY <3>1 DEF Then
  <2>4. CASE what \in {"freshChannel", "freshWidth"}
    BY <2>4 DEF Then, WidthWrites
  <2>5. CASE what \notin {"open", "bw", "width", "toldWidth", "freshChannel", "freshWidth"}
    BY <2>5 DEF Then, WidthWrites
  <2>6. QED
    BY <2>1, <2>2, <2>3, <2>4, <2>5
<1> HIDE DEF n, narrow, given, sure, marked
<1>5. Writes(c3, what, of, <<>>)
  <2>1. Writes(<<HostapdWrite(r, "n", n)>>, what, of, <<>>)
    BY <1>2, WritesN
  <2>2. Writes(c3, what, of, IF narrow THEN <<>> ELSE <<>>)
    BY <1>2, <2>1, WritesWhen
  <2>3. QED
    BY <2>2
<1>6. Writes(c4, what, of, e4) /\ Writes(c5, what, of, e5)
  BY <1>2, WritesToldWidth, WritesRestart
<1>7. Writes(c6, what, of, e6)
  BY <1>2, WritesReturn
<1> HIDE DEF c1, c2, c3, c4, c5, c6, e1, e2, e4, e5, e6
<1>8. Writes((c1 \o c2) \o c3, what, of, Then(Then(e1, e2), <<>>))
  BY <1>3, <1>5, WritesThree
<1>9. Writes((c4 \o c5) \o c6, what, of, Then(Then(e4, e5), e6))
  BY <1>6, <1>7, WritesThree
<1>10. Writes(((c1 \o c2) \o c3) \o ((c4 \o c5) \o c6), what, of,
              Then(Then(Then(e1, e2), <<>>), Then(Then(e4, e5), e6)))
  BY <1>8, <1>9, WritesBoth
<1>11. QED
  BY <1>1, <1>4, <1>10, Zenon

-----------------------------------------------------------------------------
(***************************************************************************)
(* The invariant.                                                          *)
(***************************************************************************)

Setting == [channel : Nat, width : 0 .. 3, n : {0, 1}, ht : Ht]
Given   == [channel : Nat, width : 0 .. 3]

TypeOK ==
    /\ file \in [Radio -> Setting] /\ bw \in [Radio -> Width]
    /\ prev \in [Radio -> Nat \cup {NoFile, Empty}] /\ unset \in BOOLEAN
    /\ told \in [Ap -> Given] /\ air \in [Ap -> Given]
    /\ todo \in Seq(Command)
    /\ asked \in [Radio -> Width] /\ auto \in SUBSET Radio
    /\ unsure \in SUBSET (Note \cup ({"remembered"} \X Radio))

Fresh(same) == IF same THEN "fresh" ELSE "stale"

\* What a setting is now, and what it is after the commands that are left.
Now(what, of) ==
    CASE what = "channel" -> file[of].channel
      [] what = "width" -> file[of].width
      [] what = "ht" -> file[of].ht
      [] what = "bw" -> bw[of]
      [] what = "toldChannel" -> told[of].channel
      [] what = "toldWidth" -> told[of].width
      [] what = "freshChannel" -> Fresh(air[of].channel = told[of].channel)
      [] what = "freshWidth" -> Fresh(air[of].width = told[of].width)
      [] what = "open" -> IF of \in unsure THEN "open" ELSE "sure"

After(what, of) == Over(Now(what, of), Net(todo, what, of))

Open(what, r) == After("open", <<what, r>>) = "open"

\* What is left of a call leads to a channel that the file, hostapd and the interface have,
ChannelLeads(r) ==
    Open("channel", r) \/ /\ After("toldChannel", r) = After("channel", r)
                          /\ After("freshChannel", r) = "fresh"

\* the public access point too,
PublicLeads(r) == Open("public", r) \/ After("toldChannel", r + 4) = After("channel", r)

\* to such a width,
WidthLeads(r) ==
    Open("width", r) \/ /\ After("toldWidth", r) = After("width", r)
                        /\ After("freshWidth", r) = "fresh"

\* which both files agree on and is the one asked for,
ReportLeads(r) ==
    Open("report", r) \/ /\ After("width", r) = Code(asked[r])
                         /\ Code(asked[r]) = 0 => After("bw", r) = asked[r]

\* and to the second channel that belongs to the channel.
ExtLeads == Open("ext", 1) \/ After("ht", 1) = ExtFor(After("channel", 1))

Heading ==
    /\ \A r \in Radio : ChannelLeads(r) /\ PublicLeads(r) /\ WidthLeads(r) /\ ReportLeads(r)
    /\ ExtLeads

\* The remembered channel of an automatic radio is not replaced, and is the channel.
AutoLeads ==
    \A r \in auto : /\ prev[r] \notin {NoFile, Empty} /\ Net(todo, "prev", r) = <<>>
                    /\ After("channel", r) = prev[r]

IInv == TypeOK /\ Heading /\ AutoLeads

\* The parts of a command.
LEMMA CommandParts ==
    ASSUME NEW c \in Command
    PROVE  /\ c.do \in {"bw", "file", "truncate", "prev", "told", "restart", "return"}
           /\ c.do = "bw" => c.r \in Radio /\ c.to \in Width
           /\ c.do = "file" => /\ c.r \in Radio
                               /\ \/ c.name = "channel" /\ c.to \in Nat
                                  \/ c.name = "width" /\ c.to \in 0 .. 3
                                  \/ c.name = "n" /\ c.to \in {0, 1}
                                  \/ c.name = "ht" /\ c.to \in Ht
           /\ c.do \in {"truncate", "prev"} => c.r \in Radio
           /\ c.do = "told" => /\ c.ap \in Ap
                               /\ \/ c.name = "channel" /\ c.to \in Nat
                                  \/ c.name = "width" /\ c.to \in 0 .. 3
           /\ c.do = "restart" => c.ap \in Ap
           /\ c.do = "return" => c.sure \in SUBSET Note /\ c.open \in SUBSET Note
BY DEF Command

\* One setting of a file, or of what hostapd has, replaced.
Put(f, r, name, v) == [f EXCEPT ![r][name] = v]

\* What is left of a file, and of what hostapd was given, after one value of it is set.
LEMMA PutSetting ==
    ASSUME NEW f \in [Radio -> Setting], NEW r \in Radio, NEW name, NEW v, NEW g,
           \/ name = "channel" /\ v \in Nat
           \/ name = "width" /\ v \in 0 .. 3
           \/ name = "n" /\ v \in {0, 1}
           \/ name = "ht" /\ v \in Ht,
           g = Put(f, r, name, v)
    PROVE  /\ g \in [Radio -> Setting]
           /\ \A q \in Radio :
                 /\ g[q].channel = IF name = "channel" /\ q = r THEN v ELSE f[q].channel
                 /\ g[q].width = IF name = "width" /\ q = r THEN v ELSE f[q].width
                 /\ g[q].ht = IF name = "ht" /\ q = r THEN v ELSE f[q].ht
<1>1. CASE name = "channel" /\ v \in Nat
  BY <1>1 DEF Setting, Put
<1>2. CASE name = "width" /\ v \in 0 .. 3
  BY <1>2 DEF Setting, Put
<1>3. CASE name = "n" /\ v \in {0, 1}
  BY <1>3 DEF Setting, Put
<1>4. CASE name = "ht" /\ v \in Ht
  BY <1>4 DEF Setting, Put
<1>5. QED
  BY <1>1, <1>2, <1>3, <1>4

LEMMA PutGiven ==
    ASSUME NEW f \in [Ap -> Given], NEW r \in Ap, NEW name, NEW v, NEW g,
           \/ name = "channel" /\ v \in Nat
           \/ name = "width" /\ v \in 0 .. 3,
           g = Put(f, r, name, v)
    PROVE  /\ g \in [Ap -> Given]
           /\ \A q \in Ap :
                 /\ g[q].channel = IF name = "channel" /\ q = r THEN v ELSE f[q].channel
                 /\ g[q].width = IF name = "width" /\ q = r THEN v ELSE f[q].width
<1>1. CASE name = "channel" /\ v \in Nat
  BY <1>1 DEF Given, Put
<1>2. CASE name = "width" /\ v \in 0 .. 3
  BY <1>2 DEF Given, Put
<1>3. QED
  BY <1>1, <1>2

\* A command writes what its effect is.
LEMMA StepValues ==
    ASSUME TypeOK, Step, NEW c, c = Head(todo)
    PROVE  /\ \A r \in Radio :
                 /\ file'[r].channel = Over(file[r].channel, Effect(c, "channel", r))
                 /\ file'[r].width = Over(file[r].width, Effect(c, "width", r))
                 /\ file'[r].ht = Over(file[r].ht, Effect(c, "ht", r))
                 /\ bw'[r] = Over(bw[r], Effect(c, "bw", r))
                 /\ Effect(c, "prev", r) = <<>> => prev'[r] = prev[r]
           /\ \A ap \in Ap :
                 /\ told'[ap].channel = Over(told[ap].channel, Effect(c, "toldChannel", ap))
                 /\ told'[ap].width = Over(told[ap].width, Effect(c, "toldWidth", ap))
                 /\ Effect(c, "freshChannel", ap) = <<>> =>
                       /\ told'[ap].channel = told[ap].channel
                       /\ air'[ap].channel = air[ap].channel
                 /\ Effect(c, "freshChannel", ap) \in {<<>>, <<"stale">>}
                       \/ air'[ap].channel = told'[ap].channel
                 /\ Effect(c, "freshWidth", ap) = <<>> =>
                       /\ told'[ap].width = told[ap].width
                       /\ air'[ap].width = air[ap].width
                 /\ Effect(c, "freshWidth", ap) \in {<<>>, <<"stale">>}
                       \/ air'[ap].width = told'[ap].width
           /\ \A x : x \in unsure' <=>
                 Over(IF x \in unsure THEN "open" ELSE "sure", Effect(c, "open", x)) = "open"
           /\ TypeOK'
<1>1. /\ c \in Command /\ todo' \in Seq(Command) /\ todo # <<>>
      /\ UNCHANGED <<unset, asked, auto>>
  BY DEF TypeOK, Step
<1>2. CASE c.do = "bw"
  <2>1. /\ c.r \in Radio /\ c.to \in Width /\ bw' = [bw EXCEPT ![c.r] = c.to]
        /\ UNCHANGED <<file, prev, told, air, unsure>>
    BY <1>1, <1>2, CommandParts DEF Step, apVars
  <2>2. QED
    BY <1>1, <1>2, <2>1 DEF TypeOK, Effect, Over
<1>3. CASE c.do = "file"
  <2>1. /\ c.r \in Radio /\ file' = [file EXCEPT ![c.r][c.name] = c.to]
        /\ UNCHANGED <<bw, prev, told, air, unsure>>
    BY <1>1, <1>3, CommandParts DEF Step, apVars
  <2>2. file' \in [Radio -> Setting]
        /\ \A r \in Radio :
           /\ file'[r].channel = IF c.name = "channel" /\ r = c.r THEN c.to ELSE file[r].channel
           /\ file'[r].width = IF c.name = "width" /\ r = c.r THEN c.to ELSE file[r].width
           /\ file'[r].ht = IF c.name = "ht" /\ r = c.r THEN c.to ELSE file[r].ht
    <3>1. \/ c.name = "channel" /\ c.to \in Nat
          \/ c.name = "width" /\ c.to \in 0 .. 3
          \/ c.name = "n" /\ c.to \in {0, 1}
          \/ c.name = "ht" /\ c.to \in Ht
      BY <1>1, <1>3, CommandParts
    <3>2. file \in [Radio -> Setting]
      BY DEF TypeOK
    <3>3. c.r \in Radio /\ file' = Put(file, c.r, c.name, c.to)
      BY <2>1 DEF Put
    <3>4. QED
      BY <3>1, <3>2, <3>3, PutSetting
  <2>3. TypeOK'
    BY <1>1, <2>1, <2>2 DEF TypeOK
  <2>4. /\ \A r \in Radio : /\ Effect(c, "channel", r) = IF c.name = "channel" /\ r = c.r
                                                           THEN <<c.to>> ELSE <<>>
                            /\ Effect(c, "width", r) = IF c.name = "width" /\ r = c.r
                                                         THEN <<c.to>> ELSE <<>>
                            /\ Effect(c, "ht", r) = IF c.name = "ht" /\ r = c.r
                                                      THEN <<c.to>> ELSE <<>>
                            /\ Effect(c, "bw", r) = <<>>
        /\ \A ap \in Ap : /\ Effect(c, "toldChannel", ap) = <<>>
                          /\ Effect(c, "toldWidth", ap) = <<>>
                          /\ Effect(c, "freshChannel", ap) = <<>>
                          /\ Effect(c, "freshWidth", ap) = <<>>
        /\ \A x : Effect(c, "open", x) = <<>>
    BY <1>3 DEF Effect
  <2>5. QED
    BY <2>1, <2>2, <2>3, <2>4 DEF Over
<1>4. CASE c.do \in {"truncate", "prev"}
  <2>1. /\ c.r \in Radio
        /\ prev' = [prev EXCEPT ![c.r] = IF c.do = "prev" THEN file[c.r].channel ELSE Empty]
        /\ UNCHANGED <<file, bw, told, air, unsure>>
    BY <1>1, <1>4, CommandParts DEF Step, apVars
  <2>2. TypeOK'
    BY <1>1, <2>1 DEF TypeOK, Setting
  <2>3. /\ \A r \in Radio : /\ Effect(c, "channel", r) = <<>> /\ Effect(c, "width", r) = <<>>
                            /\ Effect(c, "ht", r) = <<>> /\ Effect(c, "bw", r) = <<>>
                            /\ Effect(c, "prev", r) = <<>> => r # c.r
        /\ \A ap \in Ap : /\ Effect(c, "toldChannel", ap) = <<>>
                          /\ Effect(c, "toldWidth", ap) = <<>>
                          /\ Effect(c, "freshChannel", ap) = <<>>
                          /\ Effect(c, "freshWidth", ap) = <<>>
        /\ \A x : Effect(c, "open", x) = <<>>
    BY <1>4 DEF Effect
  <2>4. QED
    BY <2>1, <2>2, <2>3 DEF Over, TypeOK
<1>5. CASE c.do = "told"
  <2>1. /\ c.ap \in Ap /\ told' = [told EXCEPT ![c.ap][c.name] = c.to]
        /\ UNCHANGED <<file, bw, prev, air, unsure>>
    BY <1>1, <1>5, CommandParts DEF Step, fileVars
  <2>2. told' \in [Ap -> Given]
        /\ \A ap \in Ap :
           /\ told'[ap].channel = IF c.name = "channel" /\ ap = c.ap
                                    THEN c.to ELSE told[ap].channel
           /\ told'[ap].width = IF c.name = "width" /\ ap = c.ap THEN c.to ELSE told[ap].width
    <3>1. \/ c.name = "channel" /\ c.to \in Nat
          \/ c.name = "width" /\ c.to \in 0 .. 3
      BY <1>1, <1>5, CommandParts
    <3>2. told \in [Ap -> Given]
      BY DEF TypeOK
    <3>3. c.ap \in Ap /\ told' = Put(told, c.ap, c.name, c.to)
      BY <2>1 DEF Put
    <3>4. QED
      BY <3>1, <3>2, <3>3, PutGiven
  <2>3. TypeOK'
    BY <1>1, <2>1, <2>2 DEF TypeOK
  <2>4. /\ \A r \in Radio : /\ Effect(c, "channel", r) = <<>> /\ Effect(c, "width", r) = <<>>
                            /\ Effect(c, "ht", r) = <<>> /\ Effect(c, "bw", r) = <<>>
        /\ \A ap \in Ap :
              /\ Effect(c, "toldChannel", ap) = IF c.name = "channel" /\ ap = c.ap
                                                  THEN <<c.to>> ELSE <<>>
              /\ Effect(c, "toldWidth", ap) = IF c.name = "width" /\ ap = c.ap
                                                THEN <<c.to>> ELSE <<>>
              /\ Effect(c, "freshChannel", ap) = IF c.name = "channel" /\ ap = c.ap
                                                   THEN <<"stale">> ELSE <<>>
              /\ Effect(c, "freshWidth", ap) = IF c.name = "width" /\ ap = c.ap
                                                 THEN <<"stale">> ELSE <<>>
        /\ \A x : Effect(c, "open", x) = <<>>
    BY <1>5 DEF Effect
  <2>5. QED
    BY <2>1, <2>2, <2>3, <2>4 DEF Over
<1>6. CASE c.do = "restart"
  <2>1. /\ c.ap \in Ap /\ air' = [air EXCEPT ![c.ap] = told[c.ap]]
        /\ UNCHANGED <<file, bw, prev, told, unsure>>
    BY <1>1, <1>6, CommandParts DEF Step, fileVars
  <2>2. TypeOK'
    BY <1>1, <2>1 DEF TypeOK
  <2>3. /\ \A r \in Radio : /\ Effect(c, "channel", r) = <<>> /\ Effect(c, "width", r) = <<>>
                            /\ Effect(c, "ht", r) = <<>> /\ Effect(c, "bw", r) = <<>>
        /\ \A ap \in Ap :
              /\ Effect(c, "toldChannel", ap) = <<>> /\ Effect(c, "toldWidth", ap) = <<>>
              /\ Effect(c, "freshChannel", ap) = IF ap = c.ap THEN <<"fresh">> ELSE <<>>
              /\ Effect(c, "freshWidth", ap) = IF ap = c.ap THEN <<"fresh">> ELSE <<>>
        /\ \A x : Effect(c, "open", x) = <<>>
    BY <1>6 DEF Effect
  <2>4. \A ap \in Ap : air'[ap] = IF ap = c.ap THEN told[ap] ELSE air[ap]
    BY <2>1 DEF TypeOK
  <2>5. \A ap \in Ap :
           /\ Effect(c, "freshChannel", ap) \in {<<>>, <<"stale">>} => ap # c.ap
           /\ Effect(c, "freshWidth", ap) \in {<<>>, <<"stale">>} => ap # c.ap
           /\ Effect(c, "freshChannel", ap) = <<>> => ap # c.ap
           /\ Effect(c, "freshWidth", ap) = <<>> => ap # c.ap
    BY <2>3
  <2>6. QED
    BY <2>1, <2>2, <2>3, <2>4, <2>5 DEF Over
<1>7. CASE c.do = "return"
  <2>1. /\ c.sure \in SUBSET Note /\ c.open \in SUBSET Note
        /\ unsure' = (unsure \ c.sure) \cup c.open
        /\ UNCHANGED <<file, bw, prev, told, air>>
    BY <1>1, <1>7, CommandParts DEF Step, fileVars, apVars
  <2>2. TypeOK'
    BY <1>1, <2>1 DEF TypeOK
  <2>3. /\ \A r \in Radio : /\ Effect(c, "channel", r) = <<>> /\ Effect(c, "width", r) = <<>>
                            /\ Effect(c, "ht", r) = <<>> /\ Effect(c, "bw", r) = <<>>
        /\ \A ap \in Ap : /\ Effect(c, "toldChannel", ap) = <<>>
                          /\ Effect(c, "toldWidth", ap) = <<>>
                          /\ Effect(c, "freshChannel", ap) = <<>>
                          /\ Effect(c, "freshWidth", ap) = <<>>
        /\ \A x : Effect(c, "open", x) = IF x \in c.open THEN <<"open">>
                                         ELSE IF x \in c.sure THEN <<"sure">> ELSE <<>>
    BY <1>7 DEF Effect
  <2>4. QED
    BY <2>1, <2>2, <2>3 DEF Over
<1>8. QED
  BY <1>1, <1>2, <1>3, <1>4, <1>5, <1>6, <1>7, CommandParts

-----------------------------------------------------------------------------
(* A command of a call.                                                    *)

\* What is left writes over what a command has written.
LEMMA OverThen == ASSUME NEW was, NEW a, NEW b PROVE Over(was, Then(a, b)) = Over(Over(was, a), b)
BY DEF Over, Then

\* The first command of a list and the others.
LEMMA HeadTail ==
    ASSUME NEW s \in Seq(Command), s # <<>>
    PROVE  Head(s) \in Command /\ Tail(s) \in Seq(Command) /\ s = <<Head(s)>> \o Tail(s)
<1>1. Head(s) \in Command /\ Tail(s) \in Seq(Command) /\ Head(s) = s[1] /\ 1 \in DOMAIN s
  OBVIOUS
<1>2. Len(Tail(s)) = Len(s) - 1 /\ Len(s) \in Nat \ {0}
  OBVIOUS
<1>3. \A i \in DOMAIN Tail(s) : i + 1 \in DOMAIN s /\ Tail(s)[i] = s[i + 1] /\ i \in Nat \ {0}
  OBVIOUS
<1>4. s = <<Head(s)>> \o Tail(s)
  <2> DEFINE d == <<Head(s)>> \o Tail(s)
  <2>1. d \in Seq(Command) /\ Len(d) = Len(s)
    BY <1>1, <1>2
  <2>2. \A i \in 1..Len(s) : d[i] = s[i]
    BY <1>1, <1>2, <1>3
  <2> HIDE DEF d
  <2>3. s = [i \in 1..Len(s) |-> s[i]] /\ d = [i \in 1..Len(d) |-> d[i]]
    BY <2>1
  <2>4. s = d
    BY <2>1, <2>2, <2>3
  <2>5. QED
    BY <2>4 DEF d
<1>5. QED
  BY <1>1, <1>4

\* What the commands write that are left later.
LEMMA NetLater == ASSUME NEW what, NEW of PROVE Net(todo, what, of)' = Net(todo', what, of)
BY DEF Net, IsLast, Keeps

\* What a command writes is no longer left.
LEMMA StepNet ==
    ASSUME TypeOK, Step, NEW c, c = Head(todo), NEW what, NEW of
    PROVE  Net(todo, what, of) = Then(Effect(c, what, of), Net(todo, what, of)')
<1>1. todo \in Seq(Command) /\ todo # <<>> /\ todo' = Tail(todo)
  BY DEF TypeOK, Step
<1>2. c \in Command /\ Tail(todo) \in Seq(Command) /\ todo = <<c>> \o Tail(todo)
  BY <1>1, HeadTail
<1>3. <<c>> \in Seq(Command)
  BY <1>2
<1>4. Net(todo, what, of) = Then(Net(<<c>>, what, of), Net(Tail(todo), what, of))
  <2>1. PICK one, rest : one = <<c>> /\ rest = Tail(todo)
    OBVIOUS
  <2>2. one \in Seq(Command) /\ rest \in Seq(Command) /\ todo = one \o rest
    BY <1>2, <1>3, <2>1, Zenon
  <2>3. Net(one \o rest, what, of) = Then(Net(one, what, of), Net(rest, what, of))
    BY <2>2, NetBoth
  <2>4. QED
    BY <2>1, <2>2, <2>3, Zenon
<1>5. Net(<<c>>, what, of) = Effect(c, what, of)
  BY NetOne
<1>6. Net(todo, what, of)' = Net(todo', what, of)
  BY NetLater
<1>7. QED
  BY <1>1, <1>4, <1>5, <1>6, Zenon

\* A command leaves what a call leads to as it is.
LEMMA StepAfter ==
    ASSUME TypeOK, Step
    PROVE  /\ \A r \in Radio :
                 /\ After("channel", r)' = After("channel", r)
                 /\ After("width", r)' = After("width", r)
                 /\ After("ht", r)' = After("ht", r)
                 /\ After("bw", r)' = After("bw", r)
           /\ \A ap \in Ap :
                 /\ After("toldChannel", ap)' = After("toldChannel", ap)
                 /\ After("toldWidth", ap)' = After("toldWidth", ap)
                 /\ After("freshChannel", ap) = "fresh" => After("freshChannel", ap)' = "fresh"
                 /\ After("freshWidth", ap) = "fresh" => After("freshWidth", ap)' = "fresh"
           /\ \A what, r : Open(what, r)' <=> Open(what, r)
<1>1. PICK c : c = Head(todo)
  OBVIOUS
<1>2. ASSUME NEW what, NEW of, Now(what, of)' = Over(Now(what, of), Effect(c, what, of))
      PROVE  After(what, of)' = After(what, of)
  <2>1. Net(todo, what, of) = Then(Effect(c, what, of), Net(todo, what, of)')
    BY <1>1, StepNet
  <2>2. After(what, of)' = Over(Now(what, of)', Net(todo, what, of)')
    BY DEF After, Over
  <2>3. QED
    BY <1>2, <2>1, <2>2, OverThen DEF After
<1>3. ASSUME NEW r \in Radio
      PROVE  /\ After("channel", r)' = After("channel", r)
             /\ After("width", r)' = After("width", r)
             /\ After("ht", r)' = After("ht", r)
             /\ After("bw", r)' = After("bw", r)
  <2>1. /\ file'[r].channel = Over(file[r].channel, Effect(c, "channel", r))
        /\ file'[r].width = Over(file[r].width, Effect(c, "width", r))
        /\ file'[r].ht = Over(file[r].ht, Effect(c, "ht", r))
        /\ bw'[r] = Over(bw[r], Effect(c, "bw", r))
    BY <1>1, StepValues
  <2>2. /\ Now("channel", r)' = Over(Now("channel", r), Effect(c, "channel", r))
        /\ Now("width", r)' = Over(Now("width", r), Effect(c, "width", r))
        /\ Now("ht", r)' = Over(Now("ht", r), Effect(c, "ht", r))
        /\ Now("bw", r)' = Over(Now("bw", r), Effect(c, "bw", r))
    BY <2>1 DEF Now
  <2>3. QED
    BY <1>2, <2>2
<1>4. ASSUME NEW ap \in Ap
      PROVE  /\ After("toldChannel", ap)' = After("toldChannel", ap)
             /\ After("toldWidth", ap)' = After("toldWidth", ap)
  <2>1. /\ told'[ap].channel = Over(told[ap].channel, Effect(c, "toldChannel", ap))
        /\ told'[ap].width = Over(told[ap].width, Effect(c, "toldWidth", ap))
    BY <1>1, StepValues
  <2>2. /\ Now("toldChannel", ap)' = Over(Now("toldChannel", ap), Effect(c, "toldChannel", ap))
        /\ Now("toldWidth", ap)' = Over(Now("toldWidth", ap), Effect(c, "toldWidth", ap))
    BY <2>1 DEF Now
  <2>3. QED
    BY <1>2, <2>2
<1>5. ASSUME NEW ap \in Ap, NEW what \in {"freshChannel", "freshWidth"},
             After(what, ap) = "fresh"
      PROVE  After(what, ap)' = "fresh"
  <2> DEFINE e == Effect(c, what, ap)
             n == Net(todo, what, ap)'
  <2>1. Net(todo, what, ap) = Then(e, n)
    BY <1>1, StepNet
  <2>2. After(what, ap)' = Over(Now(what, ap)', n)
    BY DEF After, Over
  <2>3. e = <<>> => Now(what, ap)' = Now(what, ap)
    <3>1. CASE what = "freshChannel"
      BY <1>1, <3>1, StepValues DEF Now, Fresh
    <3>2. CASE what = "freshWidth"
      BY <1>1, <3>2, StepValues DEF Now, Fresh
    <3>3. QED
      BY <3>1, <3>2
  <2>4. e \in {<<>>, <<"stale">>} \/ Now(what, ap)' = "fresh"
    <3>1. CASE what = "freshChannel"
      BY <1>1, <3>1, StepValues DEF Now, Fresh
    <3>2. CASE what = "freshWidth"
      BY <1>1, <3>2, StepValues DEF Now, Fresh
    <3>3. QED
      BY <3>1, <3>2
  <2>5. Over(Now(what, ap), Then(e, n)) = "fresh"
    BY <1>5, <2>1 DEF After
  <2> HIDE DEF e, n
  <2>6. CASE n # <<>>
    BY <2>2, <2>5, <2>6 DEF Over, Then
  <2>7. CASE n = <<>>
    <3>1. e # <<"stale">>
      BY <2>5, <2>7 DEF Over, Then
    <3>2. e = <<>> => Now(what, ap) = "fresh"
      BY <2>5, <2>7 DEF Over, Then
    <3>3. QED
      BY <2>2, <2>3, <2>4, <2>7, <3>1, <3>2 DEF Over
  <2>8. QED
    BY <2>6, <2>7
<1>6. ASSUME NEW what, NEW r
      PROVE  Open(what, r)' <=> Open(what, r)
  <2>1. PICK x : x = <<what, r>>
    OBVIOUS
  <2> DEFINE e == Effect(c, "open", x)
             n == Net(todo, "open", x)'
  <2>2. Net(todo, "open", x) = Then(e, n)
    BY <1>1, StepNet
  <2>3. After("open", x)' = Over(Now("open", x)', n)
    BY DEF After, Over
  <2>4. Now("open", x)' = "open" <=> Over(Now("open", x), e) = "open"
    BY <1>1, StepValues DEF Now
  <2>5. After("open", x) = Over(Over(Now("open", x), e), n)
    BY <2>2, OverThen DEF After
  <2> HIDE DEF e, n
  <2>6. After("open", x)' = "open" <=> After("open", x) = "open"
    BY <2>3, <2>4, <2>5 DEF Over
  <2>7. QED
    BY <2>1, <2>6 DEF Open
<1>7. QED
  BY <1>3, <1>4, <1>5, <1>6

\* A command keeps the invariant.
LEMMA StepIInv == ASSUME IInv, Step PROVE IInv'
<1>1. TypeOK /\ Heading /\ AutoLeads /\ UNCHANGED <<asked, auto>>
  BY DEF IInv, Step
<1>2. TypeOK'
  BY <1>1, StepValues
<1>3. ASSUME NEW r \in Radio
      PROVE  ChannelLeads(r)' /\ PublicLeads(r)' /\ WidthLeads(r)' /\ ReportLeads(r)'
  <2>1. ChannelLeads(r) /\ PublicLeads(r) /\ WidthLeads(r) /\ ReportLeads(r) /\ r \in Ap /\ r + 4 \in Ap
    BY <1>1, Numbers DEF Heading
  <2>2. asked'[r] = asked[r]
    BY <1>1
  <2>3. ChannelLeads(r)'
    BY <1>1, <2>1, StepAfter DEF ChannelLeads
  <2>4. PublicLeads(r)'
    BY <1>1, <2>1, StepAfter DEF PublicLeads
  <2>5. WidthLeads(r)'
    BY <1>1, <2>1, StepAfter DEF WidthLeads
  <2>6. ReportLeads(r)'
    BY <1>1, <2>1, <2>2, StepAfter DEF ReportLeads
  <2>7. QED
    BY <2>3, <2>4, <2>5, <2>6
<1>4. ExtLeads'
  BY <1>1, StepAfter DEF Heading, ExtLeads, Radio
<1>5. ASSUME NEW r \in auto
      PROVE  /\ prev'[r] \notin {NoFile, Empty} /\ Net(todo, "prev", r)' = <<>>
             /\ After("channel", r)' = prev'[r]
  <2>1. PICK c : c = Head(todo)
    OBVIOUS
  <2>2. /\ prev[r] \notin {NoFile, Empty} /\ Net(todo, "prev", r) = <<>>
        /\ After("channel", r) = prev[r] /\ r \in Radio
    BY <1>1 DEF AutoLeads, TypeOK
  <2>3. Net(todo, "prev", r) = Then(Effect(c, "prev", r), Net(todo, "prev", r)')
    BY <1>1, <2>1, StepNet
  <2>4. Effect(c, "prev", r) = <<>> /\ Net(todo, "prev", r)' = <<>>
    BY <2>2, <2>3 DEF Then
  <2>5. prev'[r] = prev[r]
    BY <1>1, <2>1, <2>2, <2>4, StepValues
  <2>6. QED
    BY <1>1, <2>2, <2>4, <2>5, StepAfter
<1>6. QED
  BY <1>1, <1>2, <1>3, <1>4, <1>5 DEF IInv, Heading, AutoLeads

-----------------------------------------------------------------------------
(* What the calls leave of each radio.                                     *)

Stored(r, b, what, of) == IF b /\ what = "prev" /\ of = r THEN <<"stored">> ELSE <<>>

\* The current channel is remembered if b.
LEMMA WritesStored ==
    ASSUME NEW r \in Radio, NEW b \in BOOLEAN, NEW what, NEW of
    PROVE  Writes(When(b, <<Truncate(r), StorePrev(r)>>), what, of, Stored(r, b, what, of))
<1> DEFINE e == IF what = "prev" /\ of = r THEN <<"stored">> ELSE <<>>
<1>1. PICK s : s = <<Truncate(r), StorePrev(r)>>
  OBVIOUS
<1>2. Writes(s, what, of, e)
  BY <1>1, WritesPrev, Zenon
<1>3. (IF b THEN e ELSE <<>>) = Stored(r, b, what, of)
  BY DEF Stored
<1> HIDE DEF e
<1>4. Writes(When(b, s), what, of, IF b THEN e ELSE <<>>)
  BY <1>2, WritesWhen
<1>5. QED
  BY <1>1, <1>3, <1>4, Zenon

\* The rows of the tables.
ChannelRows(r, v, hotspot, w, q) ==
    /\ ChannelWrites(r, v, hotspot, w, "channel", q) = IF q = r THEN <<v>> ELSE <<>>
    /\ ChannelWrites(r, v, hotspot, w, "alien", q)
         = IF q = r /\ v # 0 /\ BandOf(v) # r THEN <<"alien">> ELSE <<>>
    /\ ChannelWrites(r, v, hotspot, w, "zero", q) = IF q = r /\ v = 0 THEN <<"zero">> ELSE <<>>
    /\ ChannelWrites(r, v, hotspot, w, "ht", q) = IF q = r THEN ExtWrites(r, v, w) ELSE <<>>
    /\ ChannelWrites(r, v, hotspot, w, "toldChannel", q) = IF q = r THEN <<v>> ELSE <<>>
    /\ ChannelWrites(r, v, hotspot, w, "toldChannel", q + 4) = IF q = r THEN <<v>> ELSE <<>>
    /\ ChannelWrites(r, v, hotspot, w, "freshChannel", q) = IF q = r THEN <<"fresh">> ELSE <<>>
    /\ ChannelWrites(r, v, hotspot, w, "freshWidth", q) = IF q = r THEN <<"fresh">> ELSE <<>>
    /\ ChannelWrites(r, v, hotspot, w, "width", q) = <<>>
    /\ ChannelWrites(r, v, hotspot, w, "bw", q) = <<>>
    /\ ChannelWrites(r, v, hotspot, w, "toldWidth", q) = <<>>
    /\ ChannelWrites(r, v, hotspot, w, "prev", q) = <<>>
    /\ ChannelWrites(r, v, hotspot, w, "open", <<"channel", q>>)
          = IF q = r THEN <<"sure">> ELSE <<>>
    /\ ChannelWrites(r, v, hotspot, w, "open", <<"public", q>>)
          = IF q = r THEN <<"sure">> ELSE <<>>
    /\ ChannelWrites(r, v, hotspot, w, "open", <<"ext", q>>)
          = IF q = r THEN IF ExtOf(v) # {} THEN <<"sure">> ELSE <<"open">> ELSE <<>>
    /\ ChannelWrites(r, v, hotspot, w, "open", <<"width", q>>) = <<>>
    /\ ChannelWrites(r, v, hotspot, w, "open", <<"report", q>>) = <<>>

\* The commands that set a channel write just this.
LEMMA ChannelTable ==
    ASSUME NEW r \in Radio, NEW v, NEW hotspot \in BOOLEAN, NEW w, NEW q \in Radio
    PROVE  ChannelRows(r, v, hotspot, w, q)
<1>1. r + 4 # q /\ q + 4 # r /\ (q + 4 = r + 4 <=> q = r)
  BY DEF Radio
<1>2. /\ ChannelWrites(r, v, hotspot, w, "channel", q) = IF q = r THEN <<v>> ELSE <<>>
      /\ ChannelWrites(r, v, hotspot, w, "ht", q) = IF q = r THEN ExtWrites(r, v, w) ELSE <<>>
      /\ ChannelWrites(r, v, hotspot, w, "width", q) = <<>>
      /\ ChannelWrites(r, v, hotspot, w, "bw", q) = <<>>
      /\ ChannelWrites(r, v, hotspot, w, "toldWidth", q) = <<>>
      /\ ChannelWrites(r, v, hotspot, w, "prev", q) = <<>>
  BY DEF ChannelWrites
<1>3. \A of : /\ ChannelWrites(r, v, hotspot, w, "toldChannel", of)
                   = ApplyWrites(r, v, hotspot, "toldChannel", of)
              /\ ChannelWrites(r, v, hotspot, w, "freshChannel", of)
                   = ApplyWrites(r, v, hotspot, "freshChannel", of)
              /\ ChannelWrites(r, v, hotspot, w, "freshWidth", of)
                   = ApplyWrites(r, v, hotspot, "freshWidth", of)
  BY DEF ChannelWrites
<1>4. /\ ApplyWrites(r, v, hotspot, "toldChannel", q) = IF q = r THEN <<v>> ELSE <<>>
      /\ ApplyWrites(r, v, hotspot, "toldChannel", q + 4) = IF q = r THEN <<v>> ELSE <<>>
      /\ ApplyWrites(r, v, hotspot, "freshChannel", q) = IF q = r THEN <<"fresh">> ELSE <<>>
      /\ ApplyWrites(r, v, hotspot, "freshWidth", q) = IF q = r THEN <<"fresh">> ELSE <<>>
  BY <1>1 DEF ApplyWrites
<1>5. \A x : ChannelWrites(r, v, hotspot, w, "open", x) =
         IF x \in {<<"channel", r>>, <<"public", r>>} THEN <<"sure">>
         ELSE IF x = <<"ext", r>> THEN IF ExtOf(v) # {} THEN <<"sure">> ELSE <<"open">> ELSE <<>>
  BY DEF ChannelWrites
<1>6. /\ <<"channel", q>> \in {<<"channel", r>>, <<"public", r>>} <=> q = r
      /\ <<"public", q>> \in {<<"channel", r>>, <<"public", r>>} <=> q = r
      /\ <<"ext", q>> \notin {<<"channel", r>>, <<"public", r>>}
      /\ <<"ext", q>> = <<"ext", r>> <=> q = r
      /\ <<"width", q>> \notin {<<"channel", r>>, <<"public", r>>, <<"ext", r>>}
      /\ <<"report", q>> \notin {<<"channel", r>>, <<"public", r>>, <<"ext", r>>}
      /\ <<"channel", q>> # <<"ext", r>> /\ <<"public", q>> # <<"ext", r>>
  OBVIOUS
<1>7. /\ ChannelWrites(r, v, hotspot, w, "open", <<"channel", q>>)
            = IF q = r THEN <<"sure">> ELSE <<>>
      /\ ChannelWrites(r, v, hotspot, w, "open", <<"public", q>>)
            = IF q = r THEN <<"sure">> ELSE <<>>
      /\ ChannelWrites(r, v, hotspot, w, "open", <<"ext", q>>)
            = IF q = r THEN IF ExtOf(v) # {} THEN <<"sure">> ELSE <<"open">> ELSE <<>>
      /\ ChannelWrites(r, v, hotspot, w, "open", <<"width", q>>) = <<>>
      /\ ChannelWrites(r, v, hotspot, w, "open", <<"report", q>>) = <<>>
  BY <1>5, <1>6
<1>8. /\ ChannelWrites(r, v, hotspot, w, "alien", q)
           = IF q = r /\ v # 0 /\ BandOf(v) # r THEN <<"alien">> ELSE <<>>
      /\ ChannelWrites(r, v, hotspot, w, "zero", q) = IF q = r /\ v = 0 THEN <<"zero">> ELSE <<>>
  BY DEF ChannelWrites
<1>9. QED
  BY <1>2, <1>3, <1>4, <1>7, <1>8 DEF ChannelRows

WidthRows(r, w, q) ==
    /\ WidthWrites(r, w, "bw", q) = IF q = r THEN <<w>> ELSE <<>>
    /\ WidthWrites(r, w, "width", q) = IF q = r THEN <<Code(w)>> ELSE <<>>
    /\ WidthWrites(r, w, "toldWidth", q) =
          IF q = r THEN <<IF r = 1 /\ w = "40MHz" THEN 1 ELSE Code(w)>> ELSE <<>>
    /\ WidthWrites(r, w, "freshWidth", q) = IF q = r THEN <<"fresh">> ELSE <<>>
    /\ WidthWrites(r, w, "freshChannel", q) = IF q = r THEN <<"fresh">> ELSE <<>>
    /\ WidthWrites(r, w, "channel", q) = <<>> /\ WidthWrites(r, w, "ht", q) = <<>>
    /\ WidthWrites(r, w, "toldChannel", q) = <<>>
    /\ WidthWrites(r, w, "toldChannel", q + 4) = <<>>
    /\ WidthWrites(r, w, "prev", q) = <<>>
    /\ WidthWrites(r, w, "open", <<"report", q>>) = IF q = r THEN <<"sure">> ELSE <<>>
    /\ WidthWrites(r, w, "open", <<"width", q>>) =
          IF q = r THEN IF r = 1 /\ w = "40MHz" THEN <<"open">> ELSE <<"sure">> ELSE <<>>
    /\ WidthWrites(r, w, "open", <<"channel", q>>) = <<>>
    /\ WidthWrites(r, w, "open", <<"public", q>>) = <<>>
    /\ WidthWrites(r, w, "open", <<"ext", q>>) = <<>>
    /\ WidthWrites(r, w, "alien", q) = <<>> /\ WidthWrites(r, w, "zero", q) = <<>>

\* The commands that set a width write just this.
LEMMA WidthTable ==
    ASSUME NEW r \in Radio, NEW w \in Width, NEW q \in Radio
    PROVE  WidthRows(r, w, q)
<1>1. /\ WidthWrites(r, w, "bw", q) = IF q = r THEN <<w>> ELSE <<>>
      /\ WidthWrites(r, w, "width", q) = IF q = r THEN <<Code(w)>> ELSE <<>>
      /\ WidthWrites(r, w, "toldWidth", q) =
            IF q = r THEN <<IF r = 1 /\ w = "40MHz" THEN 1 ELSE Code(w)>> ELSE <<>>
      /\ WidthWrites(r, w, "freshWidth", q) = IF q = r THEN <<"fresh">> ELSE <<>>
      /\ WidthWrites(r, w, "freshChannel", q) = IF q = r THEN <<"fresh">> ELSE <<>>
  BY DEF WidthWrites
<1>2. \A of : /\ WidthWrites(r, w, "channel", of) = <<>> /\ WidthWrites(r, w, "ht", of) = <<>>
              /\ WidthWrites(r, w, "toldChannel", of) = <<>>
              /\ WidthWrites(r, w, "prev", of) = <<>>
              /\ WidthWrites(r, w, "alien", of) = <<>> /\ WidthWrites(r, w, "zero", of) = <<>>
  BY DEF WidthWrites
<1>3. \A x : WidthWrites(r, w, "open", x) =
         IF x = <<"report", r>> THEN <<"sure">>
         ELSE IF x = <<"width", r>> THEN IF r = 1 /\ w = "40MHz" THEN <<"open">> ELSE <<"sure">>
         ELSE <<>>
  BY DEF WidthWrites
<1>4. /\ <<"report", q>> = <<"report", r>> <=> q = r
      /\ <<"width", q>> = <<"width", r>> <=> q = r
      /\ <<"width", q>> # <<"report", r>>
      /\ \A what \in {"channel", "public", "ext"} : <<what, q>> \notin {<<"report", r>>, <<"width", r>>}
  OBVIOUS
<1>5. QED
  BY <1>1, <1>2, <1>3, <1>4 DEF WidthRows

\* What a call writes is what it leads to.
LEMMA CallAfter ==
    ASSUME NEW s, Call(s), NEW what, NEW of
    PROVE  After(what, of)' = Over(After(what, of), Net(s, what, of))
<1>1. todo = <<>> /\ todo' = s /\ UNCHANGED <<file, bw, prev, told, air, unsure>>
  BY DEF Call, fileVars, apVars
<1>2. Net(todo, what, of) = <<>>
  BY <1>1, NetNone
<1>3. Net(todo, what, of)' = Net(todo', what, of)
  BY NetLater
<1>4. Now(what, of)' = Now(what, of)
  BY <1>1 DEF Now, Fresh
<1>5. After(what, of)' = Over(Now(what, of)', Net(todo, what, of)')
  BY DEF After, Over
<1>6. QED
  BY <1>1, <1>2, <1>3, <1>4, <1>5 DEF After, Over

\* A call leaves the channel of a radio alone, sets it everywhere, or leaves it marked;
ChannelKept(q) ==
    /\ After("channel", q)' = After("channel", q)
    /\ After("toldChannel", q)' = After("toldChannel", q)
    /\ After("toldChannel", q + 4)' = After("toldChannel", q + 4)
    /\ After("freshChannel", q)' \in {After("freshChannel", q), "fresh"}
    /\ Open("channel", q)' <=> Open("channel", q)
    /\ Open("public", q)' <=> Open("public", q)

ExtKept(q) ==
    After("ht", q)' = After("ht", q) /\ (Open("ext", q)' <=> Open("ext", q))

ChannelSet(q, v) ==
    /\ After("channel", q)' = v
    /\ After("toldChannel", q)' = v /\ After("toldChannel", q + 4)' = v
    /\ After("freshChannel", q)' = "fresh"
    /\ q = 1 => After("ht", q)' = ExtFor(v) \/ Open("ext", q)'

ChannelOpened(q) == Open("channel", q)' /\ Open("public", q)' /\ Open("ext", q)'

ChannelDone(q) ==
    \/ ChannelKept(q) /\ (ExtKept(q) \/ Open("ext", q)')
    \/ \E v : ChannelSet(q, v)
    \/ ChannelOpened(q)

\* and likewise the width, for which it may have set the two files only.
WidthKept(q) ==
    /\ After("width", q)' = After("width", q) /\ After("bw", q)' = After("bw", q)
    /\ After("toldWidth", q)' = After("toldWidth", q)
    /\ After("freshWidth", q)' \in {After("freshWidth", q), "fresh"}
    /\ Open("width", q)' <=> Open("width", q)
    /\ Open("report", q)' <=> Open("report", q)

WidthSet(q, w) ==
    /\ After("width", q)' = Code(w) /\ After("bw", q)' = w
    /\ After("freshWidth", q)' = "fresh"
    /\ After("toldWidth", q)' = Code(w) \/ Open("width", q)'

WidthFiled(q, w) ==
    /\ After("width", q)' = Code(w) /\ (Code(w) = 0 => After("bw", q)' = w)
    /\ Open("width", q)'

WidthDone(q) ==
    \/ WidthKept(q) /\ asked'[q] = asked[q]
    \/ WidthSet(q, asked'[q])
    \/ WidthFiled(q, asked'[q])

\* Each of them leads to agreement.
LEMMA DoneLeads ==
    ASSUME Heading, \A q \in Radio : ChannelDone(q) /\ WidthDone(q)
    PROVE  Heading'
<1>1. ASSUME NEW r \in Radio
      PROVE  ChannelLeads(r)' /\ PublicLeads(r)'
  <2>1. ChannelLeads(r) /\ PublicLeads(r) /\ ChannelDone(r)
    BY <1>1 DEF Heading
  <2>2. CASE ChannelKept(r)
    BY <2>1, <2>2 DEF ChannelKept, ChannelLeads, PublicLeads
  <2>3. CASE \E v : ChannelSet(r, v)
    BY <2>3 DEF ChannelSet, ChannelLeads, PublicLeads
  <2>4. CASE ChannelOpened(r)
    BY <2>4 DEF ChannelOpened, ChannelLeads, PublicLeads
  <2>5. QED
    BY <2>1, <2>2, <2>3, <2>4 DEF ChannelDone
<1>2. ASSUME NEW r \in Radio
      PROVE  WidthLeads(r)' /\ ReportLeads(r)'
  <2>1. WidthLeads(r) /\ ReportLeads(r) /\ WidthDone(r)
    BY <1>2 DEF Heading
  <2>2. CASE WidthKept(r) /\ asked'[r] = asked[r]
    BY <2>1, <2>2 DEF WidthKept, WidthLeads, ReportLeads
  <2>3. CASE WidthSet(r, asked'[r])
    BY <2>3 DEF WidthSet, WidthLeads, ReportLeads
  <2>4. CASE WidthFiled(r, asked'[r])
    BY <2>4 DEF WidthFiled, WidthLeads, ReportLeads
  <2>5. QED
    BY <2>1, <2>2, <2>3, <2>4 DEF WidthDone
<1>3. ExtLeads'
  <2>1. ExtLeads /\ ChannelDone(1)
    BY DEF Heading, Radio
  <2>2. CASE ChannelKept(1) /\ ExtKept(1)
    BY <2>1, <2>2 DEF ChannelKept, ExtKept, ExtLeads
  <2>3. CASE Open("ext", 1)'
    BY <2>3 DEF ExtLeads
  <2>4. CASE \E v : ChannelSet(1, v)
    BY <2>4 DEF ChannelSet, ExtLeads
  <2>5. QED
    BY <2>1, <2>2, <2>3, <2>4 DEF ChannelDone, ChannelOpened
<1>4. QED
  BY <1>1, <1>2, <1>3 DEF Heading

-----------------------------------------------------------------------------
(* What a list of commands does with the settings of a radio.              *)

KeepsChannel(s, q) ==
    /\ Net(s, "channel", q) = <<>>
    /\ Net(s, "alien", q) = <<>> /\ Net(s, "zero", q) = <<>>
    /\ Net(s, "toldChannel", q) = <<>> /\ Net(s, "toldChannel", q + 4) = <<>>
    /\ Net(s, "freshChannel", q) \in {<<>>, <<"fresh">>}
    /\ Net(s, "open", <<"channel", q>>) = <<>> /\ Net(s, "open", <<"public", q>>) = <<>>

KeepsExt(s, q) == Net(s, "ht", q) = <<>> /\ Net(s, "open", <<"ext", q>>) = <<>>

SetsChannel(s, q, v) ==
    /\ Net(s, "channel", q) = <<v>>
    /\ Net(s, "toldChannel", q) = <<v>> /\ Net(s, "toldChannel", q + 4) = <<v>>
    /\ Net(s, "freshChannel", q) = <<"fresh">>
    /\ q = 1 => \/ Net(s, "ht", q) = <<ExtFor(v)>>
                \/ Net(s, "open", <<"ext", q>>) = <<"open">>

OpensChannel(s, q) == \A what \in {"channel", "public", "ext"} :
                         Net(s, "open", <<what, q>>) = <<"open">>

KeepsWidth(s, q) ==
    /\ Net(s, "width", q) = <<>> /\ Net(s, "bw", q) = <<>> /\ Net(s, "toldWidth", q) = <<>>
    /\ Net(s, "freshWidth", q) \in {<<>>, <<"fresh">>}
    /\ Net(s, "open", <<"width", q>>) = <<>> /\ Net(s, "open", <<"report", q>>) = <<>>

SetsWidth(s, q, w) ==
    /\ Net(s, "width", q) = <<Code(w)>> /\ Net(s, "bw", q) = <<w>>
    /\ Net(s, "freshWidth", q) = <<"fresh">>
    /\ Net(s, "toldWidth", q) = <<Code(w)>> \/ Net(s, "open", <<"width", q>>) = <<"open">>

FilesWidth(s, q, w) ==
    /\ Net(s, "width", q) = <<Code(w)>> /\ (Code(w) = 0 => Net(s, "bw", q) = <<w>>)
    /\ Net(s, "open", <<"width", q>>) = <<"open">>

KeepsPrev(s, q) == Net(s, "prev", q) = <<>>

\* So does a call with the list.
LEMMA CallDoes ==
    ASSUME NEW s, Call(s), NEW q, NEW v, NEW w
    PROVE  /\ KeepsChannel(s, q) => ChannelKept(q)
           /\ KeepsExt(s, q) => ExtKept(q)
           /\ SetsChannel(s, q, v) => ChannelSet(q, v)
           /\ KeepsWidth(s, q) => WidthKept(q)
           /\ SetsWidth(s, q, w) => WidthSet(q, w)
           /\ OpensChannel(s, q) => ChannelOpened(q)
           /\ FilesWidth(s, q, w) => WidthFiled(q, w)
           /\ Net(s, "open", <<"ext", q>>) = <<"open">> => Open("ext", q)'
<1>1. ASSUME NEW what, NEW of, Net(s, what, of) = <<>>
      PROVE  After(what, of)' = After(what, of)
  BY <1>1, CallAfter DEF Over
<1>2. ASSUME NEW what, NEW of, NEW y, Net(s, what, of) = <<y>>
      PROVE  After(what, of)' = y
  BY <1>2, CallAfter DEF Over
<1>3. ASSUME KeepsChannel(s, q)
      PROVE  ChannelKept(q)
  BY <1>1, <1>2, <1>3 DEF KeepsChannel, ChannelKept, Open
<1>4. ASSUME KeepsExt(s, q)
      PROVE  ExtKept(q)
  BY <1>1, <1>4 DEF KeepsExt, ExtKept, Open
<1>5. ASSUME SetsChannel(s, q, v)
      PROVE  ChannelSet(q, v)
  BY <1>2, <1>5 DEF SetsChannel, ChannelSet, Open
<1>6. ASSUME KeepsWidth(s, q)
      PROVE  WidthKept(q)
  BY <1>1, <1>2, <1>6 DEF KeepsWidth, WidthKept, Open
<1>7. ASSUME SetsWidth(s, q, w)
      PROVE  WidthSet(q, w)
  BY <1>2, <1>7 DEF SetsWidth, WidthSet, Open
<1>8. ASSUME NEW what, Net(s, "open", <<what, q>>) = <<"open">>
      PROVE  Open(what, q)'
  BY <1>2, <1>8 DEF Open
<1>9. ASSUME OpensChannel(s, q)
      PROVE  ChannelOpened(q)
  BY <1>8, <1>9 DEF OpensChannel, ChannelOpened
<1>10. ASSUME FilesWidth(s, q, w)
       PROVE  WidthFiled(q, w)
  BY <1>2, <1>8, <1>10 DEF FilesWidth, WidthFiled
<1>11. QED
  BY <1>3, <1>4, <1>5, <1>6, <1>7, <1>8, <1>9, <1>10

\* Two lists, one after the other.
LEMMA BothDo ==
    ASSUME NEW s \in Seq(Command), NEW t \in Seq(Command), NEW q, NEW v, NEW w
    PROVE  /\ KeepsChannel(s, q) /\ KeepsChannel(t, q) => KeepsChannel(s \o t, q)
           /\ KeepsExt(s, q) /\ KeepsExt(t, q) => KeepsExt(s \o t, q)
           /\ SetsChannel(t, q, v) => SetsChannel(s \o t, q, v)
           /\ SetsChannel(s, q, v) /\ KeepsChannel(t, q) /\ KeepsExt(t, q)
                 => SetsChannel(s \o t, q, v)
           /\ KeepsWidth(s, q) /\ KeepsWidth(t, q) => KeepsWidth(s \o t, q)
           /\ SetsWidth(t, q, w) => SetsWidth(s \o t, q, w)
           /\ SetsWidth(s, q, w) /\ KeepsWidth(t, q) => SetsWidth(s \o t, q, w)
           /\ KeepsPrev(s, q) /\ KeepsPrev(t, q) => KeepsPrev(s \o t, q)
<1>1. PICK d : d = s \o t
  OBVIOUS
<1>2. ASSUME NEW what, NEW of
      PROVE  /\ Net(t, what, of) = <<>> => Net(d, what, of) = Net(s, what, of)
             /\ Net(t, what, of) # <<>> => Net(d, what, of) = Net(t, what, of)
  BY <1>1, NetBoth DEF Then
<1>3. \A y : <<y>> # <<>>
  OBVIOUS
<1>4. KeepsChannel(s, q) /\ KeepsChannel(t, q) => KeepsChannel(d, q)
  BY <1>2 DEF KeepsChannel
<1>5. KeepsExt(s, q) /\ KeepsExt(t, q) => KeepsExt(d, q)
  BY <1>2 DEF KeepsExt
<1>6. SetsChannel(t, q, v) => SetsChannel(d, q, v)
  BY <1>2, <1>3 DEF SetsChannel
<1>7. SetsChannel(s, q, v) /\ KeepsChannel(t, q) /\ KeepsExt(t, q) => SetsChannel(d, q, v)
  BY <1>2, <1>3 DEF SetsChannel, KeepsChannel, KeepsExt
<1>8. KeepsWidth(s, q) /\ KeepsWidth(t, q) => KeepsWidth(d, q)
  BY <1>2 DEF KeepsWidth
<1>9. SetsWidth(t, q, w) => SetsWidth(d, q, w)
  BY <1>2, <1>3 DEF SetsWidth
<1>10. SetsWidth(s, q, w) /\ KeepsWidth(t, q) => SetsWidth(d, q, w)
  BY <1>2, <1>3 DEF KeepsWidth, SetsWidth
<1>11. KeepsPrev(s, q) /\ KeepsPrev(t, q) => KeepsPrev(d, q)
  BY <1>2 DEF KeepsPrev
<1>12. QED
  BY <1>1, <1>4, <1>5, <1>6, <1>7, <1>8, <1>9, <1>10, <1>11

\* Nothing.
LEMMA NothingDoes ==
    ASSUME NEW q
    PROVE  /\ <<>> \in Seq(Command)
           /\ KeepsChannel(<<>>, q) /\ KeepsExt(<<>>, q) /\ KeepsWidth(<<>>, q)
           /\ KeepsPrev(<<>>, q)
BY NetNone DEF KeepsChannel, KeepsExt, KeepsWidth, KeepsPrev

\* Remembering the current channel.
LEMMA StoringDoes ==
    ASSUME NEW r \in Radio, NEW b \in BOOLEAN, NEW q \in Radio,
           NEW s, s = When(b, <<Truncate(r), StorePrev(r)>>)
    PROVE  /\ s \in Seq(Command)
           /\ KeepsChannel(s, q) /\ KeepsExt(s, q) /\ KeepsWidth(s, q)
           /\ KeepsPrev(s, q) \/ (b /\ q = r /\ Net(s, "prev", q) = <<"stored">>)
<1>1. ASSUME NEW what, NEW of
      PROVE  s \in Seq(Command) /\ Net(s, what, of) = Stored(r, b, what, of)
  <2>1. Writes(s, what, of, Stored(r, b, what, of))
    BY WritesStored
  <2>2. QED
    BY <2>1 DEF Writes
<1>2. \A what, of : what # "prev" => Stored(r, b, what, of) = <<>>
  BY DEF Stored
<1>3. \A what, of : what # "prev" => Net(s, what, of) = <<>>
  BY <1>1, <1>2
<1>4. KeepsChannel(s, q) /\ KeepsExt(s, q) /\ KeepsWidth(s, q)
  BY <1>3 DEF KeepsChannel, KeepsExt, KeepsWidth
<1>5. KeepsPrev(s, q) \/ (b /\ q = r /\ Net(s, "prev", q) = <<"stored">>)
  BY <1>1 DEF KeepsPrev, Stored
<1>6. QED
  BY <1>1, <1>4, <1>5

\* A channel.
LEMMA ChannelDoes ==
    ASSUME NEW r \in Radio, NEW v \in Nat, NEW hotspot \in BOOLEAN, NEW w, NEW q \in Radio,
           NEW s, s = ChannelCommands(r, v, hotspot, w)
    PROVE  /\ s \in Seq(Command)
           /\ q = r => SetsChannel(s, q, v)
           /\ q # r => KeepsChannel(s, q) /\ KeepsExt(s, q)
           /\ KeepsWidth(s, q) /\ KeepsPrev(s, q)
<1>0. ChannelRows(r, v, hotspot, w, q)
  BY ChannelTable
<1>1. ASSUME NEW what, NEW of
      PROVE  s \in Seq(Command) /\ Net(s, what, of) = ChannelWrites(r, v, hotspot, w, what, of)
  <2>1. Writes(s, what, of, ChannelWrites(r, v, hotspot, w, what, of))
    BY WritesChannelCommands
  <2>2. QED
    BY <2>1 DEF Writes
<1>2. ASSUME q = r
      PROVE  SetsChannel(s, q, v)
  <2>1. /\ Net(s, "channel", q) = <<v>>
        /\ Net(s, "toldChannel", q) = <<v>> /\ Net(s, "toldChannel", q + 4) = <<v>>
        /\ Net(s, "freshChannel", q) = <<"fresh">>
    BY <1>1, <1>2, <1>0 DEF ChannelRows
  <2>2. ASSUME q = 1, ExtOf(v) # {}
        PROVE  Net(s, "ht", q) = <<ExtFor(v)>>
    <3>1. ExtWrites(r, v, w) = <<ExtFor(v)>>
      BY <1>2, <2>2 DEF ExtWrites
    <3>2. QED
      BY <1>1, <1>2, <3>1, <1>0 DEF ChannelRows
  <2>3. ASSUME ExtOf(v) = {}
        PROVE  Net(s, "open", <<"ext", q>>) = <<"open">>
    BY <1>1, <1>2, <2>3, <1>0 DEF ChannelRows
  <2>4. QED
    BY <2>1, <2>2, <2>3 DEF SetsChannel
<1>3. ASSUME q # r
      PROVE  KeepsChannel(s, q) /\ KeepsExt(s, q)
  BY <1>1, <1>3, <1>0 DEF ChannelRows, KeepsChannel, KeepsExt
<1>4. KeepsWidth(s, q) /\ KeepsPrev(s, q)
  BY <1>1, <1>0 DEF ChannelRows, KeepsWidth, KeepsPrev
<1>5. QED
  BY <1>1, <1>2, <1>3, <1>4

\* A width.
LEMMA WidthDoes ==
    ASSUME NEW r \in Radio, NEW w \in Width, NEW q \in Radio,
           NEW s, s = WidthCommands(r, w)
    PROVE  /\ s \in Seq(Command)
           /\ q = r => SetsWidth(s, q, w)
           /\ q # r => KeepsWidth(s, q)
           /\ KeepsChannel(s, q) /\ KeepsExt(s, q) /\ KeepsPrev(s, q)
<1>0. WidthRows(r, w, q)
  BY WidthTable
<1>1. ASSUME NEW what, NEW of
      PROVE  s \in Seq(Command) /\ Net(s, what, of) = WidthWrites(r, w, what, of)
  <2>1. Writes(s, what, of, WidthWrites(r, w, what, of))
    BY WritesWidthCommands
  <2>2. QED
    BY <2>1 DEF Writes
<1>2. ASSUME q = r
      PROVE  SetsWidth(s, q, w)
  <2>1. /\ Net(s, "width", q) = <<Code(w)>> /\ Net(s, "bw", q) = <<w>>
        /\ Net(s, "freshWidth", q) = <<"fresh">>
    BY <1>1, <1>2, <1>0 DEF WidthRows
  <2>2. ASSUME ~(r = 1 /\ w = "40MHz")
        PROVE  Net(s, "toldWidth", q) = <<Code(w)>>
    BY <1>1, <1>2, <2>2, <1>0 DEF WidthRows
  <2>3. ASSUME r = 1, w = "40MHz"
        PROVE  Net(s, "open", <<"width", q>>) = <<"open">>
    BY <1>1, <1>2, <2>3, <1>0 DEF WidthRows
  <2>4. QED
    BY <2>1, <2>2, <2>3 DEF SetsWidth
<1>3. ASSUME q # r
      PROVE  KeepsWidth(s, q)
  BY <1>1, <1>3, <1>0 DEF WidthRows, KeepsWidth
<1>4. KeepsChannel(s, q) /\ KeepsExt(s, q) /\ KeepsPrev(s, q)
  BY <1>1, <1>0 DEF WidthRows, KeepsChannel, KeepsExt, KeepsPrev
<1>5. QED
  BY <1>1, <1>2, <1>3, <1>4

\* Two lists are a list.
LEMMA BothAre ==
    ASSUME NEW s \in Seq(Command), NEW t \in Seq(Command) PROVE s \o t \in Seq(Command)
OBVIOUS

\* The second channel alone.
LEMMA ExtDoes ==
    ASSUME NEW r \in Radio, NEW ht \in Ht, NEW q \in Radio,
           NEW s, s = <<HostapdWrite(r, "ht", ht), Return({}, {<<"ext", r>>})>>
    PROVE  /\ s \in Seq(Command)
           /\ KeepsChannel(s, q) /\ KeepsWidth(s, q) /\ KeepsPrev(s, q)
           /\ KeepsExt(s, q) \/ Net(s, "open", <<"ext", q>>) = <<"open">>
<1>1. PICK c, d : c = <<HostapdWrite(r, "ht", ht)>> /\ d = <<Return({}, {<<"ext", r>>})>>
  OBVIOUS
<1>2. s = c \o d
  BY <1>1, TwoCommands
<1>3. ASSUME NEW what, NEW of
      PROVE  /\ s \in Seq(Command)
             /\ Net(s, what, of) = Then(IF what = "ht" /\ of = r THEN <<ht>> ELSE <<>>,
                                        IF what = "open" /\ of = <<"ext", r>> THEN <<"open">> ELSE <<>>)
  <2> DEFINE a == IF what = "ht" /\ of = r THEN <<ht>> ELSE <<>>
             b == IF what = "open" /\ of = <<"ext", r>> THEN <<"open">> ELSE <<>>
             n == {<<"ext", r>>}
             e == CASE what = "open" /\ of \in n -> <<"open">>
                    [] what = "open" /\ of \in {} \ n -> <<"sure">>
                    [] OTHER -> <<>>
  <2>1. Writes(c, what, of, a)
    BY <1>1, WritesHt
  <2>2. n \in SUBSET Note /\ {} \in SUBSET Note
    BY DEF Note
  <2>3. e = b
    OBVIOUS
  <2>4. Writes(d, what, of, e)
    <3> HIDE DEF n
    <3>1. Writes(<<Return({}, n)>>, what, of, e)
      BY <2>2, WritesReturn
    <3>2. QED
      BY <1>1, <3>1, Zenon DEF n
  <2> HIDE DEF a, b, e
  <2>5. Writes(c \o d, what, of, Then(a, b))
    BY <2>1, <2>3, <2>4, WritesBoth
  <2>6. Net(s, what, of) = Then(a, b) /\ s \in Seq(Command)
    BY <1>2, <2>5 DEF Writes
  <2>7. QED
    BY <2>6 DEF a, b
<1>4. /\ \A what, of : what \notin {"ht", "open"} => Net(s, what, of) = <<>>
      /\ \A of : Net(s, "open", of) = IF of = <<"ext", r>> THEN <<"open">> ELSE <<>>
      /\ \A of : of # r => Net(s, "ht", of) = <<>>
  BY <1>3 DEF Then
<1>5. KeepsChannel(s, q) /\ KeepsWidth(s, q) /\ KeepsPrev(s, q)
  BY <1>4 DEF KeepsChannel, KeepsWidth, KeepsPrev
<1>6. KeepsExt(s, q) \/ Net(s, "open", <<"ext", q>>) = <<"open">>
  BY <1>4 DEF KeepsExt
<1>7. QED
  BY <1>3, <1>5, <1>6

\* The width in a file of its own.
LEMMA BandWidthDoes ==
    ASSUME NEW r \in Radio, NEW w \in Width, NEW b \in BOOLEAN, NEW q \in Radio,
           NEW s, s = When(b, <<WriteBandWidth(r, w)>>)
    PROVE  /\ s \in Seq(Command)
           /\ KeepsChannel(s, q) /\ KeepsExt(s, q) /\ KeepsPrev(s, q)
           /\ q # r => KeepsWidth(s, q)
<1>1. CASE b
  <2>1. ASSUME NEW what, NEW of
        PROVE  /\ s \in Seq(Command)
               /\ Net(s, what, of) = IF what = "bw" /\ of = r THEN <<w>> ELSE <<>>
    <3>1. s = <<WriteBandWidth(r, w)>>
      BY <1>1 DEF When
    <3>2. Writes(<<WriteBandWidth(r, w)>>, what, of,
                 IF what = "bw" /\ of = r THEN <<w>> ELSE <<>>)
      BY WritesBandWidth
    <3>3. QED
      BY <3>1, <3>2 DEF Writes
  <2>2. /\ \A what, of : what # "bw" => Net(s, what, of) = <<>>
        /\ \A of : of # r => Net(s, "bw", of) = <<>>
    BY <2>1
  <2>3. KeepsChannel(s, q) /\ KeepsExt(s, q) /\ KeepsPrev(s, q)
    BY <2>2 DEF KeepsChannel, KeepsExt, KeepsPrev
  <2>4. q # r => KeepsWidth(s, q)
    BY <2>2 DEF KeepsWidth
  <2>5. QED
    BY <2>1, <2>3, <2>4
<1>2. CASE ~b
  <2>1. s = <<>>
    BY <1>2 DEF When
  <2>2. QED
    BY <1>2, <2>1, NothingDoes
<1>3. QED
  BY <1>1, <1>2

\* A channel and a width in the radio's file, and no command to hostapd.
RadioFile(r, v, w) ==
    <<HostapdWrite(r, "channel", v), HostapdWrite(r, "width", Code(w)),
      Return({<<"report", r>>}, {"channel", "public", "width", "ext"} \X {r})>>

\* The file of a radio is written anew with a channel and a width.
LEMMA FileDoes ==
    ASSUME NEW r \in Radio, NEW v \in Nat, NEW w \in Width, NEW q \in Radio,
           NEW s, s = RadioFile(r, v, w)
    PROVE  /\ s \in Seq(Command) /\ KeepsPrev(s, q)
           /\ q # r => KeepsChannel(s, q) /\ KeepsExt(s, q) /\ KeepsWidth(s, q)
           /\ q = r => /\ OpensChannel(s, q) /\ Net(s, "width", q) = <<Code(w)>>
                       /\ Net(s, "bw", q) = <<>>
                       /\ Net(s, "open", <<"width", q>>) = <<"open">>
                       /\ Net(s, "alien", q) = FilesChannel(r, v, "alien", q)
                       /\ Net(s, "zero", q) = FilesChannel(r, v, "zero", q)
<1>1. PICK sure, marked : /\ sure = {<<"report", r>>}
                        /\ marked = {"channel", "public", "width", "ext"} \X {r}
  OBVIOUS
<1>2. PICK c, d, f : /\ c = <<HostapdWrite(r, "channel", v)>>
                     /\ d = <<HostapdWrite(r, "width", Code(w))>> /\ f = <<Return(sure, marked)>>
  OBVIOUS
<1>3. s = (c \o d) \o f
  BY <1>1, <1>2, ThreeCommands DEF RadioFile
<1>4. sure \in SUBSET Note /\ marked \in SUBSET Note
  BY <1>1 DEF Note
<1>5. ASSUME NEW what, NEW of
      PROVE  /\ s \in Seq(Command)
             /\ what \notin {"channel", "alien", "zero", "width", "open"} => Net(s, what, of) = <<>>
             /\ of # r /\ what # "open" => Net(s, what, of) = <<>>
             /\ what \in {"alien", "zero"} => Net(s, what, of) = FilesChannel(r, v, what, of)
             /\ what = "width" /\ of = r => Net(s, what, of) = <<Code(w)>>
             /\ what = "open" => Net(s, what, of) = IF of \in marked THEN <<"open">>
                                                    ELSE IF of \in sure THEN <<"sure">> ELSE <<>>
  <2> DEFINE x == FilesChannel(r, v, what, of)
             y == IF what = "width" /\ of = r THEN <<Code(w)>> ELSE <<>>
             z == CASE what = "open" /\ of \in marked -> <<"open">>
                    [] what = "open" /\ of \in sure \ marked -> <<"sure">>
                    [] OTHER -> <<>>
  <2>1. Writes(c, what, of, x)
    BY <1>2, WritesChannel
  <2>2. Writes(d, what, of, y)
    BY <1>2, CodeType, WritesWidth
  <2>3. Writes(f, what, of, z)
    BY <1>2, <1>4, WritesReturn
  <2>4. /\ what \notin {"channel", "alien", "zero"} \/ of # r => x = <<>>
        /\ what # "width" \/ of # r => y = <<>>
        /\ what = "width" /\ of = r => y = <<Code(w)>>
        /\ what # "open" => z = <<>>
        /\ what = "open" => z = IF of \in marked THEN <<"open">>
                                ELSE IF of \in sure THEN <<"sure">> ELSE <<>>
    BY DEF FilesChannel
  <2> HIDE DEF x, y, z
  <2>5. Writes((c \o d) \o f, what, of, Then(Then(x, y), z))
    BY <2>1, <2>2, <2>3, WritesThree
  <2>6. Net(s, what, of) = Then(Then(x, y), z) /\ s \in Seq(Command)
    BY <1>3, <2>5 DEF Writes
  <2>7. what \in {"alien", "zero"} => Net(s, what, of) = FilesChannel(r, v, what, of)
    <3>1. what \in {"alien", "zero"} => Net(s, what, of) = x
      BY <2>4, <2>6 DEF Then
    <3>2. QED
      BY <3>1 DEF x
  <2>8. QED
    BY <2>4, <2>6, <2>7 DEF Then
<1>6. KeepsPrev(s, q)
  BY <1>5 DEF KeepsPrev
<1>7. ASSUME q # r
      PROVE  KeepsChannel(s, q) /\ KeepsExt(s, q) /\ KeepsWidth(s, q)
  <2>1. \A what : <<what, q>> \notin marked /\ <<what, q>> \notin sure
    BY <1>1, <1>7
  <2>2. \A what : Net(s, "open", <<what, q>>) = <<>>
    BY <1>5, <2>1
  <2>3. \A what : what # "open" => Net(s, what, q) = <<>>
    BY <1>5, <1>7
  <2>4. Net(s, "toldChannel", q + 4) = <<>>
    BY <1>5
  <2>5. QED
    BY <2>2, <2>3, <2>4 DEF KeepsChannel, KeepsExt, KeepsWidth
<1>8. ASSUME q = r
      PROVE  /\ OpensChannel(s, q) /\ Net(s, "width", q) = <<Code(w)>> /\ Net(s, "bw", q) = <<>>
             /\ Net(s, "open", <<"width", q>>) = <<"open">>
             /\ Net(s, "alien", q) = FilesChannel(r, v, "alien", q)
             /\ Net(s, "zero", q) = FilesChannel(r, v, "zero", q)
  <2>1. \A what \in {"channel", "public", "width", "ext"} : <<what, q>> \in marked
    BY <1>1, <1>8
  <2>2. \A what \in {"channel", "public", "width", "ext"} :
           Net(s, "open", <<what, q>>) = <<"open">>
    BY <1>5, <2>1
  <2>3. QED
    BY <1>5, <1>8, <2>2 DEF OpensChannel
<1>9. QED
  BY <1>5, <1>6, <1>7, <1>8

\* Everything is kept.
KeepsAll(s, q) == KeepsChannel(s, q) /\ KeepsExt(s, q) /\ KeepsWidth(s, q) /\ KeepsPrev(s, q)

\* Two lists that leave a radio alone do so one after the other.
LEMMA BothKeepAll ==
    ASSUME NEW s \in Seq(Command), NEW t \in Seq(Command), NEW q,
           KeepsAll(s, q), KeepsAll(t, q)
    PROVE  KeepsAll(s \o t, q)
BY BothDo DEF KeepsAll

\* A mode: the width, which is written to the file of its own more than once.
ModeCommands(r, w) == When(Code(w) = 0, <<WriteBandWidth(r, w)>>) \o WidthCommands(r, w)

\* Setting a mode sets its width, and leaves the rest.
LEMMA ModeDoes ==
    ASSUME NEW r \in Radio, NEW w \in Width, NEW q \in Radio,
           NEW s, s = ModeCommands(r, w)
    PROVE  /\ s \in Seq(Command)
           /\ q = r => SetsWidth(s, q, w)
           /\ q # r => KeepsWidth(s, q)
           /\ KeepsChannel(s, q) /\ KeepsExt(s, q) /\ KeepsPrev(s, q)
<1>1. PICK c, d : /\ c = When(Code(w) = 0, <<WriteBandWidth(r, w)>>)
                  /\ d = WidthCommands(r, w)
  OBVIOUS
<1>2. /\ c \in Seq(Command) /\ KeepsChannel(c, q) /\ KeepsExt(c, q) /\ KeepsPrev(c, q)
      /\ q # r => KeepsWidth(c, q)
  BY <1>1, BandWidthDoes
<1>3. /\ d \in Seq(Command) /\ KeepsChannel(d, q) /\ KeepsExt(d, q) /\ KeepsPrev(d, q)
      /\ q = r => SetsWidth(d, q, w)
      /\ q # r => KeepsWidth(d, q)
  BY <1>1, WidthDoes
<1>4. s = c \o d
  BY <1>1, Zenon DEF ModeCommands
<1>5. s \in Seq(Command)
  BY <1>2, <1>3, <1>4, BothAre, Zenon
<1>6. QED
  BY <1>2, <1>3, <1>4, <1>5, BothDo

\* The factory reset of a radio.
LEMMA ResetDoes ==
    ASSUME NEW r \in Radio, NEW v \in Nat, NEW w \in Width, NEW q \in Radio,
           NEW s, s = When(Code(w) = 0, <<WriteBandWidth(r, w)>>) \o <<>> \o RadioFile(r, v, w)
    PROVE  /\ s \in Seq(Command)
           /\ q = r => OpensChannel(s, q) /\ FilesWidth(s, q, w)
           /\ q # r => KeepsAll(s, q)
<1>1. PICK c, d : /\ c = When(Code(w) = 0, <<WriteBandWidth(r, w)>>)
                  /\ d = RadioFile(r, v, w)
  OBVIOUS
<1>2. /\ c \in Seq(Command) /\ KeepsChannel(c, q) /\ KeepsExt(c, q) /\ KeepsPrev(c, q)
      /\ q # r => KeepsWidth(c, q)
      /\ Code(w) = 0 /\ q = r => Net(c, "bw", q) = <<w>>
  <2>1. /\ c \in Seq(Command) /\ KeepsChannel(c, q) /\ KeepsExt(c, q) /\ KeepsPrev(c, q)
        /\ q # r => KeepsWidth(c, q)
    BY <1>1, BandWidthDoes
  <2>2. ASSUME Code(w) = 0, q = r
        PROVE  Net(c, "bw", q) = <<w>>
    <3>1. c = <<WriteBandWidth(r, w)>>
      BY <1>1, <2>2 DEF When
    <3>2. Net(c, "bw", r) = Effect(WriteBandWidth(r, w), "bw", r)
      BY <3>1, NetOne, Zenon
    <3>3. QED
      BY <2>2, <3>2 DEF Effect, WriteBandWidth
  <2>3. QED
    BY <2>1, <2>2
<1>3. /\ d \in Seq(Command) /\ KeepsPrev(d, q)
      /\ q # r => KeepsChannel(d, q) /\ KeepsExt(d, q) /\ KeepsWidth(d, q)
      /\ q = r => /\ OpensChannel(d, q) /\ Net(d, "width", q) = <<Code(w)>>
                  /\ Net(d, "bw", q) = <<>>
                  /\ Net(d, "open", <<"width", q>>) = <<"open">>
  BY <1>1, FileDoes
<1>4. s = c \o d
  <2>1. s = (c \o <<>>) \o d
    BY <1>1, Zenon
  <2>2. c \o <<>> = c
    BY <1>2
  <2>3. QED
    BY <2>1, <2>2, Zenon
<1>5. s \in Seq(Command)
  BY <1>2, <1>3, <1>4, BothAre, Zenon
<1>6. ASSUME q # r
      PROVE  KeepsAll(s, q)
  BY <1>2, <1>3, <1>4, <1>6, BothKeepAll DEF KeepsAll
<1>7. ASSUME q = r
      PROVE  OpensChannel(s, q) /\ FilesWidth(s, q, w)
  <2>1. ASSUME NEW what, NEW of
        PROVE  /\ Net(d, what, of) = <<>> => Net(s, what, of) = Net(c, what, of)
               /\ Net(d, what, of) # <<>> => Net(s, what, of) = Net(d, what, of)
    <3>1. c \in Seq(Command) /\ d \in Seq(Command)
      BY <1>2, <1>3
    <3>2. Net(c \o d, what, of) = Then(Net(c, what, of), Net(d, what, of))
      BY <3>1, NetBoth
    <3>3. QED
      BY <1>4, <3>2 DEF Then
  <2>2. <<"open">> # <<>> /\ <<Code(w)>> # <<>>
    OBVIOUS
  <2>3. ASSUME NEW what \in {"channel", "public", "ext", "width"}
        PROVE  Net(s, "open", <<what, q>>) = <<"open">>
    <3>1. PICK x : x = <<what, q>>
      OBVIOUS
    <3>2. Net(d, "open", x) = <<"open">>
      BY <1>3, <1>7, <3>1 DEF OpensChannel
    <3>3. QED
      BY <2>1, <2>2, <3>1, <3>2
  <2>4. Net(s, "width", q) = <<Code(w)>> /\ Net(s, "open", <<"width", q>>) = <<"open">>
    <3>1. Net(d, "width", q) = <<Code(w)>>
      BY <1>3, <1>7
    <3>2. Net(s, "width", q) = Net(d, "width", q)
      BY <2>1, <2>2, <3>1
    <3>3. QED
      BY <2>3, <3>1, <3>2
  <2>5. Code(w) = 0 => Net(s, "bw", q) = <<w>>
    BY <1>2, <1>3, <1>7, <2>1
  <2>6. QED
    BY <2>3, <2>4, <2>5 DEF FilesWidth, OpensChannel
<1>8. QED
  BY <1>5, <1>6, <1>7

\* All parameters of a radio.
OperatingCommands(r, v, hotspot, automatic, remembered, was, w, b) ==
    When(automatic, ChannelCommands(r, remembered, hotspot, was))
    \o When(w \in Width, WidthCommands(r, w)
                         \o When(b, <<Truncate(r), StorePrev(r)>>)
                         \o ChannelCommands(r, v, hotspot, w))

\* Setting all parameters at once sets channel and width, or returns to the remembered channel.
LEMMA OperatingDoes ==
    ASSUME NEW r \in Radio, NEW v \in Nat, NEW hotspot \in BOOLEAN, NEW q \in Radio,
           NEW automatic \in BOOLEAN, NEW remembered \in Nat, NEW was, NEW w,
           NEW b \in BOOLEAN, NEW s,
           s = OperatingCommands(r, v, hotspot, automatic, remembered, was, w, b)
    PROVE  /\ s \in Seq(Command)
           /\ q # r => KeepsAll(s, q)
           /\ w \in Width => /\ q = r => SetsChannel(s, q, v) /\ SetsWidth(s, q, w)
                             /\ ~b => KeepsPrev(s, q)
           /\ w \notin Width /\ automatic =>
                 /\ q = r => SetsChannel(s, q, remembered)
                 /\ KeepsWidth(s, q) /\ KeepsPrev(s, q)
           /\ w \notin Width /\ ~automatic => KeepsAll(s, q)
<1>1. PICK first, width, storing, second :
         /\ first = When(automatic, ChannelCommands(r, remembered, hotspot, was))
         /\ width = WidthCommands(r, w) /\ storing = When(b, <<Truncate(r), StorePrev(r)>>)
         /\ second = ChannelCommands(r, v, hotspot, w)
  OBVIOUS
<1>2. s = first \o When(w \in Width, (width \o storing) \o second)
  BY <1>1, Zenon DEF OperatingCommands
<1>3. /\ first \in Seq(Command) /\ KeepsWidth(first, q) /\ KeepsPrev(first, q)
      /\ q # r \/ ~automatic => KeepsAll(first, q)
      /\ q = r /\ automatic => SetsChannel(first, q, remembered)
  <2>1. CASE automatic
    <3>1. first = ChannelCommands(r, remembered, hotspot, was)
      BY <1>1, <2>1 DEF When
    <3>2. QED
      BY <2>1, <3>1, ChannelDoes DEF KeepsAll
  <2>2. CASE ~automatic
    <3>1. first = <<>>
      BY <1>1, <2>2 DEF When
    <3>2. QED
      BY <2>2, <3>1, NothingDoes DEF KeepsAll
  <2>3. QED
    BY <2>1, <2>2
<1>4. ASSUME w \in Width
      PROVE  /\ s \in Seq(Command)
             /\ q # r => KeepsAll(s, q)
             /\ q = r => SetsChannel(s, q, v) /\ SetsWidth(s, q, w)
             /\ ~b => KeepsPrev(s, q)
  <2>1. s = first \o ((width \o storing) \o second)
    BY <1>2, <1>4 DEF When
  <2>2. /\ width \in Seq(Command)
        /\ q = r => SetsWidth(width, q, w)
        /\ q # r => KeepsAll(width, q)
        /\ KeepsPrev(width, q)
    BY <1>1, <1>4, WidthDoes DEF KeepsAll
  <2>3. /\ storing \in Seq(Command)
        /\ KeepsChannel(storing, q) /\ KeepsExt(storing, q) /\ KeepsWidth(storing, q)
        /\ ~b \/ q # r => KeepsPrev(storing, q)
    BY <1>1, StoringDoes
  <2>4. /\ second \in Seq(Command)
        /\ q = r => SetsChannel(second, q, v)
        /\ q # r => KeepsAll(second, q)
        /\ KeepsWidth(second, q) /\ KeepsPrev(second, q)
    BY <1>1, ChannelDoes DEF KeepsAll
  <2>5. PICK two, three : two = width \o storing /\ three = two \o second
    OBVIOUS
  <2>6. /\ two \in Seq(Command) /\ three \in Seq(Command) /\ s = first \o three
        /\ s \in Seq(Command)
    BY <1>3, <2>1, <2>2, <2>3, <2>4, <2>5, BothAre, Zenon
  <2>7. ASSUME q # r
        PROVE  KeepsAll(s, q)
    <3>1. KeepsAll(storing, q)
      BY <2>3, <2>7 DEF KeepsAll
    <3>2. KeepsAll(two, q)
      BY <2>2, <2>3, <2>5, <2>7, <3>1, BothKeepAll
    <3>3. KeepsAll(three, q)
      BY <2>4, <2>5, <2>6, <2>7, <3>2, BothKeepAll
    <3>4. QED
      BY <1>3, <2>6, <2>7, <3>3, BothKeepAll
  <2>8. ASSUME q = r
        PROVE  SetsChannel(s, q, v) /\ SetsWidth(s, q, w)
    <3>1. SetsChannel(three, q, v)
      BY <2>4, <2>5, <2>6, <2>8, BothDo
    <3>2. SetsWidth(two, q, w)
      BY <2>2, <2>3, <2>5, <2>8, BothDo
    <3>3. SetsWidth(three, q, w)
      BY <2>4, <2>5, <2>6, <3>2, BothDo
    <3>4. QED
      BY <1>3, <2>6, <3>1, <3>3, BothDo
  <2>9. ASSUME ~b
        PROVE  KeepsPrev(s, q)
    <3>1. KeepsPrev(two, q)
      BY <2>2, <2>3, <2>5, <2>9, BothDo
    <3>2. KeepsPrev(three, q)
      BY <2>4, <2>5, <2>6, <3>1, BothDo
    <3>3. QED
      BY <1>3, <2>6, <3>2, BothDo
  <2>10. QED
    BY <2>6, <2>7, <2>8, <2>9
<1>5. ASSUME w \notin Width
      PROVE  s = first
  <2>1. s = first \o <<>>
    BY <1>2, <1>5 DEF When
  <2>2. first \o <<>> = first
    BY <1>3
  <2>3. QED
    BY <2>1, <2>2
<1>6. QED
  BY <1>3, <1>4, <1>5

-----------------------------------------------------------------------------
(* The calls keep the invariant.                                           *)

\* What a call does to a radio, and to what the histories say of it.
Does(s, q) ==
    /\ \/ KeepsChannel(s, q)
             /\ (KeepsExt(s, q) \/ Net(s, "open", <<"ext", q>>) = <<"open">>)
       \/ \E v : SetsChannel(s, q, v)
       \/ OpensChannel(s, q)
    /\ \/ KeepsWidth(s, q) /\ asked'[q] = asked[q]
       \/ SetsWidth(s, q, asked'[q])
       \/ FilesWidth(s, q, asked'[q])
    /\ q \in auto' => /\ KeepsPrev(s, q) /\ prev[q] \notin {NoFile, Empty}
                      /\ \/ KeepsChannel(s, q) /\ q \in auto
                         \/ SetsChannel(s, q, prev[q])

\* A call keeps the invariant, if its list does for each radio what the history will say.
LEMMA CallIInv ==
    ASSUME IInv, NEW s \in Seq(Command), Call(s), unset' \in BOOLEAN,
           asked' \in [Radio -> Width], auto' \in SUBSET Radio,
           \A q \in Radio : Does(s, q)
    PROVE  IInv'
<1>1. TypeOK /\ Heading /\ AutoLeads
  BY DEF IInv
<1>2. todo' = s /\ UNCHANGED <<file, bw, prev, told, air, unsure>>
  BY DEF Call, fileVars, apVars
<1>3. TypeOK'
  BY <1>1, <1>2 DEF TypeOK
<1>4. ASSUME NEW q \in Radio
      PROVE  ChannelDone(q) /\ WidthDone(q)
  <2>1. Does(s, q)
    OBVIOUS
  <2>2. ChannelDone(q)
    BY <2>1, CallDoes DEF Does, ChannelDone
  <2>3. WidthDone(q)
    BY <2>1, CallDoes DEF Does, WidthDone
  <2>4. QED
    BY <2>2, <2>3
<1>5. Heading'
  BY <1>1, <1>4, DoneLeads
<1>6. ASSUME NEW q \in auto'
      PROVE  /\ prev'[q] \notin {NoFile, Empty} /\ Net(todo, "prev", q)' = <<>>
             /\ After("channel", q)' = prev'[q]
  <2>1. Does(s, q) /\ q \in Radio
    OBVIOUS
  <2>2. KeepsPrev(s, q) /\ prev[q] \notin {NoFile, Empty}
    BY <1>6, <2>1 DEF Does
  <2>3. Net(todo, "prev", q)' = <<>>
    BY <1>2, <2>2, NetLater DEF KeepsPrev
  <2>4. CASE KeepsChannel(s, q) /\ q \in auto
    <3>1. After("channel", q)' = After("channel", q)
      BY <2>4, CallDoes DEF ChannelKept
    <3>2. After("channel", q) = prev[q]
      BY <1>1, <2>4 DEF AutoLeads
    <3>3. QED
      BY <1>2, <2>2, <2>3, <3>1, <3>2
  <2>5. CASE SetsChannel(s, q, prev[q])
    <3>1. After("channel", q)' = prev[q]
      BY <2>5, CallDoes DEF ChannelSet
    <3>2. QED
      BY <1>2, <2>2, <2>3, <3>1
  <2>6. QED
    BY <1>6, <2>1, <2>4, <2>5 DEF Does
<1>7. AutoLeads'
  BY <1>6 DEF AutoLeads
<1>8. QED
  BY <1>3, <1>5, <1>7 DEF IInv

\* A radio that a call does nothing to.
LEMMA DoesNothing ==
    ASSUME NEW s, NEW q, KeepsAll(s, q), asked'[q] = asked[q],
           q \in auto' => q \in auto, IInv
    PROVE  Does(s, q)
BY DEF Does, KeepsAll, IInv, AutoLeads

\* A remembered channel is one, or 0.
LEMMA RememberedType ==
    ASSUME TypeOK, NEW r \in Radio
    PROVE  /\ Remembered(r) \in Nat
           /\ prev[r] \notin {NoFile, Empty} => Remembered(r) = prev[r]
BY DEF TypeOK, Remembered, NoFile, Empty

\* wifi_setRadioChannel.
LEMMA SetChannelIInv ==
    ASSUME IInv, NEW r \in Radio, NEW channel \in Nat, NEW hotspot \in BOOLEAN,
           SetChannel(r, channel, hotspot)
    PROVE  IInv'
<1>1. PICK storing, second, s :
         /\ storing = When(unset, <<Truncate(r), StorePrev(r)>>)
         /\ second = ChannelCommands(r, channel, hotspot, GetWidth(r))
         /\ s = storing \o second
  OBVIOUS
<1>2. TypeOK /\ unset \in BOOLEAN
  BY DEF IInv, TypeOK
<1>3. Call(s) /\ unset' = FALSE /\ auto' = auto \ {r} /\ asked' = asked
  BY <1>1 DEF SetChannel
<1>4. ASSUME NEW q \in Radio
      PROVE  s \in Seq(Command) /\ Does(s, q)
  <2>1. /\ storing \in Seq(Command)
        /\ KeepsChannel(storing, q) /\ KeepsExt(storing, q) /\ KeepsWidth(storing, q)
        /\ q # r => KeepsPrev(storing, q)
    BY <1>1, <1>2, StoringDoes
  <2>2. /\ second \in Seq(Command)
        /\ q = r => SetsChannel(second, q, channel)
        /\ q # r => KeepsChannel(second, q) /\ KeepsExt(second, q)
        /\ KeepsWidth(second, q) /\ KeepsPrev(second, q)
    BY <1>1, ChannelDoes
  <2>3. s \in Seq(Command)
    BY <1>1, <2>1, <2>2, BothAre, Zenon
  <2>4. KeepsWidth(s, q)
    BY <1>1, <2>1, <2>2, BothDo
  <2>5. ASSUME q = r
        PROVE  SetsChannel(s, q, channel)
    BY <1>1, <2>1, <2>2, <2>5, BothDo
  <2>6. ASSUME q # r
        PROVE  KeepsAll(s, q)
    BY <1>1, <2>1, <2>2, <2>6, BothKeepAll DEF KeepsAll
  <2>7. CASE q = r
    BY <1>3, <2>3, <2>4, <2>5, <2>7 DEF Does
  <2>8. CASE q # r
    BY <1>3, <2>3, <2>6, <2>8, DoesNothing
  <2>9. QED
    BY <2>7, <2>8
<1>5. s \in Seq(Command)
  BY <1>4 DEF Radio
<1>6. QED
  BY <1>2, <1>3, <1>4, <1>5, CallIInv DEF TypeOK

\* wifi_setRadioAutoChannelEnable.
LEMMA SetAutoChannelIInv ==
    ASSUME IInv, NEW r \in Radio, NEW hotspot \in BOOLEAN, SetAutoChannel(r, hotspot)
    PROVE  IInv'
<1>1. PICK s : s = ChannelCommands(r, Remembered(r), hotspot, GetWidth(r))
  OBVIOUS
<1>2. TypeOK /\ Remembered(r) \in Nat /\ (prev[r] \notin {NoFile, Empty} => Remembered(r) = prev[r])
  BY RememberedType DEF IInv
<1>3. /\ Call(s) /\ unset' = FALSE /\ asked' = asked
      /\ auto' = IF prev[r] \in {NoFile, Empty} THEN auto \ {r} ELSE auto \cup {r}
  BY <1>1 DEF SetAutoChannel
<1>4. ASSUME NEW q \in Radio
      PROVE  s \in Seq(Command) /\ Does(s, q)
  <2>1. /\ s \in Seq(Command)
        /\ q = r => SetsChannel(s, q, Remembered(r))
        /\ q # r => KeepsAll(s, q)
        /\ KeepsWidth(s, q) /\ KeepsPrev(s, q)
    BY <1>1, <1>2, ChannelDoes DEF KeepsAll
  <2>2. CASE q = r
    BY <1>2, <1>3, <2>1, <2>2 DEF Does
  <2>3. CASE q # r
    BY <1>3, <2>1, <2>3, DoesNothing
  <2>4. QED
    BY <2>2, <2>3
<1>5. s \in Seq(Command)
  BY <1>4 DEF Radio
<1>6. auto' \in SUBSET Radio /\ asked' \in [Radio -> Width] /\ unset' \in BOOLEAN
  BY <1>2, <1>3 DEF TypeOK
<1>7. QED
  BY <1>3, <1>4, <1>5, <1>6, CallIInv

\* wifi_setRadioExtChannel.
LEMMA SetExtChannelIInv ==
    ASSUME IInv, NEW r \in Radio, NEW ht \in {"HT40+", "HT40-"}, SetExtChannel(r, ht)
    PROVE  IInv'
<1>1. PICK v : v = IF r = 0 THEN "HT40" ELSE ht
  OBVIOUS
<1>2. PICK s : s = <<HostapdWrite(r, "ht", v), Return({}, {<<"ext", r>>})>>
  OBVIOUS
<1>3. TypeOK /\ v \in Ht
  BY <1>1 DEF IInv, Ht
<1>4. Call(s) /\ UNCHANGED <<unset, asked, auto>>
  BY <1>1, <1>2, Zenon DEF SetExtChannel
<1>5. ASSUME NEW q \in Radio
      PROVE  s \in Seq(Command) /\ Does(s, q)
  <2>1. /\ s \in Seq(Command)
        /\ KeepsChannel(s, q) /\ KeepsWidth(s, q) /\ KeepsPrev(s, q)
        /\ KeepsExt(s, q) \/ Net(s, "open", <<"ext", q>>) = <<"open">>
    BY <1>2, <1>3, ExtDoes
  <2>2. q \in auto => prev[q] \notin {NoFile, Empty}
    BY DEF IInv, AutoLeads
  <2>3. QED
    BY <1>4, <2>1, <2>2 DEF Does
<1>6. s \in Seq(Command)
  BY <1>5 DEF Radio
<1>7. QED
  BY <1>3, <1>4, <1>5, <1>6, CallIInv DEF TypeOK

\* A list that sets a width, as wifi_setRadioOperatingChannelBandwidth and
\* wifi_setRadioMode have one.
LEMMA WidthIInv ==
    ASSUME IInv, NEW r \in Radio, NEW w \in Width, NEW s, Call(s),
           s \in {WidthCommands(r, w), ModeCommands(r, w)},
           asked' = [asked EXCEPT ![r] = w], UNCHANGED <<unset, auto>>
    PROVE  IInv'
<1>1. TypeOK /\ asked' \in [Radio -> Width] /\ asked'[r] = w
      /\ \A q \in Radio : q # r => asked'[q] = asked[q]
  BY DEF IInv, TypeOK
<1>2. ASSUME NEW q \in Radio
      PROVE  s \in Seq(Command) /\ Does(s, q)
  <2>1. /\ s \in Seq(Command)
        /\ q = r => SetsWidth(s, q, w)
        /\ q # r => KeepsWidth(s, q)
        /\ KeepsChannel(s, q) /\ KeepsExt(s, q) /\ KeepsPrev(s, q)
    <3>1. CASE s = WidthCommands(r, w)
      BY <3>1, WidthDoes
    <3>2. CASE s = ModeCommands(r, w)
      BY <3>2, ModeDoes
    <3>3. QED
      BY <3>1, <3>2
  <2>2. q \in auto => prev[q] \notin {NoFile, Empty}
    BY DEF IInv, AutoLeads
  <2>3. QED
    BY <1>1, <2>1, <2>2 DEF Does
<1>3. s \in Seq(Command)
  BY <1>2 DEF Radio
<1>4. QED
  BY <1>1, <1>2, <1>3, CallIInv DEF TypeOK

\* Each of the calls, and the events beside them, keeps the invariant.
LEMMA SetWidthIInv ==
    ASSUME IInv, NEW r \in Radio, NEW w \in Width, SetWidth(r, w)
    PROVE  IInv'
BY WidthIInv DEF SetWidth

LEMMA SetChannelModeIInv ==
    ASSUME IInv, NEW r \in Radio, NEW m, ModeWidth[m] \in Width, SetChannelMode(r, m)
    PROVE  IInv'
BY WidthIInv DEF SetChannelMode, ModeCommands

\* wifi_factoryResetRadio.
LEMMA FactoryResetIInv ==
    ASSUME IInv, NEW r \in Radio, FactoryReset(r, <<>>)
    PROVE  IInv'
<1>1. PICK v, w : v = Default[r].channel /\ w = ModeWidth[Default[r].mode]
  OBVIOUS
<1>2. PICK s : s = When(Code(w) = 0, <<WriteBandWidth(r, w)>>) \o <<>> \o RadioFile(r, v, w)
  OBVIOUS
<1>3. v \in Nat /\ w \in Width
  BY <1>1, RadioConfigAssumption
<1>4. /\ Call(s) /\ asked' = [asked EXCEPT ![r] = w] /\ auto' = auto \ {r}
      /\ UNCHANGED unset
  BY <1>1, <1>2, Zenon DEF FactoryReset, RadioFile
<1>5. TypeOK /\ asked' \in [Radio -> Width] /\ asked'[r] = w
      /\ \A q \in Radio : q # r => asked'[q] = asked[q]
  BY <1>3, <1>4 DEF IInv, TypeOK
<1>6. ASSUME NEW q \in Radio
      PROVE  s \in Seq(Command) /\ Does(s, q)
  <2>1. /\ s \in Seq(Command)
        /\ q = r => OpensChannel(s, q) /\ FilesWidth(s, q, w)
        /\ q # r => KeepsAll(s, q)
    BY <1>2, <1>3, ResetDoes
  <2>2. CASE q = r
    BY <1>4, <1>5, <2>1, <2>2 DEF Does
  <2>3. CASE q # r
    BY <1>4, <1>5, <2>1, <2>3, DoesNothing
  <2>4. QED
    BY <2>2, <2>3
<1>7. s \in Seq(Command)
  BY <1>6 DEF Radio
<1>8. QED
  BY <1>4, <1>5, <1>6, <1>7, CallIInv DEF TypeOK

\* wifi_setRadioOperatingParameters.
LEMMA SetOperatingParametersIInv ==
    ASSUME IInv, NEW r \in Radio, NEW p, p.channel \in Nat, p.automatic \in BOOLEAN,
           NEW hotspot \in BOOLEAN, SetOperatingParameters(r, p, hotspot)
    PROVE  IInv'
<1>1. PICK automatic, w, v, was : /\ automatic = p.automatic /\ w = p.width /\ v = p.channel
                                  /\ was = GetWidth(r)
  OBVIOUS
<1>2. PICK b : b = (unset /\ ~automatic)
  OBVIOUS
<1>3. PICK s : s = OperatingCommands(r, v, hotspot, automatic, Remembered(r), was, w, b)
  OBVIOUS
<1>4. TypeOK /\ Remembered(r) \in Nat /\ (prev[r] \notin {NoFile, Empty} => Remembered(r) = prev[r])
  BY RememberedType DEF IInv
<1>5. automatic \in BOOLEAN /\ v \in Nat /\ b \in BOOLEAN /\ (automatic => ~b)
  BY <1>1, <1>2, <1>4 DEF TypeOK
<1>6. Call(s)
  BY <1>1, <1>2, <1>3, Zenon DEF SetOperatingParameters, OperatingCommands
<1>7. /\ unset' = (unset /\ ~automatic /\ w \notin Width)
      /\ auto' = IF automatic
                 THEN IF prev[r] \notin {NoFile, Empty} /\ (w \in Width => v = prev[r])
                      THEN auto \cup {r} ELSE auto \ {r}
                 ELSE IF w \in Width THEN auto \ {r} ELSE auto
      /\ asked' = IF w \in Width THEN [asked EXCEPT ![r] = w] ELSE asked
  BY <1>1 DEF SetOperatingParameters
<1>8. /\ auto' \in SUBSET Radio /\ unset' \in BOOLEAN /\ asked' \in [Radio -> Width]
      /\ w \in Width => asked'[r] = w
      /\ w \notin Width => asked' = asked
      /\ \A q \in Radio : q # r => asked'[q] = asked[q] /\ (q \in auto' => q \in auto)
  BY <1>4, <1>7 DEF TypeOK
<1>9. ASSUME NEW q \in Radio
      PROVE  s \in Seq(Command) /\ Does(s, q)
  <2>1. /\ s \in Seq(Command)
        /\ q # r => KeepsAll(s, q)
        /\ w \in Width => /\ q = r => SetsChannel(s, q, v) /\ SetsWidth(s, q, w)
                          /\ ~b => KeepsPrev(s, q)
        /\ w \notin Width /\ automatic =>
              /\ q = r => SetsChannel(s, q, Remembered(r))
              /\ KeepsWidth(s, q) /\ KeepsPrev(s, q)
        /\ w \notin Width /\ ~automatic => KeepsAll(s, q)
    BY <1>3, <1>4, <1>5, OperatingDoes
  <2>2. CASE q # r
    BY <1>8, <2>1, <2>2, DoesNothing
  <2>3. CASE q = r /\ w \in Width
    <3>1. q \in auto' => automatic /\ prev[q] \notin {NoFile, Empty} /\ v = prev[q]
      BY <1>7, <2>3
    <3>2. SetsChannel(s, q, v) /\ SetsWidth(s, q, asked'[q]) /\ (~b => KeepsPrev(s, q))
      BY <1>8, <2>1, <2>3
    <3>3. QED
      BY <1>5, <2>1, <3>1, <3>2 DEF Does
  <2>4. CASE q = r /\ w \notin Width /\ automatic
    <3>1. q \in auto' => prev[q] \notin {NoFile, Empty} /\ Remembered(r) = prev[q]
      BY <1>4, <1>7, <2>4
    <3>2. QED
      BY <1>8, <2>1, <2>4, <3>1 DEF Does
  <2>5. CASE q = r /\ w \notin Width /\ ~automatic
    BY <1>7, <1>8, <2>1, <2>5, DoesNothing
  <2>6. QED
    BY <2>2, <2>3, <2>4, <2>5
<1>10. s \in Seq(Command)
  BY <1>9 DEF Radio
<1>11. QED
  BY <1>6, <1>8, <1>9, <1>10, CallIInv

-----------------------------------------------------------------------------
(* Restarts.                                                               *)

\* With no command left a setting is what it leads to.
LEMMA AfterIdle ==
    ASSUME NEW what, NEW of
    PROVE  /\ todo = <<>> => After(what, of) = Now(what, of)
           /\ todo' = <<>> => After(what, of)' = Now(what, of)'
<1>1. ASSUME todo = <<>>
      PROVE  After(what, of) = Now(what, of)
  BY <1>1, NetNone DEF After, Over
<1>2. ASSUME todo' = <<>>
      PROVE  After(what, of)' = Now(what, of)'
  <2>1. Net(todo, what, of)' = <<>>
    BY <1>2, NetLater, NetNone
  <2>2. After(what, of)' = Over(Now(what, of)', Net(todo, what, of)')
    BY DEF After, Over
  <2>3. QED
    BY <2>1, <2>2 DEF Over
<1>3. QED
  BY <1>1, <1>2

\* hostapd starts with what the files say.
LEMMA InFileType ==
    ASSUME TypeOK, NEW ap \in Ap
    PROVE  /\ InFile(ap) \in Given
           /\ ap \in Radio => /\ InFile(ap).channel = file[ap].channel
                              /\ InFile(ap).width = file[ap].width
<1>1. CASE ap \in Radio
  BY <1>1 DEF InFile, TypeOK, Setting, Given
<1>2. CASE ap \notin Radio
  <2>1. ap - 4 \in Radio
    BY <1>2 DEF Ap, Radio
  <2>2. PublicChannel[ap - 4] \in Nat
    BY <2>1, RadioConfigAssumption
  <2>3. QED
    BY <1>2, <2>2 DEF InFile, Given
<1>3. QED
  BY <1>1, <1>2

\* hostapd, started again, has what the files say; a public access point may differ.
LEMMA HostapdRestartsIInv == ASSUME IInv, HostapdRestarts PROVE IInv'
<1>1. /\ todo = <<>> /\ todo' = <<>>
      /\ UNCHANGED <<file, bw, prev, unset, asked, auto>>
      /\ told' = [ap \in Ap |-> InFile(ap)] /\ air' = told'
      /\ unsure' = (unsure \ {<<what, r>> : what \in {"channel", "width"}, r \in Radio})
                   \cup {<<"public", r>> : r \in Radio}
  BY DEF HostapdRestarts, fileVars
<1>2. TypeOK /\ Heading /\ AutoLeads
  BY DEF IInv
<1>3. told' \in [Ap -> Given] /\ \A r \in Radio : /\ told'[r].channel = file[r].channel
                                                  /\ told'[r].width = file[r].width
  BY <1>1, <1>2, InFileType, Numbers
<1>4. TypeOK'
  <2>1. unsure' \in SUBSET (Note \cup ({"remembered"} \X Radio))
    BY <1>1, <1>2 DEF TypeOK, Note
  <2>2. QED
    BY <1>1, <1>2, <1>3, <2>1 DEF TypeOK
<1>5. /\ \A r \in Radio : <<"public", r>> \in unsure'
      /\ \A r \in Radio : <<"report", r>> \in unsure' <=> <<"report", r>> \in unsure
      /\ \A r \in Radio : <<"ext", r>> \in unsure' <=> <<"ext", r>> \in unsure
  BY <1>1
<1>6. ASSUME NEW r \in Radio
      PROVE  /\ ChannelLeads(r)' /\ PublicLeads(r)' /\ WidthLeads(r)' /\ ReportLeads(r)'
             /\ After("channel", r)' = After("channel", r)
             /\ After("ht", r)' = After("ht", r)
             /\ Open("ext", r)' <=> Open("ext", r)
  <2>1. /\ After("channel", r)' = file[r].channel /\ After("toldChannel", r)' = file[r].channel
        /\ After("width", r)' = file[r].width /\ After("toldWidth", r)' = file[r].width
        /\ After("channel", r) = file[r].channel /\ After("width", r) = file[r].width
    BY <1>1, <1>3, AfterIdle DEF Now
  <2>2. After("bw", r)' = bw[r] /\ After("bw", r) = bw[r]
    BY <1>1, AfterIdle DEF Now
  <2>3. After("ht", r)' = file[r].ht /\ After("ht", r) = file[r].ht
    BY <1>1, AfterIdle DEF Now
  <2>4. After("freshChannel", r)' = "fresh" /\ After("freshWidth", r)' = "fresh"
    <3>1. Now("freshChannel", r)' = "fresh" /\ Now("freshWidth", r)' = "fresh"
      BY <1>1 DEF Now, Fresh
    <3>2. QED
      BY <1>1, <3>1, AfterIdle
  <2>5. ASSUME NEW x
        PROVE  /\ After("open", x)' = "open" <=> x \in unsure'
               /\ After("open", x) = "open" <=> x \in unsure
    BY <1>1, AfterIdle DEF Now
  <2>6. /\ Open("public", r)'
        /\ Open("report", r)' <=> Open("report", r)
        /\ Open("ext", r)' <=> Open("ext", r)
    BY <1>5, <2>5 DEF Open
  <2>7. ChannelLeads(r)' /\ PublicLeads(r)' /\ WidthLeads(r)'
    BY <2>1, <2>4, <2>6 DEF ChannelLeads, PublicLeads, WidthLeads
  <2>8. ReportLeads(r)'
    BY <1>1, <1>2, <2>1, <2>2, <2>6 DEF Heading, ReportLeads
  <2>9. QED
    BY <2>1, <2>3, <2>6, <2>7, <2>8
<1>7. ExtLeads'
  BY <1>2, <1>6 DEF Heading, ExtLeads, Radio
<1>8. ASSUME NEW r \in auto
      PROVE  /\ prev'[r] \notin {NoFile, Empty} /\ Net(todo, "prev", r)' = <<>>
             /\ After("channel", r)' = prev'[r]
  <2>1. r \in Radio
    BY <1>2 DEF TypeOK
  <2>2. Net(todo, "prev", r)' = <<>>
    BY <1>1, NetLater, NetNone
  <2>3. QED
    BY <1>1, <1>2, <1>6, <2>1, <2>2 DEF AutoLeads
<1>9. QED
  BY <1>1, <1>4, <1>6, <1>7, <1>8 DEF IInv, Heading, AutoLeads

\* A process that ends in a call leaves everything marked.
LEMMA ProcessRestartsIInv == ASSUME IInv, ProcessRestarts PROVE IInv'
<1>1. /\ todo' = <<>> /\ unset' = TRUE
      /\ UNCHANGED <<file, bw, prev, told, air, asked>>
      /\ \/ todo = <<>> /\ UNCHANGED <<auto, unsure>>
         \/ /\ auto' = {}
            /\ unsure' = {"channel", "public", "width", "report", "ext", "remembered"} \X Radio
  BY DEF ProcessRestarts, fileVars, apVars
<1>2. TypeOK /\ Heading /\ AutoLeads
  BY DEF IInv
<1>3. CASE todo = <<>> /\ UNCHANGED <<auto, unsure>>
  <2>1. TypeOK'
    BY <1>1, <1>2, <1>3 DEF TypeOK
  <2>2. ASSUME NEW what, NEW of
        PROVE  After(what, of)' = After(what, of) /\ Net(todo, what, of)' = Net(todo, what, of)
    <3>1. Now(what, of)' = Now(what, of)
      BY <1>1, <1>3 DEF Now, Fresh
    <3>2. Net(todo, what, of)' = Net(todo, what, of)
      BY <1>1, <1>3, NetLater
    <3>3. QED
      BY <1>1, <1>3, <3>1, <3>2, AfterIdle
  <2>3. \A what, r : Open(what, r)' <=> Open(what, r)
    BY <2>2 DEF Open
  <2>4. Heading'
    BY <1>1, <1>2, <2>2, <2>3
       DEF Heading, ChannelLeads, PublicLeads, WidthLeads, ReportLeads, ExtLeads
  <2>5. AutoLeads'
    BY <1>1, <1>2, <1>3, <2>2 DEF AutoLeads
  <2>6. QED
    BY <2>1, <2>4, <2>5 DEF IInv
<1>4. CASE /\ auto' = {}
           /\ unsure' = {"channel", "public", "width", "report", "ext", "remembered"} \X Radio
  <2>1. TypeOK'
    <3>1. unsure' \in SUBSET (Note \cup ({"remembered"} \X Radio))
      BY <1>4 DEF Note
    <3>2. <<>> \in Seq(Command)
      OBVIOUS
    <3>3. QED
      BY <1>1, <1>2, <1>4, <3>1, <3>2 DEF TypeOK
  <2>2. ASSUME NEW what \in {"channel", "public", "width", "report", "ext"}, NEW r \in Radio
        PROVE  Open(what, r)'
    <3>1. PICK x : x = <<what, r>>
      OBVIOUS
    <3>2. x \in unsure'
      BY <1>4, <3>1
    <3>3. After("open", x)' = "open"
      BY <1>1, <3>2, AfterIdle DEF Now
    <3>4. QED
      BY <3>1, <3>3 DEF Open
  <2>3. Heading'
    BY <2>2 DEF Heading, ChannelLeads, PublicLeads, WidthLeads, ReportLeads, ExtLeads, Radio
  <2>4. AutoLeads'
    BY <1>4 DEF AutoLeads
  <2>5. QED
    BY <2>1, <2>3, <2>4 DEF IInv
<1>5. QED
  BY <1>1, <1>3, <1>4

-----------------------------------------------------------------------------
(***************************************************************************)
(* Theorems.                                                               *)
(***************************************************************************)

\* The invariant holds initially: the defaults are in the files and in use.
LEMMA InitIInv == ASSUME Init PROVE IInv
<1>1. /\ file = [r \in Radio |-> [channel |-> Default[r].channel,
                                  width |-> Code(ModeWidth[Default[r].mode]),
                                  n |-> 1, ht |-> IF r = 0 THEN "HT40" ELSE "HT40+"]]
      /\ bw = [r \in Radio |-> ModeWidth[Default[r].mode]]
      /\ prev = [r \in Radio |-> NoFile] /\ unset = TRUE
      /\ told = [ap \in Ap |-> InFile(ap)] /\ air = told
      /\ todo = <<>> /\ asked = bw /\ auto = {}
      /\ unsure = {<<what, r>> : what \in {"public", "ext"}, r \in Radio}
  BY DEF Init
<1>2. \A r \in Radio : /\ Default[r].channel \in Nat
                       /\ ModeWidth[Default[r].mode] \in Width
                       /\ Code(ModeWidth[Default[r].mode]) \in 0 .. 3
  BY RadioConfigAssumption, CodeType
<1>3. file \in [Radio -> Setting]
  BY <1>1, <1>2 DEF Setting, Ht
<1>4. told \in [Ap -> Given] /\ \A r \in Radio : /\ told[r].channel = file[r].channel
                                                 /\ told[r].width = file[r].width
  <2>1. ASSUME NEW ap \in Ap
        PROVE  /\ InFile(ap) \in Given
               /\ ap \in Radio => /\ InFile(ap).channel = file[ap].channel
                                  /\ InFile(ap).width = file[ap].width
    <3>1. CASE ap \in Radio
      BY <1>3, <3>1 DEF InFile, Setting, Given
    <3>2. CASE ap \notin Radio
      <4>1. ap - 4 \in Radio
        BY <3>2 DEF Ap, Radio
      <4>2. PublicChannel[ap - 4] \in Nat
        BY <4>1, RadioConfigAssumption
      <4>3. QED
        BY <3>2, <4>2 DEF InFile, Given
    <3>3. QED
      BY <3>1, <3>2
  <2>2. QED
    BY <1>1, <2>1, Numbers
<1>5. TypeOK
  <2>1. unsure \in SUBSET (Note \cup ({"remembered"} \X Radio))
    BY <1>1 DEF Note
  <2>2. <<>> \in Seq(Command)
    OBVIOUS
  <2>3. bw \in [Radio -> Width] /\ prev \in [Radio -> Nat \cup {NoFile, Empty}]
    BY <1>1, <1>2
  <2>4. QED
    BY <1>1, <1>3, <1>4, <2>1, <2>2, <2>3 DEF TypeOK
<1>6. ASSUME NEW r \in Radio
      PROVE  /\ ChannelLeads(r) /\ PublicLeads(r) /\ WidthLeads(r) /\ ReportLeads(r)
             /\ Open("ext", r)
  <2>1. /\ After("channel", r) = file[r].channel /\ After("toldChannel", r) = file[r].channel
        /\ After("width", r) = file[r].width /\ After("toldWidth", r) = file[r].width
        /\ After("bw", r) = bw[r]
    <3>1. /\ Now("channel", r) = file[r].channel /\ Now("toldChannel", r) = file[r].channel
          /\ Now("width", r) = file[r].width /\ Now("toldWidth", r) = file[r].width
          /\ Now("bw", r) = bw[r]
      BY <1>4 DEF Now
    <3>2. todo = <<>>
      BY <1>1
    <3>3. QED
      BY <3>1, <3>2, AfterIdle
  <2>2. Now("freshChannel", r) = "fresh" /\ Now("freshWidth", r) = "fresh"
    BY <1>1 DEF Now, Fresh
  <2>3. After("freshChannel", r) = "fresh" /\ After("freshWidth", r) = "fresh"
    BY <1>1, <2>2, AfterIdle
  <2>4. ASSUME NEW what \in {"public", "ext"}
        PROVE  Open(what, r)
    <3>1. PICK x : x = <<what, r>>
      OBVIOUS
    <3>2. x \in unsure
      BY <1>1, <3>1
    <3>3. After("open", x) = "open"
      BY <1>1, <3>2, AfterIdle DEF Now
    <3>4. QED
      BY <3>1, <3>3 DEF Open
  <2>5. file[r].width = Code(asked[r]) /\ bw[r] = asked[r]
    BY <1>1
  <2>6. QED
    BY <2>1, <2>3, <2>4, <2>5 DEF ChannelLeads, PublicLeads, WidthLeads, ReportLeads
<1>7. QED
  BY <1>1, <1>5, <1>6 DEF IInv, Heading, ExtLeads, AutoLeads, Radio

\* What wifi_getRadioOperatingParameters returns.
LEMMA GottenType ==
    ASSUME TypeOK, NEW r \in Radio
    PROVE  /\ GetOperatingParameters(r).channel \in Nat
           /\ GetOperatingParameters(r).automatic \in BOOLEAN
BY DEF TypeOK, Setting, GetOperatingParameters, GetChannel, GetAuto

\* Every step keeps the invariant.
LEMMA NextIInv == ASSUME IInv, Next PROVE IInv'
<1>1. TypeOK
  BY DEF IInv
<1>2. CASE Step
  BY <1>2, StepIInv
<1>3. ASSUME NEW r \in Radio, NEW hotspot \in BOOLEAN, ChannelCall(r, Channel[r], hotspot)
      PROVE  IInv'
  <2>1. CASE \E channel \in Channel[r] : SetChannel(r, channel, hotspot)
    BY <2>1, SetChannelIInv, RadioConfigAssumption
  <2>2. CASE SetAutoChannel(r, hotspot)
    BY <2>2, SetAutoChannelIInv
  <2>3. QED
    BY <1>3, <2>1, <2>2 DEF ChannelCall
<1>4. ASSUME NEW r \in Radio, ExtCall(r)
      PROVE  IInv'
  BY <1>4, SetExtChannelIInv DEF ExtCall
<1>5. ASSUME NEW r \in Radio, WidthCall(r)
      PROVE  IInv'
  <2>1. ASSUME NEW m \in Mode, SetChannelMode(r, m)
        PROVE  IInv'
    BY <2>1, SetChannelModeIInv, RadioConfigAssumption
  <2>2. ASSUME NEW m \in Mode, SetWidth(r, ModeWidth[m])
        PROVE  IInv'
    BY <2>2, SetWidthIInv, RadioConfigAssumption
  <2>3. QED
    BY <1>5, <2>1, <2>2 DEF WidthCall
<1>6. ASSUME NEW r \in Radio, OperatingCall(r, Channel[r])
      PROVE  IInv'
  <2>1. ASSUME NEW channel \in Channel[r], NEW automatic \in BOOLEAN, NEW w, NEW p,
               p = [width |-> w, channel |-> channel, automatic |-> automatic],
               SetOperatingParameters(r, p, FALSE)
        PROVE  IInv'
    <3>1. p.channel \in Nat /\ p.automatic \in BOOLEAN
      BY <2>1, RadioConfigAssumption
    <3>2. QED
      BY <2>1, <3>1, SetOperatingParametersIInv
  <2>2. ASSUME SetOperatingParameters(r, GetOperatingParameters(r), FALSE)
        PROVE  IInv'
    BY <1>1, <2>2, GottenType, SetOperatingParametersIInv
  <2>3. QED
    BY <1>6, <2>1, <2>2 DEF OperatingCall
<1>7. QED
  BY <1>2, <1>3, <1>4, <1>5, <1>6, FactoryResetIInv, HostapdRestartsIInv, ProcessRestartsIInv
     DEF Next

\* Nor does a step of another component disturb it.
LEMMA StutterIInv == ASSUME IInv, UNCHANGED vars PROVE IInv'
<1>1. UNCHANGED <<file, bw, prev, unset, told, air, todo, asked, auto, unsure>>
  BY DEF vars, fileVars, apVars, history
<1>2. ASSUME NEW what, NEW of
      PROVE  After(what, of)' = After(what, of) /\ Net(todo, what, of)' = Net(todo, what, of)
  <2>1. Now(what, of)' = Now(what, of)
    BY <1>1 DEF Now, Fresh
  <2>2. Net(todo, what, of)' = Net(todo, what, of)
    BY <1>1, NetLater
  <2>3. After(what, of)' = Over(Now(what, of)', Net(todo, what, of)')
    BY DEF After, Over
  <2>4. QED
    BY <2>1, <2>2, <2>3 DEF After
<1>3. \A what, r : Open(what, r)' <=> Open(what, r)
  BY <1>2 DEF Open
<1>4. TypeOK'
  BY <1>1 DEF IInv, TypeOK
<1>5. Heading'
  BY <1>1, <1>2, <1>3
     DEF IInv, Heading, ChannelLeads, PublicLeads, WidthLeads, ReportLeads, ExtLeads
<1>6. AutoLeads'
  BY <1>1, <1>2 DEF IInv, AutoLeads
<1>7. QED
  BY <1>4, <1>5, <1>6 DEF IInv

\* What is left of a running call always leads to agreement.
THEOREM RadioInvariant == Spec => []IInv
<1>1. Init => IInv
  BY InitIInv
<1>2. IInv /\ [Next]_vars => IInv'
  BY NextIInv, StutterIInv
<1>3. QED
  BY <1>1, <1>2, PTL DEF Spec

\* Between calls what was led to is there, except what is marked.
LEMMA SureIsNow ==
    ASSUME NEW what, NEW r, Sure(what, r)
    PROVE  ~Open(what, r) /\ \A x, of : After(x, of) = Now(x, of)
<1>1. todo = <<>> /\ <<what, r>> \notin unsure
  BY DEF Sure
<1>2. \A x, of : After(x, of) = Now(x, of)
  BY <1>1, AfterIdle
<1>3. PICK y : y = <<what, r>>
  OBVIOUS
<1>4. After("open", y) = "sure"
  BY <1>1, <1>2, <1>3 DEF Now
<1>5. ~Open(what, r)
  BY <1>3, <1>4 DEF Open
<1>6. QED
  BY <1>2, <1>5

\* The channel and the width that are reported are in use, in whatever order calls for
\* both radios follow one another, and cut wherever a process ends.
THEOREM ChannelInUse == Spec => []InUse
<1>1. IInv => InUse
  <2> SUFFICES ASSUME IInv, NEW r \in Radio
               PROVE  /\ Sure("channel", r) => /\ file[r].channel = told[r].channel
                                               /\ file[r].channel = air[r].channel
                      /\ Sure("width", r) => /\ file[r].width = told[r].width
                                             /\ file[r].width = air[r].width
                      /\ Sure("public", r) => file[r].channel = told[r + 4].channel
    BY DEF InUse
  <2>1. ChannelLeads(r) /\ PublicLeads(r) /\ WidthLeads(r)
    BY DEF IInv, Heading
  <2>2. ASSUME Sure("channel", r)
        PROVE  file[r].channel = told[r].channel /\ file[r].channel = air[r].channel
    <3>1. Now("toldChannel", r) = Now("channel", r) /\ Now("freshChannel", r) = "fresh"
      BY <2>1, <2>2, SureIsNow DEF ChannelLeads
    <3>2. QED
      BY <3>1 DEF Now, Fresh
  <2>3. ASSUME Sure("width", r)
        PROVE  file[r].width = told[r].width /\ file[r].width = air[r].width
    <3>1. Now("toldWidth", r) = Now("width", r) /\ Now("freshWidth", r) = "fresh"
      BY <2>1, <2>3, SureIsNow DEF WidthLeads
    <3>2. QED
      BY <3>1 DEF Now, Fresh
  <2>4. ASSUME Sure("public", r)
        PROVE  file[r].channel = told[r + 4].channel
    <3>1. Now("toldChannel", r + 4) = Now("channel", r)
      BY <2>1, <2>4, SureIsNow DEF PublicLeads
    <3>2. QED
      BY <3>1 DEF Now
  <2>5. QED
    BY <2>2, <2>3, <2>4
<1>2. QED
  BY <1>1, RadioInvariant, PTL

\* The width put together from two files is the one last asked for.
THEOREM WidthAskedFor == Spec => []WidthReported
<1>1. IInv => WidthReported
  <2> SUFFICES ASSUME IInv, NEW r \in Radio, Sure("report", r)
               PROVE  GetWidth(r) = asked[r]
    BY DEF WidthReported
  <2>1. ReportLeads(r) /\ asked[r] \in Width
    BY DEF IInv, Heading, TypeOK
  <2>2. Now("width", r) = Code(asked[r]) /\ (Code(asked[r]) = 0 => Now("bw", r) = asked[r])
    BY <2>1, SureIsNow DEF ReportLeads
  <2>3. file[r].width = Code(asked[r]) /\ (Code(asked[r]) = 0 => bw[r] = asked[r])
    BY <2>2 DEF Now
  <2>4. CASE Code(asked[r]) = 0
    <3>1. asked[r] \in {"20MHz", "40MHz"}
      BY <2>1, <2>4, CodeIs DEF Width
    <3>2. QED
      BY <2>3, <2>4, <3>1 DEF GetWidth, ReadBandWidth
  <2>5. CASE Code(asked[r]) # 0
    <3>1. \A w \in Width : Code(w) = file[r].width <=> w = asked[r]
      BY <2>1, <2>3, <2>5, CodeIs DEF Width
    <3>2. (CHOOSE w \in Width : Code(w) = file[r].width) = asked[r]
      BY <2>1, <3>1
    <3>3. QED
      BY <2>3, <2>5, <3>2 DEF GetWidth
  <2>6. QED
    BY <2>4, <2>5
<1>2. QED
  BY <1>1, RadioInvariant, PTL

\* A radio set to its remembered channel is reported as automatic.
THEOREM AutomaticReported == Spec => []AutoReported
<1>1. IInv => AutoReported
  <2> SUFFICES ASSUME IInv, todo = <<>>, NEW r \in auto
               PROVE  GetAuto(r)
    BY DEF AutoReported
  <2>1. prev[r] \notin {NoFile, Empty} /\ After("channel", r) = prev[r]
    BY DEF IInv, AutoLeads
  <2>2. Now("channel", r) = prev[r]
    BY <2>1, AfterIdle
  <2>3. QED
    BY <2>1, <2>2 DEF Now, GetAuto, GetChannel
<1>2. QED
  BY <1>1, RadioInvariant, PTL

\* The second channel is the other one of the pair.
THEOREM ExtChannelAgrees == Spec => []ExtAgrees
<1>1. IInv => ExtAgrees
  <2> SUFFICES ASSUME IInv, Sure("ext", 1)
               PROVE  file[1].ht = ExtFor(file[1].channel)
    BY DEF ExtAgrees, ExtFor
  <2>1. Now("ht", 1) = ExtFor(Now("channel", 1))
    BY SureIsNow DEF IInv, Heading, ExtLeads
  <2>2. QED
    BY <2>1 DEF Now
<1>2. QED
  BY <1>1, RadioInvariant, PTL

-----------------------------------------------------------------------------
(***************************************************************************)
(* A radio keeps to channels of its own band, if those that it is given    *)
(* are: what is remembered of one radio does not come to the other.        *)
(***************************************************************************)

OwnBand ==
    \A r \in Radio : /\ \A channel \in Channel[r] : BandOf(channel) = r
                     /\ BandOf(Default[r].channel) = r

\* A channel of the band; or 0, which an empty file is read as.
Fits(v, r) == BandOf(v) = r \/ (v = 0 /\ <<"remembered", r>> \in unsure)

\* Commands that write such channels, and leave no file empty.
FitsAll(s, q) ==
    /\ Net(s, "alien", q) = <<>>
    /\ Net(s, "zero", q) = <<>> \/ <<"remembered", q>> \in unsure
    /\ Net(s, "prev", q) \in {<<>>, <<"stored">>}

\* The file of a remembered channel is empty only while the channel is about to be
\* written, or if a call was cut there.
Bands ==
    \A r \in Radio :
        /\ Fits(file[r].channel, r)
        /\ prev[r] \notin {NoFile, Empty} => Fits(prev[r], r)
        /\ prev[r] = Empty => Net(todo, "prev", r) = <<"stored">> \/ <<"remembered", r>> \in unsure
        /\ FitsAll(todo, r)

\* What is remembered of a radio fits it.
LEMMA RememberedFits ==
    ASSUME TypeOK, Bands, todo = <<>>, NEW r \in Radio
    PROVE  Fits(Remembered(r), r)
<1>1. Net(todo, "prev", r) = <<>>
  BY NetNone
<1>2. CASE prev[r] = NoFile
  <2>1. Remembered(r) = IF r = 0 THEN 6 ELSE 36
    BY <1>2 DEF Remembered, NoFile, Empty
  <2>2. BandOf(6) = 0 /\ BandOf(36) = 1 /\ r \in {0, 1}
    BY DEF BandOf, Radio
  <2>3. BandOf(Remembered(r)) = r
    BY <2>1, <2>2
  <2>4. QED
    BY <2>3 DEF Fits
<1>3. CASE prev[r] = Empty
  <2>1. <<"remembered", r>> \in unsure
    BY <1>1, <1>3 DEF Bands
  <2>2. QED
    BY <1>3, <2>1 DEF Remembered, Fits, NoFile, Empty
<1>4. CASE prev[r] \notin {NoFile, Empty}
  BY <1>4 DEF Bands, Remembered
<1>5. QED
  BY <1>2, <1>3, <1>4

\* Two lists.
LEMMA BothFit ==
    ASSUME NEW s \in Seq(Command), NEW t \in Seq(Command), NEW q, FitsAll(s, q), FitsAll(t, q)
    PROVE  FitsAll(s \o t, q)
<1>1. PICK d : d = s \o t
  OBVIOUS
<1>2. ASSUME NEW what, NEW of
      PROVE  /\ Net(t, what, of) = <<>> => Net(d, what, of) = Net(s, what, of)
             /\ Net(t, what, of) # <<>> => Net(d, what, of) = Net(t, what, of)
  BY <1>1, NetBoth DEF Then
<1>3. FitsAll(d, q)
  BY <1>2 DEF FitsAll
<1>4. QED
  BY <1>1, <1>3

\* A list that keeps the channel, and one that sets one.
LEMMA KeepsFits ==
    ASSUME NEW s, NEW q, KeepsChannel(s, q), KeepsPrev(s, q)
    PROVE  FitsAll(s, q)
BY DEF KeepsChannel, KeepsPrev, FitsAll

\* Which channels the lists of commands write: those of the band, if they are given such.
LEMMA StoringFits ==
    ASSUME NEW r \in Radio, NEW b \in BOOLEAN, NEW q \in Radio,
           NEW s, s = When(b, <<Truncate(r), StorePrev(r)>>)
    PROVE  s \in Seq(Command) /\ FitsAll(s, q)
<1>1. /\ s \in Seq(Command) /\ KeepsChannel(s, q)
      /\ KeepsPrev(s, q) \/ Net(s, "prev", q) = <<"stored">>
  BY StoringDoes
<1>2. QED
  BY <1>1 DEF KeepsChannel, KeepsPrev, FitsAll

LEMMA ChannelFits ==
    ASSUME NEW r \in Radio, NEW v \in Nat, NEW hotspot \in BOOLEAN, NEW w, NEW q \in Radio,
           Fits(v, r), NEW s, s = ChannelCommands(r, v, hotspot, w)
    PROVE  s \in Seq(Command) /\ FitsAll(s, q)
<1>1. s \in Seq(Command) /\ KeepsPrev(s, q) /\ (q # r => KeepsChannel(s, q))
  BY ChannelDoes
<1>2. CASE q # r
  BY <1>1, <1>2, KeepsFits
<1>3. CASE q = r
  <2>1. ChannelRows(r, v, hotspot, w, r)
    BY ChannelTable
  <2>2. ASSUME NEW what, NEW of
        PROVE  Net(s, what, of) = ChannelWrites(r, v, hotspot, w, what, of)
    <3>1. Writes(s, what, of, ChannelWrites(r, v, hotspot, w, what, of))
      BY WritesChannelCommands
    <3>2. QED
      BY <3>1 DEF Writes
  <2>3. /\ Net(s, "alien", r) = IF v # 0 /\ BandOf(v) # r THEN <<"alien">> ELSE <<>>
        /\ Net(s, "zero", r) = IF v = 0 THEN <<"zero">> ELSE <<>>
    BY <2>1, <2>2 DEF ChannelRows
  <2>4. BandOf(0) = 2 /\ r # 2
    BY DEF BandOf, Radio
  <2>5. QED
    BY <1>1, <1>3, <2>3, <2>4 DEF Fits, FitsAll, KeepsPrev
<1>4. QED
  BY <1>2, <1>3

LEMMA ResetFits ==
    ASSUME NEW r \in Radio, NEW v \in Nat, NEW w \in Width, NEW q \in Radio, BandOf(v) = r,
           NEW s, s = When(Code(w) = 0, <<WriteBandWidth(r, w)>>) \o <<>> \o RadioFile(r, v, w)
    PROVE  s \in Seq(Command) /\ FitsAll(s, q)
<1>1. PICK c, d : /\ c = When(Code(w) = 0, <<WriteBandWidth(r, w)>>)
                  /\ d = RadioFile(r, v, w)
  OBVIOUS
<1>2. c \in Seq(Command) /\ KeepsChannel(c, q) /\ KeepsPrev(c, q)
  BY <1>1, BandWidthDoes
<1>3. /\ d \in Seq(Command) /\ KeepsPrev(d, q)
      /\ q # r => KeepsChannel(d, q)
      /\ q = r => /\ Net(d, "alien", q) = FilesChannel(r, v, "alien", q)
                  /\ Net(d, "zero", q) = FilesChannel(r, v, "zero", q)
  <2>1. d \in Seq(Command) /\ KeepsPrev(d, q)
    BY <1>1, FileDoes
  <2>2. ASSUME q # r
        PROVE  KeepsChannel(d, q)
    BY <1>1, <2>2, FileDoes
  <2>3. ASSUME q = r
        PROVE  /\ Net(d, "alien", q) = FilesChannel(r, v, "alien", q)
               /\ Net(d, "zero", q) = FilesChannel(r, v, "zero", q)
    <3>1. /\ OpensChannel(d, r) /\ Net(d, "width", r) = <<Code(w)>>
          /\ Net(d, "bw", r) = <<>>
          /\ Net(d, "open", <<"width", r>>) = <<"open">>
          /\ Net(d, "alien", r) = FilesChannel(r, v, "alien", r)
          /\ Net(d, "zero", r) = FilesChannel(r, v, "zero", r)
      BY <1>1, FileDoes
    <3>2. QED
      BY <2>3, <3>1
  <2>4. QED
    BY <2>1, <2>2, <2>3
<1>4. v # 0
  BY DEF BandOf, Radio
<1>5. FitsAll(d, q)
  <2>1. CASE q = r
    BY <1>3, <1>4, <2>1 DEF FilesChannel, FitsAll, KeepsPrev
  <2>2. CASE q # r
    BY <1>3, <2>2, KeepsFits
  <2>3. QED
    BY <2>1, <2>2
<1>6. s = c \o d
  <2>1. s = (c \o <<>>) \o d
    BY <1>1, Zenon
  <2>2. c \o <<>> = c
    BY <1>2
  <2>3. QED
    BY <2>1, <2>2, Zenon
<1>7. QED
  BY <1>2, <1>3, <1>5, <1>6, BothAre, BothFit, KeepsFits

LEMMA OperatingFits ==
    ASSUME NEW r \in Radio, NEW v \in Nat, NEW hotspot \in BOOLEAN, NEW q \in Radio,
           NEW automatic \in BOOLEAN, NEW remembered \in Nat, NEW was, NEW w,
           NEW b \in BOOLEAN, Fits(remembered, r), w \in Width => Fits(v, r), NEW s,
           s = OperatingCommands(r, v, hotspot, automatic, remembered, was, w, b)
    PROVE  FitsAll(s, q)
<1>1. PICK first, width, storing, second :
         /\ first = When(automatic, ChannelCommands(r, remembered, hotspot, was))
         /\ width = WidthCommands(r, w) /\ storing = When(b, <<Truncate(r), StorePrev(r)>>)
         /\ second = ChannelCommands(r, v, hotspot, w)
  OBVIOUS
<1>2. s = first \o When(w \in Width, (width \o storing) \o second)
  BY <1>1, Zenon DEF OperatingCommands
<1>3. first \in Seq(Command) /\ FitsAll(first, q)
  <2>1. CASE automatic
    <3>1. first = ChannelCommands(r, remembered, hotspot, was)
      BY <1>1, <2>1 DEF When
    <3>2. QED
      BY <3>1, ChannelFits
  <2>2. CASE ~automatic
    <3>1. first = <<>>
      BY <1>1, <2>2 DEF When
    <3>2. QED
      BY <3>1, NothingDoes, KeepsFits
  <2>3. QED
    BY <2>1, <2>2
<1>4. CASE w \in Width
  <2>1. s = first \o ((width \o storing) \o second)
    BY <1>2, <1>4 DEF When
  <2>2. width \in Seq(Command) /\ FitsAll(width, q)
    BY <1>1, <1>4, WidthDoes, KeepsFits
  <2>3. storing \in Seq(Command) /\ FitsAll(storing, q)
    BY <1>1, StoringFits
  <2>4. second \in Seq(Command) /\ FitsAll(second, q)
    BY <1>1, <1>4, ChannelFits
  <2>5. PICK two, three : two = width \o storing /\ three = two \o second
    OBVIOUS
  <2>6. two \in Seq(Command) /\ three \in Seq(Command) /\ s = first \o three
    BY <2>1, <2>2, <2>3, <2>4, <2>5, BothAre, Zenon
  <2>7. FitsAll(two, q)
    BY <2>2, <2>3, <2>5, BothFit
  <2>8. FitsAll(three, q)
    BY <2>4, <2>5, <2>6, <2>7, BothFit
  <2>9. QED
    BY <1>3, <2>6, <2>8, BothFit
<1>5. CASE w \notin Width
  <2>1. s = first \o <<>>
    BY <1>2, <1>5 DEF When
  <2>2. first \o <<>> = first
    BY <1>3
  <2>3. QED
    BY <1>3, <2>1, <2>2, Zenon
<1>6. QED
  BY <1>4, <1>5

\* A command keeps to the band.
LEMMA StepBands == ASSUME TypeOK, Bands, Step PROVE Bands'
<1>1. PICK c : c = Head(todo)
  OBVIOUS
<1>2. c \in Command /\ todo # <<>>
  BY <1>1, HeadTail DEF TypeOK, Step
<1>3. \A q : <<"remembered", q>> \in unsure' <=> <<"remembered", q>> \in unsure
  <2>1. \A q : <<"remembered", q>> \notin Note
    BY DEF Note
  <2>2. CASE c.do = "return"
    <3>1. /\ c.sure \in SUBSET Note /\ c.open \in SUBSET Note
          /\ unsure' = (unsure \ c.sure) \cup c.open
      BY <1>1, <1>2, <2>2, CommandParts DEF Step
    <3>2. QED
      BY <2>1, <3>1
  <2>3. CASE c.do # "return"
    BY <1>1, <2>3 DEF Step
  <2>4. QED
    BY <2>2, <2>3
<1>4. ASSUME NEW r \in Radio
      PROVE  /\ Fits(file[r].channel, r)'
             /\ prev'[r] \notin {NoFile, Empty} => Fits(prev[r], r)'
             /\ prev'[r] = Empty => \/ Net(todo', "prev", r) = <<"stored">>
                                    \/ <<"remembered", r>> \in unsure'
             /\ FitsAll(todo, r)'
  <2>1. /\ Fits(file[r].channel, r)
        /\ prev[r] \notin {NoFile, Empty} => Fits(prev[r], r)
        /\ prev[r] = Empty => Net(todo, "prev", r) = <<"stored">> \/ <<"remembered", r>> \in unsure
        /\ Net(todo, "alien", r) = <<>>
        /\ Net(todo, "zero", r) = <<>> \/ <<"remembered", r>> \in unsure
        /\ Net(todo, "prev", r) \in {<<>>, <<"stored">>}
    BY DEF Bands, FitsAll
  <2>2. ASSUME NEW what
        PROVE  Net(todo, what, r) = Then(Effect(c, what, r), Net(todo', what, r))
    BY <1>1, StepNet, NetLater
  <2>3. /\ Net(todo', "alien", r) = <<>> /\ Effect(c, "alien", r) = <<>>
        /\ Net(todo', "zero", r) = <<>> \/ <<"remembered", r>> \in unsure
        /\ Effect(c, "zero", r) = <<>> \/ <<"remembered", r>> \in unsure
        /\ Net(todo', "prev", r) \in {<<>>, <<"stored">>}
        /\ Effect(c, "prev", r) = <<>> => Net(todo', "prev", r) = Net(todo, "prev", r)
        /\ Effect(c, "prev", r) = <<"empty">> => Net(todo', "prev", r) = <<"stored">>
    <3>1. \A a, b : (Then(a, b) = <<>> => a = <<>> /\ b = <<>>) /\ Then(<<>>, b) = b
                    /\ (Then(a, b) \in {a, b}) /\ (b # <<>> => Then(a, b) = b)
      BY DEF Then
    <3>2. <<"empty">> # <<>> /\ <<"empty">> # <<"stored">>
      OBVIOUS
    <3>3. Net(todo', "alien", r) = <<>> /\ Effect(c, "alien", r) = <<>>
      BY <2>1, <2>2, <3>1
    <3>4. Net(todo, "zero", r) = <<>> => Net(todo', "zero", r) = <<>> /\ Effect(c, "zero", r) = <<>>
      BY <2>2, <3>1
    <3>5. /\ Net(todo', "prev", r) \in {<<>>, <<"stored">>}
          /\ Effect(c, "prev", r) = <<>> => Net(todo', "prev", r) = Net(todo, "prev", r)
          /\ Effect(c, "prev", r) = <<"empty">> => Net(todo', "prev", r) = <<"stored">>
      BY <2>1, <2>2, <3>1, <3>2
    <3>6. QED
      BY <2>1, <3>3, <3>4, <3>5
  <2>4. Fits(file'[r].channel, r)
    <3>1. file'[r].channel = Over(file[r].channel, Effect(c, "channel", r))
      BY <1>1, StepValues
    <3>2. CASE c.do = "file" /\ c.name = "channel" /\ c.r = r
      <4>1. Effect(c, "channel", r) = <<c.to>>
        BY <3>2 DEF Effect
      <4>2. c.to # 0 /\ BandOf(c.to) # r => Effect(c, "alien", r) = <<"alien">>
        BY <3>2 DEF Effect
      <4>3. c.to = 0 => Effect(c, "zero", r) = <<"zero">>
        BY <3>2 DEF Effect
      <4>4. Fits(c.to, r)
        BY <2>3, <4>2, <4>3 DEF Fits
      <4>5. Over(file[r].channel, <<c.to>>) = c.to
        BY DEF Over
      <4>6. file'[r].channel = c.to
        BY <3>1, <4>1, <4>5, Zenon
      <4>7. QED
        BY <4>4, <4>6, Zenon
    <3>3. CASE ~(c.do = "file" /\ c.name = "channel" /\ c.r = r)
      <4>1. Effect(c, "channel", r) = <<>>
        BY <3>3 DEF Effect
      <4>2. QED
        BY <2>1, <3>1, <4>1 DEF Over
    <3>4. QED
      BY <3>2, <3>3
  <2>5. /\ prev'[r] \notin {NoFile, Empty} => Fits(prev'[r], r)
        /\ prev'[r] = Empty => \/ Net(todo', "prev", r) = <<"stored">>
                               \/ <<"remembered", r>> \in unsure
    <3>1. CASE c.do = "truncate" /\ c.r = r
      <4>1. Effect(c, "prev", r) = <<"empty">>
        BY <3>1 DEF Effect
      <4>2. prev'[r] = Empty
        BY <1>1, <3>1 DEF Step, TypeOK
      <4>3. QED
        BY <2>3, <4>1, <4>2
    <3>2. CASE c.do = "prev" /\ c.r = r
      <4>1. prev'[r] = file[r].channel
        BY <1>1, <3>2 DEF Step, TypeOK
      <4>2. file[r].channel \in Nat
        BY DEF TypeOK, Setting
      <4>3. prev'[r] # Empty
        BY <4>1, <4>2 DEF Empty
      <4>4. QED
        BY <2>1, <4>1, <4>3
    <3>3. CASE ~(c.do \in {"truncate", "prev"} /\ c.r = r)
      <4>1. Effect(c, "prev", r) = <<>>
        BY <3>3 DEF Effect
      <4>2. prev'[r] = prev[r]
        BY <1>1, <4>1, StepValues
      <4>3. QED
        BY <2>1, <2>3, <4>1, <4>2
    <3>4. QED
      BY <3>1, <3>2, <3>3
  <2>6. /\ Fits(file[r].channel, r)' <=> Fits(file'[r].channel, r)
        /\ Fits(prev[r], r)' <=> Fits(prev'[r], r)
    BY <1>3 DEF Fits
  <2>7. FitsAll(todo, r)'
    BY <1>3, <2>3, NetLater DEF FitsAll
  <2>8. QED
    BY <1>3, <2>4, <2>5, <2>6, <2>7
<1>5. QED
  BY <1>4, NetLater DEF Bands

\* A call whose commands do.
LEMMA CallBands ==
    ASSUME Bands, NEW s, Call(s), \A q \in Radio : FitsAll(s, q)
    PROVE  Bands'
<1>1. todo = <<>> /\ todo' = s /\ UNCHANGED <<file, bw, prev, told, air, unsure>>
  BY DEF Call, fileVars, apVars
<1>2. ASSUME NEW r \in Radio
      PROVE  /\ Fits(file[r].channel, r)'
             /\ prev'[r] \notin {NoFile, Empty} => Fits(prev[r], r)'
             /\ prev'[r] = Empty => <<"remembered", r>> \in unsure'
             /\ FitsAll(todo, r)'
  <2>1. /\ Fits(file[r].channel, r)
        /\ prev[r] \notin {NoFile, Empty} => Fits(prev[r], r)
        /\ prev[r] = Empty => Net(todo, "prev", r) = <<"stored">> \/ <<"remembered", r>> \in unsure
        /\ FitsAll(s, r)
    BY DEF Bands
  <2>2. Net(todo, "prev", r) = <<>>
    BY <1>1, NetNone
  <2>3. Fits(file[r].channel, r)' /\ (prev'[r] \notin {NoFile, Empty} => Fits(prev[r], r)')
    BY <1>1, <2>1 DEF Fits
  <2>4. FitsAll(todo, r)'
    BY <1>1, <2>1, NetLater DEF FitsAll
  <2>5. QED
    BY <1>1, <2>1, <2>2, <2>3, <2>4
<1>3. QED
  BY <1>2 DEF Bands

\* The channels of the default file and of the callers are channels.
LEMMA CallersChannels ==
    ASSUME OwnBand, NEW r \in Radio
    PROVE  /\ Default[r].channel \in Nat /\ BandOf(Default[r].channel) = r
           /\ ModeWidth[Default[r].mode] \in Width
           /\ \A channel \in Channel[r] : channel \in Nat /\ Fits(channel, r)
BY RadioConfigAssumption DEF OwnBand, Fits

\* A step keeps to the band.
LEMMA ChannelCallBands ==
    ASSUME OwnBand, IInv, Bands, NEW r \in Radio, NEW hotspot \in BOOLEAN,
           ChannelCall(r, Channel[r], hotspot)
    PROVE  Bands'
<1>1. TypeOK /\ unset \in BOOLEAN
  BY DEF IInv, TypeOK
<1>2. ASSUME NEW channel \in Channel[r], SetChannel(r, channel, hotspot)
      PROVE  Bands'
  <2>1. PICK storing, second, s :
           /\ storing = When(unset, <<Truncate(r), StorePrev(r)>>)
           /\ second = ChannelCommands(r, channel, hotspot, GetWidth(r))
           /\ s = storing \o second
    OBVIOUS
  <2>2. Call(s)
    BY <1>2, <2>1 DEF SetChannel
  <2>3. channel \in Nat /\ Fits(channel, r)
    BY CallersChannels
  <2>4. ASSUME NEW q \in Radio
        PROVE  FitsAll(s, q)
    <3>1. storing \in Seq(Command) /\ FitsAll(storing, q)
      BY <1>1, <2>1, StoringFits
    <3>2. second \in Seq(Command) /\ FitsAll(second, q)
      BY <2>1, <2>3, ChannelFits
    <3>3. QED
      BY <2>1, <3>1, <3>2, BothFit
  <2>5. QED
    BY <2>2, <2>4, CallBands
<1>3. ASSUME SetAutoChannel(r, hotspot)
      PROVE  Bands'
  <2>1. PICK s : s = ChannelCommands(r, Remembered(r), hotspot, GetWidth(r))
    OBVIOUS
  <2>2. Call(s) /\ todo = <<>>
    BY <1>3, <2>1 DEF SetAutoChannel, Call
  <2>3. Remembered(r) \in Nat /\ Fits(Remembered(r), r)
    BY <1>1, <2>2, RememberedType, RememberedFits
  <2>4. \A q \in Radio : FitsAll(s, q)
    BY <2>1, <2>3, ChannelFits
  <2>5. QED
    BY <2>2, <2>4, CallBands
<1>4. QED
  BY <1>2, <1>3 DEF ChannelCall

\* Each of the calls, and the events beside them, keeps the radios to their bands.
LEMMA ExtCallBands ==
    ASSUME Bands, NEW r \in Radio, ExtCall(r)
    PROVE  Bands'
<1>1. PICK ht \in {"HT40+", "HT40-"} : SetExtChannel(r, ht)
  BY DEF ExtCall
<1>2. PICK v : v = IF r = 0 THEN "HT40" ELSE ht
  OBVIOUS
<1>3. PICK s : s = <<HostapdWrite(r, "ht", v), Return({}, {<<"ext", r>>})>>
  OBVIOUS
<1>4. Call(s) /\ v \in Ht
  BY <1>1, <1>2, <1>3 DEF SetExtChannel, Ht
<1>5. \A q \in Radio : FitsAll(s, q)
  BY <1>3, <1>4, ExtDoes, KeepsFits
<1>6. QED
  BY <1>4, <1>5, CallBands

LEMMA WidthCallBands ==
    ASSUME Bands, NEW r \in Radio, WidthCall(r)
    PROVE  Bands'
<1>1. ASSUME NEW m \in Mode, SetChannelMode(r, m)
      PROVE  Bands'
  <2>1. PICK w, s : w = ModeWidth[m] /\ s = ModeCommands(r, w)
    OBVIOUS
  <2>2. Call(s) /\ w \in Width
    BY <1>1, <2>1, RadioConfigAssumption DEF SetChannelMode, ModeCommands
  <2>3. \A q \in Radio : FitsAll(s, q)
    BY <2>1, <2>2, ModeDoes, KeepsFits
  <2>4. QED
    BY <2>2, <2>3, CallBands
<1>2. ASSUME NEW m \in Mode, SetWidth(r, ModeWidth[m])
      PROVE  Bands'
  <2>1. PICK w, s : w = ModeWidth[m] /\ s = WidthCommands(r, w)
    OBVIOUS
  <2>2. Call(s) /\ w \in Width
    BY <1>2, <2>1, RadioConfigAssumption DEF SetWidth
  <2>3. \A q \in Radio : FitsAll(s, q)
    BY <2>1, <2>2, WidthDoes, KeepsFits
  <2>4. QED
    BY <2>2, <2>3, CallBands
<1>3. QED
  BY <1>1, <1>2 DEF WidthCall

LEMMA FactoryResetBands ==
    ASSUME OwnBand, Bands, NEW r \in Radio, FactoryReset(r, <<>>)
    PROVE  Bands'
<1>1. PICK v, w : v = Default[r].channel /\ w = ModeWidth[Default[r].mode]
  OBVIOUS
<1>2. PICK s : s = When(Code(w) = 0, <<WriteBandWidth(r, w)>>) \o <<>> \o RadioFile(r, v, w)
  OBVIOUS
<1>3. v \in Nat /\ w \in Width /\ BandOf(v) = r
  BY <1>1, CallersChannels
<1>4. Call(s)
  BY <1>1, <1>2, Zenon DEF FactoryReset, RadioFile
<1>5. \A q \in Radio : FitsAll(s, q)
  BY <1>2, <1>3, ResetFits
<1>6. QED
  BY <1>4, <1>5, CallBands

LEMMA OperatingCallBands ==
    ASSUME OwnBand, IInv, Bands, NEW r \in Radio, OperatingCall(r, Channel[r])
    PROVE  Bands'
<1>1. TypeOK /\ unset \in BOOLEAN
  BY DEF IInv, TypeOK
<1>2. ASSUME NEW p, p.channel \in Nat, p.automatic \in BOOLEAN,
             p.width \in Width => Fits(p.channel, r), SetOperatingParameters(r, p, FALSE)
      PROVE  Bands'
  <2>1. PICK automatic, w, v, was : /\ automatic = p.automatic /\ w = p.width
                                    /\ v = p.channel /\ was = GetWidth(r)
    OBVIOUS
  <2>2. PICK b : b = (unset /\ ~automatic)
    OBVIOUS
  <2>3. PICK s : s = OperatingCommands(r, v, FALSE, automatic, Remembered(r), was, w, b)
    OBVIOUS
  <2>4. Call(s) /\ todo = <<>>
    BY <1>2, <2>1, <2>2, <2>3, Zenon DEF SetOperatingParameters, OperatingCommands, Call
  <2>5. Remembered(r) \in Nat /\ Fits(Remembered(r), r)
    BY <1>1, <2>4, RememberedType, RememberedFits
  <2>6. automatic \in BOOLEAN /\ v \in Nat /\ b \in BOOLEAN /\ (w \in Width => Fits(v, r))
    BY <1>1, <1>2, <2>1, <2>2
  <2>7. \A q \in Radio : FitsAll(s, q)
    BY <2>3, <2>5, <2>6, OperatingFits
  <2>8. QED
    BY <2>4, <2>7, CallBands
<1>3. ASSUME NEW channel \in Channel[r], NEW automatic \in BOOLEAN, NEW w, NEW p,
             p = [width |-> w, channel |-> channel, automatic |-> automatic],
             SetOperatingParameters(r, p, FALSE)
      PROVE  Bands'
  <2>1. p.channel = channel /\ p.automatic \in BOOLEAN
    BY <1>3
  <2>2. p.channel \in Nat /\ Fits(p.channel, r)
    BY <2>1, CallersChannels
  <2>3. QED
    BY <1>2, <1>3, <2>1, <2>2
<1>4. ASSUME SetOperatingParameters(r, GetOperatingParameters(r), FALSE)
      PROVE  Bands'
  <2>1. PICK p : p = GetOperatingParameters(r)
    OBVIOUS
  <2>2. p.channel \in Nat /\ p.automatic \in BOOLEAN
    BY <1>1, <2>1, GottenType
  <2>3. p.width \in Width => p.channel = file[r].channel
    BY <2>1 DEF GetOperatingParameters, GetChannel, Width
  <2>4. p.width \in Width => Fits(p.channel, r)
    BY <2>3 DEF Bands
  <2>5. QED
    BY <1>2, <1>4, <2>1, <2>2, <2>4
<1>5. QED
  BY <1>3, <1>4 DEF OperatingCall

\* With no command left, and the process new or not.
LEMMA IdleBands ==
    ASSUME Bands, todo' = <<>>, UNCHANGED <<file, prev>>,
           \A r \in Radio : <<"remembered", r>> \in unsure => <<"remembered", r>> \in unsure',
           \/ todo = <<>>
           \/ \A r \in Radio : <<"remembered", r>> \in unsure'
    PROVE  Bands'
<1>1. ASSUME NEW r \in Radio
      PROVE  /\ Fits(file[r].channel, r)'
             /\ prev'[r] \notin {NoFile, Empty} => Fits(prev[r], r)'
             /\ prev'[r] = Empty => <<"remembered", r>> \in unsure'
             /\ FitsAll(todo, r)'
  <2>1. /\ Fits(file[r].channel, r)
        /\ prev[r] \notin {NoFile, Empty} => Fits(prev[r], r)
        /\ prev[r] = Empty => Net(todo, "prev", r) = <<"stored">> \/ <<"remembered", r>> \in unsure
    BY DEF Bands
  <2>2. todo = <<>> => Net(todo, "prev", r) = <<>>
    BY NetNone
  <2>3. <<>> # <<"stored">>
    OBVIOUS
  <2>4. Fits(file[r].channel, r)' /\ (prev'[r] \notin {NoFile, Empty} => Fits(prev[r], r)')
    BY <2>1 DEF Fits
  <2>5. FitsAll(todo, r)'
    BY NetLater, NetNone DEF FitsAll
  <2>6. QED
    BY <2>1, <2>2, <2>3, <2>4, <2>5
<1>2. QED
  BY <1>1 DEF Bands

LEMMA NextBands == ASSUME OwnBand, IInv, Bands, Next PROVE Bands'
<1>1. TypeOK
  BY DEF IInv
<1>2. ASSUME HostapdRestarts
      PROVE  Bands'
  <2>1. /\ todo = <<>> /\ todo' = <<>> /\ UNCHANGED <<file, prev>>
        /\ unsure' = (unsure \ {<<what, r>> : what \in {"channel", "width"}, r \in Radio})
                     \cup {<<"public", r>> : r \in Radio}
    BY <1>2 DEF HostapdRestarts, fileVars
  <2>2. \A r \in Radio : <<"remembered", r>> \in unsure => <<"remembered", r>> \in unsure'
    BY <2>1
  <2>3. QED
    BY <2>1, <2>2, IdleBands
<1>3. ASSUME ProcessRestarts
      PROVE  Bands'
  <2>1. /\ todo' = <<>> /\ UNCHANGED <<file, prev>>
        /\ \/ todo = <<>> /\ unsure' = unsure
           \/ unsure' = {"channel", "public", "width", "report", "ext", "remembered"} \X Radio
    BY <1>3 DEF ProcessRestarts, fileVars
  <2>2. CASE todo = <<>> /\ unsure' = unsure
    BY <2>1, <2>2, IdleBands
  <2>3. CASE unsure' = {"channel", "public", "width", "report", "ext", "remembered"} \X Radio
    <3>1. \A r \in Radio : <<"remembered", r>> \in unsure'
      BY <2>3
    <3>2. QED
      BY <2>1, <3>1, IdleBands
  <2>4. QED
    BY <2>1, <2>2, <2>3
<1>4. QED
  BY <1>1, <1>2, <1>3, StepBands, ChannelCallBands, ExtCallBands, WidthCallBands,
     FactoryResetBands, OperatingCallBands DEF Next

LEMMA StutterBands == ASSUME Bands, UNCHANGED vars PROVE Bands'
<1>1. UNCHANGED <<file, prev, todo, unsure>>
  BY DEF vars, fileVars, history
<1>2. ASSUME NEW what, NEW of
      PROVE  Net(todo, what, of)' = Net(todo, what, of)
  BY <1>1, NetLater
<1>3. QED
  BY <1>1, <1>2 DEF Bands, Fits, FitsAll

LEMMA InitBands == ASSUME OwnBand, Init PROVE Bands
<1>1. ASSUME NEW r \in Radio
      PROVE  Fits(file[r].channel, r) /\ prev[r] = NoFile /\ FitsAll(todo, r)
  <2>1. file[r].channel = Default[r].channel /\ prev[r] = NoFile /\ todo = <<>>
    BY DEF Init
  <2>2. Fits(file[r].channel, r)
    BY <2>1 DEF OwnBand, Fits
  <2>3. FitsAll(todo, r)
    BY <2>1, NetNone DEF FitsAll
  <2>4. QED
    BY <2>1, <2>2, <2>3
<1>2. NoFile # Empty
  BY DEF NoFile, Empty
<1>3. QED
  BY <1>1, <1>2 DEF Bands

\* The channel of a radio never becomes one of the other's band, although the flag that
\* lets a channel be remembered belongs to both.
THEOREM ChannelOfOwnBand == ASSUME OwnBand PROVE Spec => []OwnChannel
<1>1. Init => IInv /\ Bands
  BY InitIInv, InitBands
<1>2. IInv /\ Bands /\ [Next]_vars => (IInv /\ Bands)'
  BY NextIInv, StutterIInv, NextBands, StutterBands
<1>3. Bands => OwnChannel
  BY DEF Bands, Fits, OwnChannel, FrequencyBand, BandOf
<1>4. QED
  BY <1>1, <1>2, <1>3, PTL DEF Spec

-----------------------------------------------------------------------------
(***************************************************************************)
(* Rates.                                                                  *)
(***************************************************************************)

RateList == Seq(Nat) \ {<<>>}

\* What a getter shows is a rate that it shows as it is.
LEMMA ShownOnce ==
    ASSUME NEW x \in Nat
    PROVE  Shown(x) \in Nat /\ Shown(Shown(x)) = Shown(x)
<1>1. PICK d : d = x \div 10
  OBVIOUS
<1>2. d \in Nat
  BY <1>1
<1>3. Shown(x) = IF d = 5 THEN 55 ELSE d * 10
  BY <1>1 DEF Shown
<1>4. CASE d = 5
  <2>1. Shown(x) = 55 /\ 55 \div 10 = 5
    BY <1>3, <1>4
  <2>2. QED
    BY <2>1 DEF Shown
<1>5. CASE d # 5
  <2>1. Shown(x) = d * 10 /\ (d * 10) \div 10 = d
    BY <1>2, <1>3, <1>5
  <2>2. QED
    BY <1>2, <1>5, <2>1 DEF Shown
<1>6. QED
  BY <1>4, <1>5

LEMMA ShownTwice ==
    ASSUME NEW list \in RateList
    PROVE  ShownList(list) \in RateList /\ ShownList(ShownList(list)) = ShownList(list)
<1>1. /\ Len(list) \in Nat \ {0} /\ DOMAIN list = 1..Len(list)
      /\ \A i \in 1..Len(list) : list[i] \in Nat
  BY DEF RateList
<1>2. PICK shown : shown = ShownList(list)
  OBVIOUS
<1>3. shown = [i \in 1..Len(list) |-> Shown(list[i])]
  BY <1>1, <1>2 DEF ShownList
<1>4. /\ DOMAIN shown = 1..Len(list)
      /\ \A i \in 1..Len(list) : shown[i] \in Nat /\ Shown(shown[i]) = shown[i]
  BY <1>1, <1>3, ShownOnce
<1>5. shown \in Seq(Nat)
  BY <1>1, <1>3, <1>4
<1>6. shown # <<>>
  BY <1>1, <1>4
<1>7. ShownList(shown) = shown
  <2>1. ShownList(shown) = [i \in 1..Len(list) |-> Shown(shown[i])]
    BY <1>4 DEF ShownList
  <2>2. [i \in 1..Len(list) |-> Shown(shown[i])] = [i \in 1..Len(list) |-> shown[i]]
    BY <1>4
  <2>3. shown = [i \in 1..Len(list) |-> shown[i]]
    BY <1>3, <1>4
  <2>4. QED
    BY <2>1, <2>2, <2>3
<1>8. QED
  BY <1>2, <1>5, <1>6, <1>7 DEF RateList

\* The list in the unit of the file is one of the same length.
LEMMA ConvertedIs ==
    ASSUME NEW list \in RateList
    PROVE  /\ Converted(list) \in RateList /\ Len(Converted(list)) = Len(list)
           /\ \A i \in 1..Len(list) : Converted(list)[i] = list[i] * 10
<1>1. /\ Len(list) \in Nat \ {0} /\ DOMAIN list = 1..Len(list)
      /\ \A i \in 1..Len(list) : list[i] \in Nat
  BY DEF RateList
<1>2. PICK s : s = Converted(list)
  OBVIOUS
<1>3. s = [i \in 1..Len(list) |-> list[i] * 10]
  BY <1>1, <1>2 DEF Converted
<1>4. s \in Seq(Nat) /\ Len(s) = Len(list) /\ \A i \in 1..Len(list) : s[i] = list[i] * 10
  BY <1>1, <1>3
<1>5. s # <<>>
  BY <1>1, <1>4
<1>6. QED
  BY <1>2, <1>4, <1>5 DEF RateList

LEMMA FirstOfOne == 1 \in 1..1
OBVIOUS

LEMMA TenTimes == ASSUME NEW x \in Nat PROVE (x * 10) \div 10 = x
OBVIOUS

\* A rate that can be shown is not ten times one of the hardware.
LEMMA ShownIsTens ==
    ASSUME NEW x \in Nat, Shown(x) = x
    PROVE  x \notin {1, 2, 5, 6, 9, 11, 12, 18, 24, 36, 48, 54}
<1>1. \E d \in Nat : x = 55 \/ x = d * 10
  <2>1. ASSUME NEW y \in Nat
        PROVE  \E d \in Nat : Shown(y) = 55 \/ Shown(y) = d * 10
    <3>1. PICK d : d = y \div 10
      OBVIOUS
    <3>2. d \in Nat
      BY <3>1
    <3>3. Shown(y) = IF d = 5 THEN 55 ELSE d * 10
      BY <3>1 DEF Shown
    <3>4. QED
      BY <3>2, <3>3
  <2>2. QED
    BY <2>1
<1>2. QED
  BY <1>1

LEMMA WholeRates ==
    ASSUME NEW r \in Radio
    PROVE  {rate \div 10 : rate \in SupportedRates(r)}
              \subseteq {1, 2, 5, 6, 9, 11, 12, 18, 24, 36, 48, 54}
<1>1. SupportedRates(r) \subseteq {10, 20, 55, 60, 90, 110, 120, 180, 240, 360, 480, 540}
  BY RatesAssumption DEF SupportedRates
<1>2. ASSUME NEW rate \in {10, 20, 55, 60, 90, 110, 120, 180, 240, 360, 480, 540}
      PROVE  rate \div 10 \in {1, 2, 5, 6, 9, 11, 12, 18, 24, 36, 48, 54}
  <2>1. /\ 10 \div 10 = 1 /\ 20 \div 10 = 2 /\ 55 \div 10 = 5 /\ 60 \div 10 = 6
        /\ 90 \div 10 = 9 /\ 110 \div 10 = 11
    OBVIOUS
  <2>2. /\ 120 \div 10 = 12 /\ 180 \div 10 = 18 /\ 240 \div 10 = 24
        /\ 360 \div 10 = 36 /\ 480 \div 10 = 48 /\ 540 \div 10 = 54
    OBVIOUS
  <2>3. QED
    BY <1>2, <2>1, <2>2
<1>3. QED
  BY <1>1, <1>2

\* A buffer that a setter of basic rates has left is refused: ten times a rate that can be
\* shown is no rate of the hardware.
LEMMA RepeatRefused ==
    ASSUME NEW r \in Radio, NEW text, text.by = " ", NEW x \in Nat, Shown(x) = x,
           text.rates[1] = x * 10
    PROVE  ~BasicAccepted(r, text)
<1>1. SUFFICES ASSUME BasicAccepted(r, text)
               PROVE  FALSE
  OBVIOUS
<1>2. \A i \in 1..1 : text.rates[i] \div 10 \in {rate \div 10 : rate \in SupportedRates(r)}
  BY <1>1 DEF BasicAccepted
<1>3. (x * 10) \div 10 \in {rate \div 10 : rate \in SupportedRates(r)}
  <2>1. 1 \in 1..1
    BY FirstOfOne, Zenon
  <2>2. text.rates[1] \div 10 \in {rate \div 10 : rate \in SupportedRates(r)}
    BY <1>2, <2>1, Zenon
  <2>3. QED
    BY <2>2, Zenon
<1>4. x \in {rate \div 10 : rate \in SupportedRates(r)}
  BY <1>3, TenTimes
<1>5. QED
  BY <1>4, ShownIsTens, WholeRates

\* Lists of commands that leave the rates alone.
RadioDo == {"bw", "file", "truncate", "prev", "told", "restart", "return"}

Listed(s)    == \E S : s \in Seq(S)
Behind(s, n) == \A i \in DOMAIN s : i > n => s[i].do \in RadioDo
Other(s)     == \E S : s \in Seq(S) /\ \A c \in S : c.do \in RadioDo

LEMMA OtherOne == ASSUME NEW c, c.do \in RadioDo PROVE Other(<<c>>)
<1>1. PICK S : S = {c}
  OBVIOUS
<1>2. <<c>> \in Seq(S) /\ \A x \in S : x.do \in RadioDo
  BY <1>1
<1>3. QED
  BY <1>2, Zenon DEF Other

LEMMA OtherNone == Other(<<>>)
<1>1. PICK S : S = {}
  OBVIOUS
<1>2. <<>> \in Seq(S) /\ \A x \in S : x.do \in RadioDo
  BY <1>1
<1>3. QED
  BY <1>2, Zenon DEF Other

LEMMA OtherBoth ==
    ASSUME NEW s, NEW t, Other(s), Other(t)
    PROVE  Other(s \o t)
<1>1. PICK S : s \in Seq(S) /\ \A c \in S : c.do \in RadioDo
  BY DEF Other
<1>2. PICK T : t \in Seq(T) /\ \A c \in T : c.do \in RadioDo
  BY DEF Other
<1>3. PICK U : U = S \cup T
  OBVIOUS
<1>4. s \in Seq(U) /\ t \in Seq(U)
  <2>1. \A P, Q : P \subseteq Q => Seq(P) \subseteq Seq(Q)
    OBVIOUS
  <2>2. S \subseteq U /\ T \subseteq U
    BY <1>3
  <2>3. QED
    BY <1>1, <1>2, <2>1, <2>2
<1>5. s \o t \in Seq(U)
  BY <1>4
<1>6. QED
  BY <1>1, <1>2, <1>3, <1>5 DEF Other

LEMMA OtherWhen ==
    ASSUME NEW condition, NEW s, Other(s)
    PROVE  Other(When(condition, s))
BY OtherNone DEF When

LEMMA OtherIs == ASSUME NEW s, Other(s) PROVE Listed(s) /\ Behind(s, 0)
<1>1. PICK S : s \in Seq(S) /\ \A c \in S : c.do \in RadioDo
  BY DEF Other
<1>2. \A i \in DOMAIN s : s[i] \in S
  BY <1>1
<1>3. QED
  BY <1>1, <1>2 DEF Listed, Behind

\* What is left of a list after its first command.
LEMMA TailIs ==
    ASSUME NEW s, Listed(s), s # <<>>
    PROVE  /\ Len(s) \in Nat \ {0} /\ DOMAIN s = 1..Len(s) /\ Head(s) = s[1]
           /\ Listed(Tail(s)) /\ Len(Tail(s)) = Len(s) - 1 /\ DOMAIN Tail(s) = 1..(Len(s) - 1)
           /\ \A i \in 1..(Len(s) - 1) : Tail(s)[i] = s[i + 1]
<1>1. PICK S : s \in Seq(S)
  BY DEF Listed
<1>2. /\ Len(s) \in Nat \ {0} /\ DOMAIN s = 1..Len(s) /\ Head(s) = s[1]
      /\ Tail(s) \in Seq(S) /\ Len(Tail(s)) = Len(s) - 1
      /\ \A i \in 1..(Len(s) - 1) : Tail(s)[i] = s[i + 1]
  BY <1>1
<1>3. DOMAIN Tail(s) = 1..(Len(s) - 1)
  BY <1>2
<1>4. QED
  BY <1>2, <1>3 DEF Listed

LEMMA BehindTail ==
    ASSUME NEW s, Listed(s), s # <<>>
    PROVE  /\ \A n \in Nat : Behind(s, n + 1) => Behind(Tail(s), n)
           /\ Behind(s, 0) => Behind(Tail(s), 0) /\ Head(s).do \in RadioDo
<1>1. /\ Len(s) \in Nat \ {0} /\ DOMAIN s = 1..Len(s) /\ Head(s) = s[1]
      /\ DOMAIN Tail(s) = 1..(Len(s) - 1)
      /\ \A i \in 1..(Len(s) - 1) : Tail(s)[i] = s[i + 1]
  BY TailIs
<1>2. ASSUME NEW n \in Nat, Behind(s, n + 1)
      PROVE  Behind(Tail(s), n)
  <2>1. ASSUME NEW i \in 1..(Len(s) - 1), i > n
        PROVE  Tail(s)[i].do \in RadioDo
    <3>1. i + 1 \in DOMAIN s /\ i + 1 > n + 1
      BY <1>1, <2>1
    <3>2. s[i + 1].do \in RadioDo
      BY <1>2, <3>1 DEF Behind
    <3>3. QED
      BY <1>1, <3>2
  <2>2. QED
    BY <1>1, <2>1 DEF Behind
<1>3. ASSUME Behind(s, 0)
      PROVE  Behind(Tail(s), 0) /\ Head(s).do \in RadioDo
  <2>1. \A i \in DOMAIN s : s[i].do \in RadioDo
    BY <1>1, <1>3 DEF Behind
  <2>2. ASSUME NEW i \in 1..(Len(s) - 1)
        PROVE  Tail(s)[i].do \in RadioDo
    <3>1. i + 1 \in DOMAIN s
      BY <1>1
    <3>2. QED
      BY <1>1, <2>1, <3>1
  <2>3. 1 \in DOMAIN s
    BY <1>1
  <2>4. QED
    BY <1>1, <2>1, <2>2, <2>3 DEF Behind
<1>4. QED
  BY <1>2, <1>3

-----------------------------------------------------------------------------
\* Each list of RadioConfig is one of those.
LEMMA CommandsOther ==
    /\ \A r, w : Other(<<WriteBandWidth(r, w)>>)
    /\ \A r, name, v : Other(<<HostapdWrite(r, name, v)>>)
    /\ \A r : Other(<<Truncate(r)>>) /\ Other(<<StorePrev(r)>>) /\ Other(<<Restart(r)>>)
    /\ \A ap, name, v : Other(<<Told(ap, name, v)>>)
    /\ \A s, o : Other(<<Return(s, o)>>)
<1>1. ASSUME NEW r, NEW w
      PROVE  Other(<<WriteBandWidth(r, w)>>)
  BY OtherOne DEF WriteBandWidth, RadioDo
<1>2. ASSUME NEW r, NEW name, NEW v
      PROVE  Other(<<HostapdWrite(r, name, v)>>)
  BY OtherOne DEF HostapdWrite, RadioDo
<1>3. ASSUME NEW r
      PROVE  Other(<<Truncate(r)>>) /\ Other(<<StorePrev(r)>>) /\ Other(<<Restart(r)>>)
  BY OtherOne DEF Truncate, StorePrev, Restart, RadioDo
<1>4. ASSUME NEW ap, NEW name, NEW v
      PROVE  Other(<<Told(ap, name, v)>>)
  BY OtherOne DEF Told, RadioDo
<1>5. ASSUME NEW s, NEW o
      PROVE  Other(<<Return(s, o)>>)
  BY OtherOne DEF Return, RadioDo
<1>6. QED
  BY <1>1, <1>2, <1>3, <1>4, <1>5

LEMMA OtherTwo ==
    ASSUME NEW a, NEW b, Other(<<a>>), Other(<<b>>)
    PROVE  Other(<<a, b>>)
<1>1. Other(<<a>> \o <<b>>)
  BY OtherBoth
<1>2. QED
  BY <1>1, TwoCommands, Zenon

LEMMA OtherThree ==
    ASSUME NEW a, NEW b, NEW c, Other(<<a>>), Other(<<b>>), Other(<<c>>)
    PROVE  Other(<<a, b, c>>)
<1>1. Other((<<a>> \o <<b>>) \o <<c>>)
  <2>1. Other(<<a>> \o <<b>>)
    BY OtherBoth
  <2>2. QED
    BY <2>1, OtherBoth
<1>2. <<a, b, c>> = (<<a>> \o <<b>>) \o <<c>>
  BY ThreeCommands
<1>3. QED
  BY <1>1, <1>2, Zenon

LEMMA ChannelOther ==
    ASSUME NEW r, NEW channel, NEW hotspot, NEW width
    PROVE  Other(ChannelCommands(r, channel, hotspot, width))
<1>1. Other(SetExt(r, channel, width))
  <2>1. Other(When(width = "40MHz" /\ channel \notin 5 .. 7, <<HostapdWrite(0, "ht", "HT40")>>))
    BY CommandsOther, OtherWhen, Zenon
  <2>2. Other(When(ExtOf(channel) # {},
                   <<HostapdWrite(1, "ht", CHOOSE ht \in ExtOf(channel) : TRUE)>>))
    BY CommandsOther, OtherWhen, Zenon
  <2>3. QED
    BY <2>1, <2>2, Zenon DEF SetExt
<1>2. Other(ApplyChannel(r, channel, hotspot))
  <2>1. Other(<<Told(r, "channel", channel), Told(r + 4, "channel", channel), Restart(r)>>)
    BY CommandsOther, OtherThree, Zenon
  <2>2. Other(When(hotspot, <<Restart(r + 4)>>))
    BY CommandsOther, OtherWhen, Zenon
  <2>3. QED
    BY <2>1, <2>2, OtherBoth, Zenon DEF ApplyChannel
<1>3. Other(<<HostapdWrite(r, "channel", channel)>>)
  BY CommandsOther, Zenon
<1>4. PICK a, b, c, d :
        /\ a = SetExt(r, channel, width) /\ b = <<HostapdWrite(r, "channel", channel)>>
        /\ c = ApplyChannel(r, channel, hotspot)
        /\ d = <<Return({<<"channel", r>>, <<"public", r>>}
                        \cup (IF ExtOf(channel) # {} THEN {<<"ext", r>>} ELSE {}),
                        IF ExtOf(channel) # {} THEN {} ELSE {<<"ext", r>>})>>
  OBVIOUS
<1>5. Other(a) /\ Other(b) /\ Other(c) /\ Other(d)
  BY <1>1, <1>2, <1>3, <1>4, CommandsOther, Zenon
<1>6. Other(((a \o b) \o c) \o d)
  <2>1. Other(a \o b)
    BY <1>5, OtherBoth
  <2>2. Other((a \o b) \o c)
    BY <1>5, <2>1, OtherBoth
  <2>3. QED
    BY <1>5, <2>2, OtherBoth
<1>7. ChannelCommands(r, channel, hotspot, width) = ((a \o b) \o c) \o d
  BY <1>4, Zenon DEF ChannelCommands
<1>8. QED
  BY <1>6, <1>7

LEMMA WidthOther ==
    ASSUME NEW r, NEW w
    PROVE  Other(WidthCommands(r, w))
<1>1. ASSUME NEW narrow, NEW n, NEW sure, NEW not
      PROVE  Other((<<WriteBandWidth(r, w), HostapdWrite(r, "width", Code(w))>>
                    \o When(narrow, <<HostapdWrite(r, "n", n)>>))
                   \o <<Told(r, "width", IF narrow THEN n ELSE Code(w)), Restart(r),
                        Return(sure, not)>>)
  <2>1. Other(<<WriteBandWidth(r, w), HostapdWrite(r, "width", Code(w))>>)
    BY CommandsOther, OtherTwo, Zenon
  <2>2. Other(When(narrow, <<HostapdWrite(r, "n", n)>>))
    BY CommandsOther, OtherWhen, Zenon
  <2>3. Other(<<Told(r, "width", IF narrow THEN n ELSE Code(w)), Restart(r), Return(sure, not)>>)
    BY CommandsOther, OtherThree, Zenon
  <2>4. PICK a, b, c :
          /\ a = <<WriteBandWidth(r, w), HostapdWrite(r, "width", Code(w))>>
          /\ b = When(narrow, <<HostapdWrite(r, "n", n)>>)
          /\ c = <<Told(r, "width", IF narrow THEN n ELSE Code(w)), Restart(r), Return(sure, not)>>
    OBVIOUS
  <2>5. Other(a) /\ Other(b) /\ Other(c)
    BY <2>1, <2>2, <2>3, <2>4, Zenon
  <2>6. Other(a \o b)
    BY <2>5, OtherBoth
  <2>7. Other((a \o b) \o c)
    BY <2>5, <2>6, OtherBoth
  <2>8. QED
    BY <2>4, <2>7, Zenon
<1>2. QED
  BY <1>1, Zenon DEF WidthCommands

LEMMA RememberOther ==
    ASSUME NEW condition, NEW r
    PROVE  Other(When(condition, <<Truncate(r), StorePrev(r)>>))
BY CommandsOther, OtherTwo, OtherWhen, Zenon

\* Each call of RadioConfig but a factory reset.
LEMMA OtherCallDoes ==
    ASSUME NEW r \in Radio, OtherCall(r)
    PROVE  todo = <<>> /\ Other(todo') /\ UNCHANGED rateVars
<1>1. ASSUME NEW channel, NEW hotspot, SetChannel(r, channel, hotspot)
      PROVE  todo = <<>> /\ Other(todo')
  <2>1. PICK a, b : /\ a = When(unset, <<Truncate(r), StorePrev(r)>>)
                    /\ b = ChannelCommands(r, channel, hotspot, GetWidth(r))
    OBVIOUS
  <2>2. Other(a) /\ Other(b)
    BY <2>1, RememberOther, ChannelOther
  <2>3. Other(a \o b)
    BY <2>2, OtherBoth
  <2>4. todo = <<>> /\ todo' = a \o b
    BY <1>1, <2>1, Zenon DEF SetChannel, Call
  <2>5. QED
    BY <2>3, <2>4, Zenon
<1>2. ASSUME NEW hotspot, SetAutoChannel(r, hotspot)
      PROVE  todo = <<>> /\ Other(todo')
  BY <1>2, ChannelOther, Zenon DEF SetAutoChannel, Call
<1>3. ASSUME ExtCall(r)
      PROVE  todo = <<>> /\ Other(todo')
  <2>1. PICK ht : SetExtChannel(r, ht)
    BY <1>3, Zenon DEF ExtCall
  <2>2. PICK v : /\ todo = <<>>
                 /\ todo' = <<HostapdWrite(r, "ht", v), Return({}, {<<"ext", r>>})>>
    BY <2>1, Zenon DEF SetExtChannel, Call
  <2>3. QED
    BY <2>2, CommandsOther, OtherTwo, Zenon
<1>4. ASSUME WidthCall(r)
      PROVE  todo = <<>> /\ Other(todo')
  <2>1. ASSUME NEW w, SetWidth(r, w)
        PROVE  todo = <<>> /\ Other(todo')
    BY <2>1, WidthOther, Zenon DEF SetWidth, Call
  <2>2. ASSUME NEW m, SetChannelMode(r, m)
        PROVE  todo = <<>> /\ Other(todo')
    <3>1. PICK w, a, b : /\ w = ModeWidth[m] /\ a = When(Code(w) = 0, <<WriteBandWidth(r, w)>>)
                         /\ b = WidthCommands(r, w)
      OBVIOUS
    <3>2. Other(a) /\ Other(b)
      BY <3>1, CommandsOther, OtherWhen, WidthOther, Zenon
    <3>3. Other(a \o b)
      BY <3>2, OtherBoth
    <3>4. todo = <<>> /\ todo' = a \o b
      BY <2>2, <3>1, Zenon DEF SetChannelMode, Call
    <3>5. QED
      BY <3>3, <3>4, Zenon
  <2>3. QED
    BY <1>4, <2>1, <2>2, Zenon DEF WidthCall
<1>5. ASSUME NEW p, NEW hotspot, SetOperatingParameters(r, p, hotspot)
      PROVE  todo = <<>> /\ Other(todo')
  <2>1. PICK a, b, c, d :
          /\ a = When(p.automatic, ChannelCommands(r, Remembered(r), hotspot, GetWidth(r)))
          /\ b = WidthCommands(r, p.width)
          /\ c = When(unset /\ ~p.automatic, <<Truncate(r), StorePrev(r)>>)
          /\ d = ChannelCommands(r, p.channel, hotspot, p.width)
    OBVIOUS
  <2>2. Other(a) /\ Other(b) /\ Other(c) /\ Other(d)
    <3>1. Other(a)
      BY <2>1, ChannelOther, OtherWhen, Zenon
    <3>2. Other(b) /\ Other(c) /\ Other(d)
      BY <2>1, WidthOther, RememberOther, ChannelOther
    <3>3. QED
      BY <3>1, <3>2
  <2>3. Other(b \o c)
    BY <2>2, OtherBoth
  <2>4. Other((b \o c) \o d)
    BY <2>2, <2>3, OtherBoth
  <2>5. Other(When(p.width \in Width, (b \o c) \o d))
    BY <2>4, OtherWhen
  <2>6. Other(a \o When(p.width \in Width, (b \o c) \o d))
    BY <2>2, <2>5, OtherBoth
  <2>7. todo = <<>> /\ todo' = a \o When(p.width \in Width, (b \o c) \o d)
    BY <1>5, <2>1, Zenon DEF SetOperatingParameters, Call
  <2>8. QED
    BY <2>6, <2>7, Zenon
<1>6. QED
  BY <1>1, <1>2, <1>3, <1>4, <1>5, Zenon DEF OtherCall, ChannelCall, OperatingCall

\* A step of RadioConfig is one of its commands.
LEMMA StepDoes ==
    ASSUME Step
    PROVE  todo # <<>> /\ todo' = Tail(todo) /\ Head(todo).do \in RadioDo
BY DEF Step, RadioDo

-----------------------------------------------------------------------------
\* What RatesReported says of one list.
Agrees(r, kind) ==
    <<r, kind>> \notin open =>
        /\ Reported(r, kind) = wanted[r][kind]
        /\ kind = "supported" => /\ toldRates[r][kind] = rates[r][kind]
                                 /\ airRates[r][kind] = rates[r][kind]

AgreesBut(r, kind) == \A q \in Radio, k \in Kind : <<q, k>> # <<r, kind>> => Agrees(q, k)

\* What is left of a call that sets basic rates, at each of its commands.
WritesBasic(s, r, list) ==
    /\ Len(s) >= 2 /\ Behind(s, 2) /\ AgreesBut(r, "basic")
    /\ s[1] = WriteRates(r, "basic", list) /\ s[2] = ReturnRates(r, "basic", TRUE)
    /\ ShownList(list) = wanted[r]["basic"]

ReturnsBasic(s, r) ==
    /\ Len(s) >= 1 /\ Behind(s, 1) /\ AgreesBut(r, "basic")
    /\ s[1] = ReturnRates(r, "basic", TRUE)
    /\ Reported(r, "basic") = wanted[r]["basic"]

\* Of a reset, of which nothing is said about the operational rates.
ResetsBoth(s, n, r, list, other) ==
    /\ Len(s) >= n + 3 /\ Behind(s, n + 3)
    /\ <<r, "supported">> \in open /\ AgreesBut(r, "basic")
    /\ n = 1 => s[1].do \in RadioDo
    /\ s[n + 1] = WriteRates(r, "basic", list) /\ s[n + 2] = WriteRates(r, "supported", other)
    /\ s[n + 3] = ReturnRates(r, "basic", TRUE)
    /\ ShownList(list) = wanted[r]["basic"]

ResetsSupported(s, r, other) ==
    /\ Len(s) >= 2 /\ Behind(s, 2)
    /\ <<r, "supported">> \in open /\ AgreesBut(r, "basic")
    /\ s[1] = WriteRates(r, "supported", other) /\ s[2] = ReturnRates(r, "basic", TRUE)
    /\ Reported(r, "basic") = wanted[r]["basic"]

\* Of a call that sets operational rates; a repeated one leaves them open.
WritesSupported(s, r, list, sure) ==
    /\ Len(s) >= 4 /\ Behind(s, 4) /\ AgreesBut(r, "supported")
    /\ s[1] = WriteRates(r, "supported", list) /\ s[2] = TellRates(r, list)
    /\ s[3] = Restart(r) /\ s[4] = ReturnRates(r, "supported", sure)
    /\ sure => ShownList(list) = wanted[r]["supported"]

TellsSupported(s, r, list, sure) ==
    /\ Len(s) >= 3 /\ Behind(s, 3) /\ AgreesBut(r, "supported")
    /\ s[1] = TellRates(r, list) /\ s[2] = Restart(r)
    /\ s[3] = ReturnRates(r, "supported", sure)
    /\ rates[r]["supported"] = list
    /\ sure => Reported(r, "supported") = wanted[r]["supported"]

RestartsWith(s, r, sure) ==
    /\ Len(s) >= 2 /\ Behind(s, 2) /\ AgreesBut(r, "supported")
    /\ s[1] = Restart(r) /\ s[2] = ReturnRates(r, "supported", sure)
    /\ toldRates[r]["supported"] = rates[r]["supported"]
    /\ sure => Reported(r, "supported") = wanted[r]["supported"]

ReturnsSupported(s, r, sure) ==
    /\ Len(s) >= 1 /\ Behind(s, 1) /\ AgreesBut(r, "supported")
    /\ s[1] = ReturnRates(r, "supported", sure)
    /\ sure => /\ Reported(r, "supported") = wanted[r]["supported"]
               /\ toldRates[r]["supported"] = rates[r]["supported"]
               /\ airRates[r]["supported"] = rates[r]["supported"]

\* What is left writes no rates.
LeavesRates(s) == Behind(s, 0) /\ \A r \in Radio, kind \in Kind : Agrees(r, kind)

Left(s) ==
    \/ LeavesRates(s)
    \/ \E r \in Radio, list \in RateList : WritesBasic(s, r, list)
    \/ \E r \in Radio : ReturnsBasic(s, r)
    \/ \E n \in {0, 1}, r \in Radio, list \in RateList, other \in RateList :
          ResetsBoth(s, n, r, list, other)
    \/ \E r \in Radio, other \in RateList : ResetsSupported(s, r, other)
    \/ \E r \in Radio, list \in RateList, sure \in BOOLEAN : WritesSupported(s, r, list, sure)
    \/ \E r \in Radio, list \in RateList, sure \in BOOLEAN : TellsSupported(s, r, list, sure)
    \/ \E r \in Radio, sure \in BOOLEAN : RestartsWith(s, r, sure)
    \/ \E r \in Radio, sure \in BOOLEAN : ReturnsSupported(s, r, sure)

\* The lists have a rate at least, and what a setter of basic rates has left in a buffer
\* is ten times what it was given.
Buffered(text) == text.by = " " /\ text.rates \in RateList

RatesTyped ==
    /\ rates \in [Radio -> [Kind -> RateList]] /\ toldRates \in [Radio -> [Kind -> RateList]]
    /\ airRates \in [Radio -> [Kind -> RateList]] /\ wanted \in [Radio -> [Kind -> RateList]]
    /\ DOMAIN buffer = Kind /\ \A kind \in Kind : \A text \in buffer[kind] : Buffered(text)

TenfoldBasic ==
    \A text \in buffer["basic"] : \E x \in Nat : Shown(x) = x /\ text.rates[1] = x * 10

RatesInv == RatesTyped /\ TenfoldBasic /\ Listed(todo) /\ Left(todo)

\* Between calls all lists agree.
LEMMA NothingLeft ==
    ASSUME todo = <<>>, Left(todo)
    PROVE  \A r \in Radio, kind \in Kind : Agrees(r, kind)
<1>1. Len(todo) = 0
  OBVIOUS
<1>2. \A n \in Nat \ {0} : ~(Len(todo) >= n)
  BY <1>1
<1>3. \A n \in {0, 1} : n + 3 \in Nat \ {0}
  OBVIOUS
<1>4. LeavesRates(todo)
  BY <1>2, <1>3 DEF Left, WritesBasic, ReturnsBasic, ResetsBoth, ResetsSupported,
                    WritesSupported, TellsSupported, RestartsWith, ReturnsSupported
<1>5. QED
  BY <1>4 DEF LeavesRates

\* What each command does.
PutRate(f, r, kind, list) == [f EXCEPT ![r][kind] = list]

LEMMA RateCommand ==
    ASSUME RatesStep, Head(todo).do \notin RadioDo
    PROVE  LET c == Head(todo) IN
           /\ todo # <<>> /\ todo' = Tail(todo) /\ UNCHANGED <<airRates, buffer, wanted>>
           /\ c.do = "rates" => /\ rates' = PutRate(rates, c.r, c.kind, c.to)
                                /\ UNCHANGED <<toldRates, open>>
           /\ c.do = "tellRates" => /\ toldRates' = PutRate(toldRates, c.r, "supported", c.to)
                                    /\ UNCHANGED <<rates, open>>
           /\ c.do = "returnRates" =>
                 /\ open' = IF c.sure THEN open \ {<<c.r, c.kind>>} ELSE open \cup {<<c.r, c.kind>>}
                 /\ UNCHANGED <<rates, toldRates>>
<1>1. ~Step
  BY StepDoes
<1>2. QED
  BY <1>1 DEF RatesStep, PutRate

LEMMA StepWrites ==
    ASSUME RatesTyped, RatesStep, NEW r \in Radio, NEW kind \in Kind, NEW list \in RateList,
           Head(todo) = WriteRates(r, kind, list)
    PROVE  /\ todo # <<>> /\ todo' = Tail(todo)
           /\ rates' \in [Radio -> [Kind -> RateList]]
           /\ \A q \in Radio, k \in Kind :
                 rates'[q][k] = IF q = r /\ k = kind THEN list ELSE rates[q][k]
           /\ UNCHANGED <<toldRates, airRates, buffer, wanted, open>>
<1>1. PICK c : c = Head(todo)
  OBVIOUS
<1>2. c.do = "rates" /\ c.r = r /\ c.kind = kind /\ c.to = list
  BY <1>1 DEF WriteRates
<1>3. c.do \notin RadioDo
  BY <1>2 DEF RadioDo
<1>4. /\ todo # <<>> /\ todo' = Tail(todo) /\ UNCHANGED <<airRates, buffer, wanted>>
      /\ rates' = PutRate(rates, r, kind, list) /\ UNCHANGED <<toldRates, open>>
  BY <1>1, <1>2, <1>3, RateCommand, Zenon
<1>5. rates \in [Radio -> [Kind -> RateList]]
  BY DEF RatesTyped
<1>6. /\ rates' \in [Radio -> [Kind -> RateList]]
      /\ \A q \in Radio, k \in Kind :
            rates'[q][k] = IF q = r /\ k = kind THEN list ELSE rates[q][k]
  <2>1. PICK f, g, S : f = rates /\ g = rates' /\ S = RateList
    OBVIOUS
  <2>2. f \in [Radio -> [Kind -> S]] /\ list \in S /\ g = PutRate(f, r, kind, list)
    BY <1>4, <1>5, <2>1, Zenon
  <2>3. /\ g \in [Radio -> [Kind -> S]]
        /\ \A q \in Radio, k \in Kind : g[q][k] = IF q = r /\ k = kind THEN list ELSE f[q][k]
    BY <2>2 DEF PutRate
  <2>4. QED
    BY <2>1, <2>3, Zenon
<1>7. QED
  BY <1>4, <1>6

LEMMA StepTells ==
    ASSUME RatesTyped, RatesStep, NEW r \in Radio, NEW list \in RateList,
           Head(todo) = TellRates(r, list)
    PROVE  /\ todo # <<>> /\ todo' = Tail(todo)
           /\ toldRates' \in [Radio -> [Kind -> RateList]]
           /\ \A q \in Radio, k \in Kind :
                 toldRates'[q][k] = IF q = r /\ k = "supported" THEN list ELSE toldRates[q][k]
           /\ UNCHANGED <<rates, airRates, buffer, wanted, open>>
<1>1. PICK c : c = Head(todo)
  OBVIOUS
<1>2. c.do = "tellRates" /\ c.r = r /\ c.to = list
  BY <1>1 DEF TellRates
<1>3. c.do \notin RadioDo
  BY <1>2 DEF RadioDo
<1>4. /\ todo # <<>> /\ todo' = Tail(todo) /\ UNCHANGED <<airRates, buffer, wanted>>
      /\ toldRates' = PutRate(toldRates, r, "supported", list) /\ UNCHANGED <<rates, open>>
  BY <1>1, <1>2, <1>3, RateCommand, Zenon
<1>5. PICK kind : kind = "supported"
  OBVIOUS
<1>6. toldRates \in [Radio -> [Kind -> RateList]] /\ kind \in Kind
  BY <1>5 DEF RatesTyped, Kind
<1>7. toldRates' = PutRate(toldRates, r, kind, list)
  BY <1>4, <1>5
<1>8. /\ toldRates' \in [Radio -> [Kind -> RateList]]
      /\ \A q \in Radio, k \in Kind :
            toldRates'[q][k] = IF q = r /\ k = kind THEN list ELSE toldRates[q][k]
  <2>1. PICK f, g, S : f = toldRates /\ g = toldRates' /\ S = RateList
    OBVIOUS
  <2>2. f \in [Radio -> [Kind -> S]] /\ list \in S /\ g = PutRate(f, r, kind, list)
    BY <1>6, <1>7, <2>1, Zenon
  <2>3. /\ g \in [Radio -> [Kind -> S]]
        /\ \A q \in Radio, k \in Kind : g[q][k] = IF q = r /\ k = kind THEN list ELSE f[q][k]
    BY <1>6, <2>2 DEF PutRate
  <2>4. QED
    BY <2>1, <2>3, Zenon
<1>9. QED
  BY <1>4, <1>5, <1>8

LEMMA StepReturns ==
    ASSUME RatesTyped, RatesStep, NEW r \in Radio, NEW kind \in Kind, NEW sure \in BOOLEAN,
           Head(todo) = ReturnRates(r, kind, sure)
    PROVE  /\ todo # <<>> /\ todo' = Tail(todo)
           /\ open' = IF sure THEN open \ {<<r, kind>>} ELSE open \cup {<<r, kind>>}
           /\ UNCHANGED <<rates, toldRates, airRates, buffer, wanted>>
<1>1. PICK c : c = Head(todo)
  OBVIOUS
<1>2. c.do = "returnRates" /\ c.r = r /\ c.kind = kind /\ c.sure = sure
  <2>1. c.do = "returnRates" /\ c.r = r /\ c.kind = kind
    BY <1>1 DEF ReturnRates
  <2>2. c.sure = sure
    BY <1>1 DEF ReturnRates
  <2>3. QED
    BY <2>1, <2>2, Zenon
<1>3. c.do \notin RadioDo
  BY <1>2 DEF RadioDo
<1>4. /\ todo # <<>> /\ todo' = Tail(todo) /\ UNCHANGED <<airRates, buffer, wanted>>
      /\ open' = IF c.sure THEN open \ {<<c.r, c.kind>>} ELSE open \cup {<<c.r, c.kind>>}
      /\ UNCHANGED <<rates, toldRates>>
  BY <1>1, <1>2, <1>3, RateCommand, Zenon
<1>5. QED
  BY <1>2, <1>4, Zenon

LEMMA StepRadio ==
    ASSUME RatesTyped, RatesStep, Head(todo).do \in RadioDo
    PROVE  /\ todo # <<>> /\ todo' = Tail(todo)
           /\ UNCHANGED <<rates, toldRates, buffer, wanted, open>>
           /\ airRates' \in [Radio -> [Kind -> RateList]]
           /\ \A q \in Radio : airRates'[q] = airRates[q] \/ airRates'[q] = toldRates[q]
           /\ \A r \in Radio : Head(todo) = Restart(r) => airRates'[r] = toldRates[r]
<1>1. PICK c : c = Head(todo)
  OBVIOUS
<1>2. /\ todo # <<>> /\ todo' = Tail(todo) /\ UNCHANGED <<rates, toldRates, buffer, wanted, open>>
      /\ airRates' = IF c.do = "restart" /\ c.ap \in Radio
                     THEN [airRates EXCEPT ![c.ap] = toldRates[c.ap]] ELSE airRates
  <2>1. c.do \notin {"rates", "tellRates", "returnRates"}
    BY <1>1 DEF RadioDo
  <2>2. /\ Step
        /\ airRates' = IF c.do = "restart" /\ c.ap \in Radio
                       THEN [airRates EXCEPT ![c.ap] = toldRates[c.ap]] ELSE airRates
        /\ UNCHANGED <<rates, toldRates, buffer, wanted, open>>
    BY <1>1, <2>1 DEF RatesStep
  <2>3. QED
    BY <2>2, StepDoes
<1>3. airRates \in [Radio -> [Kind -> RateList]] /\ toldRates \in [Radio -> [Kind -> RateList]]
  BY DEF RatesTyped
<1>4. CASE c.do = "restart" /\ c.ap \in Radio
  <2>1. PICK ap : ap = c.ap
    OBVIOUS
  <2>2. ap \in Radio /\ airRates' = [airRates EXCEPT ![ap] = toldRates[ap]]
    BY <1>2, <1>4, <2>1, Zenon
  <2>3. /\ airRates' \in [Radio -> [Kind -> RateList]]
        /\ \A q \in Radio : airRates'[q] = IF q = ap THEN toldRates[q] ELSE airRates[q]
    BY <1>3, <2>2
  <2>4. \A r : c = Restart(r) => ap = r
    BY <2>1 DEF Restart
  <2>5. QED
    BY <1>1, <1>2, <2>3, <2>4
<1>5. CASE ~(c.do = "restart" /\ c.ap \in Radio)
  <2>1. airRates' = airRates
    BY <1>2, <1>5
  <2>2. \A r \in Radio : c # Restart(r)
    BY <1>5 DEF Restart
  <2>3. QED
    BY <1>1, <1>2, <1>3, <2>1, <2>2
<1>6. QED
  BY <1>4, <1>5

\* A list that nothing is written of agrees as before.
LEMMA AgreesStill ==
    ASSUME NEW q, NEW k, Agrees(q, k),
           rates'[q][k] = rates[q][k], toldRates'[q][k] = toldRates[q][k],
           airRates'[q][k] = airRates[q][k] \/ airRates'[q][k] = toldRates[q][k],
           wanted'[q][k] = wanted[q][k], <<q, k>> \in open => <<q, k>> \in open'
    PROVE  Agrees(q, k)'
<1>1. Reported(q, k)' = Reported(q, k)
  BY DEF Reported, ShownList
<1>2. QED
  BY <1>1 DEF Agrees


\* What is left after a command.
LEMMA RestIs ==
    ASSUME Listed(todo), todo # <<>>, todo' = Tail(todo)
    PROVE  /\ Head(todo) = todo[1] /\ Len(todo) \in Nat \ {0} /\ Len(todo') = Len(todo) - 1
           /\ Listed(todo')
           /\ Len(todo) >= 2 => Len(todo') >= 1 /\ todo'[1] = todo[2]
           /\ Len(todo) >= 3 => Len(todo') >= 2 /\ todo'[1] = todo[2] /\ todo'[2] = todo[3]
           /\ Len(todo) >= 4 => /\ Len(todo') >= 3 /\ todo'[1] = todo[2] /\ todo'[2] = todo[3]
                                /\ todo'[3] = todo[4]
           /\ Behind(todo, 0) => Behind(todo', 0) /\ Head(todo).do \in RadioDo
           /\ Behind(todo, 1) => Behind(todo', 0)
           /\ Behind(todo, 2) => Behind(todo', 1)
           /\ Behind(todo, 3) => Behind(todo', 2)
           /\ Behind(todo, 4) => Behind(todo', 3)
<1>1. \A n \in Nat : Behind(todo, n + 1) => Behind(todo', n)
  BY BehindTail
<1>2. /\ Behind(todo, 0 + 1) => Behind(todo', 0)
      /\ Behind(todo, 1 + 1) => Behind(todo', 1)
      /\ Behind(todo, 2 + 1) => Behind(todo', 2)
      /\ Behind(todo, 3 + 1) => Behind(todo', 3)
  BY <1>1
<1>3. 0 + 1 = 1 /\ 1 + 1 = 2 /\ 2 + 1 = 3 /\ 3 + 1 = 4
  OBVIOUS
<1>4. PICK n, m : n = Len(todo) /\ m = Len(todo')
  OBVIOUS
<1>5. /\ Head(todo) = todo[1] /\ n \in Nat \ {0} /\ m = n - 1 /\ Listed(todo')
      /\ \A i \in 1..(n - 1) : todo'[i] = todo[i + 1]
  BY <1>4, TailIs
<1>6. /\ n >= 2 => m >= 1 /\ 1 \in 1..(n - 1)
      /\ n >= 3 => m >= 2 /\ n >= 2 /\ 2 \in 1..(n - 1)
      /\ n >= 4 => m >= 3 /\ n >= 3 /\ 3 \in 1..(n - 1)
  <2>1. ASSUME NEW x \in Nat, NEW y, y = x - 1
        PROVE  /\ x >= 2 => y >= 1 /\ 1 \in 1..(x - 1)
               /\ x >= 3 => y >= 2 /\ x >= 2 /\ 2 \in 1..(x - 1)
               /\ x >= 4 => y >= 3 /\ x >= 3 /\ 3 \in 1..(x - 1)
    BY <2>1
  <2>2. n \in Nat /\ m = n - 1
    BY <1>5
  <2>3. QED
    BY <2>1, <2>2, Zenon
<1>7. /\ 1 \in 1..(n - 1) => todo'[1] = todo[2]
      /\ 2 \in 1..(n - 1) => todo'[2] = todo[3]
      /\ 3 \in 1..(n - 1) => todo'[3] = todo[4]
  <2>1. /\ 1 \in 1..(n - 1) => todo'[1] = todo[1 + 1]
        /\ 2 \in 1..(n - 1) => todo'[2] = todo[2 + 1]
        /\ 3 \in 1..(n - 1) => todo'[3] = todo[3 + 1]
    BY <1>5, Zenon
  <2>2. QED
    BY <1>3, <2>1, Zenon
<1>8. /\ n >= 2 => m >= 1 /\ todo'[1] = todo[2]
      /\ n >= 3 => m >= 2 /\ todo'[1] = todo[2] /\ todo'[2] = todo[3]
      /\ n >= 4 => m >= 3 /\ todo'[1] = todo[2] /\ todo'[2] = todo[3] /\ todo'[3] = todo[4]
  BY <1>6, <1>7, Zenon
<1>9. QED
  BY <1>2, <1>3, <1>4, <1>5, <1>8, BehindTail

\* Each place of a call leads to the next one.
LEMMA WritesBasicStep ==
    ASSUME RatesTyped, Listed(todo), todo # <<>>, RatesStep, NEW r \in Radio, NEW list \in RateList,
           WritesBasic(todo, r, list)
    PROVE  RatesTyped' /\ UNCHANGED buffer /\ ReturnsBasic(todo, r)'
<1>1. "basic" \in Kind /\ Head(todo) = WriteRates(r, "basic", list)
  BY RestIs, TailIs DEF WritesBasic, Kind
<1>2. /\ todo' = Tail(todo) /\ rates' \in [Radio -> [Kind -> RateList]]
      /\ \A q \in Radio, k \in Kind :
            rates'[q][k] = IF q = r /\ k = "basic" THEN list ELSE rates[q][k]
      /\ UNCHANGED <<toldRates, airRates, buffer, wanted, open>>
  BY <1>1, StepWrites
<1>3. RatesTyped'
  BY <1>2 DEF RatesTyped
<1>4. Reported(r, "basic")' = wanted'[r]["basic"]
  <2>1. rates'[r]["basic"] = list
    BY <1>1, <1>2
  <2>2. Reported(r, "basic")' = ShownList(list)
    BY <2>1 DEF Reported, ShownList
  <2>3. QED
    BY <1>2, <2>2 DEF WritesBasic
<1>5. AgreesBut(r, "basic")'
  <2>1. ASSUME NEW q \in Radio, NEW k \in Kind, <<q, k>> # <<r, "basic">>
        PROVE  Agrees(q, k)'
    <3>1. Agrees(q, k)
      BY <2>1 DEF WritesBasic, AgreesBut
    <3>2. ~(q = r /\ k = "basic")
      BY <2>1
    <3>3. rates'[q][k] = rates[q][k]
      BY <1>2, <3>2
    <3>4. QED
      BY <1>2, <3>1, <3>3, AgreesStill
  <2>2. QED
    BY <2>1 DEF AgreesBut
<1>6. Len(todo') >= 1 /\ Behind(todo', 1) /\ todo'[1] = ReturnRates(r, "basic", TRUE)
  BY <1>2, RestIs, Zenon DEF WritesBasic
<1>7. QED
  BY <1>2, <1>3, <1>4, <1>5, <1>6 DEF ReturnsBasic, Behind

LEMMA ReturnsBasicStep ==
    ASSUME RatesTyped, Listed(todo), todo # <<>>, RatesStep, NEW r \in Radio, ReturnsBasic(todo, r)
    PROVE  RatesTyped' /\ UNCHANGED buffer /\ LeavesRates(todo)'
<1>1. "basic" \in Kind /\ "basic" # "supported" /\ Head(todo) = ReturnRates(r, "basic", TRUE)
  BY RestIs, TailIs DEF ReturnsBasic, Kind
<1>2. /\ todo' = Tail(todo) /\ open' = open \ {<<r, "basic">>}
      /\ UNCHANGED <<rates, toldRates, airRates, buffer, wanted>>
  <2>1. TRUE \in BOOLEAN
    OBVIOUS
  <2>2. QED
    BY <1>1, <2>1, StepReturns, Zenon
<1>3. RatesTyped'
  BY <1>2 DEF RatesTyped
<1>4. ASSUME NEW q \in Radio, NEW k \in Kind
      PROVE  Agrees(q, k)'
  <2>1. CASE <<q, k>> = <<r, "basic">>
    <3>1. q = r /\ k = "basic"
      BY <2>1
    <3>2. Reported(q, k)' = Reported(r, "basic")
      BY <1>2, <3>1 DEF Reported, ShownList
    <3>3. QED
      BY <1>1, <1>2, <3>1, <3>2 DEF Agrees, ReturnsBasic
  <2>2. CASE <<q, k>> # <<r, "basic">>
    <3>1. Agrees(q, k) /\ (<<q, k>> \in open => <<q, k>> \in open')
      BY <1>2, <2>2 DEF ReturnsBasic, AgreesBut
    <3>2. QED
      BY <1>2, <3>1, AgreesStill
  <2>3. QED
    BY <2>1, <2>2
<1>5. Behind(todo', 0)
  BY <1>2, RestIs DEF ReturnsBasic
<1>6. QED
  BY <1>2, <1>3, <1>4, <1>5 DEF LeavesRates, Behind

LEMMA LeavesRatesStep ==
    ASSUME RatesTyped, Listed(todo), todo # <<>>, RatesStep, LeavesRates(todo)
    PROVE  RatesTyped' /\ UNCHANGED buffer /\ LeavesRates(todo)'
<1>1. Head(todo).do \in RadioDo
  BY BehindTail DEF LeavesRates
<1>2. /\ todo' = Tail(todo) /\ UNCHANGED <<rates, toldRates, buffer, wanted, open>>
      /\ airRates' \in [Radio -> [Kind -> RateList]]
      /\ \A q \in Radio : airRates'[q] = airRates[q] \/ airRates'[q] = toldRates[q]
  BY <1>1, StepRadio
<1>3. RatesTyped'
  BY <1>2 DEF RatesTyped
<1>4. ASSUME NEW q \in Radio, NEW k \in Kind
      PROVE  Agrees(q, k)'
  <2>1. Agrees(q, k)
    BY DEF LeavesRates
  <2>2. airRates'[q][k] = airRates[q][k] \/ airRates'[q][k] = toldRates[q][k]
    BY <1>2
  <2>3. QED
    BY <1>2, <2>1, <2>2, AgreesStill
<1>5. Behind(todo', 0)
  BY <1>2, RestIs DEF LeavesRates
<1>6. QED
  BY <1>2, <1>3, <1>4, <1>5 DEF LeavesRates, Behind

LEMMA ResetsBothStep ==
    ASSUME RatesTyped, Listed(todo), todo # <<>>, RatesStep, NEW r \in Radio,
           NEW list \in RateList, NEW other \in RateList, ResetsBoth(todo, 1, r, list, other)
    PROVE  RatesTyped' /\ UNCHANGED buffer /\ ResetsBoth(todo, 0, r, list, other)'
<1> 1 + 1 = 2 /\ 1 + 2 = 3 /\ 1 + 3 = 4 /\ 0 + 1 = 1 /\ 0 + 2 = 2 /\ 0 + 3 = 3 /\ 0 # 1
  OBVIOUS
<1>1. /\ Len(todo) >= 4 /\ Behind(todo, 4) /\ <<r, "supported">> \in open /\ AgreesBut(r, "basic")
      /\ todo[1].do \in RadioDo /\ todo[2] = WriteRates(r, "basic", list)
      /\ todo[3] = WriteRates(r, "supported", other) /\ todo[4] = ReturnRates(r, "basic", TRUE)
      /\ ShownList(list) = wanted[r]["basic"]
  BY DEF ResetsBoth
<1>2. Head(todo).do \in RadioDo
  BY <1>1, TailIs
<1>3. /\ todo' = Tail(todo) /\ UNCHANGED <<rates, toldRates, buffer, wanted, open>>
      /\ airRates' \in [Radio -> [Kind -> RateList]]
      /\ \A q \in Radio : airRates'[q] = airRates[q] \/ airRates'[q] = toldRates[q]
  BY <1>2, StepRadio
<1>4. RatesTyped'
  BY <1>3 DEF RatesTyped
<1>5. AgreesBut(r, "basic")'
  <2>1. ASSUME NEW q \in Radio, NEW k \in Kind, <<q, k>> # <<r, "basic">>
        PROVE  Agrees(q, k)'
    <3>1. Agrees(q, k)
      BY <1>1, <2>1 DEF AgreesBut
    <3>2. airRates'[q][k] = airRates[q][k] \/ airRates'[q][k] = toldRates[q][k]
      BY <1>3
    <3>3. QED
      BY <1>3, <3>1, <3>2, AgreesStill
  <2>2. QED
    BY <2>1 DEF AgreesBut
<1>6. /\ Len(todo') >= 3 /\ Behind(todo', 3) /\ todo'[1] = WriteRates(r, "basic", list)
      /\ todo'[2] = WriteRates(r, "supported", other) /\ todo'[3] = ReturnRates(r, "basic", TRUE)
  BY <1>1, <1>3, RestIs, Zenon
<1>7. ShownList(list) = wanted'[r]["basic"] /\ <<r, "supported">> \in open'
  BY <1>1, <1>3
<1>8. QED
  BY <1>3, <1>4, <1>5, <1>6, <1>7 DEF ResetsBoth, Behind, ShownList

LEMMA ResetsBasicStep ==
    ASSUME RatesTyped, Listed(todo), todo # <<>>, RatesStep, NEW r \in Radio,
           NEW list \in RateList, NEW other \in RateList, ResetsBoth(todo, 0, r, list, other)
    PROVE  RatesTyped' /\ UNCHANGED buffer /\ ResetsSupported(todo, r, other)'
<1> 0 + 1 = 1 /\ 0 + 2 = 2 /\ 0 + 3 = 3
  OBVIOUS
<1>1. /\ Len(todo) >= 3 /\ Behind(todo, 3) /\ <<r, "supported">> \in open /\ AgreesBut(r, "basic")
      /\ todo[1] = WriteRates(r, "basic", list)
      /\ todo[2] = WriteRates(r, "supported", other) /\ todo[3] = ReturnRates(r, "basic", TRUE)
      /\ ShownList(list) = wanted[r]["basic"]
  BY DEF ResetsBoth
<1>2. "basic" \in Kind /\ Head(todo) = WriteRates(r, "basic", list)
  BY <1>1, TailIs DEF Kind
<1>3. /\ todo' = Tail(todo) /\ rates' \in [Radio -> [Kind -> RateList]]
      /\ \A q \in Radio, k \in Kind :
            rates'[q][k] = IF q = r /\ k = "basic" THEN list ELSE rates[q][k]
      /\ UNCHANGED <<toldRates, airRates, buffer, wanted, open>>
  BY <1>2, StepWrites
<1>4. RatesTyped'
  BY <1>3 DEF RatesTyped
<1>5. Reported(r, "basic")' = wanted'[r]["basic"]
  <2>1. rates'[r]["basic"] = list
    BY <1>2, <1>3
  <2>2. Reported(r, "basic")' = ShownList(list)
    BY <2>1 DEF Reported, ShownList
  <2>3. QED
    BY <1>1, <1>3, <2>2
<1>6. AgreesBut(r, "basic")'
  <2>1. ASSUME NEW q \in Radio, NEW k \in Kind, <<q, k>> # <<r, "basic">>
        PROVE  Agrees(q, k)'
    <3>1. Agrees(q, k)
      BY <1>1, <2>1 DEF AgreesBut
    <3>2. ~(q = r /\ k = "basic")
      BY <2>1
    <3>3. rates'[q][k] = rates[q][k]
      BY <1>3, <3>2
    <3>4. QED
      BY <1>3, <3>1, <3>3, AgreesStill
  <2>2. QED
    BY <2>1 DEF AgreesBut
<1>7. /\ Len(todo') >= 2 /\ Behind(todo', 2) /\ todo'[1] = WriteRates(r, "supported", other)
      /\ todo'[2] = ReturnRates(r, "basic", TRUE)
  BY <1>1, <1>3, RestIs, Zenon
<1>8. QED
  BY <1>1, <1>3, <1>4, <1>5, <1>6, <1>7 DEF ResetsSupported, Behind

LEMMA ResetsSupportedStep ==
    ASSUME RatesTyped, Listed(todo), todo # <<>>, RatesStep, NEW r \in Radio,
           NEW other \in RateList, ResetsSupported(todo, r, other)
    PROVE  RatesTyped' /\ UNCHANGED buffer /\ ReturnsBasic(todo, r)'
<1>1. /\ Len(todo) >= 2 /\ Behind(todo, 2) /\ <<r, "supported">> \in open /\ AgreesBut(r, "basic")
      /\ todo[1] = WriteRates(r, "supported", other) /\ todo[2] = ReturnRates(r, "basic", TRUE)
      /\ Reported(r, "basic") = wanted[r]["basic"]
  BY DEF ResetsSupported
<1>2. "supported" \in Kind /\ "basic" \in Kind /\ "basic" # "supported"
      /\ Head(todo) = WriteRates(r, "supported", other)
  BY <1>1, TailIs DEF Kind
<1>3. /\ todo' = Tail(todo) /\ rates' \in [Radio -> [Kind -> RateList]]
      /\ \A q \in Radio, k \in Kind :
            rates'[q][k] = IF q = r /\ k = "supported" THEN other ELSE rates[q][k]
      /\ UNCHANGED <<toldRates, airRates, buffer, wanted, open>>
  BY <1>2, StepWrites
<1>4. RatesTyped'
  BY <1>3 DEF RatesTyped
<1>5. Reported(r, "basic")' = wanted'[r]["basic"]
  <2>1. rates'[r]["basic"] = rates[r]["basic"]
    BY <1>2, <1>3
  <2>2. Reported(r, "basic")' = Reported(r, "basic")
    BY <2>1 DEF Reported, ShownList
  <2>3. QED
    BY <1>1, <1>3, <2>2
<1>6. AgreesBut(r, "basic")'
  <2>1. ASSUME NEW q \in Radio, NEW k \in Kind, <<q, k>> # <<r, "basic">>
        PROVE  Agrees(q, k)'
    <3>1. CASE q = r /\ k = "supported"
      BY <1>1, <1>3, <3>1 DEF Agrees
    <3>2. CASE ~(q = r /\ k = "supported")
      <4>1. Agrees(q, k)
        BY <1>1, <2>1 DEF AgreesBut
      <4>2. rates'[q][k] = rates[q][k]
        BY <1>3, <3>2
      <4>3. QED
        BY <1>3, <4>1, <4>2, AgreesStill
    <3>3. QED
      BY <3>1, <3>2
  <2>2. QED
    BY <2>1 DEF AgreesBut
<1>7. /\ Len(todo') >= 1 /\ Behind(todo', 1) /\ todo'[1] = ReturnRates(r, "basic", TRUE)
  BY <1>1, <1>3, RestIs, Zenon
<1>8. QED
  BY <1>3, <1>4, <1>5, <1>6, <1>7 DEF ReturnsBasic, Behind


LEMMA WritesSupportedStep ==
    ASSUME RatesTyped, Listed(todo), todo # <<>>, RatesStep, NEW r \in Radio,
           NEW list \in RateList, NEW sure \in BOOLEAN, WritesSupported(todo, r, list, sure)
    PROVE  RatesTyped' /\ UNCHANGED buffer /\ TellsSupported(todo, r, list, sure)'
<1>1. /\ Len(todo) >= 4 /\ Behind(todo, 4) /\ AgreesBut(r, "supported")
      /\ todo[1] = WriteRates(r, "supported", list) /\ todo[2] = TellRates(r, list)
      /\ todo[3] = Restart(r) /\ todo[4] = ReturnRates(r, "supported", sure)
  BY Zenon DEF WritesSupported
<1>2. sure => ShownList(list) = wanted[r]["supported"]
  BY Zenon DEF WritesSupported
<1>3. "supported" \in Kind /\ Head(todo) = WriteRates(r, "supported", list)
  <2>1. Head(todo) = todo[1]
    BY TailIs
  <2>2. QED
    BY <1>1, <2>1 DEF Kind
<1>4. /\ todo' = Tail(todo) /\ rates' \in [Radio -> [Kind -> RateList]]
      /\ \A q \in Radio, k \in Kind :
            rates'[q][k] = IF q = r /\ k = "supported" THEN list ELSE rates[q][k]
      /\ UNCHANGED <<toldRates, airRates, buffer, wanted, open>>
  BY <1>3, StepWrites
<1>5. RatesTyped'
  BY <1>4 DEF RatesTyped
<1>6. rates'[r]["supported"] = list /\ Reported(r, "supported")' = ShownList(list)
  <2>1. rates'[r]["supported"] = list
    BY <1>3, <1>4
  <2>2. QED
    BY <2>1 DEF Reported, ShownList
<1>7. AgreesBut(r, "supported")'
  <2>1. ASSUME NEW q \in Radio, NEW k \in Kind, <<q, k>> # <<r, "supported">>
        PROVE  Agrees(q, k)'
    <3>1. Agrees(q, k)
      BY <1>1, <2>1 DEF AgreesBut
    <3>2. ~(q = r /\ k = "supported")
      BY <2>1
    <3>3. rates'[q][k] = rates[q][k]
      BY <1>4, <3>2
    <3>4. QED
      BY <1>4, <3>1, <3>3, AgreesStill
  <2>2. QED
    BY <2>1 DEF AgreesBut
<1>8. /\ Len(todo') >= 3 /\ Behind(todo', 3) /\ todo'[1] = TellRates(r, list)
      /\ todo'[2] = Restart(r) /\ todo'[3] = ReturnRates(r, "supported", sure)
  BY <1>1, <1>4, RestIs, Zenon
<1>9. sure => Reported(r, "supported")' = wanted'[r]["supported"]
  <2>1. wanted' = wanted
    BY <1>4
  <2>2. QED
    BY <1>2, <1>6, <2>1, Zenon
<1>10. UNCHANGED buffer
  BY <1>4
<1>11. TellsSupported(todo, r, list, sure)'
  BY <1>6, <1>7, <1>8, <1>9, Zenon DEF TellsSupported
<1>12. QED
  BY <1>5, <1>10, <1>11, Zenon

LEMMA TellsSupportedStep ==
    ASSUME RatesTyped, Listed(todo), todo # <<>>, RatesStep, NEW r \in Radio,
           NEW list \in RateList, NEW sure \in BOOLEAN, TellsSupported(todo, r, list, sure)
    PROVE  RatesTyped' /\ UNCHANGED buffer /\ RestartsWith(todo, r, sure)'
<1>1. /\ Len(todo) >= 3 /\ Behind(todo, 3) /\ AgreesBut(r, "supported")
      /\ todo[1] = TellRates(r, list) /\ todo[2] = Restart(r)
      /\ todo[3] = ReturnRates(r, "supported", sure) /\ rates[r]["supported"] = list
  BY Zenon DEF TellsSupported
<1>2. sure => Reported(r, "supported") = wanted[r]["supported"]
  BY Zenon DEF TellsSupported
<1>3. "supported" \in Kind /\ Head(todo) = TellRates(r, list)
  <2>1. Head(todo) = todo[1]
    BY TailIs
  <2>2. QED
    BY <1>1, <2>1 DEF Kind
<1>4. /\ todo' = Tail(todo) /\ toldRates' \in [Radio -> [Kind -> RateList]]
      /\ \A q \in Radio, k \in Kind :
            toldRates'[q][k] = IF q = r /\ k = "supported" THEN list ELSE toldRates[q][k]
      /\ UNCHANGED <<rates, airRates, buffer, wanted, open>>
  BY <1>3, StepTells
<1>5. RatesTyped'
  BY <1>4 DEF RatesTyped
<1>6. toldRates'[r]["supported"] = rates'[r]["supported"]
  BY <1>1, <1>3, <1>4
<1>7. AgreesBut(r, "supported")'
  <2>1. ASSUME NEW q \in Radio, NEW k \in Kind, <<q, k>> # <<r, "supported">>
        PROVE  Agrees(q, k)'
    <3>1. Agrees(q, k)
      BY <1>1, <2>1 DEF AgreesBut
    <3>2. ~(q = r /\ k = "supported")
      BY <2>1
    <3>3. toldRates'[q][k] = toldRates[q][k]
      BY <1>4, <3>2
    <3>4. QED
      BY <1>4, <3>1, <3>3, AgreesStill
  <2>2. QED
    BY <2>1 DEF AgreesBut
<1>8. /\ Len(todo') >= 2 /\ Behind(todo', 2) /\ todo'[1] = Restart(r)
      /\ todo'[2] = ReturnRates(r, "supported", sure)
  BY <1>1, <1>4, RestIs, Zenon
<1>9. sure => Reported(r, "supported")' = wanted'[r]["supported"]
  <2>1. wanted' = wanted /\ Reported(r, "supported")' = Reported(r, "supported")
    BY <1>4 DEF Reported, ShownList
  <2>2. QED
    BY <1>2, <2>1, Zenon
<1>10. UNCHANGED buffer
  BY <1>4
<1>11. RestartsWith(todo, r, sure)'
  BY <1>6, <1>7, <1>8, <1>9, Zenon DEF RestartsWith
<1>12. QED
  BY <1>5, <1>10, <1>11, Zenon

LEMMA RestartsWithStep ==
    ASSUME RatesTyped, Listed(todo), todo # <<>>, RatesStep, NEW r \in Radio,
           NEW sure \in BOOLEAN, RestartsWith(todo, r, sure)
    PROVE  RatesTyped' /\ UNCHANGED buffer /\ ReturnsSupported(todo, r, sure)'
<1>1. /\ Len(todo) >= 2 /\ Behind(todo, 2) /\ AgreesBut(r, "supported")
      /\ todo[1] = Restart(r) /\ todo[2] = ReturnRates(r, "supported", sure)
      /\ toldRates[r]["supported"] = rates[r]["supported"]
  BY Zenon DEF RestartsWith
<1>2. sure => Reported(r, "supported") = wanted[r]["supported"]
  BY Zenon DEF RestartsWith
<1>3. Head(todo) = Restart(r) /\ Head(todo).do \in RadioDo
  <2>1. Head(todo) = todo[1]
    BY TailIs
  <2>2. Restart(r).do \in RadioDo
    BY DEF Restart, RadioDo
  <2>3. QED
    BY <1>1, <2>1, <2>2, Zenon
<1>4. /\ todo' = Tail(todo) /\ UNCHANGED <<rates, toldRates, buffer, wanted, open>>
      /\ airRates' \in [Radio -> [Kind -> RateList]]
      /\ \A q \in Radio : airRates'[q] = airRates[q] \/ airRates'[q] = toldRates[q]
      /\ airRates'[r] = toldRates[r]
  BY <1>3, StepRadio
<1>5. RatesTyped'
  BY <1>4 DEF RatesTyped
<1>6. /\ toldRates'[r]["supported"] = rates'[r]["supported"]
      /\ airRates'[r]["supported"] = rates'[r]["supported"]
  BY <1>1, <1>4
<1>7. AgreesBut(r, "supported")'
  <2>1. ASSUME NEW q \in Radio, NEW k \in Kind, <<q, k>> # <<r, "supported">>
        PROVE  Agrees(q, k)'
    <3>1. Agrees(q, k)
      BY <1>1, <2>1 DEF AgreesBut
    <3>2. airRates'[q][k] = airRates[q][k] \/ airRates'[q][k] = toldRates[q][k]
      BY <1>4
    <3>3. QED
      BY <1>4, <3>1, <3>2, AgreesStill
  <2>2. QED
    BY <2>1 DEF AgreesBut
<1>8. Len(todo') >= 1 /\ Behind(todo', 1) /\ todo'[1] = ReturnRates(r, "supported", sure)
  BY <1>1, <1>4, RestIs, Zenon
<1>9. sure => Reported(r, "supported")' = wanted'[r]["supported"]
  <2>1. wanted' = wanted /\ Reported(r, "supported")' = Reported(r, "supported")
    BY <1>4 DEF Reported, ShownList
  <2>2. QED
    BY <1>2, <2>1, Zenon
<1>10. UNCHANGED buffer
  BY <1>4
<1>11. ReturnsSupported(todo, r, sure)'
  BY <1>6, <1>7, <1>8, <1>9, Zenon DEF ReturnsSupported
<1>12. QED
  BY <1>5, <1>10, <1>11, Zenon

LEMMA ReturnsSupportedStep ==
    ASSUME RatesTyped, Listed(todo), todo # <<>>, RatesStep, NEW r \in Radio,
           NEW sure \in BOOLEAN, ReturnsSupported(todo, r, sure)
    PROVE  RatesTyped' /\ UNCHANGED buffer /\ LeavesRates(todo)'
<1>1. /\ Len(todo) >= 1 /\ Behind(todo, 1) /\ AgreesBut(r, "supported")
      /\ todo[1] = ReturnRates(r, "supported", sure)
  BY Zenon DEF ReturnsSupported
<1>2. sure => /\ Reported(r, "supported") = wanted[r]["supported"]
              /\ toldRates[r]["supported"] = rates[r]["supported"]
              /\ airRates[r]["supported"] = rates[r]["supported"]
  BY Zenon DEF ReturnsSupported
<1>3. "supported" \in Kind /\ Head(todo) = ReturnRates(r, "supported", sure)
  <2>1. Head(todo) = todo[1]
    BY TailIs
  <2>2. "supported" \in Kind
    BY DEF Kind
  <2>3. QED
    BY <1>1, <2>1, <2>2, Zenon
<1>4. /\ todo' = Tail(todo)
      /\ open' = IF sure THEN open \ {<<r, "supported">>} ELSE open \cup {<<r, "supported">>}
      /\ UNCHANGED <<rates, toldRates, airRates, buffer, wanted>>
  BY <1>3, StepReturns, Zenon
<1>5. /\ \A an : an # <<r, "supported">> => (an \in open <=> an \in open')
      /\ sure \/ <<r, "supported">> \in open'
  <2>1. CASE sure
    <3>1. open' = open \ {<<r, "supported">>}
      BY <1>4, <2>1, Zenon
    <3>2. QED
      BY <2>1, <3>1
  <2>2. CASE ~sure
    <3>1. open' = open \cup {<<r, "supported">>}
      BY <1>4, <2>2, Zenon
    <3>2. QED
      BY <3>1
  <2>3. QED
    BY <2>1, <2>2
<1>6. RatesTyped'
  BY <1>4 DEF RatesTyped
<1>7. ASSUME NEW q \in Radio, NEW k \in Kind
      PROVE  Agrees(q, k)'
  <2>1. CASE <<q, k>> = <<r, "supported">>
    <3>1. q = r /\ k = "supported"
      BY <2>1
    <3>2. Reported(q, k)' = Reported(r, "supported")
      BY <1>4, <3>1 DEF Reported, ShownList
    <3>3. CASE sure
      <4>1. /\ Reported(r, "supported") = wanted[r]["supported"]
            /\ toldRates[r]["supported"] = rates[r]["supported"]
            /\ airRates[r]["supported"] = rates[r]["supported"]
        BY <1>2, <3>3, Zenon
      <4>2. QED
        BY <1>4, <3>1, <3>2, <4>1 DEF Agrees
    <3>4. CASE ~sure
      <4>1. <<q, k>> \in open'
        BY <1>5, <2>1, <3>4, Zenon
      <4>2. QED
        BY <4>1 DEF Agrees
    <3>5. QED
      BY <3>3, <3>4
  <2>2. CASE <<q, k>> # <<r, "supported">>
    <3>1. Agrees(q, k)
      BY <1>1, <2>2 DEF AgreesBut
    <3>2. <<q, k>> \in open => <<q, k>> \in open'
      BY <1>5, <2>2, Zenon
    <3>3. QED
      BY <1>4, <3>1, <3>2, AgreesStill
  <2>3. QED
    BY <2>1, <2>2
<1>8. Behind(todo', 0) /\ UNCHANGED buffer
  BY <1>1, <1>4, RestIs, Zenon
<1>9. QED
  BY <1>6, <1>7, <1>8 DEF LeavesRates, Behind

LEMMA RatesStepInvariant ==
    ASSUME RatesInv, RatesStep
    PROVE  RatesInv'
<1>1. todo # <<>> /\ todo' = Tail(todo)
  <2>1. Step => todo # <<>> /\ todo' = Tail(todo)
    BY StepDoes
  <2>2. QED
    BY <2>1 DEF RatesStep
<1>2. RatesTyped /\ Listed(todo) /\ TenfoldBasic /\ Left(todo)
  BY DEF RatesInv
<1>3. RatesTyped' /\ UNCHANGED buffer /\ Left(todo)'
  <2>1. CASE LeavesRates(todo)
    BY <1>1, <1>2, <2>1, LeavesRatesStep DEF Left
  <2>2. ASSUME NEW r \in Radio, NEW list \in RateList, WritesBasic(todo, r, list)
        PROVE  RatesTyped' /\ UNCHANGED buffer /\ Left(todo)'
    BY <1>1, <1>2, <2>2, WritesBasicStep DEF Left
  <2>3. ASSUME NEW r \in Radio, ReturnsBasic(todo, r)
        PROVE  RatesTyped' /\ UNCHANGED buffer /\ Left(todo)'
    BY <1>1, <1>2, <2>3, ReturnsBasicStep DEF Left
  <2>4. ASSUME NEW n \in {0, 1}, NEW r \in Radio, NEW list \in RateList, NEW other \in RateList,
               ResetsBoth(todo, n, r, list, other)
        PROVE  RatesTyped' /\ UNCHANGED buffer /\ Left(todo)'
    <3>1. CASE n = 0
      <4>1. ResetsBoth(todo, 0, r, list, other)
        BY <2>4, <3>1
      <4>2. QED
        BY <1>1, <1>2, <4>1, ResetsBasicStep DEF Left
    <3>2. CASE n = 1
      <4>1. ResetsBoth(todo, 1, r, list, other)
        BY <2>4, <3>2
      <4>2. RatesTyped' /\ UNCHANGED buffer /\ ResetsBoth(todo, 0, r, list, other)'
        BY <1>1, <1>2, <4>1, ResetsBothStep
      <4>3. QED
        BY <4>2 DEF Left
    <3>3. QED
      BY <3>1, <3>2
  <2>5. ASSUME NEW r \in Radio, NEW other \in RateList, ResetsSupported(todo, r, other)
        PROVE  RatesTyped' /\ UNCHANGED buffer /\ Left(todo)'
    BY <1>1, <1>2, <2>5, ResetsSupportedStep DEF Left
  <2>6. ASSUME NEW r \in Radio, NEW list \in RateList, NEW sure \in BOOLEAN,
               WritesSupported(todo, r, list, sure)
        PROVE  RatesTyped' /\ UNCHANGED buffer /\ Left(todo)'
    <3>1. RatesTyped' /\ UNCHANGED buffer /\ TellsSupported(todo, r, list, sure)'
      BY <1>1, <1>2, <2>6, WritesSupportedStep, Zenon
    <3>2. QED
      BY <3>1, Zenon DEF Left
  <2>7. ASSUME NEW r \in Radio, NEW list \in RateList, NEW sure \in BOOLEAN,
               TellsSupported(todo, r, list, sure)
        PROVE  RatesTyped' /\ UNCHANGED buffer /\ Left(todo)'
    <3>1. RatesTyped' /\ UNCHANGED buffer /\ RestartsWith(todo, r, sure)'
      BY <1>1, <1>2, <2>7, TellsSupportedStep, Zenon
    <3>2. QED
      BY <3>1, Zenon DEF Left
  <2>8. ASSUME NEW r \in Radio, NEW sure \in BOOLEAN, RestartsWith(todo, r, sure)
        PROVE  RatesTyped' /\ UNCHANGED buffer /\ Left(todo)'
    <3>1. RatesTyped' /\ UNCHANGED buffer /\ ReturnsSupported(todo, r, sure)'
      BY <1>1, <1>2, <2>8, RestartsWithStep, Zenon
    <3>2. QED
      BY <3>1, Zenon DEF Left
  <2>9. ASSUME NEW r \in Radio, NEW sure \in BOOLEAN, ReturnsSupported(todo, r, sure)
        PROVE  RatesTyped' /\ UNCHANGED buffer /\ Left(todo)'
    <3>1. RatesTyped' /\ UNCHANGED buffer /\ LeavesRates(todo)'
      BY <1>1, <1>2, <2>9, ReturnsSupportedStep, Zenon
    <3>2. QED
      BY <3>1, Zenon DEF Left
  <2>10. QED
    BY <1>2, <2>1, <2>2, <2>3, <2>4, <2>5, <2>6, <2>7, <2>8, <2>9, Zenon DEF Left
<1>4. Listed(todo')
  BY <1>1, <1>2, RestIs
<1>5. TenfoldBasic'
  BY <1>2, <1>3 DEF TenfoldBasic, Shown
<1>6. QED
  BY <1>3, <1>4, <1>5 DEF RatesInv, Listed

\* What holds where a call begins.
RatesSettled ==
    /\ RatesTyped /\ TenfoldBasic
    /\ \A r \in Radio, kind \in Kind : Agrees(r, kind)

LEMMA BetweenRatesCalls == ASSUME RatesInv, todo = <<>> PROVE RatesSettled
BY NothingLeft DEF RatesInv, RatesSettled

\* A list with nothing but a call's commands.
LEMMA TwoLeft ==
    ASSUME NEW a, NEW b, NEW s, s = <<a, b>>
    PROVE  Listed(s) /\ Len(s) = 2 /\ s[1] = a /\ s[2] = b /\ Behind(s, 2)
<1>1. PICK S : S = {a, b}
  OBVIOUS
<1>2. s \in Seq(S) /\ Len(s) = 2 /\ s[1] = a /\ s[2] = b /\ DOMAIN s = 1..2
  BY <1>1
<1>3. QED
  BY <1>2 DEF Listed, Behind

LEMMA FourLeft ==
    ASSUME NEW a, NEW b, NEW c, NEW d, NEW s, s = <<a, b, c, d>>
    PROVE  Listed(s) /\ Len(s) = 4 /\ s[1] = a /\ s[2] = b /\ s[3] = c /\ s[4] = d /\ Behind(s, 4)
<1>1. PICK S : S = {a, b, c, d}
  OBVIOUS
<1>2. /\ s \in Seq(S) /\ Len(s) = 4 /\ s[1] = a /\ s[2] = b /\ s[3] = c /\ s[4] = d
      /\ DOMAIN s = 1..4
  BY <1>1
<1>3. QED
  BY <1>2 DEF Listed, Behind

\* A call that is accepted leaves the converted list with its caller.
LEMMA BufferWritten ==
    ASSUME RatesTyped, TenfoldBasic, NEW kind \in Kind, NEW list \in RateList,
           kind = "basic" => Shown(list[1]) = list[1],
           buffer' = [buffer EXCEPT ![kind] = {Space(Converted(list))}]
    PROVE  /\ DOMAIN buffer' = Kind /\ \A k \in Kind : \A text \in buffer'[k] : Buffered(text)
           /\ TenfoldBasic'
<1>1. PICK new : new = Space(Converted(list))
  OBVIOUS
<1>2. new.by = " " /\ new.rates = Converted(list)
  BY <1>1 DEF Space
<1>3. Buffered(new) /\ Len(list) \in Nat \ {0} /\ list[1] \in Nat
  <2>1. Converted(list) \in RateList
    BY ConvertedIs
  <2>2. Len(list) \in Nat \ {0} /\ list[1] \in Nat
    BY DEF RateList
  <2>3. QED
    BY <1>2, <2>1, <2>2 DEF Buffered
<1>4. new.rates[1] = list[1] * 10
  <2>1. 1 \in 1..Len(list)
    BY <1>3
  <2>2. QED
    BY <1>2, <2>1, ConvertedIs
<1>5. /\ DOMAIN buffer' = Kind
      /\ \A k \in Kind : buffer'[k] = IF k = kind THEN {new} ELSE buffer[k]
  <2>1. DOMAIN buffer = Kind
    BY DEF RatesTyped
  <2>2. buffer' = [buffer EXCEPT ![kind] = {new}]
    BY <1>1
  <2>3. QED
    BY <2>1, <2>2
<1>6. \A k \in Kind : \A text \in buffer'[k] : Buffered(text)
  BY <1>3, <1>5 DEF RatesTyped
<1>7. TenfoldBasic'
  <2>1. "basic" \in Kind
    BY DEF Kind
  <2>2. ASSUME NEW text \in buffer'["basic"]
        PROVE  \E x \in Nat : Shown(x) = x /\ text.rates[1] = x * 10
    <3>1. CASE kind = "basic"
      <4>1. text = new
        BY <1>5, <2>1, <2>2, <3>1
      <4>2. Shown(list[1]) = list[1] /\ text.rates[1] = list[1] * 10
        BY <1>4, <3>1, <4>1
      <4>3. QED
        BY <1>3, <4>2
    <3>2. CASE kind # "basic"
      <4>1. text \in buffer["basic"]
        BY <1>5, <2>1, <2>2, <3>2
      <4>2. QED
        BY <4>1 DEF TenfoldBasic
    <3>3. QED
      BY <3>1, <3>2
  <2>3. QED
    BY <2>2 DEF TenfoldBasic, Shown
<1>8. QED
  BY <1>5, <1>6, <1>7

\* The other lists agree as before while a call begins.
LEMMA AgreesOnCall ==
    ASSUME NEW q, NEW k, Agrees(q, k), UNCHANGED <<rates, toldRates, airRates, open>>,
           wanted'[q][k] = wanted[q][k]
    PROVE  Agrees(q, k)'
BY AgreesStill


-----------------------------------------------------------------------------
\* Each call that begins leaves one of the shapes.
LEMMA WantedPut ==
    ASSUME wanted \in [Radio -> [Kind -> RateList]], NEW r \in Radio, NEW kind \in Kind,
           NEW list \in RateList, wanted' = [wanted EXCEPT ![r][kind] = list]
    PROVE  /\ wanted' \in [Radio -> [Kind -> RateList]]
           /\ \A q \in Radio, k \in Kind :
                 wanted'[q][k] = IF q = r /\ k = kind THEN list ELSE wanted[q][k]
<1>1. PICK f, g, S : f = wanted /\ g = wanted' /\ S = RateList
  OBVIOUS
<1>2. f \in [Radio -> [Kind -> S]] /\ list \in S /\ g = [f EXCEPT ![r][kind] = list]
  BY <1>1, Zenon
<1>3. /\ g \in [Radio -> [Kind -> S]]
      /\ \A q \in Radio, k \in Kind : g[q][k] = IF q = r /\ k = kind THEN list ELSE f[q][k]
  BY <1>2
<1>4. QED
  BY <1>1, <1>3, Zenon

\* Where a call leaves the rates of all lists but one alone, those agree as before.
LEMMA CallLeavesOthers ==
    ASSUME RatesSettled, NEW r, NEW kind, UNCHANGED <<rates, toldRates, airRates, open>>,
           \A q \in Radio, k \in Kind : <<q, k>> # <<r, kind>> => wanted'[q][k] = wanted[q][k]
    PROVE  AgreesBut(r, kind)'
<1>1. ASSUME NEW q \in Radio, NEW k \in Kind, <<q, k>> # <<r, kind>>
      PROVE  Agrees(q, k)'
  <2>1. Agrees(q, k) /\ wanted'[q][k] = wanted[q][k]
    BY <1>1 DEF RatesSettled
  <2>2. QED
    BY <2>1, AgreesOnCall
<1>2. QED
  BY <1>1 DEF AgreesBut

\* A refused list leaves everything as it was but the buffer.
LEMMA RefuseInvariant ==
    ASSUME RatesInv, NEW kind \in Kind, Refuse(kind)
    PROVE  RatesInv'
<1>1. /\ todo = <<>> /\ todo' = <<>> /\ buffer' = [buffer EXCEPT ![kind] = {}]
      /\ UNCHANGED <<rates, toldRates, airRates, wanted, open>>
  BY DEF Refuse, vars
<1>2. RatesSettled
  BY <1>1, BetweenRatesCalls
<1>3. /\ DOMAIN buffer' = Kind
      /\ \A k \in Kind : buffer'[k] = IF k = kind THEN {} ELSE buffer[k]
  <2>1. DOMAIN buffer = Kind
    BY <1>2 DEF RatesSettled, RatesTyped
  <2>2. QED
    BY <1>1, <2>1
<1>4. RatesTyped'
  <2>1. \A k \in Kind : \A text \in buffer'[k] : Buffered(text)
    BY <1>2, <1>3 DEF RatesSettled, RatesTyped
  <2>2. QED
    BY <1>1, <1>2, <1>3, <2>1 DEF RatesSettled, RatesTyped, Buffered
<1>5. TenfoldBasic'
  <2>1. "basic" \in Kind
    BY DEF Kind
  <2>2. buffer'["basic"] \subseteq buffer["basic"]
    BY <1>3, <2>1
  <2>3. QED
    BY <1>2, <2>2 DEF RatesSettled, TenfoldBasic, Shown
<1>6. LeavesRates(todo)'
  <2>1. ASSUME NEW q \in Radio, NEW k \in Kind
        PROVE  Agrees(q, k)'
    BY <1>1, <1>2, AgreesOnCall DEF RatesSettled
  <2>2. Behind(todo', 0)
    BY <1>1, OtherNone, OtherIs
  <2>3. QED
    BY <2>1, <2>2 DEF LeavesRates, Behind
<1>7. Listed(todo)'
  BY <1>1, OtherNone, OtherIs DEF Listed
<1>8. QED
  BY <1>4, <1>5, <1>6, <1>7, Zenon DEF RatesInv, Left

\* Basic rates that are asked for anew.
LEMMA BasicInvariant ==
    ASSUME RatesInv, NEW r \in Radio, NEW list \in RateList, ShownList(list) = list,
           SetBasicRates(r, Comma(list), FALSE)
    PROVE  RatesInv'
<1>1. PICK text : text = Comma(list)
  OBVIOUS
<1>2. text.by = "," /\ text.rates = list /\ ConvertedBy(",", text) = list
  BY <1>1 DEF Comma, ConvertedBy
<1>3. "basic" \in Kind
  BY DEF Kind
<1>4. CASE ~BasicAccepted(r, text)
  <2>1. Refuse("basic")
    BY <1>1, <1>4, Zenon DEF SetBasicRates
  <2>2. QED
    BY <1>3, <2>1, RefuseInvariant
<1>5. CASE BasicAccepted(r, text)
  <2>1. SetRates(r, "basic", text, list, BasicCommands(r, list, TRUE), FALSE)
    BY <1>1, <1>2, <1>5, Zenon DEF SetBasicRates
  <2>2. /\ todo = <<>>
        /\ todo' = <<WriteRates(r, "basic", list), ReturnRates(r, "basic", TRUE)>>
        /\ buffer' = [buffer EXCEPT !["basic"] = {Space(Converted(list))}]
        /\ wanted' = [wanted EXCEPT ![r]["basic"] = list]
        /\ UNCHANGED <<rates, toldRates, airRates, open>>
    BY <1>2, <2>1, Zenon DEF SetRates, Call, BasicCommands
  <2>3. RatesSettled
    BY <2>2, BetweenRatesCalls
  <2>4. /\ wanted' \in [Radio -> [Kind -> RateList]]
        /\ \A q \in Radio, k \in Kind :
              wanted'[q][k] = IF q = r /\ k = "basic" THEN list ELSE wanted[q][k]
    <3>1. wanted \in [Radio -> [Kind -> RateList]]
      BY <2>3 DEF RatesSettled, RatesTyped
    <3>2. QED
      BY <1>3, <2>2, <3>1, WantedPut, Zenon
  <2>5. Shown(list[1]) = list[1]
    <3>1. 1 \in DOMAIN list
      BY DEF RateList
    <3>2. ShownList(list)[1] = Shown(list[1])
      BY <3>1 DEF ShownList
    <3>3. QED
      BY <3>2
  <2>6. /\ DOMAIN buffer' = Kind /\ \A k \in Kind : \A t \in buffer'[k] : Buffered(t)
        /\ TenfoldBasic'
    BY <1>3, <2>2, <2>3, <2>5, BufferWritten DEF RatesSettled
  <2>7. RatesTyped'
    BY <2>2, <2>3, <2>4, <2>6 DEF RatesSettled, RatesTyped, Buffered
  <2>8. AgreesBut(r, "basic")'
    <3>1. \A q \in Radio, k \in Kind : <<q, k>> # <<r, "basic">> => wanted'[q][k] = wanted[q][k]
      BY <2>4
    <3>2. QED
      BY <2>2, <2>3, <3>1, CallLeavesOthers
  <2>9. /\ Listed(todo') /\ Len(todo') = 2 /\ Behind(todo', 2)
        /\ todo'[1] = WriteRates(r, "basic", list) /\ todo'[2] = ReturnRates(r, "basic", TRUE)
    BY <2>2, TwoLeft
  <2>10. WritesBasic(todo, r, list)'
    <3>1. ShownList(list) = wanted'[r]["basic"]
      BY <1>3, <2>4
    <3>2. Len(todo') >= 2
      BY <2>9
    <3>3. QED
      BY <2>8, <2>9, <3>1, <3>2 DEF WritesBasic, Behind, ShownList
  <2>11. QED
    BY <2>6, <2>7, <2>9, <2>10, Zenon DEF RatesInv, Left, Listed
<1>6. QED
  BY <1>4, <1>5

\* Operational rates that are asked for, anew or once more.
LEMMA OperationalInvariant ==
    ASSUME RatesInv, NEW r \in Radio, NEW text, NEW again \in BOOLEAN, text.rates \in RateList,
           again \/ ShownList(text.rates) = text.rates,
           SetOperationalRates(r, text, again)
    PROVE  RatesInv'
<1>1. "supported" \in Kind /\ "supported" # "basic"
  BY DEF Kind
<1>2. CASE ~OperationalAccepted(r, text)
  <2>1. Refuse("supported")
    BY <1>2, Zenon DEF SetOperationalRates
  <2>2. QED
    BY <1>1, <2>1, RefuseInvariant
<1>3. CASE OperationalAccepted(r, text)
  <2>1. PICK list, sure : list = text.rates /\ sure = ~again
    OBVIOUS
  <2>2. list \in RateList /\ sure \in BOOLEAN
    BY <2>1, Zenon
  <2>3. SetRates(r, "supported", text, list, OperationalCommands(r, list, sure), again)
    BY <1>3, <2>1, Zenon DEF SetOperationalRates
  <2>4. /\ todo = <<>>
        /\ todo' = <<WriteRates(r, "supported", list), TellRates(r, list), Restart(r),
                     ReturnRates(r, "supported", sure)>>
        /\ buffer' = [buffer EXCEPT !["supported"] = {Space(Converted(list))}]
        /\ UNCHANGED <<rates, toldRates, airRates, open>>
    BY <2>3, Zenon DEF SetRates, Call, OperationalCommands
  <2>5. wanted' = IF again THEN wanted ELSE [wanted EXCEPT ![r]["supported"] = list]
    BY <2>1, <2>3, Zenon DEF SetRates
  <2>6. RatesSettled
    BY <2>4, BetweenRatesCalls
  <2>7. wanted \in [Radio -> [Kind -> RateList]]
    BY <2>6 DEF RatesSettled, RatesTyped
  <2>8. /\ wanted' \in [Radio -> [Kind -> RateList]]
        /\ \A q \in Radio, k \in Kind :
              <<q, k>> # <<r, "supported">> => wanted'[q][k] = wanted[q][k]
        /\ sure => ShownList(list) = wanted'[r]["supported"]
    <3>1. CASE again
      <4>1. wanted' = wanted /\ ~sure
        BY <2>1, <2>5, <3>1, Zenon
      <4>2. QED
        BY <2>7, <4>1, Zenon
    <3>2. CASE ~again
      <4>1. wanted' = [wanted EXCEPT ![r]["supported"] = list] /\ ShownList(list) = list
        BY <2>1, <2>5, <3>2, Zenon
      <4>2. /\ wanted' \in [Radio -> [Kind -> RateList]]
            /\ \A q \in Radio, k \in Kind :
                  wanted'[q][k] = IF q = r /\ k = "supported" THEN list ELSE wanted[q][k]
        BY <1>1, <2>2, <2>7, <4>1, WantedPut, Zenon
      <4>3. wanted'[r]["supported"] = list
        BY <1>1, <4>2
      <4>4. \A q \in Radio, k \in Kind :
               <<q, k>> # <<r, "supported">> => wanted'[q][k] = wanted[q][k]
        BY <4>2
      <4>5. QED
        BY <4>1, <4>2, <4>3, <4>4, Zenon
    <3>3. QED
      BY <3>1, <3>2
  <2>9. /\ DOMAIN buffer' = Kind /\ \A k \in Kind : \A t \in buffer'[k] : Buffered(t)
        /\ TenfoldBasic'
    <3>1. RatesTyped /\ TenfoldBasic
      BY <2>6 DEF RatesSettled
    <3>2. QED
      BY <1>1, <2>2, <2>4, <3>1, BufferWritten, Zenon
  <2>10. RatesTyped'
    BY <2>4, <2>6, <2>8, <2>9 DEF RatesSettled, RatesTyped, Buffered
  <2>11. AgreesBut(r, "supported")'
    BY <2>4, <2>6, <2>8, CallLeavesOthers
  <2>12. /\ Listed(todo') /\ Len(todo') = 4 /\ Behind(todo', 4)
         /\ todo'[1] = WriteRates(r, "supported", list) /\ todo'[2] = TellRates(r, list)
         /\ todo'[3] = Restart(r) /\ todo'[4] = ReturnRates(r, "supported", sure)
    <3>1. PICK a, b, c, d : /\ a = WriteRates(r, "supported", list) /\ b = TellRates(r, list)
                            /\ c = Restart(r) /\ d = ReturnRates(r, "supported", sure)
      OBVIOUS
    <3>2. todo' = <<a, b, c, d>>
      BY <2>4, <3>1, Zenon
    <3>3. /\ Listed(todo') /\ Len(todo') = 4 /\ Behind(todo', 4)
          /\ todo'[1] = a /\ todo'[2] = b /\ todo'[3] = c /\ todo'[4] = d
      BY <3>2, FourLeft
    <3>4. QED
      BY <3>1, <3>3, Zenon
  <2>13. WritesSupported(todo, r, list, sure)'
    <3>1. Len(todo') >= 4
      BY <2>12
    <3>2. QED
      BY <2>8, <2>11, <2>12, <3>1, Zenon DEF WritesSupported
  <2>14. QED
    BY <2>2, <2>9, <2>10, <2>12, <2>13, Zenon DEF RatesInv, Left
<1>4. QED
  BY <1>2, <1>3

\* A factory reset: what it writes of the rates comes first or second.
Begins(s, n, a, b, c) ==
    /\ Listed(s) /\ Len(s) >= n + 3 /\ Behind(s, n + 3)
    /\ s[n + 1] = a /\ s[n + 2] = b /\ s[n + 3] = c
    /\ n = 1 => s[1].do \in RadioDo

LEMMA Joined ==
    ASSUME NEW U, NEW g \in Seq(U), NEW t \in Seq(U)
    PROVE  /\ g \o t \in Seq(U) /\ Len(g \o t) = Len(g) + Len(t)
           /\ DOMAIN (g \o t) = 1..(Len(g) + Len(t))
           /\ \A i \in 1..Len(g) : (g \o t)[i] = g[i]
           /\ \A i \in 1..(Len(g) + Len(t)) : i > Len(g) => (g \o t)[i] = t[i - Len(g)]
<1>1. /\ g \o t \in Seq(U) /\ Len(g \o t) = Len(g) + Len(t)
      /\ DOMAIN (g \o t) = 1..(Len(g) + Len(t))
  OBVIOUS
<1>2. \A i \in 1..Len(g) : (g \o t)[i] = g[i]
  OBVIOUS
<1>3. \A i \in 1..(Len(g) + Len(t)) : i > Len(g) => (g \o t)[i] = t[i - Len(g)]
  OBVIOUS
<1>4. QED
  BY <1>1, <1>2, <1>3

LEMMA ThreeBetween ==
    ASSUME NEW h, NEW a, NEW b, NEW c, NEW t, Other(h), Other(t),
           NEW n \in {0, 1}, n = Len(h), NEW s, s = (h \o <<a, b, c>>) \o t
    PROVE  Begins(s, n, a, b, c)
<1>1. PICK P : h \in Seq(P) /\ \A x \in P : x.do \in RadioDo
  BY DEF Other
<1>2. PICK T : t \in Seq(T) /\ \A x \in T : x.do \in RadioDo
  BY DEF Other
<1>3. PICK U, m : U = (P \cup {a, b, c}) \cup T /\ m = <<a, b, c>>
  OBVIOUS
<1>4. h \in Seq(U) /\ t \in Seq(U)
  <2>1. \A p, q : p \subseteq q => Seq(p) \subseteq Seq(q)
    OBVIOUS
  <2>2. P \subseteq U /\ T \subseteq U
    BY <1>3
  <2>3. QED
    BY <1>1, <1>2, <2>1, <2>2
<1>5. m \in Seq(U) /\ Len(m) = 3 /\ m[1] = a /\ m[2] = b /\ m[3] = c
  <2>1. a \in U /\ b \in U /\ c \in U
    BY <1>3
  <2>2. QED
    BY <1>3, <2>1
<1>6. PICK g : g = h \o m
  OBVIOUS
<1>7. /\ g \in Seq(U) /\ Len(g) = n + 3 /\ g[n + 1] = a /\ g[n + 2] = b /\ g[n + 3] = c
      /\ n = 1 => g[1] = h[1]
  BY <1>3, <1>4, <1>5, <1>6
<1>8. /\ s \in Seq(U) /\ Len(s) = Len(g) + Len(t) /\ DOMAIN s = 1..(Len(g) + Len(t))
      /\ \A i \in 1..Len(g) : s[i] = g[i]
      /\ \A i \in 1..(Len(g) + Len(t)) : i > Len(g) => s[i] = t[i - Len(g)]
  <2>1. s = g \o t
    BY <1>3, <1>6
  <2>2. g \in Seq(U) /\ t \in Seq(U)
    BY <1>4, <1>7
  <2>3. /\ g \o t \in Seq(U) /\ Len(g \o t) = Len(g) + Len(t)
        /\ DOMAIN (g \o t) = 1..(Len(g) + Len(t))
        /\ \A i \in 1..Len(g) : (g \o t)[i] = g[i]
        /\ \A i \in 1..(Len(g) + Len(t)) : i > Len(g) => (g \o t)[i] = t[i - Len(g)]
    BY <2>2, Joined, Zenon
  <2>4. QED
    BY <2>1, <2>3, Zenon
<1>9. n \in {0, 1} /\ Len(t) \in Nat
  BY <1>2, <1>3
<1>10. Behind(s, n + 3)
  <2>1. ASSUME NEW i \in 1..(Len(g) + Len(t)), i > n + 3
        PROVE  s[i].do \in RadioDo
    <3>1. i - Len(g) \in 1..Len(t) /\ s[i] = t[i - Len(g)]
      BY <1>7, <1>8, <1>9, <2>1
    <3>2. \A k \in 1..Len(t) : t[k] \in T
      BY <1>2
    <3>3. QED
      BY <1>2, <3>1, <3>2
  <2>2. QED
    BY <1>8, <2>1, Zenon DEF Behind
<1>11. s[n + 1] = a /\ s[n + 2] = b /\ s[n + 3] = c /\ Len(s) >= n + 3
  <2>1. {n + 1, n + 2, n + 3} \subseteq 1..Len(g) /\ Len(g) + Len(t) >= n + 3
    BY <1>7, <1>9
  <2>2. QED
    BY <1>7, <1>8, <2>1
<1>12. n = 1 => s[1].do \in RadioDo
  <2>1. n = 1 => h[1] \in P /\ s[1] = h[1]
    BY <1>1, <1>3, <1>7, <1>8
  <2>2. QED
    BY <1>1, <2>1
<1>13. Listed(s)
  BY <1>8, Zenon DEF Listed
<1>14. QED
  BY <1>3, <1>10, <1>11, <1>12, <1>13, Zenon DEF Begins

LEMMA ResetBegins ==
    ASSUME NEW r \in Radio, FactoryResetRates(r)
    PROVE  /\ todo = <<>> /\ Listed(todo')
           /\ \E n \in {0, 1} :
                 /\ Len(todo') >= n + 3 /\ Behind(todo', n + 3)
                 /\ n = 1 => todo'[1].do \in RadioDo
                 /\ todo'[n + 1] = WriteRates(r, "basic", DefaultRates[r].basic)
                 /\ todo'[n + 2] = WriteRates(r, "supported", DefaultRates[r].supported)
                 /\ todo'[n + 3] = ReturnRates(r, "basic", TRUE)
<1>1. PICK w, h, a, b, c, x, y, z :
        /\ w = ModeWidth[Default[r].mode] /\ h = When(Code(w) = 0, <<WriteBandWidth(r, w)>>)
        /\ a = WriteRates(r, "basic", DefaultRates[r].basic)
        /\ b = WriteRates(r, "supported", DefaultRates[r].supported)
        /\ c = ReturnRates(r, "basic", TRUE)
        /\ x = HostapdWrite(r, "channel", Default[r].channel)
        /\ y = HostapdWrite(r, "width", Code(w))
        /\ z = Return({<<"report", r>>}, {"channel", "public", "width", "ext"} \X {r})
  OBVIOUS
<1>2. todo = <<>> /\ todo' = (h \o <<a, b, c>>) \o <<x, y, z>>
  BY <1>1, Zenon DEF FactoryResetRates, FactoryReset, Call
<1>3. Other(h) /\ Other(<<x, y, z>>)
  <2>1. Other(h)
    BY <1>1, CommandsOther, OtherWhen, Zenon
  <2>2. Other(<<x>>) /\ Other(<<y>>) /\ Other(<<z>>)
    BY <1>1, CommandsOther, Zenon
  <2>3. QED
    BY <2>1, <2>2, OtherThree
<1>4. Len(h) \in {0, 1}
  <2>1. Len(<<WriteBandWidth(r, w)>>) = 1 /\ Len(<<>>) = 0
    OBVIOUS
  <2>2. h = <<WriteBandWidth(r, w)>> \/ h = <<>>
    BY <1>1 DEF When
  <2>3. QED
    BY <2>1, <2>2, Zenon
<1>5. PICK n, s : n = Len(h) /\ s = todo'
  OBVIOUS
<1>6. Begins(s, n, a, b, c)
  <2>1. PICK t : t = <<x, y, z>>
    OBVIOUS
  <2>2. s = (h \o <<a, b, c>>) \o t /\ Other(t) /\ n \in {0, 1} /\ n = Len(h)
    BY <1>2, <1>3, <1>4, <1>5, <2>1, Zenon
  <2>3. QED
    BY <1>3, <2>2, ThreeBetween, Zenon
<1>7. QED
  BY <1>1, <1>2, <1>4, <1>5, <1>6, Zenon DEF Begins

LEMMA ResetInvariant ==
    ASSUME RatesInv, NEW r \in Radio, FactoryResetRates(r)
    PROVE  RatesInv'
<1>1. PICK list, other : list = DefaultRates[r]["basic"] /\ other = DefaultRates[r]["supported"]
  OBVIOUS
<1>2. /\ "basic" \in Kind /\ "supported" \in Kind /\ DefaultRates[r] \in [Kind -> RateList]
      /\ list \in RateList /\ other \in RateList /\ ShownList(list) = list
  <2>1. "basic" \in Kind /\ "supported" \in Kind
    BY DEF Kind
  <2>2. DefaultRates \in [Radio -> [Kind -> RateList]]
    BY RatesAssumption, Zenon DEF RateList
  <2>3. DefaultRates[r] \in [Kind -> RateList]
    BY <2>2
  <2>4. list \in RateList /\ other \in RateList
    BY <1>1, <2>1, <2>3
  <2>5. ShownList(DefaultRates[r]["basic"]) = DefaultRates[r]["basic"]
    BY <2>1, RatesAssumption, Zenon
  <2>6. QED
    BY <1>1, <2>1, <2>3, <2>4, <2>5, Zenon
<1>3. PICK n \in {0, 1} :
        /\ Len(todo') >= n + 3 /\ Behind(todo', n + 3)
        /\ n = 1 => todo'[1].do \in RadioDo
        /\ todo'[n + 1] = WriteRates(r, "basic", list)
        /\ todo'[n + 2] = WriteRates(r, "supported", other)
        /\ todo'[n + 3] = ReturnRates(r, "basic", TRUE)
  BY <1>1, ResetBegins, Zenon
<1>4. todo = <<>> /\ Listed(todo')
  BY ResetBegins
<1>5. /\ wanted' = [wanted EXCEPT ![r] = DefaultRates[r]]
      /\ open' = open \cup {<<r, "supported">>}
      /\ UNCHANGED <<rates, toldRates, airRates, buffer>>
  BY Zenon DEF FactoryResetRates
<1>6. RatesSettled
  BY <1>4, BetweenRatesCalls
<1>7. /\ wanted' \in [Radio -> [Kind -> RateList]]
      /\ \A q \in Radio : wanted'[q] = IF q = r THEN DefaultRates[r] ELSE wanted[q]
  <2>1. wanted \in [Radio -> [Kind -> RateList]]
    BY <1>6 DEF RatesSettled, RatesTyped
  <2>2. QED
    BY <1>2, <1>5, <2>1
<1>8. RatesTyped' /\ TenfoldBasic'
  <2>1. RatesTyped'
    BY <1>5, <1>6, <1>7 DEF RatesSettled, RatesTyped, Buffered
  <2>2. TenfoldBasic'
    BY <1>5, <1>6 DEF RatesSettled, TenfoldBasic, Shown
  <2>3. QED
    BY <2>1, <2>2
<1>9. AgreesBut(r, "basic")'
  <2>1. ASSUME NEW q \in Radio, NEW k \in Kind, <<q, k>> # <<r, "basic">>
        PROVE  Agrees(q, k)'
    <3>1. CASE q = r
      <4>1. k = "supported"
        BY <2>1, <3>1 DEF Kind
      <4>2. QED
        BY <1>5, <3>1, <4>1 DEF Agrees
    <3>2. CASE q # r
      <4>1. Agrees(q, k) /\ wanted'[q][k] = wanted[q][k]
        BY <1>6, <1>7, <3>2 DEF RatesSettled
      <4>2. QED
        BY <1>5, <4>1, AgreesStill
    <3>3. QED
      BY <3>1, <3>2
  <2>2. QED
    BY <2>1 DEF AgreesBut
<1>10. ShownList(list) = wanted'[r]["basic"] /\ <<r, "supported">> \in open'
  BY <1>1, <1>2, <1>5, <1>7
<1>11. ResetsBoth(todo, n, r, list, other)'
  BY <1>3, <1>9, <1>10, Zenon DEF ResetsBoth, Behind, ShownList
<1>12. QED
  BY <1>2, <1>4, <1>8, <1>11, Zenon DEF RatesInv, Left

\* The calls of RadioConfig.
LEMMA OtherCallInvariant ==
    ASSUME RatesInv, NEW r \in Radio, OtherCall(r)
    PROVE  RatesInv'
<1>1. todo = <<>> /\ Other(todo') /\ UNCHANGED <<rates, toldRates, airRates, buffer, wanted, open>>
  BY OtherCallDoes DEF rateVars
<1>2. RatesSettled
  BY <1>1, BetweenRatesCalls
<1>3. RatesTyped'
  BY <1>1, <1>2 DEF RatesSettled, RatesTyped, Buffered
<1>4. TenfoldBasic'
  BY <1>1, <1>2 DEF RatesSettled, TenfoldBasic, Shown
<1>5. ASSUME NEW q \in Radio, NEW k \in Kind
      PROVE  Agrees(q, k)'
  BY <1>1, <1>2, AgreesOnCall DEF RatesSettled
<1>6. Listed(todo') /\ Behind(todo', 0)
  BY <1>1, OtherIs
<1>7. LeavesRates(todo)'
  BY <1>5, <1>6, Zenon DEF LeavesRates, Behind
<1>8. QED
  BY <1>3, <1>4, <1>6, <1>7, Zenon DEF RatesInv, Left

\* hostapd that starts again takes both lists from the file.
LEMMA HostapdInvariant ==
    ASSUME RatesInv, HostapdRestartsRates
    PROVE  RatesInv'
<1>1. /\ todo = <<>> /\ todo' = <<>> /\ toldRates' = rates /\ airRates' = rates
      /\ UNCHANGED <<rates, buffer, wanted, open>>
  BY DEF HostapdRestartsRates, HostapdRestarts
<1>2. RatesSettled
  BY <1>1, BetweenRatesCalls
<1>3. RatesTyped'
  BY <1>1, <1>2 DEF RatesSettled, RatesTyped, Buffered
<1>4. TenfoldBasic'
  BY <1>1, <1>2 DEF RatesSettled, TenfoldBasic, Shown
<1>5. ASSUME NEW q \in Radio, NEW k \in Kind
      PROVE  Agrees(q, k)'
  <2>1. Agrees(q, k)
    BY <1>2 DEF RatesSettled
  <2>2. Reported(q, k)' = Reported(q, k)
    BY <1>1 DEF Reported, ShownList
  <2>3. QED
    BY <1>1, <2>1, <2>2 DEF Agrees
<1>6. Listed(todo') /\ Behind(todo', 0)
  BY <1>1, OtherNone, OtherIs
<1>7. LeavesRates(todo)'
  BY <1>5, <1>6, Zenon DEF LeavesRates, Behind
<1>8. QED
  BY <1>3, <1>4, <1>6, <1>7, Zenon DEF RatesInv, Left

\* A cut call leaves every list open, and no buffer outlives the process.
LEMMA ProcessInvariant ==
    ASSUME RatesInv, ProcessRestartsRates
    PROVE  RatesInv'
<1>1. /\ todo' = <<>> /\ buffer' = [kind \in Kind |-> {}]
      /\ open' = IF todo = <<>> THEN open ELSE Radio \X Kind
      /\ UNCHANGED <<rates, toldRates, airRates, wanted>>
  BY DEF ProcessRestartsRates, ProcessRestarts
<1>2. \A k \in Kind : buffer'[k] = {}
  BY <1>1
<1>3. RatesTyped'
  BY <1>1, <1>2 DEF RatesInv, RatesTyped, Buffered
<1>4. TenfoldBasic'
  BY <1>2 DEF TenfoldBasic, Kind
<1>5. ASSUME NEW q \in Radio, NEW k \in Kind
      PROVE  Agrees(q, k)'
  <2>1. CASE todo = <<>>
    <3>1. Agrees(q, k) /\ open' = open
      BY <1>1, <2>1, BetweenRatesCalls DEF RatesSettled
    <3>2. QED
      BY <1>1, <3>1, AgreesStill
  <2>2. CASE todo # <<>>
    <3>1. <<q, k>> \in open'
      BY <1>1, <2>2
    <3>2. QED
      BY <3>1 DEF Agrees
  <2>3. QED
    BY <2>1, <2>2
<1>6. Listed(todo') /\ Behind(todo', 0)
  BY <1>1, OtherNone, OtherIs
<1>7. LeavesRates(todo)'
  BY <1>5, <1>6, Zenon DEF LeavesRates, Behind
<1>8. QED
  BY <1>3, <1>4, <1>6, <1>7, Zenon DEF RatesInv, Left

LEMMA RatesCallInvariant ==
    ASSUME RatesInv, NEW r \in Radio, RatesCall(r)
    PROVE  RatesInv'
<1>1. /\ RateLists \subseteq RateList /\ \A list \in RateLists : ShownList(list) = list
      /\ TRUE \in BOOLEAN /\ FALSE \in BOOLEAN
  BY RatesAssumption DEF RateList
<1>2. \A kind \in Kind : \A text \in buffer[kind] : Buffered(text)
  BY DEF RatesInv, RatesTyped
<1>3. /\ "basic" \in Kind /\ "supported" \in Kind
      /\ \A kind \in Kind : Reported(r, kind) \in RateList
                            /\ ShownList(Reported(r, kind)) = Reported(r, kind)
  <2>1. \A kind \in Kind : rates[r][kind] \in RateList
    BY DEF RatesInv, RatesTyped
  <2>2. QED
    BY <2>1, ShownTwice DEF Reported, Kind
<1>4. ASSUME NEW list \in RateLists, SetBasicRates(r, Comma(list), FALSE)
      PROVE  RatesInv'
  BY <1>1, <1>4, BasicInvariant
<1>5. ASSUME NEW list \in RateLists, SetOperationalRates(r, Space(list), FALSE)
      PROVE  RatesInv'
  <2>1. Space(list).rates = list
    BY DEF Space
  <2>2. QED
    BY <1>1, <1>5, <2>1, OperationalInvariant, Zenon
<1>6. ASSUME NEW text \in buffer["basic"], SetBasicRates(r, text, TRUE)
      PROVE  RatesInv'
  <2>1. text.by = " "
    BY <1>2, <1>3 DEF Buffered
  <2>2. PICK x \in Nat : Shown(x) = x /\ text.rates[1] = x * 10
    BY DEF RatesInv, TenfoldBasic
  <2>3. ~BasicAccepted(r, text)
    BY <2>1, <2>2, RepeatRefused
  <2>4. Refuse("basic")
    BY <1>6, <2>3, Zenon DEF SetBasicRates
  <2>5. QED
    BY <1>3, <2>4, RefuseInvariant
<1>7. ASSUME NEW text \in buffer["supported"], SetOperationalRates(r, text, TRUE)
      PROVE  RatesInv'
  <2>1. text.rates \in RateList
    BY <1>2, <1>3 DEF Buffered
  <2>2. QED
    BY <1>1, <1>7, <2>1, OperationalInvariant, Zenon
<1>8. ASSUME SetBasicRates(r, GetBasicRates(r), FALSE)
      PROVE  RatesInv'
  <2>1. GetBasicRates(r) = Comma(Reported(r, "basic"))
    BY DEF GetBasicRates
  <2>2. QED
    BY <1>3, <1>8, <2>1, BasicInvariant, Zenon
<1>9. ASSUME SetOperationalRates(r, GetOperationalRates(r), FALSE)
      PROVE  RatesInv'
  <2>1. GetOperationalRates(r).rates = Reported(r, "supported")
    BY DEF GetOperationalRates, Comma
  <2>2. QED
    BY <1>1, <1>3, <1>9, <2>1, OperationalInvariant, Zenon
<1>10. ASSUME FactoryResetRates(r)
       PROVE  RatesInv'
  BY <1>10, ResetInvariant
<1>11. QED
  BY <1>4, <1>5, <1>6, <1>7, <1>8, <1>9, <1>10, Zenon DEF RatesCall

\* Init and Next of Rates.
LEMMA RatesInvInit ==
    ASSUME Init, RatesInit
    PROVE  RatesInv
<1>1. todo = <<>>
  BY DEF Init
<1>2. /\ rates = DefaultRates /\ toldRates = rates /\ airRates = rates /\ wanted = rates
      /\ buffer = [kind \in Kind |-> {}]
  BY DEF RatesInit
<1>3. rates \in [Radio -> [Kind -> RateList]]
  BY <1>2, RatesAssumption DEF RateList
<1>4. \A k \in Kind : buffer[k] = {}
  BY <1>2
<1>5. RatesTyped /\ TenfoldBasic
  BY <1>2, <1>3, <1>4 DEF RatesTyped, TenfoldBasic, Kind
<1>6. ASSUME NEW q \in Radio, NEW k \in Kind
      PROVE  Agrees(q, k)
  <2>1. ShownList(DefaultRates[q][k]) = DefaultRates[q][k]
    BY RatesAssumption
  <2>2. QED
    BY <1>2, <2>1 DEF Agrees, Reported
<1>7. Listed(todo) /\ Behind(todo, 0)
  BY <1>1, OtherNone, OtherIs
<1>8. QED
  BY <1>5, <1>6, <1>7, Zenon DEF RatesInv, Left, LeavesRates

LEMMA RatesInvNext ==
    ASSUME RatesInv, [RatesNext]_<<vars, rateVars>>
    PROVE  RatesInv'
<1>1. CASE RatesStep
  BY <1>1, RatesStepInvariant
<1>2. ASSUME NEW r \in Radio, RatesCall(r)
      PROVE  RatesInv'
  BY <1>2, RatesCallInvariant
<1>3. ASSUME NEW r \in Radio, OtherCall(r)
      PROVE  RatesInv'
  BY <1>3, OtherCallInvariant
<1>4. CASE HostapdRestartsRates
  BY <1>4, HostapdInvariant
<1>5. CASE ProcessRestartsRates
  BY <1>5, ProcessInvariant
<1>6. CASE UNCHANGED <<vars, rateVars>>
  <2>1. todo' = todo /\ UNCHANGED <<rates, toldRates, airRates, buffer, wanted, open>>
    BY <1>6 DEF vars, rateVars
  <2>2. \A q, k : Agrees(q, k)' <=> Agrees(q, k)
    BY <2>1 DEF Agrees, Reported, ShownList
  <2>3. \A r, kind : /\ AgreesBut(r, kind)' <=> AgreesBut(r, kind)
                     /\ Reported(r, kind)' = Reported(r, kind)
    BY <2>1, <2>2, Zenon DEF AgreesBut, Reported, ShownList, Shown
  <2>4. Left(todo)'
    <3>1. \A n : Behind(todo, n)' <=> Behind(todo, n)
      BY <2>1 DEF Behind
    <3>2. LeavesRates(todo) => LeavesRates(todo)'
      BY <2>2, <3>1, Zenon DEF LeavesRates
    <3>3. \A r, list : WritesBasic(todo, r, list) => WritesBasic(todo, r, list)'
      BY <2>1, <2>3, <3>1 DEF WritesBasic, ShownList
    <3>4. \A r : ReturnsBasic(todo, r) => ReturnsBasic(todo, r)'
      BY <2>1, <2>3, <3>1 DEF ReturnsBasic
    <3>5. \A n, r, list, other : ResetsBoth(todo, n, r, list, other)
                                    => ResetsBoth(todo, n, r, list, other)'
      BY <2>1, <2>3, <3>1 DEF ResetsBoth, ShownList
    <3>6. \A r, other : ResetsSupported(todo, r, other) => ResetsSupported(todo, r, other)'
      BY <2>1, <2>3, <3>1 DEF ResetsSupported
    <3>7. \A r, list, sure : WritesSupported(todo, r, list, sure)
                                => WritesSupported(todo, r, list, sure)'
      BY <2>1, <2>3, <3>1, Zenon DEF WritesSupported, ShownList, Shown
    <3>8. \A r, list, sure : TellsSupported(todo, r, list, sure)
                                => TellsSupported(todo, r, list, sure)'
      BY <2>1, <2>3, <3>1, Zenon DEF TellsSupported
    <3>9. \A r, sure : RestartsWith(todo, r, sure) => RestartsWith(todo, r, sure)'
      BY <2>1, <2>3, <3>1, Zenon DEF RestartsWith
    <3>10. \A r, sure : ReturnsSupported(todo, r, sure) => ReturnsSupported(todo, r, sure)'
      BY <2>1, <2>3, <3>1, Zenon DEF ReturnsSupported
    <3>11. Left(todo)
      BY DEF RatesInv
    <3>12. QED
      BY <3>2, <3>3, <3>4, <3>5, <3>6, <3>7, <3>8, <3>9, <3>10, <3>11, Zenon DEF Left
  <2>5. RatesTyped' /\ TenfoldBasic' /\ Listed(todo)'
    BY <2>1 DEF RatesInv, RatesTyped, TenfoldBasic, Buffered, Shown, Listed
  <2>6. QED
    BY <2>4, <2>5, Zenon DEF RatesInv
<1>7. QED
  BY <1>1, <1>2, <1>3, <1>4, <1>5, <1>6, Zenon DEF RatesNext

LEMMA AgreeingReported == ASSUME RatesInv PROVE RatesReported
<1>1. SUFFICES ASSUME todo = <<>>, NEW r \in Radio, NEW kind \in Kind, <<r, kind>> \notin open
               PROVE  /\ Reported(r, kind) = wanted[r][kind]
                      /\ RateSet(Comma(Reported(r, kind))) = RateSet(Comma(wanted[r][kind]))
                      /\ kind = "supported" => airRates[r][kind] = rates[r][kind]
  BY Zenon DEF RatesReported
<1>2. Agrees(r, kind)
  BY <1>1, BetweenRatesCalls DEF RatesSettled
<1>3. Reported(r, kind) = wanted[r][kind] /\ (kind = "supported" => airRates[r][kind] = rates[r][kind])
  BY <1>1, <1>2, Zenon DEF Agrees
<1>4. QED
  BY <1>3, Zenon

\* Whatever lists callers ask for, as often as they give a setter its own buffer back and
\* whichever channel, width and factory-reset calls come between: what the getters and
\* the operating parameters report after a call is the list last asked for, but for the
\* lists that a repeated operational call, a reset or a process that ended has left open.
THEOREM RatesAreReported == RatesSpec => []RatesReported
<1>1. Init /\ RatesInit => RatesInv
  BY RatesInvInit
<1>2. RatesInv /\ [RatesNext]_<<vars, rateVars>> => RatesInv'
  BY RatesInvNext
<1>3. RatesInv => RatesReported
  BY AgreeingReported
<1>4. QED
  BY <1>1, <1>2, <1>3, PTL DEF RatesSpec
=============================================================================
