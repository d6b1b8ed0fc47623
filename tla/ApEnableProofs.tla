-------------------------- MODULE ApEnableProofs --------------------------
(***************************************************************************)
(* Proofs about ApEnable: where the commands that a call has left will     *)
(* lead.  The flags and the air agree at the end of a call because at each *)
(* of its commands what is left to do ends in their agreement.             *)
(***************************************************************************)
EXTENDS ApEnable, FiniteSetTheorems, TLAPS

-----------------------------------------------------------------------------
(***************************************************************************)
(* What a list of commands leads to.                                       *)
(***************************************************************************)

OnOff(b) == IF b THEN "on" ELSE "off"

\* The commands for a backhaul station.
ForSta == {"conf", "reconfigure", "returnSta"}

\* What a command writes to the air of an access point, to its flag, to the flag of a
\* radio or to the note that an access point is stale, and whether it is one for a
\* backhaul station; "keep" if nothing.
Effect(c, what, of) ==
    CASE c.do = "nic"  /\ what = "air" /\ c.ap = of       -> OnOff(c.to = "on")
      [] c.do = "down" /\ what = "air" /\ c.ap = of       -> "off"
      [] c.do = "apFlag" /\ what = "flag" /\ c.ap = of    -> OnOff(c.to)
      [] c.do = "radioFlag" /\ what = "radio" /\ c.r = of -> OnOff(c.to)
      [] c.do = "return" /\ what = "stale" /\ of \in c.left -> "on"
      [] c.do = "return" /\ what = "stale" /\ of \in c.driven \ c.left -> "off"
      [] c.do \in ForSta /\ what = "sta" -> "on"
      [] OTHER -> "keep"

Keeps(s, i, what, of) == Effect(s[i], what, of) = "keep"

IsLast(s, i, what, of) ==
    ~Keeps(s, i, what, of) /\ \A j \in DOMAIN s : j > i => Keeps(s, j, what, of)

\* What commands s write in the end: what the last one writes that writes anything.
Net(s, what, of) ==
    IF \A i \in DOMAIN s : Keeps(s, i, what, of) THEN "keep"
    ELSE Effect(s[CHOOSE i \in DOMAIN s : IsLast(s, i, what, of)], what, of)

\* A value that is there, or was written, and what is written over it.
Over(was, written) == IF written = "keep" THEN was ELSE written

\* A set of places in a list has a last one.
LEMMA LastOf ==
    ASSUME NEW n \in Nat, NEW S \in SUBSET (1..n), S # {}
    PROVE  \E i \in S : \A j \in S : j <= i
<1> DEFINE tails == {i..n : i \in S}
<1>1. IsFiniteSet(1..n)
  BY FS_Interval
<1>2. IsWellFoundedOn(StrictSubsetOrdering(1..n), SUBSET (1..n))
  BY <1>1, FS_StrictSubsetOrderingWellFounded, FS_FiniteSubsetsOfFinite, Zenon
<1>3. tails \subseteq SUBSET (1..n) /\ tails # {}
  <2>1. \A i \in S : i..n \in SUBSET (1..n)
    OBVIOUS
  <2>2. QED
    BY <2>1, Zenon
<1>4. PICK t \in tails : \A g \in tails : <<g, t>> \notin StrictSubsetOrdering(1..n)
  <2> HIDE DEF tails
  <2>1. QED
    BY <1>2, <1>3, WFMin, Zenon
<1>5. PICK i \in S : t = i..n
  OBVIOUS
<1>6. ASSUME NEW j \in S, j > i
      PROVE  FALSE
  <2>1. j..n \in tails /\ j..n \subseteq i..n /\ j..n # i..n
    <3>1. i \in i..n /\ i \notin j..n /\ i \in Nat /\ j \in Nat
      BY <1>6
    <3>2. QED
      BY <1>6, <3>1
  <2>2. <<j..n, t>> \in StrictSubsetOrdering(1..n)
    BY <1>3, <1>5, <2>1 DEF StrictSubsetOrdering
  <2>3. QED
    BY <1>4, <2>1, <2>2
<1>7. QED
  BY <1>6

\* The last command that writes a value decides.
LEMMA NetIs ==
    ASSUME NEW S, NEW s \in Seq(S), NEW what, NEW of
    PROVE  /\ (\A i \in DOMAIN s : Keeps(s, i, what, of)) => Net(s, what, of) = "keep"
           /\ \A i \in DOMAIN s : IsLast(s, i, what, of) =>
                 Net(s, what, of) = Effect(s[i], what, of)
           /\ (\A i \in DOMAIN s : Keeps(s, i, what, of))
                 \/ \E i \in DOMAIN s : IsLast(s, i, what, of)
<1>1. Len(s) \in Nat /\ DOMAIN s = 1..Len(s)
  OBVIOUS
<1>2. ASSUME NEW i \in DOMAIN s, IsLast(s, i, what, of)
      PROVE  Net(s, what, of) = Effect(s[i], what, of)
  <2> DEFINE last == CHOOSE j \in DOMAIN s : IsLast(s, j, what, of)
  <2>1. last \in DOMAIN s /\ IsLast(s, last, what, of)
    BY <1>2, Zenon
  <2>2. last = i
    <3> HIDE DEF last
    <3>1. ~(last > i) /\ ~(i > last)
      BY <1>2, <2>1 DEF IsLast
    <3>2. QED
      BY <1>1, <2>1, <3>1
  <2>3. Net(s, what, of) = Effect(s[last], what, of)
    BY <1>2, Zenon DEF Net, IsLast
  <2>4. QED
    BY <2>2, <2>3, Zenon
<1>3. ASSUME NEW k \in DOMAIN s, ~Keeps(s, k, what, of)
      PROVE  \E i \in DOMAIN s : IsLast(s, i, what, of)
  <2> DEFINE writers == {i \in 1..Len(s) : ~Keeps(s, i, what, of)}
  <2>1. writers \in SUBSET (1..Len(s)) /\ writers # {}
    BY <1>1, <1>3, Zenon
  <2>2. PICK i \in writers : \A j \in writers : j <= i
    <3> HIDE DEF writers
    <3>1. QED
      BY <1>1, <2>1, LastOf
  <2>3. IsLast(s, i, what, of)
    BY <1>1, <2>2 DEF IsLast
  <2>4. QED
    BY <1>1, <2>3
<1>4. QED
  BY <1>2, <1>3 DEF Net

\* Of two lists, the second writes over what the first has written.
LEMMA NetBoth ==
    ASSUME NEW S, NEW s \in Seq(S), NEW t \in Seq(S), NEW what, NEW of
    PROVE  Net(s \o t, what, of) = Over(Net(s, what, of), Net(t, what, of))
<1> DEFINE m == Len(s)
           n == Len(t)
           d == s \o t
<1>1. /\ d \in Seq(S) /\ m \in Nat /\ n \in Nat
      /\ DOMAIN s = 1..m /\ DOMAIN t = 1..n /\ DOMAIN d = 1..(m + n)
      /\ \A i \in 1..m : d[i] = s[i]
      /\ \A i \in 1..n : d[m + i] = t[i]
      /\ \A i \in 1..(m + n) : i \in 1..m \/ (i - m \in 1..n /\ m + (i - m) = i)
  OBVIOUS
<1> HIDE DEF m, n, d
<1>2. /\ \A i \in 1..m : Keeps(d, i, what, of) <=> Keeps(s, i, what, of)
      /\ \A i \in 1..n : Keeps(d, m + i, what, of) <=> Keeps(t, i, what, of)
  BY <1>1 DEF Keeps
<1>3. ASSUME NEW i \in 1..n, IsLast(t, i, what, of)
      PROVE  Net(d, what, of) = Net(t, what, of) /\ Net(t, what, of) # "keep"
  <2>1. m + i \in 1..(m + n) /\ ~Keeps(d, m + i, what, of)
    BY <1>1, <1>2, <1>3 DEF IsLast
  <2>2. ASSUME NEW j \in 1..(m + n), j > m + i
        PROVE  Keeps(d, j, what, of)
    <3>1. j - m \in 1..n /\ m + (j - m) = j /\ j - m > i
      BY <1>1, <2>2
    <3>2. Keeps(t, j - m, what, of)
      BY <1>1, <1>3, <3>1 DEF IsLast
    <3>3. QED
      BY <1>2, <3>1, <3>2
  <2>3. IsLast(d, m + i, what, of)
    BY <1>1, <2>1, <2>2 DEF IsLast
  <2>4. Net(d, what, of) = Effect(d[m + i], what, of)
    BY <1>1, <2>1, <2>3, NetIs
  <2>5. Net(t, what, of) = Effect(t[i], what, of)
    BY <1>1, <1>3, NetIs
  <2>6. Effect(t[i], what, of) # "keep"
    BY <1>3 DEF IsLast, Keeps
  <2>7. QED
    BY <1>1, <2>4, <2>5, <2>6
<1>4. ASSUME \A i \in 1..n : Keeps(t, i, what, of)
      PROVE  Net(d, what, of) = Net(s, what, of) /\ Net(t, what, of) = "keep"
  <2>1. Net(t, what, of) = "keep"
    BY <1>1, <1>4, NetIs
  <2>2. CASE \A i \in 1..m : Keeps(s, i, what, of)
    <3>1. \A i \in 1..(m + n) : Keeps(d, i, what, of)
      BY <1>1, <1>2, <1>4, <2>2
    <3>2. Net(d, what, of) = "keep"
      BY <1>1, <3>1, NetIs
    <3>3. Net(s, what, of) = "keep"
      BY <1>1, <2>2, NetIs
    <3>4. QED
      BY <2>1, <3>2, <3>3
  <2>3. ASSUME NEW i \in 1..m, IsLast(s, i, what, of)
        PROVE  Net(d, what, of) = Net(s, what, of)
    <3>1. i \in 1..(m + n) /\ ~Keeps(d, i, what, of)
      BY <1>1, <1>2, <2>3 DEF IsLast
    <3>2. \A j \in 1..(m + n) : j > i => Keeps(d, j, what, of)
      BY <1>1, <1>2, <1>4, <2>3 DEF IsLast
    <3>3. IsLast(d, i, what, of)
      BY <1>1, <3>1, <3>2 DEF IsLast
    <3>4. Net(d, what, of) = Effect(d[i], what, of)
      BY <1>1, <3>1, <3>3, NetIs
    <3>5. Net(s, what, of) = Effect(s[i], what, of)
      BY <1>1, <2>3, NetIs
    <3>6. QED
      BY <1>1, <3>4, <3>5
  <2>4. QED
    BY <1>1, <2>1, <2>2, <2>3, NetIs
<1>5. Net(d, what, of) = Over(Net(s, what, of), Net(t, what, of))
  <2>1. (\A i \in 1..n : Keeps(t, i, what, of)) \/ \E i \in 1..n : IsLast(t, i, what, of)
    BY <1>1, NetIs
  <2>2. QED
    BY <1>3, <1>4, <2>1 DEF Over
<1>6. QED
  BY <1>5 DEF d

\* One command writes what it writes.
LEMMA NetOne ==
    ASSUME NEW c, NEW what, NEW of
    PROVE  Net(<<c>>, what, of) = Effect(c, what, of)
<1> DEFINE s == <<c>>
<1>1. s \in Seq({c}) /\ DOMAIN s = {1} /\ s[1] = c
  OBVIOUS
<1> HIDE DEF s
<1>2. ~Keeps(s, 1, what, of) => IsLast(s, 1, what, of)
  BY <1>1 DEF IsLast
<1>3. Keeps(s, 1, what, of) <=> Effect(c, what, of) = "keep"
  BY <1>1 DEF Keeps
<1>4. CASE Effect(c, what, of) = "keep"
  <2>1. \A i \in DOMAIN s : Keeps(s, i, what, of)
    BY <1>1, <1>3, <1>4
  <2>2. Net(s, what, of) = "keep"
    BY <1>1, <2>1, NetIs
  <2>3. QED
    BY <1>4, <2>2 DEF s
<1>5. CASE Effect(c, what, of) # "keep"
  <2>1. Net(s, what, of) = Effect(s[1], what, of)
    BY <1>1, <1>2, <1>3, <1>5, NetIs
  <2>2. QED
    BY <1>1, <2>1 DEF s
<1>6. QED
  BY <1>4, <1>5

\* No command writes anything.
LEMMA NetNone == ASSUME NEW what, NEW of PROVE Net(<<>>, what, of) = "keep"
BY DEF Net

-----------------------------------------------------------------------------
(***************************************************************************)
(* What the calls write.                                                   *)
(***************************************************************************)

\* Files of a backhaul station.
Files == [networks : Networks \cup {"none"}, ended : BOOLEAN]

Command ==
    [do : {"apFlag"}, ap : Ap, to : BOOLEAN] \cup
    [do : {"radioFlag"}, r : Radio, to : BOOLEAN] \cup
    [do : {"nic"}, ap : Ap, to : {"on", "off"}] \cup
    [do : {"down"}, ap : Ap] \cup
    [do : {"conf"}, s : Sta, to : Files] \cup
    [do : {"reconfigure"}, s : Sta] \cup
    [do : {"return"}, driven : SUBSET Ap, left : SUBSET Ap] \cup
    [do : {"returnSta"}, s : Sta]

\* A list writes the values of w and nothing else.
Writes(s, what, of, w) == s \in Seq(Command) /\ Net(s, what, of) = w

\* Two lists, one after the other.
LEMMA WritesBoth ==
    ASSUME NEW s, NEW t, NEW what, NEW of, NEW a, NEW b,
           Writes(s, what, of, a), Writes(t, what, of, b)
    PROVE  Writes(s \o t, what, of, Over(a, b))
<1>1. s \in Seq(Command) /\ t \in Seq(Command)
  BY DEF Writes
<1>2. s \o t \in Seq(Command)
  BY <1>1
<1>3. Net(s \o t, what, of) = Over(Net(s, what, of), Net(t, what, of))
  BY <1>1, NetBoth
<1>4. QED
  BY <1>2, <1>3 DEF Writes

\* Commands that are given under a condition.
LEMMA WritesWhen ==
    ASSUME NEW condition \in BOOLEAN, NEW s, NEW what, NEW of, NEW a,
           Writes(s, what, of, a)
    PROVE  Writes(When(condition, s), what, of, IF condition THEN a ELSE "keep")
<1>1. <<>> \in Seq(Command) /\ Net(<<>>, what, of) = "keep"
  BY NetNone
<1>2. QED
  BY <1>1 DEF Writes, When

\* One command.
LEMMA WritesOne ==
    ASSUME NEW c \in Command, NEW what, NEW of
    PROVE  Writes(<<c>>, what, of, Effect(c, what, of))
<1>1. <<c>> \in Seq(Command)
  OBVIOUS
<1>2. QED
  BY <1>1, NetOne DEF Writes

\* A list of two commands.
LEMMA TwoCommands == ASSUME NEW a, NEW b PROVE <<a, b>> = <<a>> \o <<b>>
<1> DEFINE s == <<a, b>>
           t == <<a>> \o <<b>>
<1>1. /\ s \in Seq({a, b}) /\ Len(s) = 2 /\ s[1] = a /\ s[2] = b
      /\ t \in Seq({a, b}) /\ Len(t) = 2 /\ t[1] = a /\ t[2] = b
  OBVIOUS
<1>2. s = t
  <2> HIDE DEF s, t
  <2>1. DOMAIN s = {1, 2} /\ DOMAIN t = {1, 2}
    BY <1>1
  <2>2. s = [i \in DOMAIN s |-> s[i]] /\ t = [i \in DOMAIN t |-> t[i]]
    BY <1>1
  <2>3. QED
    BY <1>1, <2>1, <2>2
<1>3. QED
  BY <1>2

\* The commands of an access point and of a radio.
LEMMA WritesSetFlag ==
    ASSUME NEW ap \in Ap, NEW b \in BOOLEAN, NEW what, NEW of
    PROVE  Writes(<<SetFlag(ap, b)>>, what, of,
                  IF what = "flag" /\ of = ap THEN OnOff(b) ELSE "keep")
<1>1. SetFlag(ap, b) \in Command
  BY DEF SetFlag, Command
<1>2. Effect(SetFlag(ap, b), what, of) = IF what = "flag" /\ of = ap THEN OnOff(b) ELSE "keep"
  BY DEF Effect, ForSta, SetFlag
<1>3. QED
  BY <1>1, <1>2, WritesOne

LEMMA WritesSetRadioFlag ==
    ASSUME NEW r \in Radio, NEW b \in BOOLEAN, NEW what, NEW of
    PROVE  Writes(<<SetRadioFlag(r, b)>>, what, of,
                  IF what = "radio" /\ of = r THEN OnOff(b) ELSE "keep")
<1>1. SetRadioFlag(r, b) \in Command
  BY DEF SetRadioFlag, Command
<1>2. Effect(SetRadioFlag(r, b), what, of)
         = IF what = "radio" /\ of = r THEN OnOff(b) ELSE "keep"
  BY DEF Effect, ForSta, SetRadioFlag
<1>3. QED
  BY <1>1, <1>2, WritesOne

LEMMA WritesDisable ==
    ASSUME NEW ap \in Ap, NEW what, NEW of
    PROVE  Writes(<<Disable(ap)>>, what, of, IF what = "air" /\ of = ap THEN "off" ELSE "keep")
<1>1. Disable(ap) \in Command
  BY DEF Disable, Command
<1>2. Effect(Disable(ap), what, of) = IF what = "air" /\ of = ap THEN "off" ELSE "keep"
  BY DEF Effect, ForSta, Disable, OnOff
<1>3. QED
  BY <1>1, <1>2, WritesOne

LEMMA WritesEnable ==
    ASSUME NEW ap \in Ap, NEW what, NEW of
    PROVE  Writes(<<Enable(ap)>>, what, of, IF what = "air" /\ of = ap THEN "on" ELSE "keep")
<1>1. Enable(ap) \in Command
  BY DEF Enable, Command
<1>2. Effect(Enable(ap), what, of) = IF what = "air" /\ of = ap THEN "on" ELSE "keep"
  BY DEF Effect, ForSta, Enable, OnOff
<1>3. QED
  BY <1>1, <1>2, WritesOne

LEMMA WritesDown ==
    ASSUME NEW ap \in Ap, NEW what, NEW of
    PROVE  Writes(<<Down(ap)>>, what, of, IF what = "air" /\ of = ap THEN "off" ELSE "keep")
<1>1. Down(ap) \in Command
  BY DEF Down, Command
<1>2. Effect(Down(ap), what, of) = IF what = "air" /\ of = ap THEN "off" ELSE "keep"
  BY DEF Effect, ForSta, Down
<1>3. QED
  BY <1>1, <1>2, WritesOne

\* The note a call leaves at its end.
LEMMA WritesReturn ==
    ASSUME NEW driven \in SUBSET Ap, NEW left \in SUBSET Ap, NEW what, NEW of
    PROVE  Writes(<<Return(driven, left)>>, what, of,
                  IF what # "stale" THEN "keep"
                  ELSE IF of \in left THEN "on" ELSE IF of \in driven THEN "off" ELSE "keep")
<1>1. Return(driven, left) \in Command
  BY DEF Return, Command
<1>2. Effect(Return(driven, left), what, of) =
         IF what # "stale" THEN "keep"
         ELSE IF of \in left THEN "on" ELSE IF of \in driven THEN "off" ELSE "keep"
  BY DEF Effect, ForSta, Return
<1>3. QED
  BY <1>1, <1>2, WritesOne

LEMMA ReturnKeeps ==
    ASSUME NEW driven \in SUBSET Ap, NEW left \in SUBSET Ap, NEW of,
           NEW what \in {"air", "flag", "radio"}
    PROVE  Writes(<<Return(driven, left)>>, what, of, "keep")
<1>1. Writes(<<Return(driven, left)>>, what, of,
             IF what # "stale" THEN "keep"
             ELSE IF of \in left THEN "on" ELSE IF of \in driven THEN "off" ELSE "keep")
  BY WritesReturn
<1>2. QED
  BY <1>1

LEMMA ReturnNotes ==
    ASSUME NEW driven \in SUBSET Ap, NEW left \in SUBSET Ap, NEW of
    PROVE  Writes(<<Return(driven, left)>>, "stale", of,
                  IF of \in left THEN "on" ELSE IF of \in driven THEN "off" ELSE "keep")
<1>1. Writes(<<Return(driven, left)>>, "stale", of,
             IF "stale" # "stale" THEN "keep"
             ELSE IF of \in left THEN "on" ELSE IF of \in driven THEN "off" ELSE "keep")
  BY WritesReturn
<1>2. QED
  BY <1>1

\* Restarted, an access point is on the air.
LEMMA WritesRestart ==
    ASSUME NEW ap \in Ap, NEW what, NEW of
    PROVE  Writes(Restart(ap), what, of, IF what = "air" /\ of = ap THEN "on" ELSE "keep")
<1>1. Restart(ap) = <<Disable(ap)>> \o <<Enable(ap)>>
  BY DEF Restart
<1>2. Writes(<<Disable(ap)>>, what, of, IF what = "air" /\ of = ap THEN "off" ELSE "keep")
  BY WritesDisable
<1>3. Writes(<<Enable(ap)>>, what, of, IF what = "air" /\ of = ap THEN "on" ELSE "keep")
  BY WritesEnable
<1>4. Writes(<<Disable(ap)>> \o <<Enable(ap)>>, what, of,
             Over(IF what = "air" /\ of = ap THEN "off" ELSE "keep",
                  IF what = "air" /\ of = ap THEN "on" ELSE "keep"))
  BY <1>2, <1>3, WritesBoth
<1>5. QED
  BY <1>1, <1>4 DEF Over

\* Restarted and put down, it is off the air.
LEMMA WritesRestartDown ==
    ASSUME NEW ap \in Ap, NEW what, NEW of
    PROVE  Writes(Restart(ap) \o <<Down(ap)>>, what, of,
                  IF what = "air" /\ of = ap THEN "off" ELSE "keep")
<1>1. Writes(Restart(ap), what, of, IF what = "air" /\ of = ap THEN "on" ELSE "keep")
  BY WritesRestart
<1>2. Writes(<<Down(ap)>>, what, of, IF what = "air" /\ of = ap THEN "off" ELSE "keep")
  BY WritesDown
<1>3. Writes(Restart(ap) \o <<Down(ap)>>, what, of,
             Over(IF what = "air" /\ of = ap THEN "on" ELSE "keep",
                  IF what = "air" /\ of = ap THEN "off" ELSE "keep"))
  BY <1>1, <1>2, WritesBoth
<1>4. QED
  BY <1>3 DEF Over

\* The access points, by number.
LEMMA Numbers ==
    /\ Ap = {0, 1, 4, 5} /\ Public = {4, 5} /\ Private = {0, 1} /\ Radio = {0, 1}
    /\ RadioOf(0) = 0 /\ RadioOf(1) = 1 /\ RadioOf(4) = 0 /\ RadioOf(5) = 1
BY DEF Ap, Private, Public, RadioOf, Radio

\* Both public access points go off the air.
LEMMA WritesPublicDown ==
    ASSUME NEW what, NEW of
    PROVE  Writes(PublicDown, what, of, IF what = "air" /\ of \in Public THEN "off" ELSE "keep")
<1> DEFINE s == Restart(4) \o <<Down(4)>>
<1>1. 4 \in Ap /\ 5 \in Ap /\ Public = {4, 5}
  BY Numbers
<1>2. Writes(s, what, of, IF what = "air" /\ of = 4 THEN "off" ELSE "keep")
  BY <1>1, WritesRestartDown
<1>3. Writes(Restart(5), what, of, IF what = "air" /\ of = 5 THEN "on" ELSE "keep")
  BY <1>1, WritesRestart
<1>4. Writes(<<Down(5)>>, what, of, IF what = "air" /\ of = 5 THEN "off" ELSE "keep")
  BY <1>1, WritesDown
<1>5. PublicDown = (s \o Restart(5)) \o <<Down(5)>>
  BY Zenon DEF PublicDown
<1> HIDE DEF s
<1>6. Writes(s \o Restart(5), what, of,
             Over(IF what = "air" /\ of = 4 THEN "off" ELSE "keep",
                  IF what = "air" /\ of = 5 THEN "on" ELSE "keep"))
  BY <1>2, <1>3, WritesBoth
<1>7. Writes((s \o Restart(5)) \o <<Down(5)>>, what, of,
             Over(Over(IF what = "air" /\ of = 4 THEN "off" ELSE "keep",
                       IF what = "air" /\ of = 5 THEN "on" ELSE "keep"),
                  IF what = "air" /\ of = 5 THEN "off" ELSE "keep"))
  BY <1>4, <1>6, WritesBoth
<1>8. QED
  BY <1>1, <1>5, <1>7 DEF Over

\* Both access points of a disabled radio go off the air.
LEMMA WritesRadioIsOff ==
    ASSUME NEW r \in Radio, NEW what, NEW of
    PROVE  Writes(RadioIsOff(r), what, of,
                  IF what = "air" /\ of \in {r, r + 4} THEN "off" ELSE "keep")
<1>1. 0 \in Ap /\ 1 \in Ap /\ 4 \in Ap /\ 5 \in Ap /\ r \in {0, 1}
  BY Numbers
<1>2. CASE r = 0
  <2>1. Writes(<<Disable(0)>>, what, of, IF what = "air" /\ of = 0 THEN "off" ELSE "keep")
    BY <1>1, WritesDisable
  <2>2. Writes(Restart(4), what, of, IF what = "air" /\ of = 4 THEN "on" ELSE "keep")
    BY <1>1, WritesRestart
  <2>3. Writes(<<Down(4)>>, what, of, IF what = "air" /\ of = 4 THEN "off" ELSE "keep")
    BY <1>1, WritesDown
  <2>4. Writes(<<Disable(0)>> \o Restart(4), what, of,
               Over(IF what = "air" /\ of = 0 THEN "off" ELSE "keep",
                    IF what = "air" /\ of = 4 THEN "on" ELSE "keep"))
    BY <2>1, <2>2, WritesBoth
  <2>5. Writes((<<Disable(0)>> \o Restart(4)) \o <<Down(4)>>, what, of,
               Over(Over(IF what = "air" /\ of = 0 THEN "off" ELSE "keep",
                         IF what = "air" /\ of = 4 THEN "on" ELSE "keep"),
                    IF what = "air" /\ of = 4 THEN "off" ELSE "keep"))
    BY <2>3, <2>4, WritesBoth
  <2>6. RadioIsOff(r) = (<<Disable(0)>> \o Restart(4)) \o <<Down(4)>>
    BY <1>2, Zenon DEF RadioIsOff
  <2>7. r + 4 = 4
    BY <1>2
  <2>8. QED
    BY <1>2, <2>5, <2>6, <2>7 DEF Over
<1>3. CASE r = 1
  <2>1. RadioIsOff(r) = <<Disable(1)>> \o <<Disable(5)>>
    BY <1>3 DEF RadioIsOff
  <2>2. Writes(<<Disable(1)>>, what, of, IF what = "air" /\ of = 1 THEN "off" ELSE "keep")
    BY <1>1, WritesDisable
  <2>3. Writes(<<Disable(5)>>, what, of, IF what = "air" /\ of = 5 THEN "off" ELSE "keep")
    BY <1>1, WritesDisable
  <2>4. Writes(<<Disable(1)>> \o <<Disable(5)>>, what, of,
               Over(IF what = "air" /\ of = 1 THEN "off" ELSE "keep",
                    IF what = "air" /\ of = 5 THEN "off" ELSE "keep"))
    BY <2>2, <2>3, WritesBoth
  <2>5. r + 4 = 5
    BY <1>3
  <2>6. QED
    BY <1>3, <2>1, <2>4, <2>5 DEF Over
<1>4. QED
  BY <1>1, <1>2, <1>3

\* A disabled access point: its flag, and the air.
LEMMA WritesDisableAp ==
    ASSUME NEW ap \in Ap, NEW hotspot \in BOOLEAN, NEW what, NEW of
    PROVE  Writes(DisableAp(ap, hotspot), what, of,
                  IF what \in {"air", "flag"} /\ of = ap THEN "off" ELSE "keep")
<1> DEFINE c == hotspot /\ ap \in Public
           w1 == IF what = "flag" /\ of = ap THEN OnOff(FALSE) ELSE "keep"
           w2 == IF what = "air" /\ of = ap THEN "on" ELSE "keep"
           w3 == IF what = "air" /\ of = ap THEN "off" ELSE "keep"
<1>1. Writes(<<SetFlag(ap, FALSE)>>, what, of, w1)
  BY WritesSetFlag
<1>2. Writes(Restart(ap), what, of, w2)
  BY WritesRestart
<1>3. Writes(<<Down(ap)>>, what, of, w3)
  BY WritesDown
<1>4. DisableAp(ap, hotspot) = (<<SetFlag(ap, FALSE)>> \o When(c, Restart(ap))) \o <<Down(ap)>>
  BY Zenon DEF DisableAp
<1>5. c \in BOOLEAN
  OBVIOUS
<1> HIDE DEF c, w1, w2, w3
<1>6. Writes(When(c, Restart(ap)), what, of, IF c THEN w2 ELSE "keep")
  BY <1>2, <1>5, WritesWhen
<1>7. Writes(<<SetFlag(ap, FALSE)>> \o When(c, Restart(ap)), what, of,
             Over(w1, IF c THEN w2 ELSE "keep"))
  BY <1>1, <1>6, WritesBoth
<1>8. Writes((<<SetFlag(ap, FALSE)>> \o When(c, Restart(ap))) \o <<Down(ap)>>, what, of,
             Over(Over(w1, IF c THEN w2 ELSE "keep"), w3))
  BY <1>3, <1>7, WritesBoth
<1>9. QED
  BY <1>4, <1>8 DEF Over, OnOff, c, w1, w2, w3

\* An enabled access point: its flag, the air, and the air of the access points that
\* share its adapter and its radio.
EnableApWrites(ap, hotspot, prefer, what, of) ==
    CASE what = "flag" /\ of = ap -> "on"
      [] what = "air" /\ prefer /\ of \in Public -> "off"
      [] what = "air" /\ ~(prefer /\ of \in Public)
            /\ ~radioFlag[RadioOf(ap)] /\ of \in {RadioOf(ap), RadioOf(ap) + 4} -> "off"
      [] what = "air" /\ ~(prefer /\ of \in Public)
            /\ ~(~radioFlag[RadioOf(ap)] /\ of \in {RadioOf(ap), RadioOf(ap) + 4})
            /\ of = ap /\ (ap \in Private \/ hotspot) -> "on"
      [] what = "air" /\ ~(prefer /\ of \in Public)
            /\ ~(~radioFlag[RadioOf(ap)] /\ of \in {RadioOf(ap), RadioOf(ap) + 4})
            /\ hotspot /\ <<ap, of>> \in {<<1, 5>>, <<5, 1>>} -> OnOff(apFlag[of])
      [] OTHER -> "keep"

LEMMA WritesEnableAp ==
    ASSUME NEW ap \in Ap, NEW hotspot \in BOOLEAN, NEW prefer \in BOOLEAN, NEW what, NEW of,
           apFlag \in [Ap -> BOOLEAN], radioFlag \in [Radio -> BOOLEAN]
    PROVE  Writes(EnableAp(ap, hotspot, prefer), what, of,
                  EnableApWrites(ap, hotspot, prefer, what, of))
<1> DEFINE r  == RadioOf(ap)
           c2 == hotspot /\ ap \in Public
           c3 == hotspot /\ ap = 5
           c4 == ap \in Private
           c5 == hotspot /\ ap = 1
           c6 == hotspot /\ ap = 1 /\ ~apFlag[5]
           c7 == hotspot /\ ap = 5 /\ ~apFlag[1]
           c8 == ~radioFlag[r]
           On(n)  == IF what = "air" /\ of = n THEN "on" ELSE "keep"
           Off(n) == IF what = "air" /\ of = n THEN "off" ELSE "keep"
           w1 == IF what = "flag" /\ of = ap THEN OnOff(TRUE) ELSE "keep"
           w8 == IF what = "air" /\ of \in {r, r + 4} THEN "off" ELSE "keep"
           w9 == IF what = "air" /\ of \in Public THEN "off" ELSE "keep"
           s1 == <<SetFlag(ap, TRUE)>>
           s2 == When(c2, Restart(ap))
           s3 == When(c3, Restart(1))
           s4 == When(c4, Restart(ap))
           s5 == When(c5, Restart(5))
           s6 == When(c6, <<Down(5)>>)
           s7 == When(c7, <<Down(1)>>)
           s8 == When(c8, RadioIsOff(r))
           s9 == When(prefer, PublicDown)
<1>1. EnableAp(ap, hotspot, prefer)
         = (((((((s1 \o s2) \o s3) \o s4) \o s5) \o s6) \o s7) \o s8) \o s9
  BY Zenon DEF EnableAp
<1>2. /\ 1 \in Ap /\ 5 \in Ap /\ r \in Radio
      /\ c2 \in BOOLEAN /\ c3 \in BOOLEAN /\ c4 \in BOOLEAN /\ c5 \in BOOLEAN
      /\ c6 \in BOOLEAN /\ c7 \in BOOLEAN /\ c8 \in BOOLEAN
  BY Numbers
<1>3. /\ Writes(s1, what, of, w1)
      /\ Writes(Restart(ap), what, of, On(ap))
      /\ Writes(Restart(1), what, of, On(1))
      /\ Writes(Restart(5), what, of, On(5))
      /\ Writes(<<Down(5)>>, what, of, Off(5))
      /\ Writes(<<Down(1)>>, what, of, Off(1))
      /\ Writes(RadioIsOff(r), what, of, w8)
      /\ Writes(PublicDown, what, of, w9)
  <2>1. Writes(s1, what, of, w1)
    BY WritesSetFlag
  <2>2. Writes(Restart(ap), what, of, On(ap))
    BY WritesRestart
  <2>3. Writes(Restart(1), what, of, On(1))
    BY <1>2, WritesRestart
  <2>4. Writes(Restart(5), what, of, On(5))
    BY <1>2, WritesRestart
  <2>5. Writes(<<Down(5)>>, what, of, Off(5))
    BY <1>2, WritesDown
  <2>6. Writes(<<Down(1)>>, what, of, Off(1))
    BY <1>2, WritesDown
  <2>7. Writes(RadioIsOff(r), what, of, w8)
    BY <1>2, WritesRadioIsOff
  <2>8. Writes(PublicDown, what, of, w9)
    BY WritesPublicDown
  <2>9. QED
    BY <2>1, <2>2, <2>3, <2>4, <2>5, <2>6, <2>7, <2>8, Zenon
<1>4. EnableApWrites(ap, hotspot, prefer, what, of) =
        Over(Over(Over(Over(Over(Over(Over(Over(w1, IF c2 THEN On(ap) ELSE "keep"),
             IF c3 THEN On(1) ELSE "keep"), IF c4 THEN On(ap) ELSE "keep"),
             IF c5 THEN On(5) ELSE "keep"), IF c6 THEN Off(5) ELSE "keep"),
             IF c7 THEN Off(1) ELSE "keep"), IF c8 THEN w8 ELSE "keep"),
             IF prefer THEN w9 ELSE "keep")
  BY Numbers DEF EnableApWrites, Over, OnOff
<1> HIDE DEF r, c2, c3, c4, c5, c6, c7, c8, On, Off, w1, w8, w9, s1
<1>5. /\ Writes(s2, what, of, IF c2 THEN On(ap) ELSE "keep")
      /\ Writes(s3, what, of, IF c3 THEN On(1) ELSE "keep")
      /\ Writes(s4, what, of, IF c4 THEN On(ap) ELSE "keep")
      /\ Writes(s5, what, of, IF c5 THEN On(5) ELSE "keep")
      /\ Writes(s6, what, of, IF c6 THEN Off(5) ELSE "keep")
      /\ Writes(s7, what, of, IF c7 THEN Off(1) ELSE "keep")
      /\ Writes(s8, what, of, IF c8 THEN w8 ELSE "keep")
      /\ Writes(s9, what, of, IF prefer THEN w9 ELSE "keep")
  <2>1. Writes(s2, what, of, IF c2 THEN On(ap) ELSE "keep")
    BY <1>2, <1>3, WritesWhen
  <2>2. Writes(s3, what, of, IF c3 THEN On(1) ELSE "keep")
    BY <1>2, <1>3, WritesWhen
  <2>3. Writes(s4, what, of, IF c4 THEN On(ap) ELSE "keep")
    BY <1>2, <1>3, WritesWhen
  <2>4. Writes(s5, what, of, IF c5 THEN On(5) ELSE "keep")
    BY <1>2, <1>3, WritesWhen
  <2>5. Writes(s6, what, of, IF c6 THEN Off(5) ELSE "keep")
    BY <1>2, <1>3, WritesWhen
  <2>6. Writes(s7, what, of, IF c7 THEN Off(1) ELSE "keep")
    BY <1>2, <1>3, WritesWhen
  <2>7. Writes(s8, what, of, IF c8 THEN w8 ELSE "keep")
    BY <1>2, <1>3, WritesWhen
  <2>8. Writes(s9, what, of, IF prefer THEN w9 ELSE "keep")
    BY <1>3, WritesWhen
  <2>9. QED
    BY <2>1, <2>2, <2>3, <2>4, <2>5, <2>6, <2>7, <2>8, Zenon
<1> DEFINE v2 == IF c2 THEN On(ap) ELSE "keep"
           v3 == IF c3 THEN On(1) ELSE "keep"
           v4 == IF c4 THEN On(ap) ELSE "keep"
           v5 == IF c5 THEN On(5) ELSE "keep"
           v6 == IF c6 THEN Off(5) ELSE "keep"
           v7 == IF c7 THEN Off(1) ELSE "keep"
           v8 == IF c8 THEN w8 ELSE "keep"
           v9 == IF prefer THEN w9 ELSE "keep"
<1>6. /\ Writes(s2, what, of, v2) /\ Writes(s3, what, of, v3) /\ Writes(s4, what, of, v4)
      /\ Writes(s5, what, of, v5) /\ Writes(s6, what, of, v6) /\ Writes(s7, what, of, v7)
      /\ Writes(s8, what, of, v8) /\ Writes(s9, what, of, v9)
  BY <1>5, Zenon
<1>7. EnableApWrites(ap, hotspot, prefer, what, of) =
        Over(Over(Over(Over(Over(Over(Over(Over(w1, v2), v3), v4), v5), v6), v7), v8), v9)
  BY <1>4, Zenon
<1> HIDE DEF s2, s3, s4, s5, s6, s7, s8, s9, v2, v3, v4, v5, v6, v7, v8, v9
<1>12. Writes(s1 \o s2, what, of, Over(w1, v2))
  BY <1>3, <1>6, WritesBoth
<1>13. Writes((s1 \o s2) \o s3, what, of, Over(Over(w1, v2), v3))
  BY <1>6, <1>12, WritesBoth
<1>14. Writes(((s1 \o s2) \o s3) \o s4, what, of, Over(Over(Over(w1, v2), v3), v4))
  BY <1>6, <1>13, WritesBoth
<1>15. Writes((((s1 \o s2) \o s3) \o s4) \o s5, what, of,
              Over(Over(Over(Over(w1, v2), v3), v4), v5))
  BY <1>6, <1>14, WritesBoth
<1>16. Writes(((((s1 \o s2) \o s3) \o s4) \o s5) \o s6, what, of,
              Over(Over(Over(Over(Over(w1, v2), v3), v4), v5), v6))
  BY <1>6, <1>15, WritesBoth
<1>17. Writes((((((s1 \o s2) \o s3) \o s4) \o s5) \o s6) \o s7, what, of,
              Over(Over(Over(Over(Over(Over(w1, v2), v3), v4), v5), v6), v7))
  BY <1>6, <1>16, WritesBoth
<1>18. Writes(((((((s1 \o s2) \o s3) \o s4) \o s5) \o s6) \o s7) \o s8, what, of,
              Over(Over(Over(Over(Over(Over(Over(w1, v2), v3), v4), v5), v6), v7), v8))
  BY <1>6, <1>17, WritesBoth
<1>19. Writes((((((((s1 \o s2) \o s3) \o s4) \o s5) \o s6) \o s7) \o s8) \o s9, what, of,
              Over(Over(Over(Over(Over(Over(Over(Over(w1, v2), v3), v4), v5), v6), v7), v8), v9))
  BY <1>6, <1>18, WritesBoth
<1>20. QED
  BY <1>1, <1>7, <1>19, Zenon

\* Four lists, one after the other.
LEMMA WritesFour ==
    ASSUME NEW s, NEW t, NEW u, NEW v, NEW what, NEW of, NEW a, NEW b, NEW c, NEW d,
           Writes(s, what, of, a), Writes(t, what, of, b),
           Writes(u, what, of, c), Writes(v, what, of, d)
    PROVE  Writes(((s \o t) \o u) \o v, what, of, Over(Over(Over(a, b), c), d))
<1>1. Writes(s \o t, what, of, Over(a, b))
  BY WritesBoth
<1>2. Writes((s \o t) \o u, what, of, Over(Over(a, b), c))
  BY <1>1, WritesBoth
<1>3. QED
  BY <1>2, WritesBoth

\* An enabled radio: its flag, and its access points as theirs say.
LEMMA WritesRadioOn ==
    ASSUME NEW r \in Radio, NEW hotspot \in BOOLEAN, NEW what, NEW of,
           apFlag \in [Ap -> BOOLEAN]
    PROVE  Writes(RadioOn(r, hotspot), what, of,
                  IF what = "radio" /\ of = r THEN "on"
                  ELSE IF what = "air" /\ (of = r \/ (hotspot /\ of = r + 4))
                       THEN OnOff(apFlag[of]) ELSE "keep")
<1> DEFINE q == r + 4
           c == ~apFlag[q]
           d == ~apFlag[r]
           On(n)  == IF what = "air" /\ of = n THEN "on" ELSE "keep"
           Off(n) == IF what = "air" /\ of = n THEN "off" ELSE "keep"
           w1 == IF what = "radio" /\ of = r THEN OnOff(TRUE) ELSE "keep"
           w3 == Over(On(q), IF c THEN Off(q) ELSE "keep")
           s1 == <<SetRadioFlag(r, TRUE)>>
           t3 == Restart(q) \o When(c, <<Down(q)>>)
           s3 == When(hotspot, t3)
           s4 == When(d, <<Down(r)>>)
<1>1. RadioOn(r, hotspot) = ((s1 \o Restart(r)) \o s3) \o s4
  BY Zenon DEF RadioOn
<1>2. r \in Ap /\ q \in Ap /\ c \in BOOLEAN /\ d \in BOOLEAN /\ r # q
  BY Numbers
<1>3. Writes(s1, what, of, w1)
  BY WritesSetRadioFlag
<1>4. Writes(Restart(r), what, of, On(r)) /\ Writes(Restart(q), what, of, On(q))
  BY <1>2, WritesRestart
<1>5. Writes(<<Down(r)>>, what, of, Off(r)) /\ Writes(<<Down(q)>>, what, of, Off(q))
  BY <1>2, WritesDown
<1>6. Over(Over(Over(w1, On(r)), IF hotspot THEN w3 ELSE "keep"), IF d THEN Off(r) ELSE "keep")
        = IF what = "radio" /\ of = r THEN "on"
          ELSE IF what = "air" /\ (of = r \/ (hotspot /\ of = r + 4))
               THEN OnOff(apFlag[of]) ELSE "keep"
  BY <1>2 DEF Over, OnOff
<1> HIDE DEF q, c, d, On, Off, w1, w3, s1, t3, s3, s4
<1>7. Writes(When(c, <<Down(q)>>), what, of, IF c THEN Off(q) ELSE "keep")
  BY <1>2, <1>5, WritesWhen
<1>8. Writes(t3, what, of, w3)
  BY <1>4, <1>7, WritesBoth DEF t3, w3
<1>9. Writes(s3, what, of, IF hotspot THEN w3 ELSE "keep")
  BY <1>8, WritesWhen DEF s3
<1>10. Writes(s4, what, of, IF d THEN Off(r) ELSE "keep")
  BY <1>2, <1>5, WritesWhen DEF s4
<1>11. Writes(((s1 \o Restart(r)) \o s3) \o s4, what, of,
              Over(Over(Over(w1, On(r)), IF hotspot THEN w3 ELSE "keep"),
                   IF d THEN Off(r) ELSE "keep"))
  BY <1>3, <1>4, <1>9, <1>10, WritesFour
<1>12. QED
  BY <1>1, <1>6, <1>11, Zenon

\* A disabled radio: its flag, and its access points are off the air.
LEMMA WritesRadioOff ==
    ASSUME NEW r \in Radio, NEW hotspot \in BOOLEAN, NEW what, NEW of
    PROVE  Writes(RadioOff(r, hotspot), what, of,
                  IF \/ what = "radio" /\ of = r
                     \/ what = "air" /\ (of = r \/ (hotspot /\ of = r + 4))
                  THEN "off" ELSE "keep")
<1> DEFINE q == r + 4
           c == hotspot /\ r = 0
           On(n)  == IF what = "air" /\ of = n THEN "on" ELSE "keep"
           Off(n) == IF what = "air" /\ of = n THEN "off" ELSE "keep"
           w1 == IF what = "radio" /\ of = r THEN OnOff(FALSE) ELSE "keep"
           s1 == <<SetRadioFlag(r, FALSE), Disable(r)>>
           s2 == When(c, Restart(4))
           s3 == When(hotspot, <<Disable(q)>>)
           s4 == When(c, <<Down(4)>>)
<1>1. RadioOff(r, hotspot) = ((s1 \o s2) \o s3) \o s4
  BY Zenon DEF RadioOff
<1>2. r \in Ap /\ q \in Ap /\ 4 \in Ap /\ c \in BOOLEAN /\ r # q /\ r \in {0, 1}
      /\ (r = 0 => q = 4)
  BY Numbers
<1>3. s1 = <<SetRadioFlag(r, FALSE)>> \o <<Disable(r)>>
  BY TwoCommands
<1>4. Over(Over(Over(Over(w1, Off(r)), IF c THEN On(4) ELSE "keep"),
                IF hotspot THEN Off(q) ELSE "keep"), IF c THEN Off(4) ELSE "keep")
        = IF \/ what = "radio" /\ of = r
             \/ what = "air" /\ (of = r \/ (hotspot /\ of = r + 4))
          THEN "off" ELSE "keep"
  BY <1>2 DEF Over, OnOff
<1>5. Writes(<<SetRadioFlag(r, FALSE)>>, what, of, w1)
  BY WritesSetRadioFlag
<1>6. Writes(<<Disable(r)>>, what, of, Off(r)) /\ Writes(<<Disable(q)>>, what, of, Off(q))
  BY <1>2, WritesDisable
<1>7. Writes(Restart(4), what, of, On(4))
  BY <1>2, WritesRestart
<1>8. Writes(<<Down(4)>>, what, of, Off(4))
  BY <1>2, WritesDown
<1> HIDE DEF q, c, On, Off, w1, s1, s2, s3, s4
<1>9. Writes(s1, what, of, Over(w1, Off(r)))
  BY <1>3, <1>5, <1>6, WritesBoth
<1>10. Writes(s2, what, of, IF c THEN On(4) ELSE "keep")
  BY <1>2, <1>7, WritesWhen DEF s2
<1>11. Writes(s3, what, of, IF hotspot THEN Off(q) ELSE "keep")
  BY <1>6, WritesWhen DEF s3
<1>12. Writes(s4, what, of, IF c THEN Off(4) ELSE "keep")
  BY <1>2, <1>8, WritesWhen DEF s4
<1>13. Writes(((s1 \o s2) \o s3) \o s4, what, of,
              Over(Over(Over(Over(w1, Off(r)), IF c THEN On(4) ELSE "keep"),
                   IF hotspot THEN Off(q) ELSE "keep"), IF c THEN Off(4) ELSE "keep"))
  BY <1>9, <1>10, <1>11, <1>12, WritesFour
<1>14. QED
  BY <1>1, <1>4, <1>13, Zenon

\* The two restarts of the public access points.
LEMMA WritesPublicUp ==
    ASSUME NEW what, NEW of
    PROVE  Writes(Restart(4) \o Restart(5), what, of,
                  IF what = "air" /\ of \in Public THEN "on" ELSE "keep")
<1>1. 4 \in Ap /\ 5 \in Ap /\ Public = {4, 5}
  BY Numbers
<1>2. Writes(Restart(4), what, of, IF what = "air" /\ of = 4 THEN "on" ELSE "keep")
  BY <1>1, WritesRestart
<1>3. Writes(Restart(5), what, of, IF what = "air" /\ of = 5 THEN "on" ELSE "keep")
  BY <1>1, WritesRestart
<1>4. Writes(Restart(4) \o Restart(5), what, of,
             Over(IF what = "air" /\ of = 4 THEN "on" ELSE "keep",
                  IF what = "air" /\ of = 5 THEN "on" ELSE "keep"))
  BY <1>2, <1>3, WritesBoth
<1>5. QED
  BY <1>1, <1>4 DEF Over

\* All four access points.
LEMMA WritesReset ==
    ASSUME NEW what, NEW of
    PROVE  Writes(((Restart(0) \o Restart(1)) \o Restart(4)) \o Restart(5), what, of,
                  IF what = "air" /\ of \in Ap THEN "on" ELSE "keep")
<1> DEFINE On(n) == IF what = "air" /\ of = n THEN "on" ELSE "keep"
<1>1. 0 \in Ap /\ 1 \in Ap /\ 4 \in Ap /\ 5 \in Ap /\ Ap = {0, 1, 4, 5}
  BY Numbers
<1>2. /\ Writes(Restart(0), what, of, On(0)) /\ Writes(Restart(1), what, of, On(1))
      /\ Writes(Restart(4), what, of, On(4)) /\ Writes(Restart(5), what, of, On(5))
  BY <1>1, WritesRestart
<1>3. Over(Over(Over(On(0), On(1)), On(4)), On(5)) = IF what = "air" /\ of \in Ap THEN "on" ELSE "keep"
  BY <1>1 DEF Over
<1> HIDE DEF On
<1>4. Writes(((Restart(0) \o Restart(1)) \o Restart(4)) \o Restart(5), what, of,
             Over(Over(Over(On(0), On(1)), On(4)), On(5)))
  BY <1>2, WritesFour
<1>5. QED
  BY <1>3, <1>4, Zenon

\* The access points of a band.
LEMMA WritesDisableBand ==
    ASSUME NEW s \in Radio, NEW hotspot \in BOOLEAN, NEW what, NEW of
    PROVE  Writes(DisableBand(s, hotspot), what, of,
                  IF what \in {"air", "flag", "stale"} /\ of \in {s, s + 4} THEN "off" ELSE "keep")
<1> DEFINE q == s + 4
           w1 == IF what \in {"air", "flag"} /\ of = s THEN "off" ELSE "keep"
           w2 == IF what \in {"air", "flag"} /\ of = q THEN "off" ELSE "keep"
           w3 == IF what # "stale" THEN "keep"
                 ELSE IF of \in {} THEN "on" ELSE IF of \in {s, q} THEN "off" ELSE "keep"
           s3 == <<Return({s, q}, {})>>
<1>1. s \in Ap /\ q \in Ap
  BY Numbers
<1>2. Writes(DisableAp(s, hotspot), what, of, w1) /\ Writes(DisableAp(q, hotspot), what, of, w2)
  BY <1>1, WritesDisableAp
<1>3. Writes(s3, what, of, w3)
  <2>1. {s, q} \in SUBSET Ap /\ {} \in SUBSET Ap
    BY <1>1
  <2>2. QED
    BY <2>1, WritesReturn
<1>4. DisableBand(s, hotspot) = (DisableAp(s, hotspot) \o DisableAp(q, hotspot)) \o s3
  BY Zenon DEF DisableBand
<1>5. Over(Over(w1, w2), w3)
        = IF what \in {"air", "flag", "stale"} /\ of \in {s, s + 4} THEN "off" ELSE "keep"
  BY <1>1 DEF Over
<1> HIDE DEF q, w1, w2, w3, s3
<1>6. Writes(DisableAp(s, hotspot) \o DisableAp(q, hotspot), what, of, Over(w1, w2))
  BY <1>2, WritesBoth
<1>7. Writes((DisableAp(s, hotspot) \o DisableAp(q, hotspot)) \o s3, what, of,
             Over(Over(w1, w2), w3))
  BY <1>3, <1>6, WritesBoth
<1>8. QED
  BY <1>4, <1>5, <1>7, Zenon

\* The commands for a backhaul station do nothing to the access points.
LEMMA WritesSta ==
    ASSUME NEW s \in Sta, NEW f \in Files, NEW what, what # "sta", NEW of
    PROVE  /\ Writes(<<WriteConf(s, f)>>, what, of, "keep")
           /\ Writes(<<Reconfigure(s)>>, what, of, "keep")
           /\ Writes(<<ReturnSta(s)>>, what, of, "keep")
<1>1. WriteConf(s, f) \in Command /\ Reconfigure(s) \in Command /\ ReturnSta(s) \in Command
  BY DEF WriteConf, Reconfigure, ReturnSta, Command
<1>2. /\ Effect(WriteConf(s, f), what, of) = "keep"
      /\ Effect(Reconfigure(s), what, of) = "keep" /\ Effect(ReturnSta(s), what, of) = "keep"
  BY DEF Effect, ForSta, WriteConf, Reconfigure, ReturnSta
<1>3. Writes(<<WriteConf(s, f)>>, what, of, "keep")
  BY <1>1, <1>2, WritesOne
<1>4. Writes(<<Reconfigure(s)>>, what, of, "keep")
  BY <1>1, <1>2, WritesOne
<1>5. Writes(<<ReturnSta(s)>>, what, of, "keep")
  BY <1>1, <1>2, WritesOne
<1>6. QED
  BY <1>3, <1>4, <1>5

\* The networks of a backhaul station: the access points of its band go off.
LEMMA WritesNetworks ==
    ASSUME NEW s \in Sta, s \in Radio, NEW f \in Files, NEW hotspot \in BOOLEAN,
           NEW c \in BOOLEAN, NEW what, what # "sta", NEW of
    PROVE  Writes(<<WriteConf(s, f)>> \o
                  When(c, (<<Reconfigure(s)>> \o DisableBand(s, hotspot)) \o <<ReturnSta(s)>>),
                  what, of,
                  IF c /\ what \in {"air", "flag", "stale"} /\ of \in {s, s + 4}
                  THEN "off" ELSE "keep")
<1> DEFINE w == IF what \in {"air", "flag", "stale"} /\ of \in {s, s + 4} THEN "off" ELSE "keep"
           d == DisableBand(s, hotspot)
           u == (<<Reconfigure(s)>> \o d) \o <<ReturnSta(s)>>
<1>1. Writes(d, what, of, w)
  BY WritesDisableBand
<1>2. /\ Writes(<<WriteConf(s, f)>>, what, of, "keep")
      /\ Writes(<<Reconfigure(s)>>, what, of, "keep")
      /\ Writes(<<ReturnSta(s)>>, what, of, "keep")
  BY WritesSta
<1>3. Over("keep", IF c THEN Over(Over("keep", w), "keep") ELSE "keep") =
        IF c /\ what \in {"air", "flag", "stale"} /\ of \in {s, s + 4} THEN "off" ELSE "keep"
  BY DEF Over
<1> HIDE DEF w, d
<1>4. Writes(<<Reconfigure(s)>> \o d, what, of, Over("keep", w))
  BY <1>1, <1>2, WritesBoth
<1>5. Writes(u, what, of, Over(Over("keep", w), "keep"))
  BY <1>2, <1>4, WritesBoth
<1> HIDE DEF u
<1>6. Writes(When(c, u), what, of, IF c THEN Over(Over("keep", w), "keep") ELSE "keep")
  BY <1>5, WritesWhen
<1>7. Writes(<<WriteConf(s, f)>> \o When(c, u), what, of,
             Over("keep", IF c THEN Over(Over("keep", w), "keep") ELSE "keep"))
  BY <1>2, <1>6, WritesBoth
<1>8. QED
  BY <1>3, <1>7, Zenon DEF d, u

-----------------------------------------------------------------------------
(***************************************************************************)
(* The invariant: where the commands that are left lead to.                *)
(***************************************************************************)

TypeOK ==
    /\ apFlag \in [Ap -> BOOLEAN] /\ radioFlag \in [Radio -> BOOLEAN]
    /\ hostapd \in BOOLEAN /\ nic \in [Ap -> {"off", "on", "down"}]
    /\ conf \in [Sta -> Files] /\ running \in [Sta -> Networks \cup {"none"}]
    /\ todo \in Seq(Command) /\ stale \subseteq Ap /\ staStale \subseteq Sta

AirNow(ap)  == OnOff(nic[ap] = "on")
FlagNow(ap) == OnOff(apFlag[ap])
RadioNow(r) == OnOff(radioFlag[r])
StaleNow(ap) == OnOff(ap \in stale)

\* An access point's values agree, or it is named as one whose do not.
Agree(air, flag, radio, left) == left = "on" \/ (air = "on" <=> flag = "on" /\ radio = "on")

\* After commands s.
AgreeAfter(s, ap) ==
    Agree(Over(AirNow(ap), Net(s, "air", ap)), Over(FlagNow(ap), Net(s, "flag", ap)),
          Over(RadioNow(RadioOf(ap)), Net(s, "radio", RadioOf(ap))),
          Over(StaleNow(ap), Net(s, "stale", ap)))

\* At every command of a call, the values that it leads to agree.
Heading == hostapd => \A ap \in Ap : AgreeAfter(todo, ap)

\* Before a call the values are those that are there.
LEMMA AtRest ==
    ASSUME todo = <<>>, Heading, hostapd, NEW ap \in Ap
    PROVE  Agree(AirNow(ap), FlagNow(ap), RadioNow(RadioOf(ap)), StaleNow(ap))
BY NetNone DEF Heading, AgreeAfter, Over

\* After commands that write these values.
LEMMA AgreeWrites ==
    ASSUME NEW s, NEW ap \in Ap, NEW w1, NEW w2, NEW w3, NEW w4,
           Writes(s, "air", ap, w1), Writes(s, "flag", ap, w2),
           Writes(s, "radio", RadioOf(ap), w3), Writes(s, "stale", ap, w4),
           Agree(Over(AirNow(ap), w1), Over(FlagNow(ap), w2),
                 Over(RadioNow(RadioOf(ap)), w3), Over(StaleNow(ap), w4))
    PROVE  AgreeAfter(s, ap)
BY DEF AgreeAfter, Writes

\* Values are on or off.
LEMMA OnOffs == ASSUME NEW b \in BOOLEAN PROVE OnOff(b) \in {"on", "off"} /\ (OnOff(b) = "on" <=> b)
BY DEF OnOff

\* After commands that write these values, and the end of their call.
LEMMA AgreeAtReturn ==
    ASSUME NEW s, NEW ap \in Ap, NEW driven \in SUBSET Ap, NEW left \in SUBSET Ap,
           NEW wA, NEW wF, NEW wR,
           Writes(s, "air", ap, wA), Writes(s, "flag", ap, wF),
           Writes(s, "radio", RadioOf(ap), wR), Writes(s, "stale", ap, "keep"),
           Agree(Over(AirNow(ap), wA), Over(FlagNow(ap), wF), Over(RadioNow(RadioOf(ap)), wR),
                 IF ap \in left THEN "on" ELSE IF ap \in driven THEN "off" ELSE StaleNow(ap))
    PROVE  AgreeAfter(s \o <<Return(driven, left)>>, ap)
<1> DEFINE t  == <<Return(driven, left)>>
           wS == IF ap \in left THEN "on" ELSE IF ap \in driven THEN "off" ELSE "keep"
<1>1. /\ Writes(t, "air", ap, "keep") /\ Writes(t, "flag", ap, "keep")
      /\ Writes(t, "radio", RadioOf(ap), "keep")
  BY ReturnKeeps
<1>2. Writes(t, "stale", ap, wS)
  BY ReturnNotes
<1>3. /\ Over(wA, "keep") = wA /\ Over(wF, "keep") = wF /\ Over(wR, "keep") = wR
      /\ Over(StaleNow(ap), Over("keep", wS)) =
           IF ap \in left THEN "on" ELSE IF ap \in driven THEN "off" ELSE StaleNow(ap)
  BY DEF Over
<1> HIDE DEF t, wS
<1>4. Writes(s \o t, "air", ap, Over(wA, "keep"))
  BY <1>1, WritesBoth
<1>5. Writes(s \o t, "flag", ap, Over(wF, "keep"))
  BY <1>1, WritesBoth
<1>6. Writes(s \o t, "radio", RadioOf(ap), Over(wR, "keep"))
  BY <1>1, WritesBoth
<1>7. Writes(s \o t, "stale", ap, Over("keep", wS))
  BY <1>2, WritesBoth
<1>8. AgreeAfter(s \o t, ap)
  BY <1>3, <1>4, <1>5, <1>6, <1>7, AgreeWrites
<1>9. QED
  BY <1>8 DEF t

\* wifi_setApEnable, enabling.
LEMMA EnableApAgrees ==
    ASSUME TypeOK, Heading, hostapd, todo = <<>>,
           NEW ap \in Ap, NEW hotspot \in BOOLEAN, NEW prefer \in BOOLEAN, NEW of \in Ap,
           NEW driven, driven = IF ap \in Private \/ hotspot THEN {ap} ELSE {},
           NEW left, left = (IF prefer THEN Public ELSE {}) \cup
                            (IF ap \in Private \/ hotspot THEN {} ELSE {ap})
    PROVE  AgreeAfter(EnableAp(ap, hotspot, prefer) \o <<Return(driven, left)>>, of)
<1> DEFINE s  == EnableAp(ap, hotspot, prefer)
           wA == EnableApWrites(ap, hotspot, prefer, "air", of)
           wF == EnableApWrites(ap, hotspot, prefer, "flag", of)
           wR == EnableApWrites(ap, hotspot, prefer, "radio", RadioOf(of))
           wS == EnableApWrites(ap, hotspot, prefer, "stale", of)
<1>1. driven \in SUBSET Ap /\ left \in SUBSET Ap
  BY DEF Ap
<1>2. apFlag \in [Ap -> BOOLEAN] /\ radioFlag \in [Radio -> BOOLEAN]
  BY DEF TypeOK
<1>3. /\ Writes(s, "air", of, wA) /\ Writes(s, "flag", of, wF)
      /\ Writes(s, "radio", RadioOf(of), wR) /\ Writes(s, "stale", of, wS)
  BY <1>2, WritesEnableAp
<1>4. wS = "keep"
  BY DEF EnableApWrites
<1>5. Agree(AirNow(of), FlagNow(of), RadioNow(RadioOf(of)), StaleNow(of))
  BY AtRest
<1>6. Agree(Over(AirNow(of), wA), Over(FlagNow(of), wF), Over(RadioNow(RadioOf(of)), wR),
            IF of \in left THEN "on" ELSE IF of \in driven THEN "off" ELSE StaleNow(of))
  <2> DEFINE r == RadioOf(ap)
             q == RadioOf(of)
  <2>1. /\ r \in Radio /\ q \in Radio /\ radioFlag[r] \in BOOLEAN /\ radioFlag[q] \in BOOLEAN
        /\ apFlag[of] \in BOOLEAN
        /\ of \in {r, r + 4} <=> q = r
        /\ <<ap, of>> \in {<<1, 5>>, <<5, 1>>} => q = r /\ of # ap
        /\ ap \notin Private => ap \in Public
    BY <1>2, Numbers
  <2>2. wF = (IF of = ap THEN "on" ELSE "keep") /\ wR = "keep"
    BY DEF EnableApWrites
  <2>3. CASE of \in left
    BY <2>2, <2>3 DEF Agree, Over
  <2>4. CASE of \notin left /\ of = ap
    <3>1. of \in driven /\ (ap \in Private \/ hotspot) /\ ~(prefer /\ of \in Public)
      BY <2>4
    <3>2. wA = IF ~radioFlag[r] THEN "off" ELSE "on"
      BY <2>1, <2>4, <3>1 DEF EnableApWrites
    <3>3. QED
      BY <2>1, <2>2, <2>4, <3>1, <3>2 DEF Agree, Over, RadioNow, OnOff
  <2>5. CASE of \notin left /\ of # ap
    <3>1. of \notin driven /\ ~(prefer /\ of \in Public)
      BY <2>5
    <3>2. CASE ~radioFlag[r] /\ q = r
      <4>1. wA = "off"
        BY <2>1, <3>1, <3>2 DEF EnableApWrites
      <4>2. QED
        BY <2>2, <3>2, <4>1 DEF Agree, Over, RadioNow, OnOff
    <3>3. CASE ~(~radioFlag[r] /\ q = r) /\ hotspot /\ <<ap, of>> \in {<<1, 5>>, <<5, 1>>}
      <4>1. wA = OnOff(apFlag[of])
        BY <2>1, <2>5, <3>1, <3>3 DEF EnableApWrites
      <4>2. radioFlag[q]
        BY <2>1, <3>3
      <4>3. QED
        BY <2>1, <2>2, <2>5, <4>1, <4>2 DEF Agree, Over, FlagNow, RadioNow, OnOff
    <3>4. CASE ~(~radioFlag[r] /\ q = r) /\ ~(hotspot /\ <<ap, of>> \in {<<1, 5>>, <<5, 1>>})
      <4>1. wA = "keep"
        BY <2>1, <2>5, <3>1, <3>4 DEF EnableApWrites
      <4>2. QED
        BY <1>5, <2>2, <2>5, <3>1, <4>1 DEF Over
    <3>5. QED
      BY <3>2, <3>3, <3>4
  <2>6. QED
    BY <2>3, <2>4, <2>5
<1> HIDE DEF s, wA, wF, wR, wS
<1>7. AgreeAfter(s \o <<Return(driven, left)>>, of)
  BY <1>1, <1>3, <1>4, <1>6, AgreeAtReturn
<1>8. QED
  BY <1>7 DEF s

\* wifi_setApEnable, disabling.
LEMMA DisableApAgrees ==
    ASSUME Heading, hostapd, todo = <<>>, NEW ap \in Ap, NEW hotspot \in BOOLEAN, NEW of \in Ap
    PROVE  AgreeAfter(DisableAp(ap, hotspot) \o <<Return({ap}, {})>>, of)
<1> DEFINE s == DisableAp(ap, hotspot)
           w == IF of = ap THEN "off" ELSE "keep"
<1>1. {ap} \in SUBSET Ap /\ {} \in SUBSET Ap
  OBVIOUS
<1>2. \A what, n : Writes(s, what, n, IF what \in {"air", "flag"} /\ n = ap THEN "off" ELSE "keep")
  BY WritesDisableAp
<1>3. Agree(AirNow(of), FlagNow(of), RadioNow(RadioOf(of)), StaleNow(of))
  BY AtRest
<1>4. Agree(Over(AirNow(of), w), Over(FlagNow(of), w), Over(RadioNow(RadioOf(of)), "keep"),
            IF of \in {} THEN "on" ELSE IF of \in {ap} THEN "off" ELSE StaleNow(of))
  BY <1>3 DEF Agree, Over
<1> HIDE DEF s
<1>5. /\ Writes(s, "air", of, w) /\ Writes(s, "flag", of, w)
      /\ Writes(s, "radio", RadioOf(of), "keep") /\ Writes(s, "stale", of, "keep")
  BY <1>2
<1> HIDE DEF w
<1>6. AgreeAfter(s \o <<Return({ap}, {})>>, of)
  BY <1>1, <1>4, <1>5, AgreeAtReturn
<1>7. QED
  BY <1>6 DEF s

\* wifi_setRadioEnable, enabling.
LEMMA RadioOnAgrees ==
    ASSUME TypeOK, Heading, hostapd, todo = <<>>,
           NEW r \in Radio, NEW hotspot \in BOOLEAN, NEW of \in Ap,
           NEW driven, driven = IF hotspot THEN {r, r + 4} ELSE {r},
           NEW left, left = IF hotspot THEN {} ELSE {r + 4}
    PROVE  AgreeAfter(RadioOn(r, hotspot) \o <<Return(driven, left)>>, of)
<1> DEFINE s  == RadioOn(r, hotspot)
           wA == IF of = r \/ (hotspot /\ of = r + 4) THEN OnOff(apFlag[of]) ELSE "keep"
           wR == IF RadioOf(of) = r THEN "on" ELSE "keep"
<1>1. /\ driven \in SUBSET Ap /\ left \in SUBSET Ap
      /\ of \in {r, r + 4} <=> RadioOf(of) = r
  BY Numbers
<1>2. apFlag \in [Ap -> BOOLEAN] /\ apFlag[of] \in BOOLEAN
  BY DEF TypeOK
<1>3. \A what, n : Writes(s, what, n,
          IF what = "radio" /\ n = r THEN "on"
          ELSE IF what = "air" /\ (n = r \/ (hotspot /\ n = r + 4)) THEN OnOff(apFlag[n])
          ELSE "keep")
  BY <1>2, WritesRadioOn
<1>4. Agree(AirNow(of), FlagNow(of), RadioNow(RadioOf(of)), StaleNow(of))
  BY AtRest
<1>5. Agree(Over(AirNow(of), wA), Over(FlagNow(of), "keep"), Over(RadioNow(RadioOf(of)), wR),
            IF of \in left THEN "on" ELSE IF of \in driven THEN "off" ELSE StaleNow(of))
  <2>1. CASE of \in {r, r + 4}
    BY <1>1, <1>2, <2>1 DEF Agree, Over, FlagNow, OnOff
  <2>2. CASE of \notin {r, r + 4}
    BY <1>1, <1>4, <2>2 DEF Over
  <2>3. QED
    BY <2>1, <2>2
<1> HIDE DEF s
<1>6. /\ Writes(s, "air", of, wA) /\ Writes(s, "flag", of, "keep")
      /\ Writes(s, "radio", RadioOf(of), wR) /\ Writes(s, "stale", of, "keep")
  BY <1>3
<1> HIDE DEF wA, wR
<1>7. AgreeAfter(s \o <<Return(driven, left)>>, of)
  BY <1>1, <1>5, <1>6, AgreeAtReturn
<1>8. QED
  BY <1>7 DEF s

\* wifi_setRadioEnable, disabling.
LEMMA RadioOffAgrees ==
    ASSUME TypeOK, Heading, hostapd, todo = <<>>,
           NEW r \in Radio, NEW hotspot \in BOOLEAN, NEW of \in Ap,
           NEW driven, driven = IF hotspot THEN {r, r + 4} ELSE {r},
           NEW left, left = IF hotspot THEN {} ELSE {r + 4}
    PROVE  AgreeAfter(RadioOff(r, hotspot) \o <<Return(driven, left)>>, of)
<1> DEFINE s  == RadioOff(r, hotspot)
           wA == IF of = r \/ (hotspot /\ of = r + 4) THEN "off" ELSE "keep"
           wR == IF RadioOf(of) = r THEN "off" ELSE "keep"
<1>1. /\ driven \in SUBSET Ap /\ left \in SUBSET Ap
      /\ of \in {r, r + 4} <=> RadioOf(of) = r
  BY Numbers
<1>2. \A what, n : Writes(s, what, n,
          IF \/ what = "radio" /\ n = r
             \/ what = "air" /\ (n = r \/ (hotspot /\ n = r + 4))
          THEN "off" ELSE "keep")
  BY WritesRadioOff
<1>3. Agree(AirNow(of), FlagNow(of), RadioNow(RadioOf(of)), StaleNow(of))
  BY AtRest
<1>4. Agree(Over(AirNow(of), wA), Over(FlagNow(of), "keep"), Over(RadioNow(RadioOf(of)), wR),
            IF of \in left THEN "on" ELSE IF of \in driven THEN "off" ELSE StaleNow(of))
  <2>1. CASE of \in {r, r + 4}
    BY <1>1, <2>1 DEF Agree, Over
  <2>2. CASE of \notin {r, r + 4}
    BY <1>1, <1>3, <2>2 DEF Over
  <2>3. QED
    BY <2>1, <2>2
<1> HIDE DEF s
<1>5. /\ Writes(s, "air", of, wA) /\ Writes(s, "flag", of, "keep")
      /\ Writes(s, "radio", RadioOf(of), wR) /\ Writes(s, "stale", of, "keep")
  BY <1>2
<1> HIDE DEF wA, wR
<1>6. AgreeAfter(s \o <<Return(driven, left)>>, of)
  BY <1>1, <1>4, <1>5, AgreeAtReturn
<1>7. QED
  BY <1>6 DEF s

\* Calls that do not look at the flags name all the access points that they touch.
LEMMA LeftAgrees ==
    ASSUME Heading, hostapd, todo = <<>>, NEW s, NEW left \in SUBSET Ap, NEW w,
           \A what, n : Writes(s, what, n, IF what = "air" /\ n \in left THEN w ELSE "keep"),
           NEW of \in Ap
    PROVE  AgreeAfter(s \o <<Return({}, left)>>, of)
<1> DEFINE wA == IF of \in left THEN w ELSE "keep"
<1>1. {} \in SUBSET Ap
  OBVIOUS
<1>2. Agree(AirNow(of), FlagNow(of), RadioNow(RadioOf(of)), StaleNow(of))
  BY AtRest
<1>3. Agree(Over(AirNow(of), wA), Over(FlagNow(of), "keep"),
            Over(RadioNow(RadioOf(of)), "keep"),
            IF of \in left THEN "on" ELSE IF of \in {} THEN "off" ELSE StaleNow(of))
  BY <1>2 DEF Agree, Over
<1>4. /\ Writes(s, "air", of, wA) /\ Writes(s, "flag", of, "keep")
      /\ Writes(s, "radio", RadioOf(of), "keep") /\ Writes(s, "stale", of, "keep")
  OBVIOUS
<1> HIDE DEF wA
<1>5. QED
  BY <1>1, <1>3, <1>4, AgreeAtReturn

\* wifi_setSTANetworks.
LEMMA NetworksAgrees ==
    ASSUME Heading, hostapd, todo = <<>>, NEW s \in Sta, s \in Radio, NEW f \in Files,
           NEW hotspot \in BOOLEAN, NEW c \in BOOLEAN, NEW of \in Ap
    PROVE  AgreeAfter(<<WriteConf(s, f)>> \o
                      When(c, (<<Reconfigure(s)>> \o DisableBand(s, hotspot)) \o <<ReturnSta(s)>>), of)
<1> DEFINE t == <<WriteConf(s, f)>> \o
                When(c, (<<Reconfigure(s)>> \o DisableBand(s, hotspot)) \o <<ReturnSta(s)>>)
           w == IF c /\ of \in {s, s + 4} THEN "off" ELSE "keep"
<1>1. \A what, n : what # "sta" =>
          Writes(t, what, n, IF c /\ what \in {"air", "flag", "stale"} /\ n \in {s, s + 4}
                             THEN "off" ELSE "keep")
  BY WritesNetworks
<1>2. Agree(AirNow(of), FlagNow(of), RadioNow(RadioOf(of)), StaleNow(of))
  BY AtRest
<1>3. Agree(Over(AirNow(of), w), Over(FlagNow(of), w), Over(RadioNow(RadioOf(of)), "keep"),
            Over(StaleNow(of), w))
  BY <1>2 DEF Agree, Over
<1> HIDE DEF t
<1>4. /\ Writes(t, "air", of, w) /\ Writes(t, "flag", of, w)
      /\ Writes(t, "radio", RadioOf(of), "keep") /\ Writes(t, "stale", of, w)
  BY <1>1
<1> HIDE DEF w
<1>5. AgreeAfter(t, of)
  BY <1>3, <1>4, AgreeWrites
<1>6. QED
  BY <1>5 DEF t

-----------------------------------------------------------------------------
(***************************************************************************)
(* The commands that a call gives.                                         *)
(***************************************************************************)

\* Commands that none of is for a backhaul station.
NoSta(s) == s \in Seq(Command) /\ \A i \in DOMAIN s : s[i].do \notin ForSta

LEMMA WritesNoSta ==
    ASSUME NEW s, Writes(s, "sta", 0, "keep")
    PROVE  NoSta(s)
<1>1. s \in Seq(Command) /\ Net(s, "sta", 0) = "keep"
  BY DEF Writes
<1>2. ASSUME NEW i \in DOMAIN s, IsLast(s, i, "sta", 0)
      PROVE  FALSE
  <2>1. Net(s, "sta", 0) = Effect(s[i], "sta", 0)
    BY <1>1, <1>2, NetIs
  <2>2. QED
    BY <1>1, <1>2, <2>1 DEF IsLast, Keeps
<1>3. \A i \in DOMAIN s : Keeps(s, i, "sta", 0)
  BY <1>1, <1>2, NetIs
<1>4. QED
  BY <1>1, <1>3 DEF NoSta, Keeps, Effect, ForSta

LEMMA ReturnNoSta ==
    ASSUME NEW s, Writes(s, "sta", 0, "keep"), NEW driven \in SUBSET Ap, NEW left \in SUBSET Ap
    PROVE  NoSta(s \o <<Return(driven, left)>>)
<1>1. Writes(<<Return(driven, left)>>, "sta", 0,
             IF "sta" # "stale" THEN "keep"
             ELSE IF 0 \in left THEN "on" ELSE IF 0 \in driven THEN "off" ELSE "keep")
  BY WritesReturn
<1>2. Writes(<<Return(driven, left)>>, "sta", 0, "keep")
  BY <1>1
<1>3. Writes(s \o <<Return(driven, left)>>, "sta", 0, Over("keep", "keep"))
  BY <1>2, WritesBoth
<1>4. QED
  BY <1>3, WritesNoSta DEF Over

\* wpa_supplicant runs with the networks of the file, or not at all.
Sound(s) == running[s] \in {"none", conf[s].networks}

\* It is still to be told.
Pending(s) == \E i \in DOMAIN todo : todo[i] = Reconfigure(s)

\* A file that is written anew is passed on right after it, and a station that is not
\* passed on runs with its file; the call ends after it has passed the file on.
PassedOn ==
    /\ \A i \in DOMAIN todo : todo[i].do = "conf" =>
          /\ i = 1
          /\ \/ todo[1].to = conf[todo[1].s]
             \/ 2 \in DOMAIN todo /\ todo[2] = Reconfigure(todo[1].s)
    /\ \A i \in DOMAIN todo : todo[i].do = "reconfigure" =>
          i = 1 \/ (i = 2 /\ todo[1].do = "conf")
    /\ \A i \in DOMAIN todo : todo[i].do = "returnSta" =>
          Sound(todo[i].s) \/ \E j \in DOMAIN todo : j < i /\ todo[j] = Reconfigure(todo[i].s)
    /\ \A s \in Sta \ staStale : Sound(s) \/ Pending(s)

IInv == TypeOK /\ Heading /\ PassedOn

\* The first command of a list and the others.
LEMMA HeadTail ==
    ASSUME NEW s \in Seq(Command), s # <<>>
    PROVE  /\ Head(s) \in Command /\ Tail(s) \in Seq(Command) /\ s = <<Head(s)>> \o Tail(s)
           /\ Head(s) = s[1] /\ 1 \in DOMAIN s
           /\ \A i \in DOMAIN Tail(s) : i + 1 \in DOMAIN s /\ Tail(s)[i] = s[i + 1] /\ i \in Nat \ {0}
           /\ \A i \in DOMAIN s : i \in Nat \ {0} /\ (i # 1 => i - 1 \in DOMAIN Tail(s))
<1>1. Head(s) \in Command /\ Tail(s) \in Seq(Command) /\ Head(s) = s[1] /\ 1 \in DOMAIN s
  OBVIOUS
<1>2. Len(Tail(s)) = Len(s) - 1 /\ Len(s) \in Nat \ {0}
  OBVIOUS
<1>3. \A i \in DOMAIN Tail(s) : i + 1 \in DOMAIN s /\ Tail(s)[i] = s[i + 1] /\ i \in Nat \ {0}
  OBVIOUS
<1>4. \A i \in DOMAIN s : i \in Nat \ {0} /\ (i # 1 => i - 1 \in DOMAIN Tail(s))
  OBVIOUS
<1>5. s = <<Head(s)>> \o Tail(s)
  <2> DEFINE d == <<Head(s)>> \o Tail(s)
  <2>1. d \in Seq(Command) /\ Len(d) = Len(s)
    BY <1>1, <1>2
  <2>2. \A i \in 1..Len(s) : d[i] = s[i]
    BY <1>1, <1>2, <1>3
  <2> HIDE DEF d
  <2>3. /\ s = [i \in 1..Len(s) |-> s[i]] /\ d = [i \in 1..Len(d) |-> d[i]]
    BY <2>1
  <2>4. s = d
    BY <2>1, <2>2, <2>3
  <2>5. QED
    BY <2>4 DEF d
<1>6. QED
  BY <1>1, <1>3, <1>4, <1>5

\* Commands have the fields that they use.
LEMMA Fields ==
    ASSUME NEW c \in Command
    PROVE  /\ c.do = "apFlag" => c.ap \in Ap /\ c.to \in BOOLEAN
           /\ c.do = "radioFlag" => c.r \in Radio /\ c.to \in BOOLEAN
           /\ c.do = "nic" => c.ap \in Ap /\ c.to \in {"on", "off"}
           /\ c.do = "down" => c.ap \in Ap
           /\ c.do = "conf" => c.s \in Sta /\ c.to \in Files
           /\ c.do = "reconfigure" => c.s \in Sta /\ c = Reconfigure(c.s)
           /\ c.do = "return" => c.driven \subseteq Ap /\ c.left \subseteq Ap
           /\ c.do = "returnSta" => c.s \in Sta
BY DEF Command, Reconfigure

\* A step keeps the types.
LEMMA StepTyped == ASSUME TypeOK, Step PROVE TypeOK'
<1> DEFINE c == Head(todo)
<1>1. c \in Command /\ Tail(todo) \in Seq(Command)
  BY HeadTail DEF TypeOK, Step
<1>2. todo' \in Seq(Command) /\ hostapd' \in BOOLEAN
  BY <1>1 DEF Step, TypeOK
<1> HIDE DEF c
<1>3. CASE c.do = "apFlag" /\ apFlag' = [apFlag EXCEPT ![c.ap] = c.to]
           /\ UNCHANGED <<radioFlag, nic, staVars, staleVars>>
  BY <1>1, <1>2, <1>3, Fields DEF TypeOK, staVars, staleVars
<1>4. CASE c.do = "radioFlag" /\ radioFlag' = [radioFlag EXCEPT ![c.r] = c.to]
           /\ UNCHANGED <<apFlag, nic, staVars, staleVars>>
  BY <1>1, <1>2, <1>4, Fields DEF TypeOK, staVars, staleVars
<1>5. CASE c.do = "nic" /\ nic' = Driven(c.ap, c.to)
           /\ UNCHANGED <<apFlag, radioFlag, staVars, staleVars>>
  BY <1>1, <1>2, <1>5, Fields DEF TypeOK, staVars, staleVars, Driven
<1>6. CASE c.do = "down" /\ nic' = [nic EXCEPT ![c.ap] = IF @ = "on" THEN "down" ELSE @]
           /\ UNCHANGED <<apFlag, radioFlag, staVars, staleVars>>
  BY <1>1, <1>2, <1>6, Fields DEF TypeOK, staVars, staleVars
<1>7. CASE c.do = "conf" /\ conf' = [conf EXCEPT ![c.s] = c.to]
           /\ UNCHANGED <<apFlag, radioFlag, nic, running, staleVars>>
  BY <1>1, <1>2, <1>7, Fields DEF TypeOK, staVars, staleVars
<1>8. CASE c.do = "reconfigure"
           /\ running' = [running EXCEPT ![c.s] = IF @ = "none" THEN @ ELSE conf[c.s].networks]
           /\ UNCHANGED <<apFlag, radioFlag, nic, conf, staleVars>>
  BY <1>1, <1>2, <1>8, Fields DEF TypeOK, staVars, staleVars, Files
<1>9. CASE c.do = "return" /\ stale' = (stale \ c.driven) \cup c.left
           /\ UNCHANGED <<apFlag, radioFlag, nic, staVars, staStale>>
  BY <1>1, <1>2, <1>9, Fields DEF TypeOK, staVars, staleVars
<1>10. CASE c.do = "returnSta" /\ staStale' = staStale \ {c.s}
           /\ UNCHANGED <<apFlag, radioFlag, nic, staVars, stale>>
  BY <1>1, <1>2, <1>10, Fields DEF TypeOK, staVars, staleVars
<1>11. QED
  BY <1>3, <1>4, <1>5, <1>6, <1>7, <1>8, <1>9, <1>10 DEF Step, c

\* A step writes what its command says.
LEMMA StepWrites ==
    ASSUME TypeOK, Step, hostapd, NEW ap \in Ap, NEW r \in Radio
    PROVE  /\ AirNow(ap)'   = Over(AirNow(ap),   Effect(Head(todo), "air", ap))
           /\ FlagNow(ap)'  = Over(FlagNow(ap),  Effect(Head(todo), "flag", ap))
           /\ RadioNow(r)'  = Over(RadioNow(r),  Effect(Head(todo), "radio", r))
           /\ StaleNow(ap)' = Over(StaleNow(ap), Effect(Head(todo), "stale", ap))
<1> DEFINE c == Head(todo)
<1>1. c \in Command
  BY HeadTail DEF TypeOK, Step
<1>2. /\ apFlag \in [Ap -> BOOLEAN] /\ radioFlag \in [Radio -> BOOLEAN]
      /\ nic \in [Ap -> {"off", "on", "down"}]
  BY DEF TypeOK
<1> HIDE DEF c
<1>3. CASE c.do = "apFlag" /\ apFlag' = [apFlag EXCEPT ![c.ap] = c.to]
           /\ UNCHANGED <<radioFlag, nic, staVars, staleVars>>
  BY <1>1, <1>2, <1>3, Fields
     DEF staleVars, Over, Effect, AirNow, FlagNow, RadioNow, StaleNow, OnOff, c
<1>4. CASE c.do = "radioFlag" /\ radioFlag' = [radioFlag EXCEPT ![c.r] = c.to]
           /\ UNCHANGED <<apFlag, nic, staVars, staleVars>>
  BY <1>1, <1>2, <1>4, Fields
     DEF staleVars, Over, Effect, AirNow, FlagNow, RadioNow, StaleNow, OnOff, c
<1>5. CASE c.do = "nic" /\ nic' = Driven(c.ap, c.to)
           /\ UNCHANGED <<apFlag, radioFlag, staVars, staleVars>>
  BY <1>1, <1>2, <1>5, Fields
     DEF staleVars, Over, Effect, AirNow, FlagNow, RadioNow, StaleNow, OnOff, Driven, c
<1>6. CASE c.do = "down" /\ nic' = [nic EXCEPT ![c.ap] = IF @ = "on" THEN "down" ELSE @]
           /\ UNCHANGED <<apFlag, radioFlag, staVars, staleVars>>
  BY <1>1, <1>2, <1>6, Fields
     DEF staleVars, Over, Effect, AirNow, FlagNow, RadioNow, StaleNow, OnOff, c
<1>7. CASE c.do = "conf" /\ UNCHANGED <<apFlag, radioFlag, nic, running, staleVars>>
  BY <1>7 DEF staleVars, Over, Effect, AirNow, FlagNow, RadioNow, StaleNow, OnOff, c
<1>8. CASE c.do = "reconfigure" /\ UNCHANGED <<apFlag, radioFlag, nic, conf, staleVars>>
  BY <1>8 DEF staleVars, Over, Effect, AirNow, FlagNow, RadioNow, StaleNow, OnOff, c
<1>9. CASE c.do = "return" /\ stale' = (stale \ c.driven) \cup c.left
           /\ UNCHANGED <<apFlag, radioFlag, nic, staVars, staStale>>
  BY <1>9 DEF Over, Effect, AirNow, FlagNow, RadioNow, StaleNow, OnOff, c
<1>10. CASE c.do = "returnSta" /\ UNCHANGED <<apFlag, radioFlag, nic, staVars, stale>>
  BY <1>10 DEF Over, Effect, AirNow, FlagNow, RadioNow, StaleNow, OnOff, c
<1>11. QED
  BY <1>3, <1>4, <1>5, <1>6, <1>7, <1>8, <1>9, <1>10 DEF Step, c

\* A step leaves what its call leads to as it is.
LEMMA StepHeads == ASSUME TypeOK, Heading, Step PROVE Heading'
<1> SUFFICES ASSUME hostapd', NEW ap \in Ap
             PROVE  AgreeAfter(todo, ap)'
  BY DEF Heading
<1> DEFINE c == Head(todo)
           rest == Tail(todo)
           r == RadioOf(ap)
<1>1. hostapd /\ todo # <<>> /\ todo' = rest /\ todo \in Seq(Command)
  BY DEF Step, TypeOK
<1>2. r \in Radio
  BY Numbers
<1>3. c \in Command /\ rest \in Seq(Command) /\ todo = <<c>> \o rest /\ <<c>> \in Seq(Command)
  BY <1>1, HeadTail
<1>4. /\ AirNow(ap)'   = Over(AirNow(ap),   Effect(c, "air", ap))
      /\ FlagNow(ap)'  = Over(FlagNow(ap),  Effect(c, "flag", ap))
      /\ RadioNow(r)'  = Over(RadioNow(r),  Effect(c, "radio", r))
      /\ StaleNow(ap)' = Over(StaleNow(ap), Effect(c, "stale", ap))
  BY <1>1, <1>2, StepWrites
<1> HIDE DEF c, rest
<1>5. ASSUME NEW what, NEW of
      PROVE  Net(todo, what, of) = Over(Effect(c, what, of), Net(rest, what, of))
  <2> DEFINE one == <<c>>
  <2>1. Net(one, what, of) = Effect(c, what, of)
    BY NetOne
  <2>2. one \in Seq(Command) /\ rest \in Seq(Command) /\ todo = one \o rest
    BY <1>3, Zenon
  <2> HIDE DEF one
  <2>3. Net(one \o rest, what, of) = Over(Net(one, what, of), Net(rest, what, of))
    BY <2>2, NetBoth
  <2>4. QED
    BY <2>1, <2>2, <2>3, Zenon
<1>6. \A u, v, w : Over(u, Over(v, w)) = Over(Over(u, v), w)
  BY DEF Over
<1>7. AgreeAfter(todo, ap)
  BY <1>1 DEF Heading
<1>8. AgreeAfter(todo, ap)' =
        Agree(Over(AirNow(ap)', Net(rest, "air", ap)), Over(FlagNow(ap)', Net(rest, "flag", ap)),
              Over(RadioNow(r)', Net(rest, "radio", r)),
              Over(StaleNow(ap)', Net(rest, "stale", ap)))
  BY <1>1, Zenon DEF AgreeAfter, r
<1>9. AgreeAfter(todo, ap) =
        Agree(Over(AirNow(ap), Net(todo, "air", ap)), Over(FlagNow(ap), Net(todo, "flag", ap)),
              Over(RadioNow(r), Net(todo, "radio", r)),
              Over(StaleNow(ap), Net(todo, "stale", ap)))
  BY Zenon DEF AgreeAfter, r
<1>10. QED
  BY <1>4, <1>5, <1>6, <1>7, <1>8, <1>9

\* A step keeps the order in which files are written and passed on.
LEMMA StepPasses == ASSUME TypeOK, PassedOn, Step PROVE PassedOn'
<1> SUFFICES ASSUME NEW c, c = Head(todo), NEW rest, rest = Tail(todo)
             PROVE  PassedOn'
  OBVIOUS
<1>1. /\ todo # <<>> /\ todo' = rest /\ todo \in Seq(Command)
      /\ conf \in [Sta -> Files] /\ running \in [Sta -> Networks \cup {"none"}]
  BY DEF Step, TypeOK
<1>2. /\ c \in Command /\ c = todo[1] /\ 1 \in DOMAIN todo
      /\ \A i \in DOMAIN rest : i + 1 \in DOMAIN todo /\ rest[i] = todo[i + 1] /\ i \in Nat \ {0}
      /\ \A i \in DOMAIN todo : i \in Nat \ {0} /\ (i # 1 => i - 1 \in DOMAIN rest)
  BY <1>1, HeadTail
<1>3. \A i \in DOMAIN todo : todo[i] \in Command
  BY <1>1
<1>4. \A i \in DOMAIN rest : rest[i].do # "conf"
  BY <1>2 DEF PassedOn
<1>5. \A i \in DOMAIN rest : rest[i].do = "reconfigure" => i = 1 /\ c.do = "conf"
  BY <1>2 DEF PassedOn
<1>6. \A s : Reconfigure(s).do = "reconfigure" /\ Reconfigure(s).s = s
  BY DEF Reconfigure
<1>7. CASE c.do = "conf" /\ conf' = [conf EXCEPT ![c.s] = c.to]
           /\ UNCHANGED <<apFlag, radioFlag, nic, running, staleVars>>
  <2>1. c.s \in Sta /\ c.to \in Files
    BY <1>2, <1>7, Fields
  <2>2. \A s \in Sta : s # c.s => (Sound(s)' <=> Sound(s))
    BY <1>1, <1>7, <2>1 DEF Sound
  <2>3. ASSUME NEW s \in Sta, s = c.s, Sound(s)
        PROVE  Sound(s)' \/ (1 \in DOMAIN rest /\ rest[1] = Reconfigure(s))
    <3>1. CASE c.to = conf[c.s]
      <4>1. conf'[c.s] = conf[c.s]
        BY <1>1, <1>7, <2>1, <3>1
      <4>2. QED
        BY <1>7, <2>3, <4>1 DEF Sound
    <3>2. CASE c.to # conf[c.s]
      <4>1. 2 \in DOMAIN todo /\ todo[2] = Reconfigure(c.s)
        BY <1>2, <1>7, <3>2 DEF PassedOn
      <4>2. 1 \in DOMAIN rest /\ rest[1] = todo[2]
        <5>1. 2 - 1 \in DOMAIN rest
          BY <1>2, <4>1
        <5>2. rest[1] = todo[1 + 1]
          BY <1>2, <5>1
        <5>3. QED
          BY <5>1, <5>2
      <4>3. QED
        BY <2>3, <4>1, <4>2
    <3>3. QED
      BY <3>1, <3>2
  <2>4. ASSUME NEW s, Pending(s)
        PROVE  1 \in DOMAIN rest /\ rest[1] = Reconfigure(s)
    <3>1. PICK j \in DOMAIN todo : todo[j] = Reconfigure(s)
      BY <2>4 DEF Pending
    <3>2. j # 1
      BY <1>2, <1>6, <1>7, <3>1
    <3>3. j - 1 \in DOMAIN rest /\ j \in Nat
      BY <1>2, <3>2
    <3>4. rest[j - 1] = Reconfigure(s)
      BY <1>2, <3>1, <3>3
    <3>5. j - 1 = 1
      BY <1>5, <1>6, <3>3, <3>4
    <3>6. QED
      BY <3>3, <3>4, <3>5
  <2>5. ASSUME NEW i \in DOMAIN rest, rest[i].do = "returnSta", NEW s, s = rest[i].s
        PROVE  Sound(s)' \/ \E j \in DOMAIN rest : j < i /\ rest[j] = Reconfigure(s)
    <3>1. /\ i + 1 \in DOMAIN todo /\ rest[i] = todo[i + 1] /\ i \in Nat \ {0}
          /\ s \in Sta
      BY <1>2, <1>3, <2>5, Fields
    <3>2. Sound(s) \/ \E j \in DOMAIN todo : j < i + 1 /\ todo[j] = Reconfigure(s)
      BY <2>5, <3>1 DEF PassedOn
    <3>3. 1 \in DOMAIN rest /\ rest[1] = Reconfigure(s) => i # 1 /\ 1 < i
      <4>1. 1 \in DOMAIN rest /\ rest[1] = Reconfigure(s) => i # 1
        BY <1>6, <2>5
      <4>2. QED
        BY <3>1, <4>1
    <3>4. Sound(s)' \/ (1 \in DOMAIN rest /\ rest[1] = Reconfigure(s))
      <4>1. CASE Sound(s)
        BY <2>2, <2>3, <3>1, <4>1
      <4>2. CASE ~Sound(s)
        BY <2>4, <3>2, <4>2 DEF Pending
      <4>3. QED
        BY <4>1, <4>2
    <3>5. QED
      BY <3>3, <3>4
  <2>6. ASSUME NEW s \in Sta \ staStale'
        PROVE  Sound(s)' \/ Pending(s)'
    <3>1. s \in Sta \ staStale
      BY <1>7, <2>6 DEF staleVars
    <3>2. Sound(s) \/ Pending(s)
      BY <3>1 DEF PassedOn
    <3>3. Sound(s)' \/ (1 \in DOMAIN rest /\ rest[1] = Reconfigure(s))
      BY <2>2, <2>3, <2>4, <3>1, <3>2
    <3>4. QED
      BY <1>1, <3>3 DEF Pending
  <2>7. \A i \in DOMAIN rest : rest[i].do = "returnSta" =>
           Sound(rest[i].s)' \/ \E j \in DOMAIN rest : j < i /\ rest[j] = Reconfigure(rest[i].s)
    BY <2>5
  <2>8. QED
    BY <1>1, <1>4, <1>5, <2>6, <2>7 DEF PassedOn
<1>8. CASE c.do # "conf"
  <2>1. \A i \in DOMAIN rest : rest[i].do # "reconfigure"
    BY <1>5, <1>8
  <2>2. ASSUME NEW s, Pending(s)
        PROVE  c = Reconfigure(s)
    <3>1. PICK j \in DOMAIN todo : todo[j] = Reconfigure(s)
      BY <2>2 DEF Pending
    <3>2. j # 1 => j - 1 \in DOMAIN rest /\ (j - 1) + 1 = j
      BY <1>2
    <3>3. j # 1 => rest[j - 1].do = "reconfigure"
      BY <1>2, <1>6, <3>1, <3>2
    <3>4. QED
      BY <1>2, <2>1, <3>1, <3>2, <3>3
  <2>3. ASSUME NEW s \in Sta, Sound(s) \/ c = Reconfigure(s)
        PROVE  Sound(s)'
    <3>1. CASE c.do = "reconfigure"
               /\ running' = [running EXCEPT ![c.s] = IF @ = "none" THEN @ ELSE conf[c.s].networks]
               /\ UNCHANGED <<apFlag, radioFlag, nic, conf, staleVars>>
      BY <1>1, <1>6, <2>3, <3>1 DEF Sound
    <3>2. CASE c.do # "reconfigure" /\ UNCHANGED staVars
      BY <1>6, <2>3, <3>2 DEF Sound, staVars
    <3>3. QED
      BY <1>8, <3>1, <3>2 DEF Step, staVars
  <2>4. ASSUME NEW i \in DOMAIN rest, rest[i].do = "returnSta", NEW s, s = rest[i].s
        PROVE  Sound(s)'
    <3>1. /\ i + 1 \in DOMAIN todo /\ rest[i] = todo[i + 1] /\ i \in Nat \ {0}
          /\ s \in Sta
      BY <1>2, <1>3, <2>4, Fields
    <3>2. Sound(s) \/ Pending(s)
      BY <2>4, <3>1 DEF PassedOn, Pending
    <3>3. QED
      BY <2>2, <2>3, <3>1, <3>2
  <2>5. ASSUME NEW s \in Sta \ staStale'
        PROVE  Sound(s)'
    <3>1. Sound(s) \/ Pending(s)
      <4>1. CASE s \notin staStale
        BY <4>1 DEF PassedOn
      <4>2. CASE s \in staStale
        <5>1. c.do = "returnSta" /\ c.s = s
          BY <2>5, <4>2 DEF Step, staleVars
        <5>2. QED
          BY <1>2, <5>1 DEF PassedOn, Pending
      <4>3. QED
        BY <4>1, <4>2
    <3>2. QED
      BY <2>2, <2>3, <3>1
  <2>6. \A i \in DOMAIN rest : rest[i].do = "returnSta" => Sound(rest[i].s)'
    BY <2>4
  <2>7. QED
    BY <1>1, <1>4, <2>1, <2>5, <2>6 DEF PassedOn
<1>9. QED
  BY <1>7, <1>8 DEF Step

-----------------------------------------------------------------------------
(***************************************************************************)
(* The calls.                                                              *)
(***************************************************************************)

\* A call of commands that are none for a backhaul station.
LEMMA CallKeeps ==
    ASSUME IInv, NEW commands, Call(commands), NoSta(commands),
           hostapd => \A ap \in Ap : AgreeAfter(commands, ap)
    PROVE  IInv'
<1>1. /\ todo = <<>> /\ todo' = commands /\ commands \in Seq(Command)
      /\ UNCHANGED <<apFlag, radioFlag, hostapd, nic, conf, running, stale, staStale>>
  BY DEF Call, NoSta, airVars, staVars, staleVars
<1>2. TypeOK'
  BY <1>1 DEF IInv, TypeOK
<1>3. Heading'
  <2> SUFFICES ASSUME hostapd', NEW ap \in Ap
               PROVE  AgreeAfter(todo, ap)'
    BY DEF Heading
  <2>1. AgreeAfter(commands, ap)
    BY <1>1
  <2>2. QED
    BY <1>1, <2>1 DEF AgreeAfter, AirNow, FlagNow, RadioNow, StaleNow
<1>4. PassedOn'
  <2>1. \A i \in DOMAIN commands : commands[i].do \notin {"conf", "reconfigure", "returnSta"}
    BY DEF NoSta, ForSta
  <2>2. \A s \in Sta \ staStale : Sound(s)
    <3>1. \A s \in Sta \ staStale : Sound(s) \/ Pending(s)
      BY DEF IInv, PassedOn
    <3>2. \A s : ~Pending(s)
      BY <1>1 DEF Pending
    <3>3. QED
      BY <3>1, <3>2
  <2>3. \A s \in Sta \ staStale' : Sound(s)'
    BY <1>1, <2>2 DEF Sound
  <2>4. QED
    BY <1>1, <2>1, <2>3 DEF PassedOn
<1>5. QED
  BY <1>2, <1>3, <1>4 DEF IInv

\* wifi_setApEnable.
LEMMA SetApEnableKeeps ==
    ASSUME IInv, NEW ap \in Ap, NEW enable \in BOOLEAN, NEW hotspot \in BOOLEAN,
           NEW prefer \in BOOLEAN, SetApEnable(ap, enable, hotspot, prefer)
    PROVE  IInv'
<1>1. /\ TypeOK /\ Heading /\ todo = <<>>
      /\ apFlag \in [Ap -> BOOLEAN] /\ radioFlag \in [Radio -> BOOLEAN]
  BY DEF IInv, TypeOK, SetApEnable, Call
<1>2. CASE enable
  <2> DEFINE s == EnableAp(ap, hotspot, prefer)
             driven == IF ap \in Private \/ hotspot THEN {ap} ELSE {}
             left == (IF prefer THEN Public ELSE {}) \cup
                     (IF ap \in Private \/ hotspot THEN {} ELSE {ap})
             commands == s \o <<Return(driven, left)>>
  <2>1. Call(commands)
    BY <1>2 DEF SetApEnable
  <2>2. driven \in SUBSET Ap /\ left \in SUBSET Ap
    BY DEF Ap
  <2>3. Writes(s, "sta", 0, "keep")
    <3>1. Writes(s, "sta", 0, EnableApWrites(ap, hotspot, prefer, "sta", 0))
      BY <1>1, WritesEnableAp
    <3>2. EnableApWrites(ap, hotspot, prefer, "sta", 0) = "keep"
      BY DEF EnableApWrites
    <3>3. QED
      BY <3>1, <3>2, Zenon
  <2>4. hostapd => \A of \in Ap : AgreeAfter(commands, of)
    BY <1>1, EnableApAgrees
  <2> HIDE DEF s, driven, left
  <2>5. NoSta(commands)
    BY <2>2, <2>3, ReturnNoSta
  <2> HIDE DEF commands
  <2>6. QED
    BY <2>1, <2>4, <2>5, CallKeeps
<1>3. CASE ~enable
  <2> DEFINE s == DisableAp(ap, hotspot)
             commands == s \o <<Return({ap}, {})>>
  <2>1. Call(commands)
    BY <1>3 DEF SetApEnable
  <2>2. {ap} \in SUBSET Ap /\ {} \in SUBSET Ap
    OBVIOUS
  <2>3. Writes(s, "sta", 0, "keep")
    <3>1. Writes(s, "sta", 0, IF "sta" \in {"air", "flag"} /\ 0 = ap THEN "off" ELSE "keep")
      BY WritesDisableAp
    <3>2. QED
      BY <3>1
  <2>4. hostapd => \A of \in Ap : AgreeAfter(commands, of)
    BY <1>1, DisableApAgrees
  <2> HIDE DEF s
  <2>5. NoSta(commands)
    BY <2>2, <2>3, ReturnNoSta
  <2> HIDE DEF commands
  <2>6. QED
    BY <2>1, <2>4, <2>5, CallKeeps
<1>4. QED
  BY <1>2, <1>3

\* wifi_setRadioEnable.
LEMMA SetRadioEnableKeeps ==
    ASSUME IInv, NEW r \in Radio, NEW enable \in BOOLEAN, NEW hotspot \in BOOLEAN,
           SetRadioEnable(r, enable, hotspot)
    PROVE  IInv'
<1> DEFINE s == IF enable THEN RadioOn(r, hotspot) ELSE RadioOff(r, hotspot)
           driven == IF hotspot THEN {r, r + 4} ELSE {r}
           left == IF hotspot THEN {} ELSE {r + 4}
           commands == s \o <<Return(driven, left)>>
<1>1. /\ TypeOK /\ Heading /\ todo = <<>> /\ apFlag \in [Ap -> BOOLEAN]
  BY DEF IInv, TypeOK, SetRadioEnable, Call
<1>2. Call(commands)
  BY DEF SetRadioEnable
<1>3. driven \in SUBSET Ap /\ left \in SUBSET Ap
  BY Numbers
<1>4. Writes(s, "sta", 0, "keep")
  <2>1. Writes(RadioOn(r, hotspot), "sta", 0,
               IF "sta" = "radio" /\ 0 = r THEN "on"
               ELSE IF "sta" = "air" /\ (0 = r \/ (hotspot /\ 0 = r + 4))
                    THEN OnOff(apFlag[0]) ELSE "keep")
    BY <1>1, WritesRadioOn
  <2>2. Writes(RadioOff(r, hotspot), "sta", 0,
               IF \/ "sta" = "radio" /\ 0 = r
                  \/ "sta" = "air" /\ (0 = r \/ (hotspot /\ 0 = r + 4))
               THEN "off" ELSE "keep")
    BY WritesRadioOff
  <2>3. QED
    BY <2>1, <2>2
<1>5. hostapd => \A of \in Ap : AgreeAfter(commands, of)
  <2>1. hostapd => \A of \in Ap : AgreeAfter(RadioOn(r, hotspot) \o <<Return(driven, left)>>, of)
    BY <1>1, RadioOnAgrees
  <2>2. hostapd => \A of \in Ap : AgreeAfter(RadioOff(r, hotspot) \o <<Return(driven, left)>>, of)
    BY <1>1, RadioOffAgrees
  <2> HIDE DEF driven, left
  <2>3. QED
    BY <2>1, <2>2
<1> HIDE DEF s, driven, left
<1>6. NoSta(commands)
  BY <1>3, <1>4, ReturnNoSta
<1> HIDE DEF commands
<1>7. QED
  BY <1>2, <1>5, <1>6, CallKeeps

\* Calls that do not look at the flags.
LEMMA LeftKeeps ==
    ASSUME IInv, NEW s, NEW left \in SUBSET Ap, NEW w,
           Call(s \o <<Return({}, left)>>),
           \A what, n : Writes(s, what, n, IF what = "air" /\ n \in left THEN w ELSE "keep")
    PROVE  IInv'
<1> DEFINE commands == s \o <<Return({}, left)>>
<1>1. Heading /\ todo = <<>> /\ {} \in SUBSET Ap
  BY DEF IInv, Call
<1>2. Writes(s, "sta", 0, "keep")
  <2>1. Writes(s, "sta", 0, IF "sta" = "air" /\ 0 \in left THEN w ELSE "keep")
    OBVIOUS
  <2>2. QED
    BY <2>1
<1>3. hostapd => \A of \in Ap : AgreeAfter(commands, of)
  BY <1>1, LeftAgrees
<1>4. NoSta(commands)
  BY <1>1, <1>2, ReturnNoSta
<1>5. Call(commands)
  OBVIOUS
<1> HIDE DEF commands
<1>6. QED
  BY <1>3, <1>4, <1>5, CallKeeps

\* wifi_setPreferPrivateConnection and the reset.
LEMMA OthersKeep ==
    ASSUME IInv,
           \/ \E enable \in BOOLEAN : SetPreferPrivateConnection(enable)
           \/ Reset
    PROVE  IInv'
<1>1. Public \in SUBSET Ap /\ Ap \in SUBSET Ap
  BY DEF Ap
<1>2. CASE SetPreferPrivateConnection(TRUE)
  <2>1. Call(PublicDown \o <<Return({}, Public)>>)
    BY <1>2 DEF SetPreferPrivateConnection
  <2>2. \A what, n : Writes(PublicDown, what, n,
                            IF what = "air" /\ n \in Public THEN "off" ELSE "keep")
    BY WritesPublicDown
  <2>3. QED
    BY <1>1, <2>1, <2>2, LeftKeeps
<1>3. CASE SetPreferPrivateConnection(FALSE)
  <2> DEFINE s == Restart(4) \o Restart(5)
  <2>1. Call(s \o <<Return({}, Public)>>)
    BY <1>3 DEF SetPreferPrivateConnection
  <2>2. \A what, n : Writes(s, what, n, IF what = "air" /\ n \in Public THEN "on" ELSE "keep")
    BY WritesPublicUp
  <2> HIDE DEF s
  <2>3. QED
    BY <1>1, <2>1, <2>2, LeftKeeps
<1>4. CASE Reset
  <2> DEFINE s == ((Restart(0) \o Restart(1)) \o Restart(4)) \o Restart(5)
  <2>1. Call(s \o <<Return({}, Ap)>>)
    BY <1>4 DEF Reset
  <2>2. \A what, n : Writes(s, what, n, IF what = "air" /\ n \in Ap THEN "on" ELSE "keep")
    BY WritesReset
  <2> HIDE DEF s
  <2>3. QED
    BY <1>1, <2>1, <2>2, LeftKeeps
<1>5. QED
  BY <1>2, <1>3, <1>4

\* A file that differs is written, passed on, and the band is disabled.
Passing(w, r, band, e) == <<w>> \o ((<<r>> \o band) \o <<e>>)

\* Where the commands of wifi_setSTANetworks are in their list t.
PassingPlaces(t, w, r, band, e) ==
    /\ t \in Seq(Command) /\ 1 \in DOMAIN t /\ 2 \in DOMAIN t
    /\ t[1] = w /\ t[2] = r
    /\ \A i \in DOMAIN t : i = 1 \/ i = 2 \/ (i > 2 /\ t[i] = e)
                           \/ (i - 2 \in DOMAIN band /\ t[i] = band[i - 2])

LEMMA Places ==
    ASSUME NEW w \in Command, NEW r \in Command, NEW e \in Command, NEW band \in Seq(Command)
    PROVE  PassingPlaces(Passing(w, r, band, e), w, r, band, e)
<1> DEFINE t == Passing(w, r, band, e)
           u == <<r>> \o band
           v == u \o <<e>>
           n == Len(band)
<1>1. n \in Nat /\ DOMAIN band = 1..n
  OBVIOUS
<1>2. /\ u \in Seq(Command) /\ Len(u) = n + 1 /\ u[1] = r
      /\ \A i \in 2..(n + 1) : u[i] = band[i - 1]
  OBVIOUS
<1> HIDE DEF u, n
<1>3. /\ v \in Seq(Command) /\ Len(v) = n + 2 /\ v[n + 2] = e
      /\ \A i \in 1..(n + 1) : v[i] = u[i]
  BY <1>1, <1>2
<1>4. t = <<w>> \o v
  BY DEF u, Passing
<1> HIDE DEF t, v
<1>5. /\ t \in Seq(Command) /\ Len(t) = n + 3 /\ t[1] = w
      /\ \A i \in 2..(n + 3) : t[i] = v[i - 1]
  BY <1>1, <1>3, <1>4
<1>6. DOMAIN t = 1..(n + 3) /\ t[2] = r
  <2>1. t[2] = v[2 - 1]
    BY <1>1, <1>5
  <2>2. v[1] = u[1]
    BY <1>1, <1>3
  <2>3. QED
    BY <1>1, <1>2, <1>5, <2>1, <2>2
<1>7. ASSUME NEW i \in 3..(n + 2)
      PROVE  i - 2 \in DOMAIN band /\ t[i] = band[i - 2]
  <2>1. t[i] = v[i - 1] /\ v[i - 1] = u[i - 1] /\ u[i - 1] = band[(i - 1) - 1]
    BY <1>1, <1>2, <1>3, <1>5
  <2>2. (i - 1) - 1 = i - 2 /\ i - 2 \in DOMAIN band
    BY <1>1
  <2>3. QED
    BY <2>1, <2>2
<1>8. t[n + 3] = e
  <2>1. t[n + 3] = v[n + 3 - 1] /\ n + 3 - 1 = n + 2
    BY <1>1, <1>5
  <2>2. QED
    BY <1>3, <2>1
<1>9. ASSUME NEW i \in DOMAIN t
      PROVE  i = 1 \/ i = 2 \/ i \in 3..(n + 2) \/ (i = n + 3 /\ i > 2)
  BY <1>1, <1>6
<1>10. 1 \in DOMAIN t /\ 2 \in DOMAIN t
  BY <1>1, <1>6
<1>11. PassingPlaces(t, w, r, band, e)
  BY <1>5, <1>6, <1>7, <1>8, <1>9, <1>10 DEF PassingPlaces
<1>12. QED
  BY <1>11 DEF t

\* wifi_setSTANetworks.
LEMMA SetSTANetworksKeeps ==
    ASSUME IInv, NEW s \in Sta, NEW f \in Files, NEW hotspot \in BOOLEAN,
           SetSTANetworks(s, f, hotspot)
    PROVE  IInv'
<1> DEFINE c == f # conf[s]
           band == DisableBand(s, hotspot)
           commands == <<WriteConf(s, f)>> \o
                       When(c, (<<Reconfigure(s)>> \o band) \o <<ReturnSta(s)>>)
<1>1. s \in Radio
  BY ApEnableAssumption DEF Radio
<1>2. Call(commands)
  BY Zenon DEF SetSTANetworks
<1>3. WriteConf(s, f) \in Command /\ Reconfigure(s) \in Command /\ ReturnSta(s) \in Command
  BY DEF WriteConf, Reconfigure, ReturnSta, Command
<1>4. band \in Seq(Command) /\ NoSta(band)
  <2>1. Writes(band, "sta", 0,
               IF "sta" \in {"air", "flag", "stale"} /\ 0 \in {s, s + 4} THEN "off" ELSE "keep")
    BY <1>1, WritesDisableBand
  <2> HIDE DEF band
  <2>2. Writes(band, "sta", 0, "keep")
    BY <2>1
  <2>3. QED
    BY <2>2, WritesNoSta DEF NoSta
<1>5. hostapd => \A of \in Ap : AgreeAfter(commands, of)
  <2>1. Heading /\ todo = <<>> /\ c \in BOOLEAN
    BY <1>2 DEF IInv, Call
  <2> HIDE DEF c
  <2>2. QED
    BY <1>1, <2>1, NetworksAgrees
<1>6. commands \in Seq(Command)
  <2>1. Writes(commands, "air", 0,
               IF c /\ "air" \in {"air", "flag", "stale"} /\ 0 \in {s, s + 4} THEN "off" ELSE "keep")
    <3>1. c \in BOOLEAN /\ "air" # "sta"
      OBVIOUS
    <3> HIDE DEF c
    <3>2. QED
      BY <1>1, <3>1, WritesNetworks
  <2> HIDE DEF commands
  <2>2. QED
    BY <2>1 DEF Writes
<1> HIDE DEF band, commands
<1>7. /\ todo = <<>> /\ todo' = commands
      /\ UNCHANGED <<apFlag, radioFlag, hostapd, nic, conf, running, stale, staStale>>
  BY <1>2 DEF Call, airVars, staVars, staleVars
<1>8. TypeOK'
  BY <1>6, <1>7 DEF IInv, TypeOK
<1>9. Heading'
  <2> SUFFICES ASSUME hostapd', NEW ap \in Ap
               PROVE  AgreeAfter(todo, ap)'
    BY DEF Heading
  <2>1. AgreeAfter(commands, ap)
    BY <1>5, <1>7
  <2>2. QED
    BY <1>7, <2>1 DEF AgreeAfter, AirNow, FlagNow, RadioNow, StaleNow
<1>10. \A z \in Sta \ staStale' : Sound(z)'
  <2>1. \A z \in Sta \ staStale : Sound(z)
    <3>1. \A z \in Sta \ staStale : Sound(z) \/ Pending(z)
      BY DEF IInv, PassedOn
    <3>2. \A z : ~Pending(z)
      BY <1>7 DEF Pending
    <3>3. QED
      BY <3>1, <3>2
  <2>2. QED
    BY <1>7, <2>1 DEF Sound
<1>11. PassedOn'
  <2>1. CASE ~c
    <3>1. commands = <<WriteConf(s, f)>>
      <4>1. commands = <<WriteConf(s, f)>> \o <<>>
        BY <2>1, Zenon DEF commands, When
      <4>2. QED
        BY <1>3, <4>1
    <3>2. DOMAIN commands = {1} /\ commands[1] = WriteConf(s, f)
      BY <3>1
    <3>3. WriteConf(s, f).do = "conf" /\ WriteConf(s, f).s = s /\ WriteConf(s, f).to = f
      BY DEF WriteConf
    <3>4. f = conf'[s]
      BY <1>7, <2>1
    <3>5. QED
      BY <1>7, <1>10, <3>2, <3>3, <3>4 DEF PassedOn
  <2>2. CASE c
    <3>1. commands = Passing(WriteConf(s, f), Reconfigure(s), band, ReturnSta(s))
      BY <2>2, Zenon DEF commands, When, band, Passing
    <3>2. /\ 1 \in DOMAIN commands /\ 2 \in DOMAIN commands
          /\ commands[1] = WriteConf(s, f) /\ commands[2] = Reconfigure(s)
          /\ \A i \in DOMAIN commands : i = 1 \/ i = 2 \/ (i > 2 /\ commands[i] = ReturnSta(s))
                \/ (i - 2 \in DOMAIN band /\ commands[i] = band[i - 2])
      <4>1. PassingPlaces(Passing(WriteConf(s, f), Reconfigure(s), band, ReturnSta(s)),
                          WriteConf(s, f), Reconfigure(s), band, ReturnSta(s))
        BY <1>3, <1>4, Places
      <4>2. QED
        BY <3>1, <4>1 DEF PassingPlaces
    <3>3. /\ WriteConf(s, f).do = "conf" /\ WriteConf(s, f).s = s
          /\ Reconfigure(s).do = "reconfigure"
          /\ ReturnSta(s).do = "returnSta" /\ ReturnSta(s).s = s
      BY DEF WriteConf, Reconfigure, ReturnSta
    <3>4. \A i \in DOMAIN band : band[i].do \notin {"conf", "reconfigure", "returnSta"}
      BY <1>4 DEF NoSta, ForSta
    <3>5. \A i \in DOMAIN commands : commands[i].do = "conf" => i = 1
      BY <3>2, <3>3, <3>4
    <3>6. \A i \in DOMAIN commands : commands[i].do = "reconfigure" => i = 2
      BY <3>2, <3>3, <3>4
    <3>7. \A i \in DOMAIN commands : commands[i].do = "returnSta" => i > 2 /\ commands[i].s = s
      BY <3>2, <3>3, <3>4
    <3>8. commands[2] = Reconfigure(commands[1].s) /\ commands[1].do = "conf"
      BY <3>2, <3>3
    <3>9. \A i \in DOMAIN commands : commands[i].do = "returnSta" =>
             \E j \in DOMAIN commands : j < i /\ commands[j] = Reconfigure(commands[i].s)
      BY <3>2, <3>7
    <3>10. QED
      BY <1>7, <1>10, <3>2, <3>5, <3>6, <3>8, <3>9 DEF PassedOn
  <2>3. QED
    BY <2>1, <2>2
<1>12. QED
  BY <1>8, <1>9, <1>11 DEF IInv

\* hostapd is started or stopped between two calls.
LEMMA HostApdKeeps ==
    ASSUME IInv, StartHostApd \/ StopHostApd \/ RestartHostApd
    PROVE  IInv'
<1>1. todo = <<>> /\ todo' = <<>> /\ UNCHANGED <<conf, running, staStale>>
  BY DEF StartHostApd, StopHostApd, RestartHostApd, staVars
<1>2. TypeOK'
  BY DEF IInv, TypeOK, StartHostApd, StopHostApd, RestartHostApd, staVars, Started
<1>3. PassedOn'
  <2>1. PassedOn
    BY DEF IInv
  <2>2. QED
    BY <1>1, <2>1 DEF PassedOn, Sound, Pending
<1>4. Heading'
  <2> SUFFICES ASSUME hostapd', NEW ap \in Ap
               PROVE  Agree(AirNow(ap)', FlagNow(ap)', RadioNow(RadioOf(ap))', StaleNow(ap)')
    BY <1>1, NetNone DEF Heading, AgreeAfter, Over
  <2>1. RadioOf(ap) \in Radio
    BY Numbers
  <2>2. CASE StartHostApd /\ ~hostapd
    <3>1. nic'[ap] = "on" /\ apFlag'[ap] /\ radioFlag'[RadioOf(ap)]
      BY <2>1, <2>2 DEF StartHostApd, Started
    <3>2. QED
      BY <3>1 DEF Agree, AirNow, FlagNow, RadioNow, OnOff
  <2>3. CASE StartHostApd /\ hostapd
    <3>1. ap \in stale'
      BY <2>3 DEF StartHostApd
    <3>2. QED
      BY <3>1 DEF Agree, StaleNow, OnOff
  <2>4. CASE StopHostApd
    BY <2>4 DEF StopHostApd
  <2>5. CASE RestartHostApd
    <3>1. ap \in stale'
      BY <2>5 DEF RestartHostApd
    <3>2. QED
      BY <3>1 DEF Agree, StaleNow, OnOff
  <2>6. QED
    BY <2>2, <2>3, <2>4, <2>5
<1>5. QED
  BY <1>2, <1>3, <1>4 DEF IInv

\* A backhaul station is enabled or disabled.
LEMMA SetSTAEnabledKeeps ==
    ASSUME IInv, NEW s \in Sta, NEW enable \in BOOLEAN, SetSTAEnabled(s, enable)
    PROVE  IInv'
<1>1. /\ todo = <<>> /\ todo' = <<>>
      /\ UNCHANGED <<apFlag, radioFlag, hostapd, nic, conf, stale>>
      /\ running' = [running EXCEPT ![s] = IF enable THEN conf[s].networks ELSE "none"]
      /\ staStale' = staStale \ {s}
      /\ conf \in [Sta -> Files] /\ running \in [Sta -> Networks \cup {"none"}]
  BY DEF SetSTAEnabled, airVars, IInv, TypeOK
<1>2. TypeOK'
  BY <1>1 DEF IInv, TypeOK, Files
<1>3. Heading'
  BY <1>1 DEF IInv, Heading, AgreeAfter, AirNow, FlagNow, RadioNow, StaleNow
<1>4. PassedOn'
  <2>1. ASSUME NEW z \in Sta \ staStale'
        PROVE  Sound(z)'
    <3>1. CASE z = s
      BY <1>1, <3>1 DEF Sound
    <3>2. CASE z # s
      <4>1. Sound(z) \/ Pending(z)
        BY <1>1, <2>1, <3>2 DEF IInv, PassedOn
      <4>2. Sound(z)
        BY <1>1, <4>1 DEF Pending
      <4>3. QED
        BY <1>1, <3>2, <4>2 DEF Sound
    <3>3. QED
      BY <3>1, <3>2
  <2>2. QED
    BY <1>1, <2>1 DEF PassedOn
<1>5. QED
  BY <1>2, <1>3, <1>4 DEF IInv

\* The process ends in the middle of a call.
LEMMA AgentDiesKeeps == ASSUME IInv, AgentDies PROVE IInv'
<1>1. /\ todo' = <<>> /\ stale' = Ap /\ staStale' = Sta
      /\ UNCHANGED <<apFlag, radioFlag, hostapd, nic, conf, running>>
  BY DEF AgentDies, airVars, staVars
<1>2. TypeOK'
  BY <1>1 DEF IInv, TypeOK
<1>3. Heading'
  BY <1>1, NetNone DEF Heading, AgreeAfter, Agree, Over, StaleNow, OnOff
<1>4. PassedOn'
  BY <1>1 DEF PassedOn
<1>5. QED
  BY <1>2, <1>3, <1>4 DEF IInv

-----------------------------------------------------------------------------
(***************************************************************************)
(* The theorems.                                                           *)
(***************************************************************************)

LEMMA InitHeads == ASSUME Init PROVE IInv
<1>1. TypeOK
  <2>1. \A s \in Sta : File("none", FALSE) \in Files
    BY DEF File, Files
  <2>2. <<>> \in Seq(Command)
    OBVIOUS
  <2>3. QED
    BY <2>1, <2>2 DEF Init, TypeOK
<1>2. Heading
  <2> SUFFICES ASSUME NEW ap \in Ap
               PROVE  Agree(AirNow(ap), FlagNow(ap), RadioNow(RadioOf(ap)), StaleNow(ap))
    BY NetNone DEF Init, Heading, AgreeAfter, Over
  <2>1. RadioOf(ap) \in Radio
    BY Numbers
  <2>2. QED
    BY <2>1 DEF Init, Agree, AirNow, FlagNow, RadioNow, OnOff
<1>3. PassedOn
  BY DEF Init, PassedOn, Sound
<1>4. QED
  BY <1>1, <1>2, <1>3 DEF IInv

LEMMA NextHeads == ASSUME IInv, [Next]_vars PROVE IInv'
<1>1. CASE Step
  BY <1>1, StepTyped, StepHeads, StepPasses DEF IInv
<1>2. CASE ApiCall(Radio)
  <2>1. CASE \E hotspot \in BOOLEAN, ap \in Ap, enable \in BOOLEAN, prefer \in BOOLEAN :
                SetApEnable(ap, enable, hotspot, prefer)
    BY <2>1, SetApEnableKeeps
  <2>2. CASE \E hotspot \in BOOLEAN, r \in Radio, enable \in BOOLEAN :
                SetRadioEnable(r, enable, hotspot)
    BY <2>2, SetRadioEnableKeeps
  <2>3. CASE \E hotspot \in BOOLEAN, s \in Sta, f \in Files : SetSTANetworks(s, f, hotspot)
    BY <2>3, SetSTANetworksKeeps
  <2>4. \A n \in Networks : File(n, FALSE) \in Files
    BY DEF File, Files
  <2>5. \A s \in Sta : GetSTANetworks(s) \in Files
    BY DEF IInv, TypeOK, GetSTANetworks, File, Files
  <2>6. CASE StartHostApd \/ StopHostApd \/ RestartHostApd
    BY <2>6, HostApdKeeps
  <2>7. CASE (\E enable \in BOOLEAN : SetPreferPrivateConnection(enable)) \/ Reset
    BY <2>7, OthersKeep
  <2>8. CASE \E s \in Sta, enable \in BOOLEAN : SetSTAEnabled(s, enable)
    BY <2>8, SetSTAEnabledKeeps
  <2>9. QED
    BY <1>2, <2>1, <2>2, <2>3, <2>4, <2>5, <2>6, <2>7, <2>8 DEF ApiCall
<1>3. CASE AgentDies
  BY <1>3, AgentDiesKeeps
<1>4. CASE UNCHANGED vars
  BY <1>4 DEF vars, airVars, staVars, staleVars, IInv, TypeOK, Heading, AgreeAfter, AirNow,
              FlagNow, RadioNow, StaleNow, PassedOn, Sound, Pending
<1>5. QED
  BY <1>1, <1>2, <1>3, <1>4 DEF Next

LEMMA Heads == Spec => []IInv
<1>1. Init => IInv
  BY InitHeads
<1>2. IInv /\ [Next]_vars => IInv'
  BY NextHeads
<1>3. QED
  BY <1>1, <1>2, PTL DEF Spec

\* The flags and the air agree between calls, whatever lists of networks there are:
\* wifi_setApEnable, wifi_setRadioEnable and wifi_setSTANetworks leave every access
\* point that they have to do with as its flag and its radio's flag say.
THEOREM FlagsAlwaysAgree == Spec => []FlagsAgree
<1>1. IInv => FlagsAgree
  <2> SUFFICES ASSUME IInv, todo = <<>>, hostapd, NEW ap \in Ap \ stale
               PROVE  OnAir(ap) <=> GetApEnable(ap) /\ GetRadioEnable(RadioOf(ap))
    BY DEF FlagsAgree
  <2>1. Agree(AirNow(ap), FlagNow(ap), RadioNow(RadioOf(ap)), StaleNow(ap))
    BY AtRest DEF IInv
  <2>2. RadioOf(ap) \in Radio
    BY Numbers
  <2>3. apFlag[ap] \in BOOLEAN /\ radioFlag[RadioOf(ap)] \in BOOLEAN
    BY <2>2 DEF IInv, TypeOK
  <2>4. QED
    BY <2>1, <2>3 DEF Agree, AirNow, FlagNow, RadioNow, StaleNow, OnOff, OnAir,
                      GetApEnable, GetRadioEnable
<1>2. QED
  BY <1>1, Heads, PTL

\* Between calls a backhaul station runs with the networks last set, whatever lists a
\* client sets: wifi_setSTANetworks passes a file on exactly if it differs.
THEOREM NetworksAlwaysInUse == Spec => []NetworksInUse
<1>1. IInv => NetworksInUse
  <2> SUFFICES ASSUME IInv, todo = <<>>, NEW s \in Sta \ staStale
               PROVE  running[s] \in {"none", GetSTANetworks(s).networks}
    BY DEF NetworksInUse
  <2>1. Sound(s) \/ Pending(s)
    BY DEF IInv, PassedOn
  <2>2. ~Pending(s)
    BY DEF Pending
  <2>3. QED
    BY <2>1, <2>2 DEF Sound, GetSTANetworks, File
<1>2. QED
  BY <1>1, Heads, PTL
=============================================================================
