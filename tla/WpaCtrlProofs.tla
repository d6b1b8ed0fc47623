--------------------------- MODULE WpaCtrlProofs ---------------------------
(***************************************************************************)
(* Proofs about WpaCtrl: the safety of the control connections, for any    *)
(* number of stations and of association changes, and that they implement  *)
(* the reports that StaReports promises.                                   *)
(***************************************************************************)
EXTENDS WpaCtrl, TLAPS

\* The last event told, or the association at the attach if that is later: what waits
\* in the socket comes directly behind it.
Told(s) == IF seen[s] > base[s] THEN seen[s] ELSE base[s]

\* Events wait in order and without a gap, and none of them is still to happen: also in
\* the socket of a supplicant that is gone, where later changes are missing.
InOrder ==
    \A s \in Sta :
        /\ seen[s] <= truth[s] /\ base[s] <= truth[s]
        /\ Told(s) + Len(queue[s]) <= truth[s]
        /\ \A i \in DOMAIN queue[s] : queue[s][i] = Told(s) + i

\* The inductive invariant.
IInv == TypeOK /\ WatchdogGuards /\ NeverOrphaned /\ NoGap /\ InOrder

\* NoGap in terms of Told.
LEMMA LiveQueue ==
    ASSUME NoGap, NEW s \in Sta, conn[s] = "live"
    PROVE  /\ Len(queue[s]) = truth[s] - Told(s)
           /\ \A i \in DOMAIN queue[s] : queue[s][i] = Told(s) + i
BY DEF NoGap, Told

\* The inductive invariant holds before anything is registered.
LEMMA InitIInv == Init => IInv
<1> SUFFICES ASSUME Init PROVE IInv
  OBVIOUS
<1>1. TypeOK
  <2>1. /\ retry \in [Sta -> BOOLEAN] /\ watchdog \in [Sta -> BOOLEAN]
        /\ stat \in [Sta -> BOOLEAN] /\ statEvent \in [Sta -> BOOLEAN]
        /\ initialized \in BOOLEAN /\ opened \in [Sta -> BOOLEAN] /\ up \in [Sta -> BOOLEAN]
    BY Zenon DEF Init
  <2>2. /\ queue \in [Sta -> Seq(Nat)]
        /\ \A s \in Sta : conn[s] = "null" /\ queue[s] = <<>>
    BY DEF Init
  <2>3. /\ truth \in [Sta -> Nat] /\ seen \in [Sta -> Nat] /\ base \in [Sta -> Nat]
        /\ conn \in [Sta -> {"null", "live", "stale"}]
    BY DEF Init
  <2>4. QED
    BY <2>1, <2>2, <2>3 DEF TypeOK
<1>2. WatchdogGuards /\ NeverOrphaned /\ NoGap
  BY DEF Init, WatchdogGuards, NeverOrphaned, NoGap
<1>3. InOrder
  BY DEF Init, InOrder, Told
<1>4. QED
  BY <1>1, <1>2, <1>3 DEF IInv

-----------------------------------------------------------------------------
(* What the two helpers of the callbacks do to the invariant.              *)

\* Opening closed connections of running supplicants keeps the invariant.
LEMMA OpenIInv ==
    ASSUME IInv, NEW S \in SUBSET Sta, Open(S),
           \A s \in S : conn[s] = "null" /\ up[s],
           UNCHANGED <<up, truth, seen, retry>>,
           stat' \in [Sta -> BOOLEAN], statEvent' \in [Sta -> BOOLEAN],
           initialized' \in BOOLEAN
    PROVE  IInv'
<1>1. /\ conn'     = [s \in Sta |-> IF s \in S THEN "live" ELSE conn[s]]
      /\ queue'    = [s \in Sta |-> IF s \in S THEN <<>> ELSE queue[s]]
      /\ watchdog' = [s \in Sta |-> watchdog[s] \/ s \in S]
      /\ base'     = [s \in Sta |-> IF s \in S THEN truth[s] ELSE base[s]]
      /\ opened'   = [s \in Sta |-> opened[s] \/ s \in S]
  BY DEF Open
<1>2. TypeOK'
  BY <1>1 DEF IInv, TypeOK
<1>3. WatchdogGuards' /\ NeverOrphaned'
  BY <1>1 DEF IInv, TypeOK, WatchdogGuards, NeverOrphaned
<1>4. ASSUME NEW s \in Sta
      PROVE  \/ /\ s \in S
                /\ Told(s)' = truth[s] /\ seen[s] <= truth[s]
                /\ queue'[s] = <<>> /\ conn'[s] = "live" /\ base'[s] = truth[s]
             \/ /\ s \notin S
                /\ Told(s)' = Told(s) /\ queue'[s] = queue[s] /\ conn'[s] = conn[s]
                /\ base'[s] = base[s]
  BY <1>1 DEF IInv, TypeOK, InOrder, Told
<1>5. NoGap'
  <2> SUFFICES ASSUME NEW s \in Sta, conn'[s] = "live"
               PROVE  /\ Len(queue'[s]) = truth[s] - Told(s)'
                      /\ \A i \in DOMAIN queue'[s] : queue'[s][i] = Told(s)' + i
    BY DEF NoGap, Told
  <2>1. CASE s \in S
    <3>1. Told(s)' = truth[s] /\ queue'[s] = <<>> /\ truth[s] \in Nat
      BY <1>4, <2>1 DEF IInv, TypeOK
    <3>2. QED
      BY <3>1
  <2>2. CASE s \notin S
    BY <1>4, <2>2, LiveQueue DEF IInv
  <2>3. QED
    BY <2>1, <2>2
<1>6. InOrder'
  <2> SUFFICES ASSUME NEW s \in Sta
               PROVE  /\ seen[s] <= truth[s] /\ base'[s] <= truth[s]
                      /\ Told(s)' + Len(queue'[s]) <= truth[s]
                      /\ \A i \in DOMAIN queue'[s] : queue'[s][i] = Told(s)' + i
    BY DEF InOrder
  <2>1. CASE s \in S
    <3>1. /\ Told(s)' = truth[s] /\ queue'[s] = <<>> /\ base'[s] = truth[s]
          /\ seen[s] <= truth[s] /\ truth[s] \in Nat
      BY <1>4, <2>1 DEF IInv, TypeOK
    <3>2. QED
      BY <3>1
  <2>2. CASE s \notin S
    BY <1>4, <2>2 DEF IInv, InOrder
  <2>3. QED
    BY <2>1, <2>2
<1>7. QED
  BY <1>2, <1>3, <1>5, <1>6 DEF IInv

\* Closing a connection, having told all that was waiting or nothing, keeps the
\* invariant.
LEMMA CloseIInv ==
    ASSUME IInv, NEW s \in Sta, CloseAndRetry(s), Drain(s) \/ UNCHANGED seen,
           UNCHANGED <<up, truth, stat, statEvent, initialized>>
    PROVE  IInv'
<1>1. /\ conn'     = [conn EXCEPT ![s] = "null"]
      /\ queue'    = [queue EXCEPT ![s] = <<>>]
      /\ watchdog' = [watchdog EXCEPT ![s] = FALSE]
      /\ retry'    = [retry EXCEPT ![s] = TRUE]
      /\ base' = base /\ opened' = opened
  BY DEF CloseAndRetry
<1>2. /\ seen' \in [Sta -> Nat]
      /\ \A t \in Sta \ {s} : seen'[t] = seen[t]
      /\ seen'[s] <= truth[s] /\ seen'[s] >= seen[s]
  <2>1. CASE queue[s] # <<>> /\ Drain(s)
    <3>1. Len(queue[s]) \in DOMAIN queue[s] /\ Len(queue[s]) \in Nat /\ Len(queue[s]) >= 1
      BY <2>1 DEF IInv, TypeOK
    <3>2. /\ queue[s][Len(queue[s])] = Told(s) + Len(queue[s])
          /\ Told(s) + Len(queue[s]) <= truth[s]
      BY <3>1 DEF IInv, InOrder
    <3>3. Told(s) \in Nat /\ Told(s) >= seen[s]
      BY DEF IInv, TypeOK, Told
    <3>4. seen' = [seen EXCEPT ![s] = queue[s][Len(queue[s])]]
      BY <2>1 DEF Drain
    <3>5. QED
      BY <3>1, <3>2, <3>3, <3>4 DEF IInv, TypeOK
  <2>2. CASE queue[s] = <<>> \/ seen' = seen
    BY <2>2 DEF IInv, TypeOK, InOrder, Drain
  <2>3. QED
    BY <2>1, <2>2
<1>3. TypeOK'
  <2>1. /\ conn' \in [Sta -> {"null", "live", "stale"}] /\ queue' \in [Sta -> Seq(Nat)]
        /\ watchdog' \in [Sta -> BOOLEAN] /\ retry' \in [Sta -> BOOLEAN]
    BY <1>1 DEF IInv, TypeOK
  <2>2. \A t \in Sta : /\ conn'[t] = "null" => queue'[t] = <<>>
                       /\ conn'[t] = "live" => up[t]
    BY <1>1 DEF IInv, TypeOK
  <2>3. QED
    BY <1>1, <1>2, <2>1, <2>2 DEF IInv, TypeOK
<1>4. WatchdogGuards' /\ NeverOrphaned'
  BY <1>1 DEF IInv, TypeOK, WatchdogGuards, NeverOrphaned
<1>5. ASSUME NEW t \in Sta, t # s
      PROVE  /\ Told(t)' = Told(t) /\ queue'[t] = queue[t] /\ conn'[t] = conn[t]
             /\ seen'[t] = seen[t]
  BY <1>1, <1>2, <1>5 DEF IInv, TypeOK, Told
<1>6. /\ conn'[s] = "null" /\ queue'[s] = <<>>
      /\ Told(s)' \in Nat /\ Told(s)' <= truth[s]
  BY <1>1, <1>2 DEF IInv, TypeOK, Told, InOrder
<1>7. NoGap'
  <2> SUFFICES ASSUME NEW t \in Sta, conn'[t] = "live"
               PROVE  /\ Len(queue'[t]) = truth[t] - Told(t)'
                      /\ \A i \in DOMAIN queue'[t] : queue'[t][i] = Told(t)' + i
    BY DEF NoGap, Told
  <2>1. t # s
    BY <1>6
  <2>2. QED
    BY <1>5, <2>1, LiveQueue DEF IInv
<1>8. InOrder'
  <2> SUFFICES ASSUME NEW t \in Sta
               PROVE  /\ seen'[t] <= truth[t] /\ base[t] <= truth[t]
                      /\ Told(t)' + Len(queue'[t]) <= truth[t]
                      /\ \A i \in DOMAIN queue'[t] : queue'[t][i] = Told(t)' + i
    BY <1>1 DEF InOrder
  <2>1. CASE t = s
    <3>1. base[s] <= truth[s] /\ truth[s] \in Nat
      BY DEF IInv, TypeOK, InOrder
    <3>2. QED
      BY <1>2, <1>6, <2>1, <3>1
  <2>2. CASE t # s
    BY <1>5, <2>2 DEF IInv, InOrder
  <2>3. QED
    BY <2>1, <2>2
<1>9. QED
  BY <1>3, <1>4, <1>7, <1>8 DEF IInv

-----------------------------------------------------------------------------
(* The actions.                                                            *)

\* A registration opens stations in order, up to the first that cannot be opened.
LEMMA RegisterIInv == IInv /\ Register => IInv'
<1> SUFFICES ASSUME IInv, Register PROVE IInv'
  OBVIOUS
<1>1. PICK ok \in [Sta -> BOOLEAN] :
         LET reached == {s \in Sta : \A t \in Sta : t < s => ok[t]}
         IN  /\ \A s \in Sta : OpenOk(s, ok[s]) /\ (conn[s] # "null" => ok[s])
             /\ stat' = [s \in Sta |-> stat[s] \/ (s \in reached /\ conn[s] = "null")]
             /\ Open({s \in reached : conn[s] = "null" /\ ok[s]})
             /\ initialized' = \A s \in Sta : ok[s]
  BY DEF Register
<1> DEFINE reached == {s \in Sta : \A t \in Sta : t < s => ok[t]}
           S == {s \in reached : conn[s] = "null" /\ ok[s]}
<1>2. S \in SUBSET Sta /\ \A s \in S : conn[s] = "null" /\ up[s]
  BY <1>1 DEF OpenOk
<1>3. stat' \in [Sta -> BOOLEAN]
  BY <1>1, Zenon
<1>4. initialized' \in BOOLEAN
  BY <1>1, Zenon
<1>5. statEvent' \in [Sta -> BOOLEAN] /\ UNCHANGED <<up, truth, seen, retry>>
  BY DEF Register, IInv, TypeOK
<1>6. Open(S)
  BY <1>1
<1> HIDE DEF S
<1>7. QED
  BY <1>2, <1>3, <1>4, <1>5, <1>6, OpenIInv

\* Telling the first event that waits, or all of them, keeps the connection in order.
LEMMA TellIInv ==
    ASSUME IInv, NEW s \in Sta, conn[s] # "null", IoEvent(s) \/ WatchdogPong(s)
    PROVE  IInv'
<1> DEFINE q == queue[s]
<1>1. /\ UNCHANGED <<up, truth, conn, retry, watchdog, stat, statEvent, initialized,
                      base, opened>>
      /\ \/ /\ q # <<>> /\ seen' = [seen EXCEPT ![s] = q[1]]
            /\ queue' = [queue EXCEPT ![s] = Tail(q)]
         \/ /\ q # <<>> /\ seen' = [seen EXCEPT ![s] = q[Len(q)]]
            /\ queue' = [queue EXCEPT ![s] = <<>>]
         \/ q = <<>> /\ seen' = seen /\ queue' = queue
  BY DEF IoEvent, WatchdogPong, Drain, IInv, TypeOK
<1>2. /\ q \in Seq(Nat) /\ Len(q) \in Nat /\ Told(s) \in Nat /\ truth[s] \in Nat
      /\ Told(s) + Len(q) <= truth[s] /\ base[s] <= truth[s] /\ base[s] \in Nat
      /\ base[s] <= Told(s)
      /\ \A i \in 1..Len(q) : q[i] = Told(s) + i
  BY DEF IInv, TypeOK, InOrder, Told
<1>3. /\ seen' \in [Sta -> Nat] /\ queue' \in [Sta -> Seq(Nat)]
      /\ \A t \in Sta : t # s => seen'[t] = seen[t] /\ queue'[t] = queue[t]
  <2>1. q # <<>> => q[1] \in Nat /\ q[Len(q)] \in Nat
    BY <1>2
  <2>2. Tail(q) \in Seq(Nat) \/ q = <<>>
    BY <1>2
  <2>3. seen \in [Sta -> Nat] /\ queue \in [Sta -> Seq(Nat)] /\ <<>> \in Seq(Nat)
    BY DEF IInv, TypeOK
  <2>4. PICK e, rest : /\ seen' = [seen EXCEPT ![s] = e] \/ seen' = seen
                       /\ queue' = [queue EXCEPT ![s] = rest] \/ queue' = queue
                       /\ q # <<>> => e \in Nat /\ rest \in Seq(Nat)
                       /\ q = <<>> => seen' = seen /\ queue' = queue
    BY <1>1, <2>1, <2>2, <2>3, Zenon
  <2>5. QED
    BY <2>3, <2>4
<1> DEFINE Tells(n) ==
               /\ seen'[s] = IF n > 0 THEN Told(s) + n ELSE seen[s]
               /\ Len(queue'[s]) = Len(q) - n
               /\ \A i \in 1..Len(queue'[s]) : queue'[s][i] = q[i + n]
<1>4. \E n \in 0..Len(q) : Tells(n)
  <2>1. CASE /\ q # <<>> /\ seen' = [seen EXCEPT ![s] = q[1]]
             /\ queue' = [queue EXCEPT ![s] = Tail(q)]
    <3>1. /\ queue'[s] = Tail(q) /\ seen'[s] = q[1]
          /\ 1 \in 1..Len(q) /\ 1 \in 0..Len(q)
          /\ Len(Tail(q)) = Len(q) - 1 /\ \A i \in 1..Len(Tail(q)) : Tail(q)[i] = q[i + 1]
      BY <1>2, <2>1 DEF IInv, TypeOK
    <3>2. q[1] = Told(s) + 1
      BY <1>2, <3>1
    <3>3. Tells(1)
      BY <3>1, <3>2
    <3>4. QED
      BY <3>1, <3>3
  <2>2. CASE /\ q # <<>> /\ seen' = [seen EXCEPT ![s] = q[Len(q)]]
             /\ queue' = [queue EXCEPT ![s] = <<>>]
    <3>1. /\ queue'[s] = <<>> /\ seen'[s] = q[Len(q)]
          /\ Len(q) \in 1..Len(q) /\ Len(q) > 0 /\ Len(q) \in 0..Len(q)
      BY <1>2, <2>2 DEF IInv, TypeOK
    <3>2. q[Len(q)] = Told(s) + Len(q)
      BY <1>2, <3>1
    <3>3. Tells(Len(q))
      BY <1>2, <3>1, <3>2
    <3>4. QED
      BY <3>1, <3>3
  <2>3. CASE q = <<>> /\ seen' = seen /\ queue' = queue
    <3>1. 0 \in 0..Len(q) /\ Tells(0)
      BY <1>2, <2>3
    <3>2. QED
      BY <3>1
  <2>4. QED
    BY <1>1, <2>1, <2>2, <2>3
<1> PICK n \in 0..Len(q) : Tells(n)
  BY <1>4
<1>5. Told(s)' = Told(s) + n /\ seen'[s] <= truth[s]
  <2>1. CASE n > 0
    <3>1. seen'[s] = Told(s) + n
      BY <2>1
    <3>2. /\ Told(s) \in Nat /\ base'[s] = base[s] /\ base[s] \in Nat
          /\ base[s] <= Told(s) /\ Told(s) + Len(q) <= truth[s]
          /\ Len(q) \in Nat /\ truth[s] \in Nat
      BY <1>1, <1>2
    <3>3. seen'[s] > base'[s] /\ seen'[s] <= truth[s]
      BY <2>1, <3>1, <3>2
    <3>4. QED
      BY <3>1, <3>3 DEF Told
  <2>2. CASE n = 0
    <3>1. seen'[s] = seen[s] /\ seen[s] <= truth[s]
      BY <2>2 DEF IInv, InOrder
    <3>2. QED
      BY <1>1, <1>2, <2>2, <3>1 DEF Told
  <2>3. QED
    BY <2>1, <2>2
<1>6. TypeOK'
  BY <1>1, <1>3, <1>5 DEF IInv, TypeOK
<1>7. WatchdogGuards' /\ NeverOrphaned'
  BY <1>1 DEF IInv, WatchdogGuards, NeverOrphaned
<1>8. ASSUME NEW t \in Sta, t # s
      PROVE  Told(t)' = Told(t) /\ queue'[t] = queue[t] /\ seen'[t] = seen[t]
  BY <1>1, <1>3, <1>5, <1>8 DEF Told
<1>9. /\ Len(queue'[s]) = Len(q) - n
      /\ Told(s)' + Len(queue'[s]) <= truth[s]
      /\ \A i \in DOMAIN queue'[s] : queue'[s][i] = Told(s)' + i
  <2>1. Len(queue'[s]) = Len(q) - n /\ n \in Nat /\ Len(queue'[s]) \in Nat
    BY <1>2
  <2>2. ASSUME NEW i \in 1..Len(queue'[s])
        PROVE  queue'[s][i] = Told(s)' + i
    <3>1. i + n \in 1..Len(q) /\ queue'[s][i] = q[i + n]
      BY <1>2, <2>1
    <3>2. q[i + n] = Told(s) + (i + n)
      BY <1>2, <3>1
    <3>3. QED
      BY <1>2, <1>3, <1>5, <2>1, <3>1, <3>2
  <2>3. DOMAIN queue'[s] = 1..Len(queue'[s])
    OBVIOUS
  <2>4. Told(s)' + Len(queue'[s]) <= truth[s]
    BY <1>2, <1>3, <1>5, <2>1
  <2>5. QED
    BY <2>1, <2>2, <2>3, <2>4
<1> HIDE DEF Tells
<1>10. NoGap'
  <2> SUFFICES ASSUME NEW t \in Sta, conn[t] = "live"
               PROVE  /\ Len(queue'[t]) = truth[t] - Told(t)'
                      /\ \A i \in DOMAIN queue'[t] : queue'[t][i] = Told(t)' + i
    BY <1>1 DEF NoGap, Told
  <2>1. CASE t = s
    <3>1. Len(q) = truth[s] - Told(s)
      BY <2>1, LiveQueue DEF IInv
    <3>2. Len(queue'[s]) = truth[s] - Told(s)'
      BY <1>2, <1>5, <1>9, <3>1
    <3>3. QED
      BY <1>9, <2>1, <3>2
  <2>2. CASE t # s
    BY <1>8, <2>2, LiveQueue DEF IInv
  <2>3. QED
    BY <2>1, <2>2
<1>11. InOrder'
  <2> SUFFICES ASSUME NEW t \in Sta
               PROVE  /\ seen'[t] <= truth[t] /\ base[t] <= truth[t]
                      /\ Told(t)' + Len(queue'[t]) <= truth[t]
                      /\ \A i \in DOMAIN queue'[t] : queue'[t][i] = Told(t)' + i
    BY <1>1 DEF InOrder
  <2>1. CASE t = s
    BY <1>2, <1>3, <1>5, <1>9, <2>1
  <2>2. CASE t # s
    BY <1>8, <2>2 DEF IInv, InOrder
  <2>3. QED
    BY <2>1, <2>2
<1>12. QED
  BY <1>6, <1>7, <1>10, <1>11 DEF IInv

\* Starts, stops and association changes of wpa_supplicant keep the invariant.
LEMMA SupplicantIInv ==
    ASSUME IInv, NEW s \in Sta, Supplicant(s)
    PROVE  IInv'
<1>1. CASE SupplicantStart(s)
  <2>1. TypeOK'
    BY <1>1 DEF SupplicantStart, IInv, TypeOK
  <2>2. QED
    BY <1>1, <2>1 DEF SupplicantStart, IInv, WatchdogGuards, NeverOrphaned, NoGap,
                      InOrder, Told
<1>2. CASE SupplicantStop(s)
  <2>1. TypeOK'
    BY <1>2 DEF SupplicantStop, IInv, TypeOK
  <2>2. \A t \in Sta : /\ conn'[t] = "live" => conn[t] = "live"
                        /\ conn'[t] = "null" <=> conn[t] = "null"
    BY <1>2 DEF SupplicantStop, IInv, TypeOK
  <2>3. WatchdogGuards' /\ NeverOrphaned'
    BY <1>2, <2>2 DEF SupplicantStop, IInv, WatchdogGuards, NeverOrphaned
  <2>4. NoGap' /\ InOrder'
    BY <1>2, <2>2 DEF SupplicantStop, IInv, NoGap, InOrder, Told
  <2>5. QED
    BY <2>1, <2>3, <2>4 DEF IInv
<1>3. CASE LinkChange(s)
  <2>1. /\ truth' = [truth EXCEPT ![s] = truth[s] + 1]
        /\ queue' = [queue EXCEPT ![s] = IF conn[s] = "live" THEN Append(queue[s], truth[s] + 1)
                                                              ELSE queue[s]]
        /\ UNCHANGED <<up, conn, seen, retry, watchdog, stat, statEvent,
                       initialized, base, opened>>
    BY <1>3 DEF LinkChange, IInv, TypeOK
  <2>2. conn[s] = "live" => conn[s] # "null"
    OBVIOUS
  <2>3. TypeOK'
    BY <2>1 DEF IInv, TypeOK
  <2>4. WatchdogGuards' /\ NeverOrphaned'
    BY <2>1 DEF IInv, WatchdogGuards, NeverOrphaned
  <2>5. /\ \A t \in Sta : Told(t)' = Told(t)
        /\ \A t \in Sta : t # s => truth'[t] = truth[t] /\ queue'[t] = queue[t]
        /\ truth'[s] = truth[s] + 1 /\ truth[s] \in Nat /\ Told(s) \in Nat
        /\ queue[s] \in Seq(Nat)
        /\ queue'[s] = IF conn[s] = "live" THEN Append(queue[s], truth[s] + 1) ELSE queue[s]
    BY <2>1 DEF IInv, TypeOK, Told
  <2>6. CASE conn[s] = "live"
    <3>1. /\ Len(queue[s]) = truth[s] - Told(s) /\ Len(queue[s]) \in Nat
          /\ \A i \in 1..Len(queue[s]) : queue[s][i] = Told(s) + i
      BY <2>5, <2>6, LiveQueue DEF IInv
    <3>2. /\ queue'[s] \in Seq(Nat) /\ Len(queue'[s]) = Len(queue[s]) + 1
          /\ queue'[s][Len(queue[s]) + 1] = truth[s] + 1
          /\ \A i \in 1..Len(queue[s]) : queue'[s][i] = queue[s][i]
      BY <2>5, <2>6
    <3>3. /\ Len(queue'[s]) = truth'[s] - Told(s)
          /\ \A i \in DOMAIN queue'[s] : queue'[s][i] = Told(s) + i
      <4>1. Len(queue'[s]) = truth'[s] - Told(s)
        BY <2>5, <3>1, <3>2
      <4>2. ASSUME NEW i \in 1..(Len(queue[s]) + 1)
            PROVE  queue'[s][i] = Told(s) + i
        <5>1. CASE i = Len(queue[s]) + 1
          BY <2>5, <3>1, <3>2, <5>1
        <5>2. CASE i # Len(queue[s]) + 1
          BY <3>1, <3>2, <5>2
        <5>3. QED
          BY <5>1, <5>2
      <4>3. DOMAIN queue'[s] = 1..(Len(queue[s]) + 1)
        BY <3>2
      <4>4. QED
        BY <4>1, <4>2, <4>3
    <3>4. NoGap'
      <4> SUFFICES ASSUME NEW t \in Sta, conn[t] = "live"
                   PROVE  /\ Len(queue'[t]) = truth'[t] - Told(t)'
                          /\ \A i \in DOMAIN queue'[t] : queue'[t][i] = Told(t)' + i
        BY <2>1 DEF NoGap, Told
      <4>1. CASE t = s
        BY <2>5, <3>3, <4>1
      <4>2. CASE t # s
        BY <2>5, <4>2, LiveQueue DEF IInv
      <4>3. QED
        BY <4>1, <4>2
    <3>5. InOrder'
      <4> SUFFICES ASSUME NEW t \in Sta
                   PROVE  /\ seen[t] <= truth'[t] /\ base[t] <= truth'[t]
                          /\ Told(t)' + Len(queue'[t]) <= truth'[t]
                          /\ \A i \in DOMAIN queue'[t] : queue'[t][i] = Told(t)' + i
        BY <2>1 DEF InOrder
      <4>1. CASE t = s
        <5>1. seen[s] <= truth[s] /\ base[s] <= truth[s] /\ seen[s] \in Nat /\ base[s] \in Nat
          BY DEF IInv, InOrder, TypeOK
        <5>2. seen[s] <= truth'[s] /\ base[s] <= truth'[s]
          BY <2>5, <5>1
        <5>3. Told(s)' + Len(queue'[s]) <= truth'[s]
          BY <2>5, <3>1, <3>2
        <5>4. \A i \in DOMAIN queue'[s] : queue'[s][i] = Told(s)' + i
          BY <2>5, <3>3
        <5>5. QED
          BY <4>1, <5>2, <5>3, <5>4
      <4>2. CASE t # s
        BY <2>5, <4>2 DEF IInv, InOrder
      <4>3. QED
        BY <4>1, <4>2
    <3>6. QED
      BY <2>3, <2>4, <3>4, <3>5 DEF IInv
  <2>7. CASE conn[s] # "live"
    <3>1. NoGap'
      BY <2>1, <2>5, <2>7 DEF IInv, NoGap, Told
    <3>2. InOrder'
      <4> SUFFICES ASSUME NEW t \in Sta
                   PROVE  /\ seen[t] <= truth'[t] /\ base[t] <= truth'[t]
                          /\ Told(t)' + Len(queue'[t]) <= truth'[t]
                          /\ \A i \in DOMAIN queue'[t] : queue'[t][i] = Told(t)' + i
        BY <2>1 DEF InOrder
      <4>1. /\ seen[t] <= truth[t] /\ base[t] <= truth[t] /\ seen[t] \in Nat
            /\ base[t] \in Nat /\ Told(t) + Len(queue[t]) <= truth[t]
            /\ Told(t) + Len(queue[t]) \in Nat
            /\ \A i \in DOMAIN queue[t] : queue[t][i] = Told(t) + i
        BY DEF IInv, InOrder, TypeOK, Told
      <4>2. /\ truth'[t] = truth[t] \/ truth'[t] = truth[t] + 1
            /\ queue'[t] = queue[t] /\ Told(t)' = Told(t) /\ truth[t] \in Nat
        BY <2>5, <2>7 DEF IInv, TypeOK
      <4>3. QED
        BY <4>1, <4>2
    <3>3. QED
      BY <2>3, <2>4, <3>1, <3>2 DEF IInv
  <2>8. QED
    BY <2>6, <2>7
<1>4. QED
  BY <1>1, <1>2, <1>3 DEF Supplicant

\* Every callback, call and change of the supplicant keeps the inductive invariant.
LEMMA NextIInv == IInv /\ [Next]_vars => IInv'
<1> SUFFICES ASSUME IInv, [Next]_vars PROVE IInv'
  OBVIOUS
<1>1. ASSUME NEW s \in Sta, Callback(s)
      PROVE  IInv'
  <2>1. CASE IoEvent(s)
    BY <2>1, TellIInv DEF IoEvent
  <2>2. CASE WatchdogPong(s)
    BY <2>2, TellIInv DEF WatchdogPong
  <2>3. CASE IoError(s)
    BY <2>3, CloseIInv DEF IoError
  <2>4. CASE WatchdogFails(s)
    BY <2>4, CloseIInv DEF WatchdogFails
  <2>5. CASE StatFires(s)
    <3>1. PICK ok \in BOOLEAN : /\ OpenOk(s, ok)
                                /\ Open(IF ok /\ conn[s] = "null" THEN {s} ELSE {})
      BY <2>5 DEF StatFires
    <3> DEFINE S == IF ok /\ conn[s] = "null" THEN {s} ELSE {}
    <3>2. S \in SUBSET Sta /\ \A t \in S : conn[t] = "null" /\ up[t]
      BY <3>1 DEF OpenOk
    <3>3. statEvent' \in [Sta -> BOOLEAN] /\ stat' \in [Sta -> BOOLEAN]
          /\ initialized' \in BOOLEAN /\ UNCHANGED <<up, truth, seen, retry>>
      BY <2>5 DEF StatFires, IInv, TypeOK
    <3>4. Open(S)
      BY <3>1
    <3> HIDE DEF S
    <3>5. QED
      BY <3>2, <3>3, <3>4, OpenIInv
  <2>6. CASE RetryOpens(s)
    <3>1. /\ {s} \in SUBSET Sta /\ Open({s})
          /\ \A t \in {s} : conn[t] = "null" /\ up[t]
          /\ statEvent' \in [Sta -> BOOLEAN] /\ stat' \in [Sta -> BOOLEAN]
          /\ initialized' \in BOOLEAN /\ UNCHANGED <<up, truth, seen, retry>>
      BY <2>6 DEF RetryOpens, IInv, TypeOK
    <3>2. QED
      BY <3>1, OpenIInv
  <2>7. QED
    BY <1>1, <2>1, <2>2, <2>3, <2>4, <2>5, <2>6 DEF Callback
<1>2. CASE UNCHANGED vars
  BY <1>2 DEF vars, IInv, TypeOK, WatchdogGuards, NeverOrphaned, NoGap, InOrder, Told
<1>3. QED
  BY <1>1, <1>2, RegisterIInv, SupplicantIInv DEF Next

\* The inductive invariant holds in every behaviour.
LEMMA InductiveInvariant == Spec => []IInv
BY InitIInv, NextIInv, PTL DEF Spec

\* In every behaviour the variables have their types, only an open connection holds
\* events, and only one to a running supplicant is attached.
THEOREM TypeCorrect == Spec => []TypeOK
<1>1. IInv => TypeOK
  BY DEF IInv
<1>2. QED
  BY <1>1, InductiveInvariant, PTL

\* Whatever the order of callbacks, the watchdog of a connection runs exactly as long
\* as the connection is open.
THEOREM AlwaysGuarded == Spec => []WatchdogGuards
<1>1. IInv => WatchdogGuards
  BY DEF IInv
<1>2. QED
  BY <1>1, InductiveInvariant, PTL

\* A station that once had a connection always has one or its retry timer.
THEOREM AlwaysRetried == Spec => []NeverOrphaned
<1>1. IInv => NeverOrphaned
  BY DEF IInv
<1>2. QED
  BY <1>1, InductiveInvariant, PTL

\* An attached connection loses, repeats and reorders no event, however many there are.
THEOREM NothingLost == Spec => []NoGap
<1>1. IInv => NoGap
  BY DEF IInv
<1>2. QED
  BY <1>1, InductiveInvariant, PTL

-----------------------------------------------------------------------------
(***************************************************************************)
(* The refinement. A change of the association is a change of StaReports,  *)
(* a callback that tells something is a report, and every other step is a  *)
(* stutter. InOrder is what makes a report one of a newer change that has  *)
(* happened.                                                               *)
(***************************************************************************)

\* Telling of an event that waits is a report of StaReports.
LEMMA WaitingIsNew ==
    ASSUME IInv, NEW s \in Sta, NEW i \in DOMAIN queue[s]
    PROVE  queue[s][i] \in (seen[s] + 1)..truth[s]
<1>1. /\ i \in 1..Len(queue[s]) /\ Len(queue[s]) \in Nat
      /\ seen[s] \in Nat /\ truth[s] \in Nat
  BY DEF IInv, TypeOK
<1>2. Told(s) \in Nat /\ Told(s) >= seen[s]
  BY DEF IInv, TypeOK, Told
<1>3. queue[s][i] = Told(s) + i /\ Told(s) + Len(queue[s]) <= truth[s]
  BY DEF IInv, InOrder
<1>4. QED
  BY <1>1, <1>2, <1>3

\* Telling all that waits reports its last event, if there is one.
LEMMA DrainReports ==
    ASSUME IInv, NEW s \in Sta, Drain(s), UNCHANGED truth
    PROVE  Reports!Report(s) \/ UNCHANGED <<truth, seen>>
<1>1. CASE queue[s] = <<>>
  BY <1>1 DEF Drain, IInv, TypeOK
<1>2. CASE queue[s] # <<>>
  <2>1. Len(queue[s]) \in DOMAIN queue[s]
    BY <1>2 DEF IInv, TypeOK
  <2>2. seen' = [seen EXCEPT ![s] = queue[s][Len(queue[s])]]
    BY <1>2 DEF Drain
  <2>3. QED
    BY <2>1, <2>2, WaitingIsNew DEF Reports!Report
<1>3. QED
  BY <1>1, <1>2

\* The initial states are initial states of StaReports.
LEMMA ReportsInit == Init => Reports!Init
BY DEF Init, Reports!Init

\* Every step is a step of StaReports or a stutter.
LEMMA ReportsStep == IInv /\ [Next]_vars => [Reports!Next]_<<truth, seen>>
<1> SUFFICES ASSUME IInv, [Next]_vars
             PROVE  Reports!Next \/ UNCHANGED <<truth, seen>>
  OBVIOUS
<1>1. CASE Register
  BY <1>1 DEF Register
<1>2. ASSUME NEW s \in Sta, Callback(s)
      PROVE  Reports!Report(s) \/ UNCHANGED <<truth, seen>>
  <2>1. CASE IoEvent(s)
    <3>1. 1 \in DOMAIN queue[s] /\ Head(queue[s]) = queue[s][1]
      BY <2>1 DEF IoEvent, IInv, TypeOK
    <3>2. QED
      BY <2>1, <3>1, WaitingIsNew DEF IoEvent, Reports!Report
  <2>2. CASE WatchdogPong(s)
    BY <2>2, DrainReports DEF WatchdogPong
  <2>3. CASE WatchdogFails(s)
    BY <2>3, DrainReports DEF WatchdogFails
  <2>4. CASE IoError(s) \/ StatFires(s) \/ RetryOpens(s)
    BY <2>4 DEF IoError, StatFires, RetryOpens
  <2>5. QED
    BY <1>2, <2>1, <2>2, <2>3, <2>4 DEF Callback
<1>3. ASSUME NEW s \in Sta, Supplicant(s)
      PROVE  Reports!Change(s) \/ UNCHANGED <<truth, seen>>
  BY <1>3 DEF Supplicant, SupplicantStart, SupplicantStop, LinkChange, Reports!Change
<1>4. CASE UNCHANGED vars
  BY <1>4 DEF vars
<1>5. QED
  BY <1>1, <1>2, <1>3, <1>4 DEF Next, Reports!Next

\* The control connections implement StaReports: across closed connections, restarts
\* of the supplicant and retries, each callback tells of a change that has happened and
\* is newer than the one told before.
THEOREM ImplementsReports == Spec => ReportsSpec
BY InductiveInvariant, ReportsInit, ReportsStep, PTL DEF Spec, ReportsSpec, Reports!Spec
=============================================================================
