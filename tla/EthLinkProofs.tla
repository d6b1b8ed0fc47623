--------------------------- MODULE EthLinkProofs ---------------------------
(***************************************************************************)
(* Theorems about EthLink: the two link threads cannot leave a client with *)
(* an event that contradicts the link, nor tell it LINK_UP three times in  *)
(* a row, for every bound on the subscriptions.                            *)
(***************************************************************************)
EXTENDS EthLink, TLAPS

\* At the start of a process every variable has its type.
LEMMA InitType == Init => TypeOK
<1> SUFFICES ASSUME Init PROVE TypeOK
  OBVIOUS
<1>1. "hal" \in Thread /\ {"no", ""} \subseteq Link /\ 0 \in 0..MaxSubs
  BY EthLinkAssumption DEF Thread, Link
<1>2. QED
  BY <1>1 DEF Init, TypeOK

\* A step of a link thread keeps the types.
LEMMA ThreadType ==
    ASSUME TypeOK, NEW t \in Thread, ThreadStep(t)
    PROVE  TypeOK'
<1>1. CASE WaitEnds(t)
  BY <1>1 DEF WaitEnds, TypeOK, Thread, handlerVars
<1>2. CASE Sample(t)
  BY <1>2 DEF Sample, TypeOK, Thread, handlerVars
<1>3. CASE Tell(t)
  BY <1>3 DEF Tell, Publish, EventOf, TypeOK, Thread, handlerVars
<1>4. QED
  BY <1>1, <1>2, <1>3 DEF ThreadStep

\* A step of main or of the subscription handler keeps the types.
LEMMA HandlerType ==
    ASSUME TypeOK,
           \/ StartServerThread
           \/ \E n \in 0..MaxSubs : Subscribe(n)
           \/ HalInit \/ HalInitAgain \/ HalInitFails \/ RegisterCallbacks
    PROVE  TypeOK'
<1>1. CASE StartServerThread
  BY <1>1 DEF StartServerThread, TypeOK, Thread, handlerVars
<1>2. ASSUME NEW n \in 0..MaxSubs, Subscribe(n) PROVE TypeOK'
  BY <1>2, EthLinkAssumption DEF Subscribe, TypeOK, Thread, threadVars
<1>3. CASE HalInit
  BY <1>3 DEF HalInit, TypeOK, Thread
<1>4. CASE HalInitAgain
  BY <1>4 DEF HalInitAgain, TypeOK, threadVars
<1>5. CASE HalInitFails
  BY <1>5 DEF HalInitFails, TypeOK, threadVars
<1>6. CASE RegisterCallbacks
  BY <1>6 DEF RegisterCallbacks, TypeOK, threadVars
<1>7. QED
  BY <1>1, <1>2, <1>3, <1>4, <1>5, <1>6

\* A new process has the types.
LEMMA NewProcessType == TypeOK /\ NewProcess => TypeOK'
<1> SUFFICES ASSUME TypeOK, NewProcess PROVE TypeOK'
  OBVIOUS
<1>1. "hal" \in Thread /\ {"no", ""} \subseteq Link /\ 0 \in 0..MaxSubs
  BY EthLinkAssumption DEF Thread, Link
<1>2. QED
  BY <1>1 DEF NewProcess, TypeOK

\* Every action keeps the types.
LEMMA NextType == TypeOK /\ [Next]_vars => TypeOK'
<1> SUFFICES ASSUME TypeOK, [Next]_vars PROVE TypeOK'
  OBVIOUS
<1>1. CASE UNCHANGED vars
  BY <1>1 DEF vars, threadVars, handlerVars, TypeOK
<1>2. CASE LinkChange
  BY <1>2 DEF LinkChange, threadVars, handlerVars, TypeOK
<1>3. CASE NullCall \/ Restart
  BY <1>3, NewProcessType DEF NullCall, Restart
<1>4. QED
  BY <1>1, <1>2, <1>3, ThreadType, HandlerType DEF Next

\* The variables of the link threads and of the handler keep their types.
THEOREM TypeCorrect == Spec => []TypeOK
BY InitType, NextType, PTL DEF Spec

-----------------------------------------------------------------------------
(***************************************************************************)
(* The inductive invariant. Which thread told the last event is not        *)
(* recorded anywhere; it is enough that one of them, the last to tell,     *)
(* still has the sample of that event as its previous one.                 *)
(***************************************************************************)

Samples(t) == pc[t] \in {"sample", "tell"}

LastTeller ==
    told # "none" => \E t \in Thread : Samples(t) /\ told = EventOf(prev[t])

\* A thread that waits has told nothing; one that tells has seen a change.
OwnHistory ==
    \A t \in Thread : /\ ~Samples(t) => prev[t] = "no"
                      /\ pc[t] = "tell" => buff[t] # prev[t]

ToldUp(t) == IF prev[t] = "yes" THEN 1 ELSE 0

\* Every LINK_UP since the last LINK_DOWN is the last event of its thread.
UpsCounted == ups <= ToldUp("server") + ToldUp("hal")

\* The inductive invariant.
IInv == TypeOK /\ LastTeller /\ OwnHistory /\ UpsCounted

\* The inductive invariant holds when the process starts.
LEMMA InitIInv == Init => IInv
<1> SUFFICES ASSUME Init PROVE IInv
  OBVIOUS
<1>1. /\ told = "none" /\ ups = 0
      /\ prev["server"] = "no" /\ prev["hal"] = "no"
      /\ \A t \in Thread : prev[t] = "no" /\ pc[t] = "none"
  BY DEF Init, Thread
<1>2. LastTeller /\ OwnHistory
  BY <1>1 DEF LastTeller, OwnHistory
<1>3. UpsCounted
  BY <1>1 DEF UpsCounted, ToldUp
<1>4. QED
  BY <1>2, <1>3, InitType DEF IInv

\* A step of a link thread keeps the inductive invariant.
LEMMA ThreadIInv ==
    ASSUME IInv, NEW t \in Thread, ThreadStep(t)
    PROVE  IInv'
<1>1. TypeOK /\ TypeOK'
  BY ThreadType DEF IInv
<1>2. CASE WaitEnds(t) \/ Sample(t)
  <2>1. /\ prev' = prev /\ told' = told /\ ups' = ups
        /\ \A u \in Thread : /\ Samples(u) => Samples(u)'
                             /\ ~Samples(u)' => ~Samples(u)
    BY <1>1, <1>2 DEF WaitEnds, Sample, Samples, TypeOK, Thread
  <2>2. LastTeller' /\ UpsCounted'
    BY <2>1 DEF IInv, LastTeller, UpsCounted, ToldUp
  <2>3. OwnHistory'
    BY <1>1, <1>2, <2>1 DEF IInv, OwnHistory, WaitEnds, Sample, Samples, TypeOK, Thread
  <2>4. QED
    BY <1>1, <2>2, <2>3 DEF IInv
<1>3. CASE Tell(t)
  <2>1. /\ pc[t] = "tell" /\ buff[t] # prev[t]
        /\ prev' = [prev EXCEPT ![t] = buff[t]]
        /\ pc' = [pc EXCEPT ![t] = "sample"]
        /\ buff' = buff
        /\ told' = EventOf(buff[t])
        /\ ups' = IF told' = "up" THEN ups + 1 ELSE 0
    BY <1>3 DEF Tell, Publish, IInv, OwnHistory, Samples
  <2>2. LastTeller'
    BY <1>1, <2>1 DEF LastTeller, Samples, TypeOK
  <2>3. OwnHistory'
    BY <1>1, <2>1 DEF IInv, OwnHistory, Samples, TypeOK
  <2>4. UpsCounted'
    BY <1>1, <2>1 DEF IInv, UpsCounted, ToldUp, EventOf, TypeOK, Thread
  <2>5. QED
    BY <1>1, <2>2, <2>3, <2>4 DEF IInv
<1>4. QED
  BY <1>2, <1>3 DEF ThreadStep

\* Every action keeps the inductive invariant.
LEMMA NextIInv == IInv /\ [Next]_vars => IInv'
<1> SUFFICES ASSUME IInv, [Next]_vars PROVE IInv'
  OBVIOUS
<1>1. TypeOK /\ TypeOK'
  BY NextType DEF IInv
<1>2. CASE NewProcess
  <2>1. /\ told' = "none" /\ ups' = 0
        /\ prev'["server"] = "no" /\ prev'["hal"] = "no"
        /\ \A t \in Thread : prev'[t] = "no" /\ pc'[t] = "none"
    BY <1>2 DEF NewProcess, Thread
  <2>2. LastTeller' /\ OwnHistory'
    BY <2>1 DEF LastTeller, OwnHistory
  <2>3. UpsCounted'
    BY <2>1 DEF UpsCounted, ToldUp
  <2>4. QED
    BY <1>1, <2>2, <2>3 DEF IInv
<1>3. CASE StartServerThread \/ HalInit
  <2>1. /\ prev' = prev /\ buff' = buff /\ told' = told /\ ups' = ups
        /\ \A u \in Thread : pc[u] = pc'[u] \/ ~(Samples(u) \/ Samples(u)')
    BY <1>1, <1>3 DEF StartServerThread, HalInit, Samples, TypeOK, Thread
  <2>2. LastTeller' /\ OwnHistory' /\ UpsCounted'
    BY <2>1 DEF IInv, LastTeller, OwnHistory, UpsCounted, ToldUp, Samples
  <2>3. QED
    BY <1>1, <2>2 DEF IInv
<1>4. CASE \/ UNCHANGED vars \/ LinkChange \/ HalInitAgain \/ HalInitFails
           \/ RegisterCallbacks \/ \E n \in 0..MaxSubs : Subscribe(n)
  <2>1. UNCHANGED <<pc, prev, buff, told, ups>>
    BY <1>4 DEF vars, threadVars, LinkChange, HalInitAgain, HalInitFails,
                RegisterCallbacks, Subscribe
  <2>2. LastTeller' /\ OwnHistory' /\ UpsCounted'
    BY <2>1 DEF IInv, LastTeller, OwnHistory, UpsCounted, ToldUp, Samples
  <2>3. QED
    BY <1>1, <2>2 DEF IInv
<1>5. QED
  BY <1>2, <1>3, <1>4, ThreadIInv DEF Next, NullCall, Restart

\* The inductive invariant holds in every behaviour.
LEMMA InductiveInvariant == Spec => []IInv
BY InitIInv, NextIInv, PTL DEF Spec

\* When no thread has anything left to tell, the last event is that of the link,
\* however the samples and the publications of the two threads interleaved.
THEOREM LastEventIsTheLink == Spec => []SettledAgrees
<1>1. IInv => SettledAgrees
  BY DEF IInv, LastTeller, SettledAgrees, Settled, Samples
<1>2. QED
  BY <1>1, InductiveInvariant, PTL

\* LINK_UP is told at most twice without a LINK_DOWN between.
THEOREM OneUpTooMany == Spec => []UpsBounded
<1>1. IInv => UpsBounded
  BY DEF IInv, UpsCounted, ToldUp, UpsBounded, TypeOK
<1>2. QED
  BY <1>1, InductiveInvariant, PTL
=============================================================================
