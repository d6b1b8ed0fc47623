-------------------------- MODULE FwUpgradeProofs --------------------------
(***************************************************************************)
(* Proofs about FwUpgrade. Types are right for any number of downloading   *)
(* threads; what the flag, the status and the flashed image promise is     *)
(* proved for a client that makes one download at a time, with any URLs,   *)
(* polls, changes of the URL, crashes and reboots between its steps.       *)
(***************************************************************************)
EXTENDS FwUpgrade, TLAPS

\* A reboot, or the end of the process, leaves the types.
LEMMA DownType ==
    ASSUME TypeOK, Down, UNCHANGED <<image, flashed>>,
           \/ UNCHANGED <<conf, status, reason>>
           \/ /\ conf' = [written |-> TRUE, url |-> NoUrl] /\ status' = "absent"
              /\ reason' = RebootReason
    PROVE  TypeOK'
<1>1. /\ flag' \in {0, 1} /\ setting' \in Url \cup {NoUrl}
      /\ pc' \in [Downloader -> Transfer \cup {"idle", "flag", "check", "flash", "reboot"}]
      /\ url' \in [Downloader -> Url \cup {NoUrl}]
      /\ result' \in [Downloader -> {"none", "ok", "err", "400"}]
      /\ \A d \in Downloader : pc'[d] = "idle"
  BY DEF Down
<1>2. update' \in [Downloader -> BOOLEAN]
  BY DEF Down
<1>3. /\ conf' \in [written : BOOLEAN, url : Url \cup {NoUrl}]
      /\ status' \in {"absent", "empty", "ok", "fail"}
      /\ image' \in Image /\ flashed' \in Image
  <2>1. /\ conf \in [written : BOOLEAN, url : Url \cup {NoUrl}]
        /\ status \in {"absent", "empty", "ok", "fail"}
        /\ image \in Image /\ flashed \in Image
    BY DEF TypeOK
  <2>2. [written |-> TRUE, url |-> NoUrl] \in [written : BOOLEAN, url : Url \cup {NoUrl}]
    OBVIOUS
  <2>3. QED
    BY <2>1, <2>2, Zenon
<1>4. reason' \in [what : {"none", "Software_upgrade", "Forced_Software_upgrade"},
                   counter : {0, 1}]
  BY DEF TypeOK, RebootReason, SyscmdOutputOk
<1>5. QED
  BY <1>1, <1>2, <1>3, <1>4 DEF TypeOK

\* Every step of a download keeps the types.
LEMMA StepType ==
    ASSUME TypeOK, NEW d \in Downloader, Step(d)
    PROVE  TypeOK'
<1> USE FwUpgradeAssumption DEF TypeOK, Goto, Return
<1>1. ASSUME NEW upd \in BOOLEAN, DownloadCall(d, upd)
      PROVE  TypeOK'
  <2>1. /\ conf.url \in Url \cup {NoUrl}
        /\ url' = [url EXCEPT ![d] = conf.url] /\ update' = [update EXCEPT ![d] = upd]
        /\ UNCHANGED <<conf, setting, flag, status, image, flashed, reason>>
    BY <1>1 DEF DownloadCall
  <2>2. \/ pc' = [pc EXCEPT ![d] = "idle"] /\ result' = [result EXCEPT ![d] = "err"]
        \/ pc' = [pc EXCEPT ![d] = "idle"] /\ result' = [result EXCEPT ![d] = "400"]
        \/ /\ pc' = [pc EXCEPT ![d] = "flag"] /\ result' = result
           /\ conf.url \in Reachable
    BY <1>1 DEF DownloadCall
  <2>3. update' \in [Downloader -> BOOLEAN]
    BY <2>1
  <2>4. /\ url' \in [Downloader -> Url \cup {NoUrl}]
        /\ pc' \in [Downloader -> Transfer \cup {"idle", "flag", "check", "flash", "reboot"}]
        /\ result' \in [Downloader -> {"none", "ok", "err", "400"}]
    BY <2>1, <2>2
  <2>5. \A e \in Downloader : pc'[e] # "idle" => url'[e] \in Reachable
    BY <2>1, <2>2
  <2>6. QED
    BY <2>1, <2>3, <2>4, <2>5
<1>2. CASE DownloadFlag(d)
  BY <1>2 DEF DownloadFlag, Transfer
<1>2a. CASE DownloadWipe(d)
  <2>1. image' \in Image
    BY <1>2a DEF DownloadWipe, NoImage, Image
  <2>2. QED
    BY <1>2a, <2>1 DEF DownloadWipe, Transfer
<1>3. CASE CurlOpen(d)
  <2>1. image' \in Image
    BY <1>3 DEF CurlOpen, Image
  <2>2. QED
    BY <1>3, <2>1 DEF CurlOpen, Transfer
<1>4. ASSUME NEW ok \in BOOLEAN, CurlEnd(d, ok)
      PROVE  TypeOK'
  <2>1. image' \in Image
    BY <1>4 DEF CurlEnd, Image
  <2>2. QED
    BY <1>4, <2>1 DEF CurlEnd, Transfer
<1>5. CASE StatusOpen(d) \/ StatusWrite(d) \/ DownloadClear(d)
  BY <1>5 DEF StatusOpen, StatusWrite, DownloadClear, Transfer
<1>6. CASE DownloadCheck(d)
  BY <1>6 DEF DownloadCheck
<1>7. CASE DownloadFlash(d)
  BY <1>7 DEF DownloadFlash
<1>8. CASE UpdateReboots(d)
  BY <1>8, DownType DEF UpdateReboots, Reboot
<1>9. QED
  BY <1>1, <1>2, <1>2a, <1>3, <1>4, <1>5, <1>6, <1>7, <1>8 DEF Step

\* Before the first call every variable has its type.
LEMMA InitType == Init => TypeOK
BY FwUpgradeAssumption DEF Init, TypeOK, NoImage, Image

\* Every step keeps the types.
LEMMA NextType == TypeOK /\ [Next]_vars => TypeOK'
<1> SUFFICES ASSUME TypeOK, [Next]_vars PROVE TypeOK'
  OBVIOUS
<1> USE FwUpgradeAssumption
<1>1. CASE (\E u \in Url : SetUrlOpen(u)) \/ SetUrlWrite
  <2>1. UNCHANGED <<flag, image, flashed, pc, url, update, result, reason>>
    BY <1>1 DEF SetUrlOpen, SetUrlWrite
  <2>2. /\ conf' \in [written : BOOLEAN, url : Url \cup {NoUrl}]
        /\ setting' \in Url \cup {NoUrl}
        /\ status' \in {"absent", "empty", "ok", "fail"}
    <3>1. CASE SetUrlWrite
      BY <3>1 DEF SetUrlWrite, TypeOK
    <3>2. ASSUME NEW u \in Url, SetUrlOpen(u)
          PROVE  /\ conf'.written = FALSE /\ conf'.url = conf.url
                 /\ DOMAIN conf' = DOMAIN conf
                 /\ setting' = u /\ status' \in {status, "absent"}
      BY <3>2 DEF SetUrlOpen, TypeOK
    <3>3. QED
      BY <1>1, <3>1, <3>2 DEF SetUrlOpen, TypeOK
  <2>3. QED
    BY <2>1, <2>2 DEF TypeOK
<1>2. CASE RebootNow \/ AgentDies
  BY <1>2, DownType DEF RebootNow, AgentDies, Reboot
<1>2a. CASE ForceReason
  <2>1. /\ UNCHANGED <<conf, setting, flag, status, image, flashed, pc, url, update, result>>
        /\ reason' \in [what : {"none", "Software_upgrade", "Forced_Software_upgrade"},
                        counter : {0, 1}]
    BY <1>2a DEF ForceReason
  <2>2. QED
    BY <2>1 DEF TypeOK
<1>3. CASE UNCHANGED vars
  BY <1>3 DEF vars, TypeOK
<1>4. QED
  BY <1>1, <1>2, <1>2a, <1>3, StepType DEF Next

\* With any number of threads, every variable keeps its type, and only a URL that
\* resolved gets past the checks in front of a transfer.
THEOREM TypeCorrect == Spec => []TypeOK
BY InitType, NextType, PTL DEF Spec

-----------------------------------------------------------------------------
(***************************************************************************)
(* The inductive invariant for one download at a time: how far the image   *)
(* and the status file are at each point of it.                            *)
(***************************************************************************)

\* The client makes one download at a time.
OneDownloader == \A d, e \in Downloader : d = e

\* The image in /firmware is that of the call of d.
Complete(d) == image.by = {d} /\ image.done /\ image.url = url[d]

\* How far the call of d is.
ProgressOf(d) ==
    /\ pc[d] \in {"curl", "transfer"} => status = "absent"
    /\ pc[d] = "curl" => image = NoImage
    /\ pc[d] = "transfer" => image.by = {d} /\ image.url = url[d]
    /\ pc[d] \in {"echo ok", "write ok", "flash"} => Complete(d)
    /\ pc[d] \in {"clear", "check"} /\ status \notin {"absent", "fail"} => Complete(d)
    /\ pc[d] = "flash" => status # "fail"
    /\ pc[d] = "reboot" => flashed.done /\ flashed.url = url[d]

Progress == \A d \in Downloader : ProgressOf(d)

\* What the last call returned and what the status file says.
ReturnedOf(d) ==
    pc[d] = "idle" =>
        /\ result[d] = "ok" => status # "fail"
        /\ result[d] = "err" /\ url[d] # NoUrl => status \in {"absent", "fail"}

Returned == \A d \in Downloader : ReturnedOf(d)

IInv == TypeOK /\ FlagTracksTransfer /\ Progress /\ Returned

\* The inductive invariant holds before the first call.
LEMMA InitIInv == Init => IInv
<1> SUFFICES ASSUME Init PROVE IInv
  OBVIOUS
<1>1. TypeOK
  BY InitType
<1>2. FlagTracksTransfer /\ Progress /\ Returned
  BY DEF Init, FlagTracksTransfer, Progress, ProgressOf, Returned, ReturnedOf, Transfer
<1>3. QED
  BY <1>1, <1>2 DEF IInv

\* A step of the only download keeps the invariant.
LEMMA StepIInv ==
    ASSUME OneDownloader, IInv, NEW d \in Downloader, Step(d)
    PROVE  IInv'
<1> DEFINE Fine == (flag = 1 <=> pc[d] \in Transfer) /\ ProgressOf(d) /\ ReturnedOf(d)
<1>1. TypeOK' /\ \A e \in Downloader : e = d
  BY StepType DEF IInv, OneDownloader
<1>2. Fine
  BY <1>1 DEF IInv, FlagTracksTransfer, Progress, Returned
<1>3. SUFFICES Fine'
  BY <1>1 DEF IInv, FlagTracksTransfer, Progress, Returned
<1>4. /\ DOMAIN pc = Downloader /\ pc = [e \in Downloader |-> pc[e]]
      /\ result = [e \in Downloader |-> result[e]] /\ url = [e \in Downloader |-> url[e]]
      /\ flag \in {0, 1} /\ image \in Image
      /\ pc[d] # "idle" => url[d] # NoUrl
  BY FwUpgradeAssumption DEF IInv, TypeOK
<1>5. ASSUME NEW upd \in BOOLEAN, DownloadCall(d, upd)
      PROVE  Fine'
  <2>1. /\ pc[d] = "idle" /\ UNCHANGED <<flag, status, image, flashed>>
        /\ url'[d] = conf.url
        /\ \/ pc'[d] = "idle" /\ result'[d] = "err" /\ url'[d] = NoUrl
           \/ pc'[d] = "idle" /\ result'[d] = "400"
           \/ pc'[d] = "flag"
    BY <1>4, <1>5 DEF DownloadCall, Goto, Return
  <2>2. QED
    BY <1>2, <2>1 DEF ProgressOf, ReturnedOf, Transfer
<1>6. CASE DownloadFlag(d)
  <2>1. /\ pc'[d] = "wipe" /\ pc[d] = "flag" /\ flag' = 1
        /\ UNCHANGED <<status, image, flashed, url, result>>
    BY <1>4, <1>6 DEF DownloadFlag, Goto
  <2>2. QED
    BY <1>2, <1>4, <2>1 DEF ProgressOf, ReturnedOf, Transfer, Complete
<1>7. CASE DownloadWipe(d)
  <2>1. /\ pc'[d] = "curl" /\ pc[d] = "wipe" /\ status' = "absent" /\ image' = NoImage
        /\ UNCHANGED <<flag, flashed, url, result>>
    BY <1>4, <1>7 DEF DownloadWipe, Goto
  <2>2. QED
    BY <1>2, <1>4, <2>1 DEF ProgressOf, ReturnedOf, Transfer, Complete
<1>8. CASE CurlOpen(d)
  <2>1. /\ pc'[d] = "transfer" /\ pc[d] = "curl"
        /\ image' = [by |-> image.by \cup {d}, url |-> url[d], done |-> FALSE]
        /\ UNCHANGED <<flag, status, flashed, url, result>>
    BY <1>4, <1>8 DEF CurlOpen, Goto
  <2>2. image'.by = {d} /\ image'.url = url'[d]
    BY <1>2, <2>1 DEF ProgressOf, NoImage
  <2>3. QED
    BY <1>2, <2>1, <2>2 DEF ProgressOf, ReturnedOf, Transfer, Complete
<1>9. ASSUME NEW ok \in BOOLEAN, CurlEnd(d, ok)
      PROVE  Fine'
  <2>1. /\ pc[d] = "transfer" /\ pc'[d] = IF ok THEN "echo ok" ELSE "echo fail"
        /\ image' = IF d \in image.by THEN [image EXCEPT !.done = ok] ELSE image
        /\ UNCHANGED <<flag, status, flashed, url, result>>
    BY <1>4, <1>9 DEF CurlEnd, Goto
  <2>2. image'.by = {d} /\ image'.url = url'[d] /\ image'.done = ok
    BY <1>2, <1>4, <2>1 DEF ProgressOf, Image
  <2>3. QED
    BY <1>2, <2>1, <2>2 DEF ProgressOf, ReturnedOf, Transfer, Complete
<1>10. CASE StatusOpen(d)
  <2>1. /\ pc[d] \in {"echo ok", "echo fail"} /\ status' = "empty"
        /\ pc'[d] = IF pc[d] = "echo ok" THEN "write ok" ELSE "write fail"
        /\ UNCHANGED <<flag, image, flashed, url, result>>
    BY <1>4, <1>10 DEF StatusOpen, Goto
  <2>2. QED
    BY <1>2, <1>4, <2>1 DEF ProgressOf, ReturnedOf, Transfer, Complete
<1>11. CASE StatusWrite(d)
  <2>1. /\ pc[d] \in {"write ok", "write fail"} /\ pc'[d] = "clear"
        /\ status' = IF status = "absent" THEN "absent"
                     ELSE IF pc[d] = "write ok" THEN "ok" ELSE "fail"
        /\ UNCHANGED <<flag, image, flashed, url, result>>
    BY <1>4, <1>11 DEF StatusWrite, Goto
  <2>2. QED
    BY <1>2, <1>4, <2>1 DEF ProgressOf, ReturnedOf, Transfer, Complete
<1>12. CASE DownloadClear(d)
  <2>1. /\ pc[d] = "clear" /\ pc'[d] = "check" /\ flag' = 0
        /\ UNCHANGED <<status, image, flashed, url, result>>
    BY <1>4, <1>12 DEF DownloadClear, Goto
  <2>2. QED
    BY <1>2, <1>4, <2>1 DEF ProgressOf, ReturnedOf, Transfer, Complete
<1>13. CASE DownloadCheck(d)
  <2>1. /\ pc[d] = "check" /\ UNCHANGED <<flag, status, image, flashed, url>>
        /\ \/ /\ status \in {"absent", "fail"}
              /\ pc'[d] = "idle" /\ result'[d] = "err"
           \/ /\ status \notin {"absent", "fail"}
              /\ pc'[d] = "flash" /\ result' = result
    BY <1>4, <1>13 DEF DownloadCheck, Goto, Return
  <2>2. QED
    BY <1>2, <1>4, <2>1 DEF ProgressOf, ReturnedOf, Transfer, Complete
<1>14. CASE DownloadFlash(d)
  <2>1. /\ pc[d] = "flash" /\ flashed' = image /\ UNCHANGED <<flag, status, image, url>>
        /\ \/ pc'[d] = "reboot" /\ result' = result
           \/ pc'[d] = "idle" /\ result'[d] = "ok"
    BY <1>4, <1>14 DEF DownloadFlash, Goto, Return
  <2>2. QED
    BY <1>2, <1>4, <2>1 DEF ProgressOf, ReturnedOf, Transfer, Complete
<1>15. CASE UpdateReboots(d)
  <2>1. /\ flag' = 0 /\ pc'[d] = "idle" /\ result'[d] = "none"
    BY <1>4, <1>15 DEF UpdateReboots, Reboot, Down
  <2>2. ProgressOf(d)' /\ ReturnedOf(d)'
    BY <2>1 DEF ProgressOf, ReturnedOf
  <2>3. pc'[d] \notin Transfer
    BY <2>1 DEF Transfer
  <2>4. QED
    BY <2>1, <2>2, <2>3
<1>16. QED
  BY <1>5, <1>6, <1>7, <1>8, <1>9, <1>10, <1>11, <1>12, <1>13, <1>14, <1>15 DEF Step

\* Every step keeps the inductive invariant, as long as there is one download at a time.
LEMMA NextIInv ==
    ASSUME OneDownloader
    PROVE  IInv /\ [Next]_vars => IInv'
<1> SUFFICES ASSUME IInv, [Next]_vars PROVE IInv'
  OBVIOUS
<1>1. TypeOK /\ TypeOK'
  BY NextType DEF IInv
<1>2. CASE (\E u \in Url : SetUrlOpen(u)) \/ SetUrlWrite \/ ForceReason
  <2>1. /\ UNCHANGED <<flag, image, flashed, pc, url, result>>
        /\ status' \in {status, "absent"}
    BY <1>2 DEF SetUrlOpen, SetUrlWrite, ForceReason
  <2>2. QED
    BY <1>1, <2>1 DEF IInv, FlagTracksTransfer, Progress, ProgressOf, Returned, ReturnedOf,
                      Complete
<1>3. CASE RebootNow \/ AgentDies
  <2>1. /\ flag' = 0
        /\ \A d \in Downloader : pc'[d] = "idle" /\ result'[d] = "none"
    BY <1>3 DEF RebootNow, AgentDies, Reboot, Down
  <2>2. Progress' /\ Returned'
    BY <2>1 DEF Progress, ProgressOf, Returned, ReturnedOf
  <2>3. \A d \in Downloader : pc'[d] \notin Transfer
    BY <2>1 DEF Transfer
  <2>4. QED
    BY <1>1, <2>1, <2>2, <2>3 DEF IInv, FlagTracksTransfer
<1>4. CASE UNCHANGED vars
  BY <1>1, <1>4 DEF vars, IInv, FlagTracksTransfer, Progress, ProgressOf, Returned,
                    ReturnedOf, Complete
<1>5. QED
  BY <1>2, <1>3, <1>4, StepIInv DEF Next

\* The inductive invariant holds in every behaviour with one download at a time.
LEMMA InductiveInvariant == ASSUME OneDownloader PROVE Spec => []IInv
BY InitIInv, NextIInv, PTL DEF Spec

\* gDwdInProgressFlag is up exactly while the only download transfers its image.
THEOREM FlagIsTrue == ASSUME OneDownloader PROVE Spec => []FlagTracksTransfer
<1>1. IInv => FlagTracksTransfer
  BY DEF IInv
<1>2. QED
  BY <1>1, InductiveInvariant, PTL

\* A poll during the transfer is answered with 100, whatever file the download before
\* has left and whoever changes the URL meanwhile.
THEOREM PollsSeeTransfer == ASSUME OneDownloader PROVE Spec => []TransferIsReported
<1>1. IInv => TransferIsReported
  <2> SUFFICES ASSUME IInv, NEW d \in Downloader, pc[d] \in {"curl", "transfer"}
               PROVE  DownloadStatus = 100
    BY DEF TransferIsReported
  <2>1. flag = 1
    BY DEF IInv, FlagTracksTransfer, Transfer
  <2>2. status = "absent"
    BY DEF IInv, Progress, ProgressOf
  <2>3. QED
    BY <2>1, <2>2 DEF DownloadStatus
<1>2. QED
  BY <1>1, InductiveInvariant, PTL

\* After a call the status does not contradict what the call returned.
THEOREM StatusIsTrue == ASSUME OneDownloader PROVE Spec => []StatusAgrees
<1>1. IInv /\ OneDownloader => StatusAgrees
  <2> SUFFICES ASSUME IInv, OneDownloader, NEW d \in Downloader, pc[d] = "idle"
               PROVE  /\ result[d] = "ok"  => DownloadStatus \in {200, 0}
                      /\ result[d] = "err" /\ url[d] # NoUrl => DownloadStatus \in {500, 0}
    BY DEF StatusAgrees
  <2>1. flag # 1 /\ status \in {"absent", "empty", "ok", "fail"}
    BY DEF IInv, TypeOK, FlagTracksTransfer, OneDownloader, Transfer
  <2>2. QED
    BY <2>1 DEF IInv, Returned, ReturnedOf, DownloadStatus
<1>2. QED
  BY <1>1, InductiveInvariant, PTL

\* Only a complete image of the URL that the call was made for is flashed, although
\* dload_status goes through a file that others remove and the URL may change.
THEOREM FlashIsComplete == ASSUME OneDownloader PROVE Spec => FlashesCompleteImage
<1>1. IInv /\ [Next]_vars =>
        [\A d \in Downloader : DownloadFlash(d) =>
            flashed'.by = {d} /\ flashed'.done /\ flashed'.url = url[d]]_vars
  BY DEF IInv, Progress, ProgressOf, Complete, DownloadFlash
<1>2. QED
  BY <1>1, InductiveInvariant, PTL DEF Spec, FlashesCompleteImage

\* fwupgrade_hal_update_and_factoryreset reboots only into the image that it has just
\* flashed completely.
THEOREM RebootIsFlashed == ASSUME OneDownloader PROVE Spec => UpdateRebootsFlashed
<1>1. IInv /\ [Next]_vars =>
        [\A d \in Downloader : UpdateReboots(d) =>
            flashed.done /\ flashed.url = url[d]]_vars
  BY DEF IInv, Progress, ProgressOf, UpdateReboots
<1>2. QED
  BY <1>1, InductiveInvariant, PTL DEF Spec, UpdateRebootsFlashed
=============================================================================
