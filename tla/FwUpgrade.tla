----------------------------- MODULE FwUpgrade -----------------------------
(***************************************************************************)
(* source/fwupgrade/fwupgrade_hal.c: the download URL file, the download   *)
(* and flashing of an image, the status other threads poll meanwhile, and  *)
(* the reboot that follows.                                                *)
(*                                                                         *)
(* fwupgrade_hal_download blocks for the whole transfer, so the status and *)
(* the URL are used by other threads between any two of its steps.         *)
(***************************************************************************)
EXTENDS Naturals, FiniteSets

CONSTANTS
    Downloader,    \* threads that call fwupgrade_hal_download or ..._update_and_factoryreset
    Url,           \* download URLs
    Reachable,     \* those whose host gethostbyname resolves
    NoUrl          \* there is no /tmp/httpDwnld.conf

ASSUME FwUpgradeAssumption == Reachable \subseteq Url /\ NoUrl \notin Url

VARIABLES
    conf,          \* /tmp/httpDwnld.conf: none, written, or empty (opened "w", not yet written)
    setting,       \* the URL set_download_url is about to write, NoUrl if none
    flag,          \* gDwdInProgressFlag
    status,        \* /tmp/xconf/dload_status
    image,         \* the file in /firmware/imagedwld
    flashed,       \* the image the flasher script was last given
    pc,            \* where the downloader is
    url,           \* the URL its call works on
    update,        \* its call is fwupgrade_hal_update_and_factoryreset
    result,        \* how its last call ended
    reason         \* the reboot reason in syscfg: which, and its reboot counter

vars == <<conf, setting, flag, status, image, flashed, pc, url, update, result, reason>>

NoImage == [by |-> {}, url |-> NoUrl, done |-> FALSE]

Init ==
    /\ conf = [written |-> TRUE, url |-> NoUrl]
    /\ setting = NoUrl
    /\ flag = 0
    /\ status = "absent"
    /\ image = NoImage
    /\ flashed = NoImage
    /\ pc     = [d \in Downloader |-> "idle"]
    /\ url    = [d \in Downloader |-> NoUrl]
    /\ update = [d \in Downloader |-> FALSE]
    /\ result = [d \in Downloader |-> "none"]
    /\ reason = [what |-> "none", counter |-> 0]

-----------------------------------------------------------------------------
(* fwupgrade_hal_get_download_status *)

DownloadStatus ==
    CASE status = "fail"          -> 500
      [] status \in {"ok", "empty"} -> 200     \* atoi("") is 0
      [] OTHER                    -> IF flag = 1 THEN 100 ELSE 0

-----------------------------------------------------------------------------
(* fwupgrade_hal_set_download_url *)

\* get_download_url returns only from a written file; set_download_url drops the
\* status unless the URL is the one already there, and truncates the file.
SetUrlOpen(u) ==
    /\ setting = NoUrl /\ conf.written
    /\ status' = IF conf.url = u THEN status ELSE "absent"
    /\ conf' = [conf EXCEPT !.written = FALSE]
    /\ setting' = u
    /\ UNCHANGED <<flag, image, flashed, pc, url, update, result, reason>>

SetUrlWrite ==
    /\ setting # NoUrl
    /\ conf' = [written |-> TRUE, url |-> setting]
    /\ setting' = NoUrl
    /\ UNCHANGED <<flag, status, image, flashed, pc, url, update, result, reason>>

-----------------------------------------------------------------------------
(* fwupgrade_hal_download *)

Goto(d, at) == pc' = [pc EXCEPT ![d] = at]
Return(d, r) == Goto(d, "idle") /\ result' = [result EXCEPT ![d] = r]

\* fwupgrade_hal_download or, with upd, fwupgrade_hal_update_and_factoryreset.
DownloadCall(d, upd) ==
    /\ pc[d] = "idle" /\ conf.written
    /\ url' = [url EXCEPT ![d] = conf.url]
    /\ update' = [update EXCEPT ![d] = upd]
    /\ CASE conf.url = NoUrl       -> Return(d, "err")
         [] conf.url \in Reachable -> Goto(d, "flag") /\ UNCHANGED result
         [] OTHER                  -> Return(d, "400")
    /\ UNCHANGED <<conf, setting, flag, status, image, flashed, reason>>

\* download_image_from_server
DownloadFlag(d) ==
    /\ pc[d] = "flag"
    /\ flag' = 1
    /\ Goto(d, "wipe")
    /\ UNCHANGED <<conf, setting, status, image, flashed, url, update, result, reason>>

\* Faulty variant: /tmp/xconf survives from the previous download.
MutDownloadWipe(d) ==
    /\ pc[d] = "wipe"
    /\ image' = NoImage
    /\ Goto(d, "curl")
    /\ UNCHANGED <<conf, setting, flag, status, flashed, url, update, result, reason>>

\* rm -rf /tmp/xconf /firmware; mkdir -p ...
DownloadWipe(d) ==
    /\ pc[d] = "wipe"
    /\ status' = "absent"
    /\ image' = NoImage
    /\ Goto(d, "curl")
    /\ UNCHANGED <<conf, setting, flag, flashed, url, update, result, reason>>

\* curl opens the output file, which it may share with the curl of another thread.
CurlOpen(d) ==
    /\ pc[d] = "curl"
    /\ image' = [by |-> image.by \cup {d}, url |-> url[d], done |-> FALSE]
    /\ Goto(d, "transfer")
    /\ UNCHANGED <<conf, setting, flag, status, flashed, url, update, result, reason>>

\* curl ends; without error only with the whole image written, to the file it
\* opened, which may have been removed since.
CurlEnd(d, ok) ==
    /\ pc[d] = "transfer"
    /\ image' = IF d \in image.by THEN [image EXCEPT !.done = ok] ELSE image
    /\ Goto(d, IF ok THEN "echo ok" ELSE "echo fail")
    /\ UNCHANGED <<conf, setting, flag, status, flashed, url, update, result, reason>>

\* echo $? > /tmp/xconf/dload_status: the shell creates the file, then writes it.
StatusOpen(d) ==
    /\ pc[d] \in {"echo ok", "echo fail"}
    /\ status' = "empty"
    /\ Goto(d, IF pc[d] = "echo ok" THEN "write ok" ELSE "write fail")
    /\ UNCHANGED <<conf, setting, flag, image, flashed, url, update, result, reason>>

\* Faulty variant: "; echo $?" reports the mkdir in front of it.
MutStatusWrite(d) ==
    /\ pc[d] \in {"write ok", "write fail"}
    /\ status' = IF status = "absent" THEN "absent" ELSE "ok"
    /\ Goto(d, "clear")
    /\ UNCHANGED <<conf, setting, flag, image, flashed, url, update, result, reason>>

\* The write goes to a file set_download_url may have removed.
StatusWrite(d) ==
    /\ pc[d] \in {"write ok", "write fail"}
    /\ status' = IF status = "absent" THEN "absent"
                 ELSE IF pc[d] = "write ok" THEN "ok" ELSE "fail"
    /\ Goto(d, "clear")
    /\ UNCHANGED <<conf, setting, flag, image, flashed, url, update, result, reason>>

\* Faulty variant: the flag stays up.
MutDownloadClear(d) ==
    /\ pc[d] = "clear"
    /\ Goto(d, "check")
    /\ UNCHANGED <<conf, setting, flag, status, image, flashed, url, update, result, reason>>

DownloadClear(d) ==
    /\ pc[d] = "clear"
    /\ flag' = 0
    /\ Goto(d, "check")
    /\ UNCHANGED <<conf, setting, status, image, flashed, url, update, result, reason>>

\* Faulty variant: an image is flashed whatever dload_status says.
MutDownloadCheck(d) ==
    /\ pc[d] = "check"
    /\ Goto(d, "flash") /\ UNCHANGED result
    /\ UNCHANGED <<conf, setting, flag, status, image, flashed, url, update, reason>>

\* The exit status is read back from the file: gone is an error, empty is 0.
DownloadCheck(d) ==
    /\ pc[d] = "check"
    /\ IF status \in {"absent", "fail"} THEN Return(d, "err")
                                        ELSE Goto(d, "flash") /\ UNCHANGED result
    /\ UNCHANGED <<conf, setting, flag, status, image, flashed, url, update, reason>>

\* /lib/rdk/rpi_image_Flasher.sh
DownloadFlash(d) ==
    /\ pc[d] = "flash"
    /\ flashed' = image
    /\ IF update[d] THEN Goto(d, "reboot") /\ UNCHANGED result
                    ELSE Return(d, "ok")
    /\ UNCHANGED <<conf, setting, flag, status, image, url, update, reason>>

-----------------------------------------------------------------------------
(* fwupgrade_hal_download_reboot_now *)

\* fwupgrade_hal_util_get_syscmd_output returns RETURN_ERR on every path.
SyscmdOutputOk == FALSE

\* The reason is left alone only if the counter could be read, and is 1.
RebootReason ==
    IF SyscmdOutputOk /\ reason.counter = 1 THEN reason
    ELSE [what |-> "Software_upgrade", counter |-> 1]

\* The process is gone and /tmp is empty; /firmware and syscfg stay.
Down ==
    /\ flag' = 0
    /\ setting' = NoUrl
    /\ pc' = [d \in Downloader |-> "idle"]
    /\ url' = [d \in Downloader |-> NoUrl]
    /\ update' = [d \in Downloader |-> FALSE]
    /\ result' = [d \in Downloader |-> "none"]

Reboot ==
    /\ Down
    /\ conf' = [written |-> TRUE, url |-> NoUrl]
    /\ status' = "absent"
    /\ reason' = RebootReason
    /\ UNCHANGED <<image, flashed>>

\* Called by itself, or at the end of fwupgrade_hal_update_and_factoryreset.
RebootNow == Reboot
UpdateReboots(d) == pc[d] = "reboot" /\ Reboot

-----------------------------------------------------------------------------
(* The rest of the system. *)

\* Another component registers why it will have this HAL reboot the board.
ForceReason ==
    /\ reason' = [what |-> "Forced_Software_upgrade", counter |-> 1]
    /\ UNCHANGED <<conf, setting, flag, status, image, flashed, pc, url, update, result>>

\* The process dies, by itself or because get_download_url met an empty file and
\* ran off its buffers, and is started again; its shell commands die with it.
AgentDies ==
    /\ Down
    /\ UNCHANGED <<conf, status, image, flashed, reason>>

Step(d) ==
    \/ \E upd \in BOOLEAN : DownloadCall(d, upd)
    \/ DownloadFlag(d) \/ DownloadWipe(d)
    \/ CurlOpen(d) \/ (\E ok \in BOOLEAN : CurlEnd(d, ok))
    \/ StatusOpen(d) \/ StatusWrite(d)
    \/ DownloadClear(d) \/ DownloadCheck(d) \/ DownloadFlash(d)
    \/ UpdateReboots(d)

Next ==
    \/ \E u \in Url : SetUrlOpen(u)
    \/ SetUrlWrite
    \/ \E d \in Downloader : Step(d)
    \/ RebootNow \/ ForceReason \/ AgentDies

Spec == Init /\ [][Next]_vars

-----------------------------------------------------------------------------
Transfer == {"wipe", "curl", "transfer", "echo ok", "echo fail",
             "write ok", "write fail", "clear"}

Image == [by : SUBSET Downloader, url : Url \cup {NoUrl}, done : BOOLEAN]

\* The variables keep their types, and only a URL that resolved gets past the
\* checks in front of the transfer.
TypeOK ==
    /\ conf \in [written : BOOLEAN, url : Url \cup {NoUrl}]
    /\ setting \in Url \cup {NoUrl}
    /\ flag \in {0, 1}
    /\ status \in {"absent", "empty", "ok", "fail"}
    /\ image \in Image /\ flashed \in Image
    /\ pc \in [Downloader -> Transfer \cup {"idle", "flag", "check", "flash", "reboot"}]
    /\ url \in [Downloader -> Url \cup {NoUrl}]
    /\ update \in [Downloader -> BOOLEAN]
    /\ result \in [Downloader -> {"none", "ok", "err", "400"}]
    /\ reason \in [what : {"none", "Software_upgrade", "Forced_Software_upgrade"},
                   counter : {0, 1}]
    /\ \A d \in Downloader : pc[d] # "idle" => url[d] \in Reachable

\* The properties up to UpdateRebootsFlashed are about a client that runs one
\* download at a time (one Downloader): the code relies on it, see OneDownloadAtATime.

\* gDwdInProgressFlag is up exactly while an image is being transferred.
FlagTracksTransfer == flag = 1 <=> \E d \in Downloader : pc[d] \in Transfer

\* Whoever polls during the transfer itself is told 100, whatever the previous
\* download left behind and whoever sets another URL meanwhile.
TransferIsReported ==
    (\E d \in Downloader : pc[d] \in {"curl", "transfer"}) => DownloadStatus = 100

\* An image is flashed only when it is complete, written by one transfer, and of
\* the URL the call was started for, also when the URL file changed meanwhile.
FlashesCompleteImage ==
    [][\A d \in Downloader : DownloadFlash(d) =>
         flashed'.by = {d} /\ flashed'.done /\ flashed'.url = url[d]]_vars

\* Once a download has returned, the status does not contradict what it
\* returned, until somebody changes the URL.
StatusAgrees ==
    \A d \in Downloader : pc[d] = "idle" =>
        /\ result[d] = "ok"  => DownloadStatus \in {200, 0}
        /\ result[d] = "err" /\ url[d] # NoUrl => DownloadStatus \in {500, 0}

\* fwupgrade_hal_update_and_factoryreset reboots only into an image it has just
\* flashed completely.
UpdateRebootsFlashed ==
    [][\A d \in Downloader : UpdateReboots(d) => flashed.done /\ flashed.url = url[d]]_vars

(***************************************************************************)
(* What comments of the code say and the code does not do.                 *)
(***************************************************************************)

\* "RETURN_ERR if any Downloading is in process." (fwupgrade_hal.c:289): no two
\* calls are ever transferring an image at the same time.
OneDownloadAtATime == Cardinality({d \in Downloader : pc[d] \in Transfer}) <= 1

\* "since this case will avoid overwrite "Forced_Software_upgrade" reason"
\* (fwupgrade_hal.c:475): a reason registered with counter 1 survives the reboot.
ReasonKept ==
    [][RebootNow /\ reason.counter = 1 => reason' = reason]_vars
=============================================================================
