------------------------------ MODULE WpaCtrl ------------------------------
(***************************************************************************)
(* The control connections of source/wifi/client_wifi_hal.c: one           *)
(* connection to wpa_supplicant per backhaul station, driven by libev      *)
(* callbacks (socket readable, socket file changed, retry timer, watchdog  *)
(* timer) that run one at a time on the default loop.                      *)
(*                                                                         *)
(* wpa_supplicant is the environment: it starts and stops, and tells every *)
(* attached connection of each change of the station's association. The    *)
(* n-th change of a station is the event n.                                *)
(***************************************************************************)
EXTENDS Integers, Sequences

CONSTANTS
    NumSta,        \* wifi_getSTANumberOfEntries (2 in the code)
    MaxChanges     \* bound on the association changes of a station

ASSUME WpaCtrlAssumption == NumSta \in Nat \ {0} /\ MaxChanges \in Nat

Sta == 0..(NumSta - 1)

VARIABLES
    up,            \* wpa_supplicant serves the socket of s
    truth,         \* the number of association changes of s
    conn,          \* ctrl->wpa: NULL, attached to the running supplicant, or
                   \* left over from one that is gone
    queue,         \* events in the socket of the connection, oldest first
    seen,          \* the event the last clients_connect_cb of s told of
    retry,         \* the retry timer runs
    watchdog,      \* the watchdog timer runs
    stat,          \* the ev_stat watcher of the socket file is started
    statEvent,     \* a change of the socket file the loop has not handled yet
    initialized,   \* client_initialized
    base,          \* history: truth when the connection was attached
    opened         \* history: s has had a connection

vars == <<up, truth, conn, queue, seen, retry, watchdog, stat, statEvent,
          initialized, base, opened>>

Init ==
    /\ up \in [Sta -> BOOLEAN]
    /\ truth       = [s \in Sta |-> 0]
    /\ conn        = [s \in Sta |-> "null"]
    /\ queue       = [s \in Sta |-> <<>>]
    /\ seen        = [s \in Sta |-> 0]
    /\ retry       = [s \in Sta |-> FALSE]
    /\ watchdog    = [s \in Sta |-> FALSE]
    /\ stat        = [s \in Sta |-> FALSE]
    /\ statEvent   = [s \in Sta |-> FALSE]
    /\ initialized = FALSE
    /\ base        = [s \in Sta |-> 0]
    /\ opened      = [s \in Sta |-> FALSE]

-----------------------------------------------------------------------------
(* ctrl_open and ctrl_close. *)

\* Faulty variant: the watchdog timer is left for the caller to start.
MutOpen(S) ==
    /\ conn'     = [s \in Sta |-> IF s \in S THEN "live" ELSE conn[s]]
    /\ queue'    = [s \in Sta |-> IF s \in S THEN <<>> ELSE queue[s]]
    /\ base'     = [s \in Sta |-> IF s \in S THEN truth[s] ELSE base[s]]
    /\ opened'   = [s \in Sta |-> opened[s] \/ s \in S]
    /\ UNCHANGED watchdog

\* The closed connections S are opened and attached: io and watchdog start.
Open(S) ==
    /\ conn'     = [s \in Sta |-> IF s \in S THEN "live" ELSE conn[s]]
    /\ queue'    = [s \in Sta |-> IF s \in S THEN <<>> ELSE queue[s]]
    /\ watchdog' = [s \in Sta |-> watchdog[s] \/ s \in S]
    /\ base'     = [s \in Sta |-> IF s \in S THEN truth[s] ELSE base[s]]
    /\ opened'   = [s \in Sta |-> opened[s] \/ s \in S]

\* ctrl_open of s returns 0: it was open, or wpa_supplicant accepts it.
OpenOk(s, ok) == IF conn[s] # "null" THEN ok ELSE ok => up[s]

\* Faulty variant: wpa_ctrl_close is forgotten and the socket keeps its events.
MutCloseKeepsSocket(s) ==
    /\ conn'     = [conn EXCEPT ![s] = "null"]
    /\ watchdog' = [watchdog EXCEPT ![s] = FALSE]
    /\ retry'    = [retry EXCEPT ![s] = TRUE]
    /\ UNCHANGED <<queue, base, opened>>

\* Faulty variant: ctrl_close is the last to touch the retry timer.
MutCloseAndRetry(s) ==
    /\ conn'     = [conn EXCEPT ![s] = "null"]
    /\ queue'    = [queue EXCEPT ![s] = <<>>]
    /\ watchdog' = [watchdog EXCEPT ![s] = FALSE]
    /\ retry'    = [retry EXCEPT ![s] = FALSE]
    /\ UNCHANGED <<base, opened>>

\* ctrl_close stops all timers and drops what the socket holds; its two callers
\* start the retry timer behind it.
CloseAndRetry(s) ==
    /\ conn'     = [conn EXCEPT ![s] = "null"]
    /\ queue'    = [queue EXCEPT ![s] = <<>>]
    /\ watchdog' = [watchdog EXCEPT ![s] = FALSE]
    /\ retry'    = [retry EXCEPT ![s] = TRUE]
    /\ UNCHANGED <<base, opened>>

-----------------------------------------------------------------------------
(* API *)

\* wifi_client_event_callback_register: until every station could be opened at
\* once, each call enables the stations in order and stops at the first whose
\* ctrl_open fails; that one is watched but has no retry timer, and those
\* behind it are not even watched.
Register ==
    /\ ~initialized
    /\ \E ok \in [Sta -> BOOLEAN] :
         LET reached == {s \in Sta : \A t \in Sta : t < s => ok[t]}
         IN  /\ \A s \in Sta : OpenOk(s, ok[s]) /\ (conn[s] # "null" => ok[s])
             /\ stat' = [s \in Sta |-> stat[s] \/ (s \in reached /\ conn[s] = "null")]
             /\ Open({s \in reached : conn[s] = "null" /\ ok[s]})
             /\ initialized' = \A s \in Sta : ok[s]
    /\ UNCHANGED <<up, truth, seen, retry, statEvent>>

-----------------------------------------------------------------------------
(* libev callbacks *)

\* Faulty variant: the newest event is told first.
MutIoEvent(s) ==
    /\ conn[s] # "null" /\ queue[s] # <<>>
    /\ seen'  = [seen EXCEPT ![s] = queue[s][Len(queue[s])]]
    /\ queue' = [queue EXCEPT ![s] = SubSeq(@, 1, Len(@) - 1)]
    /\ UNCHANGED <<up, truth, conn, retry, watchdog, stat, statEvent,
                   initialized, base, opened>>

\* ctrl_ev_cb: one datagram is received and ctrl_process calls the client back.
IoEvent(s) ==
    /\ conn[s] # "null" /\ queue[s] # <<>>
    /\ seen'  = [seen EXCEPT ![s] = Head(queue[s])]
    /\ queue' = [queue EXCEPT ![s] = Tail(@)]
    /\ UNCHANGED <<up, truth, conn, retry, watchdog, stat, statEvent,
                   initialized, base, opened>>

\* ctrl_ev_cb: receiving fails, which only a connection without peer does.
IoError(s) ==
    /\ conn[s] = "stale"
    /\ CloseAndRetry(s)
    /\ UNCHANGED <<up, truth, seen, stat, statEvent, initialized>>

\* The events that arrive in front of the answer to a PING go to ctrl_msg_cb.
Drain(s) == seen' = [seen EXCEPT ![s] = IF queue[s] = <<>> THEN @
                                        ELSE queue[s][Len(queue[s])]]

\* Faulty variant: the events in front of the PONG are thrown away.
MutWatchdogPong(s) ==
    /\ watchdog[s] /\ conn[s] = "live"
    /\ seen' = seen
    /\ queue' = [queue EXCEPT ![s] = <<>>]
    /\ UNCHANGED <<up, truth, conn, retry, watchdog, stat, statEvent,
                   initialized, base, opened>>

\* ctrl_watchdog_cb, answered.
WatchdogPong(s) ==
    /\ watchdog[s] /\ conn[s] = "live"
    /\ Drain(s)
    /\ queue' = [queue EXCEPT ![s] = <<>>]
    /\ UNCHANGED <<up, truth, conn, retry, watchdog, stat, statEvent,
                   initialized, base, opened>>

\* Faulty variant: only a supplicant that is there is pinged.
MutWatchdogFails(s) ==
    /\ watchdog[s] /\ conn[s] = "live"
    /\ Drain(s)
    /\ CloseAndRetry(s)
    /\ UNCHANGED <<up, truth, stat, statEvent, initialized>>

\* ctrl_watchdog_cb, not answered: the supplicant is gone, or was too slow.
WatchdogFails(s) ==
    /\ watchdog[s]
    /\ IF conn[s] = "live" THEN Drain(s) ELSE seen' = seen
    /\ CloseAndRetry(s)
    /\ UNCHANGED <<up, truth, stat, statEvent, initialized>>

\* ctrl_stat_cb: one attempt, and no retry timer when it fails.
StatFires(s) ==
    /\ statEvent[s]
    /\ statEvent' = [statEvent EXCEPT ![s] = FALSE]
    /\ \E ok \in BOOLEAN : /\ OpenOk(s, ok)
                           /\ Open(IF ok /\ conn[s] = "null" THEN {s} ELSE {})
    /\ UNCHANGED <<up, truth, seen, retry, stat, initialized>>

\* ctrl_retry_cb, successful. The timer repeats: it runs on after a success,
\* finds the connection open, and runs on after a failure.
RetryOpens(s) ==
    /\ retry[s] /\ conn[s] = "null" /\ up[s]
    /\ Open({s})
    /\ UNCHANGED <<up, truth, seen, retry, stat, statEvent, initialized>>

-----------------------------------------------------------------------------
(* wpa_supplicant *)

\* The socket file appears: the ev_stat watcher sees it, a connection to an
\* earlier supplicant does not.
SupplicantStart(s) ==
    /\ ~up[s]
    /\ up' = [up EXCEPT ![s] = TRUE]
    /\ statEvent' = [statEvent EXCEPT ![s] = stat[s]]
    /\ UNCHANGED <<truth, conn, queue, seen, retry, watchdog, stat,
                   initialized, base, opened>>

SupplicantStop(s) ==
    /\ up[s]
    /\ up' = [up EXCEPT ![s] = FALSE]
    /\ conn' = [conn EXCEPT ![s] = IF @ = "live" THEN "stale" ELSE @]
    /\ statEvent' = [statEvent EXCEPT ![s] = stat[s]]
    /\ UNCHANGED <<truth, queue, seen, retry, watchdog, stat,
                   initialized, base, opened>>

\* CTRL-EVENT-CONNECTED or CTRL-EVENT-DISCONNECTED.
LinkChange(s) ==
    /\ up[s] /\ truth[s] < MaxChanges
    /\ truth' = [truth EXCEPT ![s] = @ + 1]
    /\ queue' = [queue EXCEPT ![s] = IF conn[s] = "live" THEN Append(@, truth[s] + 1)
                                                         ELSE @]
    /\ UNCHANGED <<up, conn, seen, retry, watchdog, stat, statEvent,
                   initialized, base, opened>>

-----------------------------------------------------------------------------
Callback(s) == IoEvent(s) \/ IoError(s) \/ WatchdogPong(s) \/ WatchdogFails(s)
                 \/ StatFires(s) \/ RetryOpens(s)

Supplicant(s) == SupplicantStart(s) \/ SupplicantStop(s) \/ LinkChange(s)

Next == Register \/ \E s \in Sta : Callback(s) \/ Supplicant(s)

\* The loop handles what is ready and its timers fire: the watchdog of a
\* connection to nobody gets no answer. An attempt to attach may time out, but
\* not for ever. A live supplicant need not miss a PING, nobody is obliged to
\* call the API, and wpa_supplicant may do what it likes.
Fairness == \A s \in Sta : /\ WF_vars(IoEvent(s))
                           /\ WF_vars(conn[s] = "stale" /\ WatchdogFails(s))
                           /\ SF_vars(RetryOpens(s))

Spec == Init /\ [][Next]_vars /\ Fairness

-----------------------------------------------------------------------------
\* The variables keep their types; only an open connection holds events, and
\* only one to a running supplicant is attached.
TypeOK ==
    /\ up \in [Sta -> BOOLEAN]
    /\ truth \in [Sta -> Nat] /\ seen \in [Sta -> Nat] /\ base \in [Sta -> Nat]
    /\ conn \in [Sta -> {"null", "live", "stale"}]
    /\ queue \in [Sta -> Seq(Nat)]
    /\ retry \in [Sta -> BOOLEAN] /\ watchdog \in [Sta -> BOOLEAN]
    /\ stat \in [Sta -> BOOLEAN] /\ statEvent \in [Sta -> BOOLEAN]
    /\ initialized \in BOOLEAN /\ opened \in [Sta -> BOOLEAN]
    /\ \A s \in Sta : /\ conn[s] = "null" => queue[s] = <<>>
                      /\ conn[s] = "live" => up[s]

\* A connection has its watchdog running exactly as long as it is open, so a
\* supplicant that went away without a word is always noticed.
WatchdogGuards == \A s \in Sta : conn[s] # "null" <=> watchdog[s]

\* A station that once had a connection is never given up: it has one, or the
\* retry timer is running for it.
NeverOrphaned == \A s \in Sta : opened[s] => conn[s] # "null" \/ retry[s]

\* Nothing is lost, repeated or reordered while a connection is attached: what
\* waits in its socket is what happened since the last report or the attach.
NoGap ==
    \A s \in Sta : conn[s] = "live" =>
        LET told == IF seen[s] > base[s] THEN seen[s] ELSE base[s]
        IN  /\ Len(queue[s]) = truth[s] - told
            /\ \A i \in DOMAIN queue[s] : queue[s][i] = told + i

Reports == INSTANCE StaReports WITH Sta <- Sta, truth <- truth, seen <- seen

\* Across closed connections, restarts and retries the callbacks never go back
\* in time and never tell of what did not happen.
ReportsSpec == Reports!Spec

\* Once a station has had a connection, it has a live one again whenever
\* wpa_supplicant stays up for it.
Recovers == \A s \in Sta : opened[s] ~> (conn[s] = "live" \/ ~up[s])

\* An event that waits in the socket of a connection is told to the client, or
\* a later one is, unless the connection is given up first.
EventTold ==
    \A s \in Sta, v \in 1..MaxChanges :
        (\E i \in DOMAIN queue[s] : queue[s][i] = v)
            ~> (seen[s] >= v \/ conn[s] = "null")
=============================================================================
