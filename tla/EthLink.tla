------------------------------ MODULE EthLink ------------------------------
(***************************************************************************)
(* The Ethernet link events of source/json-ethsw/hal-json-ethsw.c and      *)
(* source/hal-ethsw/ccsp_hal_ethsw.c: the JSON server's own link thread,   *)
(* the one the HAL starts on the first subscription, and the subscription  *)
(* handler that registers the callbacks of the latter. Nothing is locked.  *)
(***************************************************************************)
EXTENDS Naturals

CONSTANT MaxSubs   \* bound on the events subscribed; gsubs_event_list holds 5

ASSUME EthLinkAssumption == MaxSubs \in 1..5

Thread == {"server", "hal"}

\* What the ethtool pipeline prints; nothing when there is no such interface.
Link == {"yes", "no", ""}

VARIABLES
    link,        \* the state of erouter0
    pc,          \* where a link thread is
    prev,        \* its previousLinkDetected
    buff,        \* its last sample
    publishes,   \* it publishes by itself, without the registered callbacks
    initDone,    \* hal_init_done
    callbacks,   \* ethWanCallbacks is set
    handler,     \* where subs_event_cb is
    subs,        \* evt_subs_index + 1
    told,        \* the event this process published last
    ups          \* history: LINK_UP events since the last LINK_DOWN

threadVars  == <<pc, prev, buff, publishes>>
handlerVars == <<initDone, callbacks, handler, subs>>
vars == <<link, threadVars, handlerVars, told, ups>>

Init ==
    /\ link \in Link
    /\ pc        = [t \in Thread |-> "none"]
    /\ prev      = [t \in Thread |-> "no"]
    /\ buff      = [t \in Thread |-> ""]
    /\ publishes = [t \in Thread |-> TRUE]
    /\ initDone  = FALSE /\ callbacks = FALSE
    /\ handler   = "idle" /\ subs = 0
    /\ told      = "none" /\ ups = 0

-----------------------------------------------------------------------------
(* ethsw_thread_main, which both files define. *)

\* /tmp/ethagent_initialized is there, or 180 seconds are over.
WaitEnds(t) ==
    /\ pc[t] = "wait"
    /\ pc' = [pc EXCEPT ![t] = "sample"]
    /\ UNCHANGED <<link, prev, buff, publishes, handlerVars, told, ups>>

\* Faulty variant: only a link that is up is worth an event.
MutSample(t) ==
    /\ pc[t] = "sample"
    /\ link # prev[t] /\ link = "yes"
    /\ buff' = [buff EXCEPT ![t] = link]
    /\ pc' = [pc EXCEPT ![t] = "tell"]
    /\ UNCHANGED <<link, prev, publishes, handlerVars, told, ups>>

\* A sample that differs from the previous one; any other has no effect.
Sample(t) ==
    /\ pc[t] = "sample"
    /\ link # prev[t]
    /\ buff' = [buff EXCEPT ![t] = link]
    /\ pc' = [pc EXCEPT ![t] = "tell"]
    /\ UNCHANGED <<link, prev, publishes, handlerVars, told, ups>>

EventOf(sample) == IF sample = "yes" THEN "up" ELSE "down"

Publish(event) ==
    /\ told' = event
    /\ ups' = IF event = "up" THEN ups + 1 ELSE 0

\* Faulty variant: previousLinkDetected is not updated.
MutTell(t) ==
    /\ pc[t] = "tell"
    /\ publishes[t] \/ callbacks
    /\ ups < 3
    /\ Publish(EventOf(buff[t]))
    /\ pc' = [pc EXCEPT ![t] = "sample"]
    /\ UNCHANGED <<link, prev, buff, publishes, handlerVars>>

\* The change is published, directly or by the registered callback.
Tell(t) ==
    /\ pc[t] = "tell"
    /\ publishes[t] \/ callbacks
    /\ Publish(EventOf(buff[t]))
    /\ prev' = [prev EXCEPT ![t] = buff[t]]
    /\ pc' = [pc EXCEPT ![t] = "sample"]
    /\ UNCHANGED <<link, buff, publishes, handlerVars>>

-----------------------------------------------------------------------------
(* main and subs_event_cb. json_hal_server_run comes first, so a request may  *)
(* be handled before the server has its thread.                               *)

StartServerThread ==
    /\ pc["server"] = "none"
    /\ \E at \in {"wait", "failed"} : pc' = [pc EXCEPT !["server"] = at]
    /\ UNCHANGED <<link, prev, buff, publishes, handlerVars, told, ups>>

\* A request subscribes to some events. eth_event_started never changes, so
\* every request goes on to initialise the HAL, unless one of its parameters
\* cannot be read.
Subscribe(n) ==
    /\ handler = "idle" /\ subs + n <= MaxSubs
    /\ subs' = subs + n
    /\ handler' \in {"init", "idle"}
    /\ UNCHANGED <<link, threadVars, initDone, callbacks, told, ups>>

\* Faulty variant: hal_init_done is not set.
MutHalInit ==
    /\ handler = "init"
    /\ ~initDone
    /\ \E direct \in BOOLEAN, at \in {"wait", "failed"} :
         /\ pc' = [pc EXCEPT !["hal"] = at]
         /\ publishes' = [publishes EXCEPT !["hal"] = direct]
    /\ handler' = "register"
    /\ UNCHANGED <<link, prev, buff, initDone, callbacks, subs, told, ups>>

\* CcspHalEthSwInit. The name ethsw_thread_main that it passes to pthread_create
\* is defined by the server too: which of the two runs depends on how the HAL
\* is linked. A thread that gets no buffer has ended at once.
HalInit ==
    /\ handler = "init"
    /\ ~initDone
    /\ \E direct \in BOOLEAN, at \in {"wait", "failed"} :
         /\ pc' = [pc EXCEPT !["hal"] = at]
         /\ publishes' = [publishes EXCEPT !["hal"] = direct]
    /\ initDone' = TRUE
    /\ handler' = "register"
    /\ UNCHANGED <<link, prev, buff, callbacks, subs, told, ups>>

HalInitAgain ==
    /\ handler = "init" /\ initDone
    /\ handler' = "register"
    /\ UNCHANGED <<link, threadVars, initDone, callbacks, subs, told, ups>>

\* pthread_create fails: the callbacks are not registered either.
HalInitFails ==
    /\ handler = "init" /\ ~initDone
    /\ handler' = "idle"
    /\ UNCHANGED <<link, threadVars, initDone, callbacks, subs, told, ups>>

\* GWP_RegisterEthWan_Callback
RegisterCallbacks ==
    /\ handler = "register"
    /\ callbacks' = TRUE
    /\ handler' = "idle"
    /\ UNCHANGED <<link, threadVars, initDone, subs, told, ups>>

-----------------------------------------------------------------------------
LinkChange ==
    /\ \E v \in Link \ {link} : link' = v
    /\ UNCHANGED <<threadVars, handlerVars, told, ups>>

\* The process ends and systemd starts it again (Restart=always).
NewProcess ==
    /\ pc'        = [t \in Thread |-> "none"]
    /\ prev'      = [t \in Thread |-> "no"]
    /\ buff'      = [t \in Thread |-> ""]
    /\ publishes' = [t \in Thread |-> TRUE]
    /\ initDone'  = FALSE /\ callbacks' = FALSE
    /\ handler'   = "idle" /\ subs' = 0
    /\ told'      = "none" /\ ups' = 0
    /\ UNCHANGED link

\* The HAL's thread calls a callback that is not registered yet.
NullCall == pc["hal"] = "tell" /\ ~publishes["hal"] /\ ~callbacks /\ NewProcess

\* sig_handler, or any other end.
Restart == NewProcess

ThreadStep(t) == WaitEnds(t) \/ Sample(t) \/ Tell(t)

Next ==
    \/ \E t \in Thread : ThreadStep(t)
    \/ StartServerThread
    \/ \E n \in 0..MaxSubs : Subscribe(n)
    \/ HalInit \/ HalInitAgain \/ HalInitFails \/ RegisterCallbacks
    \/ LinkChange \/ NullCall \/ Restart

\* Threads run, and a link that stays is sampled by each of them within five
\* seconds; main and the handler get on. Nobody has to subscribe.
Fairness ==
    /\ \A t \in Thread : WF_vars(ThreadStep(t))
    /\ WF_vars(StartServerThread)
    /\ WF_vars(HalInit \/ HalInitAgain \/ HalInitFails)
    /\ WF_vars(RegisterCallbacks)

Spec == Init /\ [][Next]_vars /\ Fairness

-----------------------------------------------------------------------------
\* The variables keep their types, the HAL has a thread exactly if it says it
\* is initialised, and callbacks are only registered with an initialised HAL.
TypeOK ==
    /\ link \in Link
    /\ pc \in [Thread -> {"none", "failed", "wait", "sample", "tell"}]
    /\ prev \in [Thread -> Link] /\ buff \in [Thread -> Link]
    /\ publishes \in [Thread -> BOOLEAN]
    /\ initDone \in BOOLEAN /\ callbacks \in BOOLEAN
    /\ handler \in {"idle", "init", "register"} /\ subs \in 0..MaxSubs
    /\ told \in {"none", "up", "down"} /\ ups \in Nat
    /\ initDone <=> pc["hal"] # "none"
    /\ callbacks \/ handler = "register" => initDone

Settled(t) == pc[t] = "sample" => prev[t] = link

\* Two threads publish the same link, each from its own samples and in any order.
\* Still, when neither has anything left to tell, the event told last is the one
\* of the link's state: no late event of one thread covers a newer one for good.
SettledAgrees ==
    (\A t \in Thread : pc[t] # "tell" /\ Settled(t)) /\ told # "none"
        => told = EventOf(link)

\* A client sees at most one event too many for a link that came up: a thread
\* that told LINK_UP has to tell LINK_DOWN before it tells LINK_UP again.
UpsBounded == ups <= 2

Running(t) == pc[t] \in {"wait", "sample", "tell"}

\* If the link stays as it is, the server stays up and has its thread, the event
\* that is told last, and stays, is that of the link. A link that was always down
\* needs none.
Converges ==
    \A v \in Link :
        <>[](link = v /\ Running("server")) /\ <>[][~NewProcess]_vars
            => <>[](told = EventOf(v) \/ (told = "none" /\ v = "no"))
=============================================================================
