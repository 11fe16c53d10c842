----------------------------- MODULE SshTunnel ------------------------------
(***************************************************************************)
(* SshTunnel, its SshTunnelPump thread (src/ssh/src/ssh_tunnel.cpp) and    *)
(* the tunnels of src/app/src/ssh_tunnel_opener.cpp, on top of SshSession. *)
(*                                                                         *)
(* A tunnel lives on the UI thread, its channel on the worker, its pump on *)
(* a thread of its own.  The pump hands every libssh call to the worker    *)
(* and blocks until it is done; closing a tunnel blocks the UI thread      *)
(* until the pump has ended; destroying the session closes every tunnel    *)
(* and then waits for the worker.                                          *)
(***************************************************************************)
EXTENDS SshSession, Subsequences

VARIABLES
    tunnel,      \* the SshTunnel objects
    pump,        \* their SshTunnelPump threads
    wired        \* the tunnels connected to aboutToDestroy(), in that order

tunnelVars == <<tunnel, pump, wired>>
vars       == <<sessionVars, tunnelVars>>

\* `pending` is openState /= nullptr, `abandoned` its flag, which outlives it;
\* `fd` is the consumer's end of the socket pair; `signals` what was emitted.
NewTunnel == [obj |-> "new", pending |-> FALSE, abandoned |-> FALSE, opened |-> FALSE,
              fd |-> "none", signals |-> <<>>]

\* `at` is a blocking call in progress, or where the thread is by itself.
NoPump == [at |-> "none", stop |-> FALSE]

Signals == {<<>>, <<"opened">>, <<"failed">>, <<"opened", "closed">>}

TypeOK ==
    /\ profile \in Profiles
    /\ ui.at \in {"loop", "closing", "join", "wait"} /\ ui.dtor \in BOOLEAN
    /\ \A i \in DOMAIN ui.todo : ui.todo[i].t \in Tunnels
    /\ object \in {"alive", "disabled", "gone"} /\ state \in States
    /\ host \in [awaiting : BOOLEAN, key : Keys \cup {NoKey}] /\ accepted \subseteq Keys
    /\ \A i \in DOMAIN jobs : /\ jobs[i].op \in {"open", "close", "trust", "channel"} \cup Calls
                              /\ jobs[i].t \in Tunnels \cup {NoTunnel}
    /\ worker \in [at : {"idle", "connect", "auth", "channel", "posting", "exited"},
                   t : Tunnels \cup {NoTunnel}]
    /\ session \in {"null", "fresh", "authed"} /\ key \in Keys \cup {NoKey}
    /\ awaiting \in BOOLEAN /\ pendingKey \in Keys \cup {NoKey}
    /\ channel \in [Tunnels -> {"none", "live", "lost", "freed"}] /\ overtaken \in BOOLEAN
    /\ tunnel \in [Tunnels ->
         [obj : {"new", "alive", "gone"}, pending : BOOLEAN, abandoned : BOOLEAN,
          opened : BOOLEAN, fd : {"none", "open", "closed"},
          signals : Seq({"opened", "failed", "closed"})]]
    /\ pump \in [Tunnels -> [at : {"none", "top", "deliver", "exit", "done"} \cup Calls,
                             stop : BOOLEAN]]

Init ==
    /\ SessionInit
    /\ tunnel = [t \in Tunnels |-> NewTunnel]
    /\ pump = [t \in Tunnels |-> NoPump]
    /\ wired = <<>>

-----------------------------------------------------------------------------
(***************************************************************************)
(* UI thread.                                                              *)
(***************************************************************************)

Emit(rec, s) == [rec EXCEPT !.signals = Append(@, s)]

\* A tunnel of the opener deletes itself after `failed` and after `closed`.
PostDelete(q, t) == IF profile.opener THEN Append(q, Event("delete", t)) ELSE q

\* open(), called once, connected to the signals; without a session it fails at once.
OpenTunnel(t) ==
    /\ ui.at = "loop" /\ object = "alive"
    /\ t \in profile.tunnels /\ tunnel[t].obj = "new"
    /\ IF state = "Connected"
       THEN /\ tunnel' = [tunnel EXCEPT ![t].obj = "alive", ![t].pending = TRUE]
            /\ wired' = Append(wired, t)
            /\ jobs' = Append(jobs, Job("channel", t))
       ELSE /\ ~profile.opener
            /\ tunnel' = [tunnel EXCEPT ![t] = Emit([@ EXCEPT !.obj = "alive"], "failed")]
            /\ UNCHANGED <<wired, jobs>>
    /\ UNCHANGED <<profile, uiVars, events, worker, libssh, stop, quit, deadUse, pump>>

\* A call of closeInternal(): by close() with its signals, by the destructor without.
Closing(t, del) == [t |-> t, del |-> del]

EnterClose(calls, dtor) == ui' = [at |-> "closing", todo |-> calls, dtor |-> dtor]

CloseTunnel(t) ==
    /\ ui.at = "loop" /\ "CloseTunnel" \in profile.events
    /\ tunnel[t].obj = "alive" /\ tunnel[t].signals \in {<<>>, <<"opened">>}
    /\ EnterClose(<<Closing(t, FALSE)>>, FALSE)
    /\ UNCHANGED <<profile, object, state, host, accepted, opens, events, jobs, worker, libssh,
                   stop, quit, deadUse, tunnelVars>>

DeleteTunnel(t) ==
    /\ ui.at = "loop" /\ "DeleteTunnel" \in profile.events
    /\ tunnel[t].obj = "alive"
    /\ EnterClose(<<Closing(t, TRUE)>>, FALSE)
    /\ UNCHANGED <<profile, object, state, host, accepted, opens, events, jobs, worker, libssh,
                   stop, quit, deadUse, tunnelVars>>

\* ~SshSession(): aboutToDestroy() runs close() of every tunnel that is still there.
AboutToDestroyNobody == <<>>
Living == Among(wired, {t \in Tunnels : tunnel[t].obj = "alive"})
AboutToDestroy == [i \in DOMAIN Living |-> Closing(Living[i], FALSE)]

\* The session dies with its owner, or after the deleteLater() of setConfig(disabled).
DestroySession ==
    /\ \/ ui.at = "loop" /\ object = "alive" /\ "Destroy" \in profile.events /\ opens > 0
          /\ UNCHANGED events
       \/ NextEvent("delete") /\ Head(events).val = NoTunnel /\ events' = Tail(events)
    /\ object' = "disabled"
    /\ EnterClose(AboutToDestroy, TRUE)
    /\ UNCHANGED <<profile, state, host, accepted, opens, jobs, worker, libssh, stop, quit,
                   deadUse, tunnelVars>>

\* The deleteLater() of an opener's tunnel.
DeleteLater ==
    /\ NextEvent("delete") /\ Head(events).val # NoTunnel
    /\ events' = Tail(events)
    /\ IF tunnel[Head(events).val].obj = "alive"
       THEN EnterClose(<<Closing(Head(events).val, TRUE)>>, FALSE)
       ELSE UNCHANGED ui
    /\ UNCHANGED <<profile, object, state, host, accepted, opens, jobs, worker, libssh, stop,
                   quit, deadUse, tunnelVars>>

\* The next call is over: the next one, the rest of ~SshSession(), or the event loop.
NextClose ==
    ui' = IF ui.dtor THEN [ui EXCEPT !.at = "closing", !.todo = Tail(@)] ELSE InLoop

AbandonNothing(rec) == [rec EXCEPT !.pending = FALSE]

\* The flag stays with the open in flight, which the tunnel itself forgets.
AbandonOpen(rec) ==
    [rec EXCEPT !.abandoned = @ \/ rec.pending, !.pending = FALSE]

ReportsNever(rec, c) == FALSE

\* wasOpenPending, and not the destructor: closing drives a synthetic failed().
Reports(rec, c) == rec.pending /\ ~rec.opened /\ ~c.del

\* closeInternal() without a pump: a pending open is abandoned and reported as failed.
CloseIdle ==
    /\ ui.at = "closing" /\ ui.todo # <<>>
    /\ LET c == Head(ui.todo)
           rec == tunnel[c.t]
           reports == Reports(rec, c)
           closed == [AbandonOpen(rec) EXCEPT !.obj = IF c.del THEN "gone" ELSE @]
       IN  /\ pump[c.t].at = "none"
           /\ tunnel' = [tunnel EXCEPT ![c.t] = IF reports THEN Emit(closed, "failed") ELSE closed]
           /\ events' = IF reports THEN PostDelete(events, c.t) ELSE events
    /\ NextClose
    /\ UNCHANGED <<profile, object, state, host, accepted, opens, jobs, worker, libssh, stop,
                   quit, deadUse, pump, wired>>

LeavePump(t) == pump
StopPump(t) == [pump EXCEPT ![t].stop = TRUE]

\* With a pump: stop it and wait for its thread ...
CloseStops ==
    /\ ui.at = "closing" /\ ui.todo # <<>>
    /\ LET t == Head(ui.todo).t
       IN  /\ pump[t].at # "none"
           /\ pump' = StopPump(t)
    /\ ui' = [ui EXCEPT !.at = "join"]
    /\ UNCHANGED <<profile, object, state, host, accepted, opens, events, jobs, worker, libssh,
                   stop, quit, deadUse, tunnel, wired>>

\* ... and report the end.
CloseJoins ==
    /\ ui.at = "join"
    /\ LET c == Head(ui.todo)
           closed == [tunnel[c.t] EXCEPT !.opened = FALSE,
                                         !.obj = IF c.del THEN "gone" ELSE @]
           reports == tunnel[c.t].opened /\ ~c.del
       IN  /\ pump[c.t].at = "done"
           /\ pump' = [pump EXCEPT ![c.t] = NoPump]
           /\ tunnel' = [tunnel EXCEPT ![c.t] = IF reports THEN Emit(closed, "closed") ELSE closed]
           /\ events' = IF reports THEN PostDelete(events, c.t) ELSE events
    /\ NextClose
    /\ UNCHANGED <<profile, object, state, host, accepted, opens, jobs, worker, libssh, stop,
                   quit, deadUse, wired>>

\* A channel whose handle is dropped stays open until the session is freed.
Lose(t) == channel' = [channel EXCEPT ![t] = IF @ = "live" THEN "lost" ELSE @]

\* The result of the channel open reaches a tunnel that has gone (Qt drops the event
\* with its receiver, and the channel in it), that was closed meanwhile (the channel
\* goes back to the worker, if there is one), or onChannelOpened().
ResultDropped(ch, t) ==
    /\ tunnel[t].obj = "gone"
    /\ IF ch THEN Lose(t) ELSE UNCHANGED channel
    /\ UNCHANGED <<jobs, tunnel, pump>>

KeepChannel(ch, t) == UNCHANGED jobs

\* The cleanup posted to the worker, if it still exists.
ReturnChannel(ch, t) ==
    jobs' = IF ch /\ worker.at # "exited" THEN Append(jobs, Job("free", t)) ELSE jobs

ResultAbandoned(ch, t) ==
    /\ tunnel[t].obj = "alive" /\ tunnel[t].abandoned
    /\ ReturnChannel(ch, t)
    /\ UNCHANGED <<channel, tunnel, pump>>

\* No channel, or no socket pair for it.
OnChannelFailed(ch, t) ==
    /\ tunnel[t].obj = "alive" /\ ~tunnel[t].abandoned
    /\ ReturnChannel(ch, t)
    /\ tunnel' = [tunnel EXCEPT ![t] = Emit([@ EXCEPT !.pending = FALSE], "failed")]
    /\ UNCHANGED <<channel, pump>>

OnChannelOpened(ch, t) ==
    /\ tunnel[t].obj = "alive" /\ ~tunnel[t].abandoned
    /\ ch
    /\ pump' = [pump EXCEPT ![t].at = "top"]
    /\ tunnel' = [tunnel EXCEPT ![t] = Emit([@ EXCEPT !.pending = FALSE, !.opened = TRUE,
                                                      !.fd = "open"], "opened")]
    /\ UNCHANGED <<jobs, channel>>

HandleResult ==
    /\ NextEvent("channel") \/ NextEvent("noChannel")
    /\ LET t == Head(events).val
           ch == Head(events).kind = "channel"
       IN  \/ /\ ResultDropped(ch, t) \/ ResultAbandoned(ch, t) \/ OnChannelOpened(ch, t)
              /\ events' = Tail(events)
           \/ OnChannelFailed(ch, t) /\ events' = PostDelete(Tail(events), t)
    /\ UNCHANGED <<profile, uiVars, worker, session, key, awaiting, pendingKey, overtaken, stop,
                   quit, deadUse, wired>>

\* QThread::finished of the pump, queued to close().
HandleFinished ==
    /\ NextEvent("finished")
    /\ events' = Tail(events)
    /\ IF tunnel[Head(events).val].obj = "alive"
       THEN EnterClose(<<Closing(Head(events).val, FALSE)>>, FALSE)
       ELSE UNCHANGED ui
    /\ UNCHANGED <<profile, object, state, host, accepted, opens, jobs, worker, libssh, stop,
                   quit, deadUse, tunnelVars>>

\* The receiver of opened() closes its descriptor.
ConsumerCloses(t) ==
    /\ ui.at = "loop" /\ tunnel[t].fd = "open"
    /\ tunnel' = [tunnel EXCEPT ![t].fd = "closed"]
    /\ UNCHANGED <<sessionVars, pump, wired>>

-----------------------------------------------------------------------------
(***************************************************************************)
(* Worker thread: the channel open, and the calls of the pumps.            *)
(***************************************************************************)

\* openForwardChannel(): nothing to open without a session, else a handshake.
WorkerChannel ==
    /\ Takes("channel")
    /\ jobs' = Tail(jobs)
    /\ LET t == Head(jobs).t
       IN  IF session = "null"
           THEN /\ IF tunnel[t].abandoned THEN UNCHANGED events
                   ELSE events' = Append(events, Event("noChannel", t))
                /\ UNCHANGED worker
           ELSE worker' = Doing("channel", t) /\ UNCHANGED events
    /\ UNCHANGED <<profile, uiVars, libssh, stop, quit, deadUse, tunnelVars>>

\* The handshake ends and the tunnel is looked at once: a channel nobody waits for
\* any more is freed here, a failure is reported.
ChannelEnds ==
    /\ worker.at = "channel"
    /\ LET t == worker.t IN
         \/ /\ tunnel[t].abandoned                        \* opened or not
            /\ worker' = Idle
            /\ channel' = [channel EXCEPT ![t] = "freed"]
            /\ UNCHANGED events
         \/ /\ ~tunnel[t].abandoned /\ ~stop
            /\ worker' = Doing("posting", t)
            /\ channel' = [channel EXCEPT ![t] = "live"]
            /\ UNCHANGED events
         \/ /\ ~tunnel[t].abandoned
            /\ worker' = Idle
            /\ channel' = [channel EXCEPT ![t] = "freed"]
            /\ events' = Append(events, Event("noChannel", t))
    /\ UNCHANGED <<profile, uiVars, jobs, session, key, awaiting, pendingKey, overtaken, stop,
                   quit, deadUse, tunnelVars>>

\* The result is posted to the tunnel, and to nobody if that has gone meanwhile.
PostResult ==
    /\ worker.at = "posting"
    /\ worker' = Idle
    /\ IF tunnel[worker.t].obj = "gone"
       THEN Lose(worker.t) /\ UNCHANGED events
       ELSE events' = Append(events, Event("channel", worker.t)) /\ UNCHANGED channel
    /\ UNCHANGED <<profile, uiVars, jobs, session, key, awaiting, pendingKey, overtaken, stop,
                   quit, deadUse, tunnelVars>>

\* What the pump does with the answer to its call: post the next call, or go on alone.
Answers(t, op) ==
    CASE op = "write" -> {"poll", "free"} \cup (IF pump[t].stop THEN {} ELSE {"write"})
      [] op = "poll"  -> {"eof", "read", "free"}
      [] op = "read"  -> {"deliver", "free"}
      [] op = "eof"   -> {"top", "free"}
      [] op = "free"  -> {"exit"}

Posted(q, op, t) == IF op \in Calls THEN Append(q, Job(op, t)) ELSE q

\* A call on a channel: the worker runs it, the pump that waits for it goes on.
WorkerCalls ==
    /\ worker = Idle /\ jobs # <<>> /\ Head(jobs).op \in Calls
    /\ LET t == Head(jobs).t
           op == Head(jobs).op
       IN  /\ channel' = IF op = "free" THEN [channel EXCEPT ![t] = "freed"] ELSE channel
           /\ deadUse' = deadUse \cup IF channel[t] = "live" THEN {}
                                     ELSE {IF pump[t].at = op THEN "pump" ELSE "channel"}
           /\ IF pump[t].at = op
              THEN \E next \in Answers(t, op) :
                     /\ pump' = [pump EXCEPT ![t].at = next]
                     /\ jobs' = Posted(Tail(jobs), next, t)
              ELSE UNCHANGED pump /\ jobs' = Tail(jobs)
    /\ UNCHANGED <<profile, uiVars, events, worker, session, key, awaiting, pendingKey, overtaken,
                   stop, quit, tunnel, wired>>

-----------------------------------------------------------------------------
(***************************************************************************)
(* Pump thread.                                                            *)
(***************************************************************************)

PumpPosts(t, op) ==
    /\ pump' = [pump EXCEPT ![t].at = op]
    /\ jobs' = Append(jobs, Job(op, t))

\* Top of the loop: leave when stopped or when the consumer has closed its end;
\* bytes from the consumer are written first, then the channel is polled.
PumpTop(t) ==
    /\ pump[t].at = "top"
    /\ \/ (pump[t].stop \/ tunnel[t].fd = "closed") /\ PumpPosts(t, "free")
       \/ ~pump[t].stop /\ PumpPosts(t, "write")
       \/ ~pump[t].stop /\ tunnel[t].fd = "open" /\ PumpPosts(t, "poll")
    /\ UNCHANGED <<profile, uiVars, events, worker, libssh, stop, quit, deadUse, tunnel, wired>>

\* Bytes for the consumer: a write that fails, because the consumer has closed its end
\* or because the non-blocking socket is full, stops the pump.
PumpDelivers(t) ==
    /\ pump[t].at = "deliver"
    /\ \E stopped \in {pump[t].stop} \cup
                      (IF tunnel[t].fd = "closed" \/ "Full" \in profile.events
                       THEN {TRUE} ELSE {}) :
         pump' = [pump EXCEPT ![t] = [at |-> "eof", stop |-> stopped]]
    /\ jobs' = Append(jobs, Job("eof", t))
    /\ UNCHANGED <<profile, uiVars, events, worker, libssh, stop, quit, deadUse, tunnel, wired>>

\* The channel is freed; the descriptor is closed and the thread ends.
PumpExits(t) ==
    /\ pump[t].at = "exit"
    /\ pump' = [pump EXCEPT ![t].at = "done"]
    /\ events' = Append(events, Event("finished", t))
    /\ UNCHANGED <<profile, uiVars, jobs, worker, libssh, stop, quit, deadUse, tunnel, wired>>

-----------------------------------------------------------------------------
User ==
    \/ UiSession /\ UNCHANGED tunnelVars
    \/ \E t \in Tunnels : OpenTunnel(t) \/ CloseTunnel(t) \/ DeleteTunnel(t)

UiThread ==
    \/ UiReacts /\ UNCHANGED tunnelVars
    \/ DeleteLater \/ CloseIdle \/ CloseStops \/ CloseJoins
    \/ HandleResult \/ HandleFinished

WorkerThread ==
    \/ WorkerSession /\ UNCHANGED tunnelVars
    \/ WorkerChannel \/ ChannelEnds \/ PostResult \/ WorkerCalls

PumpThread(t) == PumpTop(t) \/ PumpDelivers(t) \/ PumpExits(t)

Next ==
    \/ User \/ UiThread \/ DestroySession \/ WorkerThread
    \/ \E t \in Tunnels : PumpThread(t) \/ ConsumerCloses(t)

Spec == Init /\ [][Next]_vars

\* Every thread keeps running: a libssh call ends within its deadline, the event loops
\* turn, the scheduler is fair.  The user owes nothing.
FairSpec ==
    /\ Spec
    /\ WF_vars(UiThread \/ (ui.at = "loop" /\ events # <<>> /\ DestroySession))
    /\ WF_vars(WorkerThread)
    /\ \A t \in Tunnels : WF_vars(PumpThread(t))

-----------------------------------------------------------------------------
(***************************************************************************)
(* Properties.                                                             *)
(***************************************************************************)

\* A tunnel reports exactly one of opened() and failed(), then closed() at most once
\* and only after opened(), whatever races with its open: its own close(), the pump's
\* end, the destructor of the session (ssh_tunnel.h, onChannelOpened, closeInternal).
OneOutcome == \A t \in Tunnels : tunnel[t].signals \in Signals

\* No thread enters libssh with a channel or a session that has been freed or is null,
\* and the host never asks a null session: the pumps are joined before ~SshSession()
\* stops the worker, and a channel is freed once, by its pump or by the worker.  The
\* one exception is the stale flag of ssh_session.cpp:295: once setConfig() has begun an
\* attempt under an unanswered prompt, a late accept may authenticate on a null session.
NoDeadUse == deadUse \subseteq (IF overtaken THEN {"session"} ELSE {})

\* SshSession::close() is safe in any state (ssh_session.h): the channel of an open
\* tunnel is not freed under its pump.
PumpChannelIsLive == "pump" \notin deadUse

\* When nothing is on its way, every open channel has a pump, whether its tunnel object
\* still exists or not: no race between open(), close(), delete and the worker strands
\* it.  Except the "lost" ones: the result event of an open that succeeded, dropped with
\* a tunnel that was deleted under it (ssh_tunnel.cpp:472, see DeletedIsCleanedUp).
NoOrphanChannel ==
    Settled /\ ui.at = "loop" =>
        \A t \in Tunnels : channel[t] = "live" => pump[t].at # "none"

\* The code's claim for that exception, "if we've been destroyed between the worker
\* posting and us processing, post a cleanup back to the worker" (ssh_tunnel.cpp:473):
\* the channel of a deleted tunnel does not stay open.
DeletedIsCleanedUp ==
    Settled /\ ui.at = "loop" =>
        \A t \in Tunnels : tunnel[t].obj = "gone" => channel[t] \notin {"live", "lost"}

\* A session is authenticated only with a key that was pinned or that the user was
\* shown and accepted (verifyHostKey, resumeAfterHostKeyTrust, SshTunnelHost), also
\* when setConfig() comes while an attempt runs, but only until it has begun an attempt
\* under an unanswered prompt: m_awaitingHostKeyTrust then outlives the session it was
\* about (ssh_session.cpp:295), and accepting the old prompt trusts the new key.
TrustedKeyOnly == session = "authed" /\ ~overtaken => key \in Pinned \cup accepted

\* An open() is answered unless the tunnel is deleted first.
TunnelSettles ==
    \A t \in Tunnels :
        tunnel[t].obj = "alive" ~> (tunnel[t].signals # <<>> \/ tunnel[t].obj = "gone")

\* The destructor of the session, and every close() of a tunnel, returns: the UI thread
\* waits for pumps, they wait for the worker, and it never waits for the UI thread.
UiReturns == ui.at # "loop" ~> ui.at = "loop"
=============================================================================
