----------------------------- MODULE SolSession -----------------------------
(***************************************************************************)
(* SolSession: Serial-over-LAN on an authenticated client.  One iteration  *)
(* of drainInbox() is one action; a frame is one token, because every      *)
(* parser takes a frame whole or leaves it: a chunk that ends inside a     *)
(* frame is a chunk that ends before it.                                   *)
(***************************************************************************)
EXTENDS RedirController

CONSTANT MaxInput   \* bound on unread frames of typed input

ASSUME InputAssumption == MaxInput \in Nat

VARIABLES
    solOpen,        \* m_open, and with it the keepalive timer
    settingsSent    \* m_settingsSent

solVars == <<solOpen, settingsSent>>

SolAnswers  == {"OpenOk", "OpenRefused"}
SolConsumed == {"Display"}        \* also a keepalive and the settings' echo
SolTokens   == SolAnswers \cup SolConsumed \cup {"SolUnknown"}

SolNew == solOpen' = FALSE /\ settingsSent' = FALSE

\* fail(), without the closed() that the controller sees.
SolFail == solOpen' = FALSE /\ UNCHANGED settingsSent

\* start() writes Open, which the device answers.
SolStarted == Authenticated(TRUE, <<"Open">>, <<>>) /\ UNCHANGED solVars

solFrame == <<kind, deferred, ssh, owed, bounds>>

\* drainInbox() ends with the inbox empty.
SolDrainEnd ==
    /\ draining
    /\ inbox = <<>>
    /\ draining' = FALSE
    /\ UNCHANGED <<solFrame, link, wire, inbox, toDev, ctl, err, solVars>>

\* 0x21 with status 0: the first one is answered with the settings and opens the
\* session, a repeated one is consumed.
SolOpenReply ==
    /\ draining
    /\ inbox # <<>> /\ Head(inbox) = "OpenOk"
    /\ inbox' = Tail(inbox)
    /\ settingsSent' = TRUE
    /\ IF settingsSent
       THEN UNCHANGED <<toDev, solOpen, ctl>>
       ELSE /\ toDev' = IF CanSend THEN Append(toDev, "Settings") ELSE toDev
            /\ solOpen' = TRUE
            /\ ctl' = "Connected"
    /\ UNCHANGED <<solFrame, link, wire, draining, err>>

\* A refused open, which is consumed, or an unknown tag, which is not.
SolRefused ==
    /\ draining
    /\ inbox # <<>> /\ Head(inbox) \in {"OpenRefused", "SolUnknown"}
    /\ inbox' = IF Head(inbox) = "OpenRefused" THEN Tail(inbox) ELSE inbox
    /\ draining' = FALSE
    /\ SolFail
    /\ SessionClosed
    /\ UNCHANGED <<solFrame, toDev>>

\* Display data goes to the screen and the recorder, keepalives and echoes nowhere.
SolData ==
    /\ draining
    /\ inbox # <<>> /\ Head(inbox) \in SolConsumed
    /\ inbox' = Tail(inbox)
    /\ UNCHANGED <<solFrame, link, wire, toDev, ctl, err, draining, solVars>>

SolDrain == SolDrainEnd \/ SolOpenReply \/ SolRefused \/ SolData

\* sendInput() of an open session, and the keepalive its timer sends.
SendInput ==
    /\ ~draining
    /\ solOpen
    /\ Len(toDev) < MaxInput
    /\ toDev' = IF CanSend THEN Append(toDev, "Input") ELSE toDev
    /\ UNCHANGED <<chan, kind, ctl, err, deferred, ssh, draining, bounds, solVars>>

\* The device answers Open and Settings and reads the rest.
SolDevice ==
    /\ toDev # <<>>
    /\ \/ Head(toDev) = "Open" /\ \E t \in SolAnswers : Answer(<<t>>)
       \/ Head(toDev) = "Settings" /\ Answer(<<"Display">>)
       \/ Head(toDev) = "Input" /\ Answer(<<>>)
    /\ UNCHANGED solVars

SolChatter == (\E t \in SolTokens : Chatter(t)) /\ UNCHANGED solVars

SolRawBytes == RawBytes /\ UNCHANGED solVars
=============================================================================
