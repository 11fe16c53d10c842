---------------------------- MODULE RedirChannel ----------------------------
(***************************************************************************)
(* What a RedirectionClient promises to the session and the controller on  *)
(* top of it: a link that is dialled, may ask about a certificate, opens,  *)
(* and ends; and, while it is open, the device's bytes handed over in      *)
(* their order, each once.  RedirClient is shown to implement this module  *)
(* (RedirClientChannel); the sessions and controllers are built on it.     *)
(***************************************************************************)
EXTENDS Naturals, Sequences

CONSTANT Tokens      \* what a device may send

VARIABLES
    link,    \* Down, Dialling, Asking, Open or Failed: the client's state as its users
             \* tell it apart
    wire,    \* sent by the device on the open link, not yet handed over
    inbox,   \* handed over by rawBytes(), not yet taken by the session
    owed     \* calls of the tunnel opener and of the event loop still to come

chan == <<link, wire, inbox, owed>>

ChannelInit ==
    /\ link = "Down"
    /\ wire = <<>>
    /\ inbox = <<>>
    /\ owed = 0

\* connectTo(), directly or through a tunnel opener that owes its callback.
Dial ==
    /\ link \in {"Down", "Failed"}
    /\ link' = "Dialling"
    /\ wire' = <<>>
    /\ inbox' \in {inbox, <<>>}
    /\ owed' \in {owed, owed + 1}

\* The opener's callback brings a socket; one that is late replaces whatever the
\* client holds by then.  A plain socket owes the queued handleConnected().
Adopt ==
    /\ owed > 0
    /\ link' = "Dialling"
    /\ wire' = <<>>
    /\ inbox' = <<>>
    /\ owed' \in {owed, owed - 1}

\* The queued handleConnected() of such a socket.
StartQueued ==
    /\ owed > 0
    /\ link = "Dialling"
    /\ owed' = owed - 1
    /\ UNCHANGED <<link, wire, inbox>>

\* trustPromptRequired, and the handshake going on after it.
Ask ==
    /\ link = "Dialling"
    /\ link' = "Asking"
    /\ UNCHANGED <<wire, inbox, owed>>

Proceed ==
    /\ link = "Asking"
    /\ link' = "Dialling"
    /\ UNCHANGED <<wire, inbox, owed>>

\* authenticated: from here on the stream is the application's.
Establish ==
    /\ link = "Dialling"
    /\ link' = "Open"
    /\ wire' \in Seq(Tokens)
    /\ inbox' \in Seq(Tokens)
    /\ owed' = owed

\* The device sends one more frame.
Transmit(t) ==
    /\ link = "Open"
    /\ wire' = Append(wire, t)
    /\ UNCHANGED <<link, inbox, owed>>

\* rawBytes(): any non-empty part of what is on the wire, in its order.
Deliver ==
    /\ link = "Open"
    /\ \E n \in 1..Len(wire) :
          /\ inbox' = inbox \o SubSeq(wire, 1, n)
          /\ wire' = SubSeq(wire, n + 1, Len(wire))
    /\ UNCHANGED <<link, owed>>

\* The session takes the first token.
Take ==
    /\ inbox # <<>>
    /\ inbox' = Tail(inbox)
    /\ UNCHANGED <<link, wire, owed>>

\* failed: of a live link, or by a call that was still owed.
LinkFail ==
    /\ link \in {"Dialling", "Asking", "Open"} \/ owed > 0
    /\ link' = "Failed"
    /\ wire' = <<>>
    /\ inbox' \in {inbox, <<>>}
    /\ owed' \in {owed, owed - 1} \cap Nat

\* remoteClosed: the peer ends an authenticated stream.
RemoteClose ==
    /\ link = "Open"
    /\ link' = "Down"
    /\ wire' = <<>>
    /\ UNCHANGED <<inbox, owed>>

\* disconnectFromHost().
Hangup ==
    /\ link' = "Down"
    /\ wire' = <<>>
    /\ UNCHANGED <<inbox, owed>>

ChannelNext ==
    \/ Dial \/ Adopt \/ StartQueued \/ Ask \/ Proceed \/ Establish
    \/ (\E t \in Tokens : Transmit(t)) \/ Deliver \/ Take
    \/ LinkFail \/ RemoteClose \/ Hangup

ChannelSpec == ChannelInit /\ [][ChannelNext]_chan
=============================================================================
