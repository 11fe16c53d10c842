------------------------- MODULE RedirClientChannel -------------------------
(***************************************************************************)
(* RedirClient implements RedirChannel.                                    *)
(*                                                                         *)
(* The link is the client's state as a session or a controller tells it    *)
(* apart.  What is still on the wire is computed from the whole stream of  *)
(* the device and from what was parsed and handed over so far, never from  *)
(* the client's own buffers: a token that the client drops, repeats or     *)
(* reorders makes the next hand-over differ from the head of the wire.     *)
(***************************************************************************)
EXTENDS RedirClient

\* m_state as stateChanged, trustPromptRequired and failed present it.
LinkOf ==
    CASE state = "Disconnected"  -> "Down"
      [] state = "Failed"        -> "Failed"
      [] state = "Authenticated" -> "Open"
      [] state = "Connecting" /\ awaitingTrust /\ sock = "Connected" -> "Asking"
      [] OTHER                   -> "Dialling"

WireOf ==
    IF state = "Authenticated"
    THEN SubSeq(script, Len(parsed) + Len(raw) + 1, Len(script))
    ELSE <<>>

Channel == INSTANCE RedirChannel WITH
               Tokens <- Tokens,
               link   <- LinkOf,
               wire   <- WireOf,
               inbox  <- raw,
               owed   <- opening + queued

\* The client keeps the promise its users are built on: every step of its
\* handshake, of its tunnel callbacks and of a reconnect is a step of the channel,
\* bytes reach rawBytes() only on an open link and in the device's order, and a
\* link opens only from a dial that neither failed nor was closed.
ImplementsChannel == Channel!ChannelSpec
=============================================================================
