--------------------------- MODULE MCRedirSessions ---------------------------
(***************************************************************************)
(* RedirSessions for TLC.                                                  *)
(***************************************************************************)
EXTENDS RedirSessions

AllTokens == SessionTokens

\* SOL has the short protocol and gets the tunnel and the reconnects; KVM needs a
\* resize and the updates around it; IDE-R two commands and a frame between.
Opens    == [k \in Kinds |-> IF k = "Sol" THEN 2 ELSE 1]
SshCalls == [k \in Kinds |-> IF k = "Sol" THEN 2 ELSE 0]
Frames   == [k \in Kinds |-> IF k = "Kvm" THEN 4 ELSE IF k = "Ider" THEN 3 ELSE 2]
=============================================================================
