---------------------------- MODULE MCSshTunnel -----------------------------
(***************************************************************************)
(* Instances of SshTunnel for TLC.                                         *)
(***************************************************************************)
EXTENDS SshTunnel

CONSTANTS t1, t2

\* The session alone: retries, prompts, switched off when at rest, destroyed.
Lone == [tunnels |-> {}, opener |-> FALSE, events |-> {"DisableSettled", "Destroy"}]

\* The session alone, configured anew while an attempt is under way or a prompt open.
Restless == [tunnels |-> {}, opener |-> FALSE,
             events |-> {"Reopen", "DisableSettled", "Destroy"}]

\* The application's tunnels: the session dies under two of them.
App == [tunnels |-> {t1, t2}, opener |-> TRUE, events |-> {"Destroy"}]

\* A tunnel with an owner of its own, who closes or deletes it at any time.
Owned == [tunnels |-> {t1}, opener |-> FALSE,
          events |-> {"Destroy", "CloseTunnel", "DeleteTunnel", "Full"}]

\* Two tunnels of one owner, one closed while the other is opened or at work.
Pair == [tunnels |-> {t1, t2}, opener |-> FALSE, events |-> {"CloseTunnel"}]

MCProfiles == {Lone, Restless, App, Owned, Pair}

\* setConfig(disabled) while a tunnel is open.
SwitchedOff == {[tunnels |-> {t1}, opener |-> TRUE, events |-> {"Disable"}]}

\* A tunnel deleted by its owner while its open is in flight.
Deleted == {[tunnels |-> {t1}, opener |-> FALSE, events |-> {"DeleteTunnel"}]}
=============================================================================
