-------------------------- MODULE MCMachineDetails --------------------------
(***************************************************************************)
(* MachineDetails with every read and every change of the catalogue, a few *)
(* at a time: each menu opens one kind of trouble.                         *)
(***************************************************************************)
EXTENDS MachineDetails

Idle == [asks |-> 2, reads |-> {}, changes |-> {}, tabs |-> {}, up |-> FALSE, ssh |-> 0, off |-> FALSE,
         pinned |-> TRUE, raw |-> "none", round |-> NotStarted]

\* Every change, with the refresh it ends with asked for in between.
ChangeMenus ==
    {[Idle EXCEPT !.changes = {w}, !.reads = {Changes[w].read} \ {"none"}] : w \in DOMAIN Changes}

\* Every read through a tunnel that may come, fail, be switched off and on again.
TunnelMenus ==
    {[Idle EXCEPT !.reads = {r}, !.ssh = 1, !.off = TRUE] : r \in DOMAIN Reads}
      \cup {[Idle EXCEPT !.reads = {"refreshOptInStatus"}, !.ssh = 2, !.off = TRUE]}

\* Changes that chain, are deferred or end in a status read, through the tunnel.
TunnelChanges ==
    {[Idle EXCEPT !.changes = {w}, !.ssh = 1] :
        w \in {"setPowerScheme", "syncDeviceTime", "setKvmServiceEnabled", "replaceWakeAlarm"}}

\* Consent: one request at a time through the tunnel, or all of them at once; a protocol
\* that the policy gates, one it does not, and a policy that is changed meanwhile.
Window == [Idle EXCEPT !.tabs = {"kvm"}, !.raw = "kvm"]
Tunnelled == [Window EXCEPT !.up = TRUE, !.asks = 3]
ConsentMenus ==
    {Window, [Window EXCEPT !.raw = "none"], [Window EXCEPT !.round = Displayed, !.asks = 1],
     Tunnelled, [Tunnelled EXCEPT !.round = Displayed, !.asks = 2],
     [Tunnelled EXCEPT !.asks = 2, !.tabs = {"sol"}, !.raw = "all"],
     [Tunnelled EXCEPT !.asks = 2, !.tabs = {"sol", "kvm"}],
     [Tunnelled EXCEPT !.asks = 2, !.changes = {"setKvmOptInPolicyEnabled"},
                       !.reads = {"refreshOptInStatus"}]}

\* Every read of a device whose certificate is not known yet.
TrustMenus ==
    {[Idle EXCEPT !.reads = {r}, !.pinned = FALSE] : r \in DOMAIN Reads}

MCMenus == ChangeMenus \cup TunnelMenus \cup TunnelChanges \cup ConsentMenus \cup TrustMenus
=============================================================================
