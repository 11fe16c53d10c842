------------------------------ MODULE Scanner ------------------------------
(***************************************************************************)
(* rmcp::Scanner and ScannerController: a ping to every address of a range *)
(* in timed bursts, a quiet window behind the last, the answers (UDP: they *)
(* may come late, to a later scan, or never) looked up in the DNS one by   *)
(* one and listed, and the selected ones added to the machine list.        *)
(***************************************************************************)
EXTENDS ComputerStore

CONSTANTS
    Targets,    \* how many addresses a scan may cover
    BurstSize,  \* kBurstSize
    Tags,       \* what m_tag is drawn from
    DualPorts   \* the devices whose answer says that they speak TLS

ASSUME ScannerAssumption == Targets \subseteq Nat \ {0} /\ BurstSize \in Nat \ {0}

VARIABLES
    scanning,   \* ScannerController::m_scanning
    pending,    \* how many addresses m_pending holds
    cursor,     \* m_nextIndex
    timer,      \* "None", or which of the two timers is armed: "Send", "Wait"
    socket,     \* m_socket is there
    tag,        \* m_tag
    wire,       \* answers under way
    lookups,    \* names being looked up
    results,    \* m_results
    adding      \* what addSelected() has still to add

scanVars == <<scanning, pending, cursor, timer, socket, tag, wire, lookups, results, adding>>

ScanInit ==
    /\ scanning = FALSE /\ pending = 0 /\ cursor = 0 /\ timer = "None" /\ socket = FALSE
    /\ tag = 0 /\ wire = {} /\ lookups = {} /\ results = <<>> /\ adding = <<>>

ScanGone ==
    /\ scanning' = FALSE /\ pending' = 0 /\ cursor' = 0 /\ timer' = "None" /\ socket' = FALSE
    /\ lookups' = {} /\ results' = <<>> /\ adding' = <<>>
    /\ UNCHANGED <<tag, wire>>

Lesser(a, b) == IF a < b THEN a ELSE b

\* onSendBurst(): the next pings go out, and the devices answer; behind the last the
\* send timer is gone and the quiet window begins.
Burst(n, from) ==
    /\ cursor' = Lesser(from + BurstSize, n)
    /\ timer' = IF cursor' < n THEN "Send" ELSE "Wait"
    /\ wire' = wire \cup {[tag |-> tag', host |-> i] : i \in (from + 1)..cursor'}

\* start(): not while a scan runs.  A range that does not parse leaves the old results;
\* else they go, whether or not the socket binds.
StartScan ==
    /\ Call("Scan") /\ ~scanning
    /\ \/ /\ results' \in {results, <<>>}
          /\ UNCHANGED <<scanning, pending, cursor, timer, socket, tag, wire>>
       \/ \E n \in Targets, t \in Tags :
            /\ results' = <<>>
            /\ scanning' = TRUE /\ pending' = n /\ socket' = TRUE /\ tag' = t
            /\ Burst(n, 0)
    /\ UNCHANGED <<lookups, adding>>

SendBurst ==
    /\ timer = "Send" /\ socket
    /\ UNCHANGED tag
    /\ Burst(pending, cursor)
    /\ UNCHANGED <<scanning, pending, socket, lookups, results, adding>>

\* stop() and onWaitElapsed(): timers and socket go, finished() ends the scan.
Finished ==
    /\ timer' = "None" /\ socket' = FALSE /\ pending' = 0 /\ cursor' = 0
    /\ scanning' = FALSE
    /\ UNCHANGED <<tag, wire, lookups, results, adding>>

StopScan == Call("StopScan") /\ scanning /\ Finished

WaitElapsed == timer = "Wait" /\ Finished

\* onReadyRead(): an answer to this scan's ping is looked up, any other is dropped.
ReadAnswer ==
    /\ socket
    /\ \E a \in wire :
         /\ wire' = wire \ {a}
         /\ lookups' = IF a.tag = tag THEN lookups \cup {a} ELSE lookups
    /\ UNCHANGED <<scanning, pending, cursor, timer, socket, tag, results, adding>>

\* The name is found or not, after the scan or not: the device is listed, selected.
LookupDone ==
    /\ \E a \in lookups :
         /\ lookups' = lookups \ {a}
         /\ results' = Append(results, [host |-> a.host, selected |-> TRUE])
    /\ UNCHANGED <<scanning, pending, cursor, timer, socket, tag, wire, adding>>

SetSelected ==
    /\ Call("Select")
    /\ \E i \in DOMAIN results : results' = [results EXCEPT ![i].selected = ~@]
    /\ UNCHANGED <<scanning, pending, cursor, timer, socket, tag, wire, lookups, adding>>

\* addSelected(): one addComputer() per selected result, each with a save of its own
\* that may fail; it runs to its end before anything else.
AddSelected ==
    /\ Call("AddSelected")
    /\ adding' = SelectSeq(results, LAMBDA r : r.selected)
    /\ UNCHANGED <<scanning, pending, cursor, timer, socket, tag, wire, lookups, results>>

AddNext ==
    /\ adding # <<>>
    /\ LET host == Head(adding).host IN
         Added(Computer(nextId, host, "", host \in DualPorts, launches))
    /\ adding' = Tail(adding)
    /\ UNCHANGED <<scanning, pending, cursor, timer, socket, tag, wire, lookups, results>>
=============================================================================
