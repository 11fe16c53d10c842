------------------------------- MODULE Fleet -------------------------------
(***************************************************************************)
(* The machine list with those who share it: the user's calls, a batch     *)
(* that refers to machines by their row, a scan that adds machines, and    *)
(* launches of the application that end at any time.                       *)
(***************************************************************************)
EXTENDS BatchRunner, Scanner

vars == <<storeVars, batchVars, scanVars>>

Init == StoreInit /\ BatchInit /\ ScanInit

\* No call is running: the event loop may take the next event.
AtLoop == stack = <<>> /\ adding = <<>>

restOfStore == <<configVars, certVars, backupVars, launchVars, nextId>>

\* main() up to the event loop.
Startup ==
    /\ Boot \/ MigrationRefused \/ MigrateFile \/ Load
    /\ UNCHANGED <<batchVars, scanVars>>

\* The user.  The batch dialog can be hidden while its batch runs, and the list edited.
User ==
    /\ AtLoop
    /\ \/ StoreCall /\ UNCHANGED <<batchVars, scanVars>>
       \/ StartBatch /\ UNCHANGED <<restOfStore, scanVars>>
       \/ RetryFailed /\ UNCHANGED <<restOfStore, scanVars>>
       \/ StartScan /\ UNCHANGED <<restOfStore, batchVars>>
       \/ StopScan /\ UNCHANGED <<restOfStore, batchVars>>
       \/ SetSelected /\ UNCHANGED <<restOfStore, batchVars>>
       \/ AddSelected /\ UNCHANGED <<restOfStore, batchVars>>

\* A call that has begun goes on.
Inside ==
    \/ Pump /\ UNCHANGED <<restOfStore, calls, scanVars>>
    \/ /\ AddNext
       /\ UNCHANGED <<calls, certVars, backupVars, launchVars, batchVars>>

\* Results, timers, answers and names reach the event loop.
Timers ==
    /\ AtLoop
    /\ SendBurst \/ WaitElapsed
    /\ UNCHANGED <<restOfStore, calls, batchVars>>

Answers ==
    /\ AtLoop
    /\ ReadAnswer \/ LookupDone
    /\ UNCHANGED <<restOfStore, calls, batchVars>>

Result ==
    /\ AtLoop /\ CommandDone
    /\ UNCHANGED <<restOfStore, calls, scanVars>>

Quit == Stop /\ BatchGone /\ ScanGone

Next == Startup \/ User \/ Inside \/ Timers \/ Answers \/ Result \/ Quit

\* What runs runs on, timers fire, and every command that was sent is answered: the
\* WSMAN operations report each call once.  Nothing is promised of the user, the network
\* or the DNS.
Fairness == WF_vars(Inside) /\ WF_vars(Timers) /\ WF_vars(Result)

Spec == Init /\ [][Next]_vars /\ Fairness

-----------------------------------------------------------------------------
\* A batch ends, whatever is edited meanwhile, and so does a scan, though no device
\* answers.
JobsEnd == (running ~> ~running) /\ (scanning ~> ~scanning)
=============================================================================
