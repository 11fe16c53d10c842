---------------------------- MODULE BatchRunner ----------------------------
(***************************************************************************)
(* BatchRunner and the dispatcher BatchController gives it: one command    *)
(* sent to every selected machine, MaxConcurrency at a time.               *)
(*                                                                         *)
(* pumpQueue() is re-entrant: a dispatcher that answers at once calls      *)
(* completeOne(), which calls pumpQueue() again, inside the loop of the    *)
(* first.  `stack` holds the loop position of every frame, innermost last; *)
(* one action is one turn of the innermost loop, and nothing else of the   *)
(* program runs until the stack is empty.                                  *)
(***************************************************************************)
EXTENDS ComputerStore

CONSTANT MaxConcurrency     \* m_maxConcurrency

ASSUME ConcurrencyAssumption == MaxConcurrency \in Nat \ {0}

VARIABLES
    jobs,       \* m_jobs: [row, status]
    running,    \* m_running
    inflight,   \* m_inflight
    stack,      \* loop positions of the pumpQueue() frames
    outbox,     \* commands sent and not answered: the job's row, the machine it went to
    chosen,     \* identities of the machines that were selected
    starts,     \* how often a batch began, and
    finishes    \* batchFinished was emitted

batchVars == <<jobs, running, inflight, stack, outbox, chosen, starts, finishes>>

BatchInit ==
    /\ jobs = <<>> /\ running = FALSE /\ inflight = 0 /\ stack = <<>>
    /\ outbox = {} /\ chosen = {} /\ starts = 0 /\ finishes = 0

BatchGone ==
    /\ jobs' = <<>> /\ running' = FALSE /\ inflight' = 0 /\ stack' = <<>>
    /\ outbox' = {} /\ chosen' = {} /\ starts' = 0 /\ finishes' = 0

\* start() and retryFailed() from here on: pumpQueue() is called.
Begin(list) ==
    /\ jobs' = list
    /\ inflight' = 0 /\ running' = TRUE /\ starts' = starts + 1
    /\ stack' = <<1>>
    /\ UNCHANGED <<outbox, finishes>>

\* start() on the selected rows, in the order in which they were selected.
StartBatch ==
    /\ Call("Batch") /\ ~running
    /\ \E n \in 1..Len(rows) : \E selected \in Injection(1..n, DOMAIN rows) :
         /\ Begin([k \in 1..n |-> [row |-> selected[k], status |-> "Pending"]])
         /\ chosen' = {rows[selected[k]].id : k \in 1..n}

\* retryFailed(): the failed jobs of the last batch are pending again.
RetryFailed ==
    /\ Call("Retry") /\ ~running
    /\ \E n \in DOMAIN jobs : jobs[n].status = "DoneFailed"
    /\ Begin([n \in DOMAIN jobs |->
                [jobs[n] EXCEPT !.status = IF @ = "DoneFailed" THEN "Pending" ELSE @]])
    /\ UNCHANGED chosen

\* The dispatcher answers at once for a row that is not there (any more), for TLS
\* without a pinned certificate and for a tunnelled machine; else it sends the command.
AtOnce(row) == row > Len(rows) \/ (rows[row].tls /\ "Cert" \notin rows[row].trusted) \/ rows[row].ssh
Refusal(row) == IF row > Len(rows) THEN "DoneFailed" ELSE "Skipped"

CompleteOneStalls(list, row, status, frames) ==
    LET n == Min({k \in DOMAIN list : list[k].row = row /\ list[k].status = "Running"})
    IN  /\ jobs' = [list EXCEPT ![n].status = status]
        /\ stack' = frames

\* The reply callback and completeOne(): the job that runs for the row ends, and
\* pumpQueue() is called in a new frame.
CompleteOne(list, row, status, frames) ==
    LET n == Min({k \in DOMAIN list : list[k].row = row /\ list[k].status = "Running"})
    IN  /\ jobs' = [list EXCEPT ![n].status = status]
        /\ stack' = IF running THEN Append(frames, 1) ELSE frames

Pending(from) == {n \in from..Len(jobs) : jobs[n].status = "Pending"}

\* pumpQueue(), one turn of its loop: the next pending job is dispatched.
PumpTurn ==
    /\ stack # <<>>
    /\ inflight < MaxConcurrency /\ Pending(Last(stack)) # {}
    /\ LET n      == Min(Pending(Last(stack)))
           row    == jobs[n].row
           sent   == [jobs EXCEPT ![n].status = "Running"]
           frames == Append(Front(stack), n + 1)
       IN  IF AtOnce(row)
           THEN /\ CompleteOne(sent, row, Refusal(row), frames)
                /\ UNCHANGED <<inflight, outbox>>
           ELSE /\ jobs' = sent /\ stack' = frames
                /\ inflight' = inflight + 1
                /\ outbox' = outbox \cup {[row |-> row, id |-> rows[row].id]}
    /\ UNCHANGED <<running, chosen, starts, finishes>>

Active == \E n \in DOMAIN jobs : jobs[n].status \in {"Pending", "Running"}

PumpEndAgain ==
    /\ stack # <<>>
    /\ inflight >= MaxConcurrency \/ Pending(Last(stack)) = {}
    /\ stack' = Front(stack)
    /\ running' = (running /\ Active)
    /\ finishes' = IF ~Active THEN finishes + 1 ELSE finishes
    /\ UNCHANGED <<jobs, inflight, outbox, chosen, starts>>

\* pumpQueue() behind its loop: the frame that finds no job active ends the batch.
PumpEnd ==
    /\ stack # <<>>
    /\ inflight >= MaxConcurrency \/ Pending(Last(stack)) = {}
    /\ stack' = Front(stack)
    /\ running' = (running /\ Active)
    /\ finishes' = IF running /\ ~Active THEN finishes + 1 ELSE finishes
    /\ UNCHANGED <<jobs, inflight, outbox, chosen, starts>>

\* A command's result arrives; the WSMAN layer reports every command once.
CommandDone ==
    /\ stack = <<>>
    /\ \E o \in outbox, status \in {"DoneOk", "DoneFailed"} :
         /\ outbox' = outbox \ {o}
         /\ CompleteOne(jobs, o.row, status, <<>>)
    /\ inflight' = inflight - 1
    /\ UNCHANGED <<running, chosen, starts, finishes>>

Pump == PumpTurn \/ PumpEnd

-----------------------------------------------------------------------------
\* However the frames nest, the books agree whenever the loop is left: as many jobs are
\* Running as commands are out and as the counter says, never more than the cap; no
\* pending job waits while there is room; the batch runs exactly as long as a job is
\* active, and every batch has been reported finished once.
BatchAccounted ==
    stack = <<>> =>
      /\ inflight = Cardinality(outbox)
      /\ inflight = Cardinality({n \in DOMAIN jobs : jobs[n].status = "Running"})
      /\ inflight <= MaxConcurrency
      /\ inflight < MaxConcurrency => Pending(1) = {}
      /\ running = Active
      /\ finishes = (IF running THEN starts - 1 ELSE starts)

\* batchrunner.h: a batch fans out "across multiple selected hosts": no command goes to
\* a machine that was not selected when the batch was started.
CommandsHitSelected == \A o \in outbox : o.id \in chosen
=============================================================================
