---- MODULE Process ----
(***************************************************************************)
(* What pyzord-server and pyzord-api have in common: one thread that runs  *)
(* an io_service, and a pyzor::database that opens the replicated database *)
(* when its link to the slave comes up and closes it when the link breaks. *)
(* When that happens is ClientDatabase's matter; here it is any time.      *)
(***************************************************************************)
EXTENDS Integers, Sequences

CONSTANTS
    MaxBreaks,  \* bound on the times the link to the database goes down
    MaxFaults   \* bound on calls that fail

ASSUME ProcessAssumption == MaxBreaks \in Nat /\ MaxFaults \in Nat

VARIABLES
    fate,       \* "running", or how the thread ended: "threw", "undefined"
    handles,    \* the database is open: between start_signal_ and stop_signal_
    submitted,  \* number of updates this process has handed to the database
    breaks,     \* number of times the link has gone down
    faults      \* number of calls that have failed

link == <<handles, breaks>>

processVars == <<fate, link, submitted, faults>>

\* The constructors of io_service and database.
ProcessInit ==
    /\ fate = "running"
    /\ handles = FALSE /\ breaks = 0
    /\ submitted = 0 /\ faults = 0

ProcessRestarts ==
    /\ fate' = "running"
    /\ handles' = FALSE
    /\ submitted' = 0
    /\ UNCHANGED breaks

\* database::handle_connect, with setup().
LinkUp ==
    /\ ~handles
    /\ handles' = TRUE
    /\ UNCHANGED breaks

\* database::handle_read_ping and handle_write_update with an error.
LinkDown ==
    /\ handles
    /\ breaks < MaxBreaks
    /\ breaks' = breaks + 1
    /\ handles' = FALSE

Fault == faults < MaxFaults /\ faults' = faults + 1

\* An exception leaves a handler, and the thread.
Throws == Fault /\ fate' = "threw"

====
