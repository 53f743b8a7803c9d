---- MODULE Daemon ----
(***************************************************************************)
(* The life of a program: daemonize() and wrapper() (common/daemon.cpp),   *)
(* which start it, wait for its end and start it again, and the main       *)
(* thread of the started process (run_in_thread, common/common.cpp).  What *)
(* the process's other thread does is the matter of the module that        *)
(* extends this one.                                                       *)
(***************************************************************************)
EXTENDS Integers

CONSTANTS
    Programs,   \* the programs that are started in this way
    MaxStops    \* bound on the signals that the operator sends

ASSUME DaemonAssumption == MaxStops \in Nat

VARIABLES
    program,  \* the program that this is
    wrapper,  \* where wrapper() is
    main,     \* where the main thread of the process is
    stopped,  \* io_service::stop was called in the process
    status,   \* the status of the process that ended last, as waitpid has it
    pidFile,  \* the pid file is there
    stops     \* number of signals that the operator has sent

daemonVars == <<program, wrapper, main, stopped, status, pidFile, stops>>

\* What the programs' main functions return, however they got there.
ReturnCode(p) == IF p = "pyzord-api" THEN 0 ELSE 128

Exited(code) == code * 256

SIGABRT == 6
SIGSEGV == 11
SIGTERM == 15

\* mutant of IsFinal: the status as waitpid has it, without >> 8.
IsFinalUnshifted(s) == s = 128

\* "Exit code 128 means that the daemon exited".
IsFinal(s) == s \div 256 = 128

\* mutant of AfterEnd: does not start again what a signal has killed.
OnlyAfterExit(s) == IF IsFinal(s) \/ s % 256 # 0 THEN "ended" ELSE "sleeping"

AfterEnd(s) == IF IsFinal(s) THEN "ended" ELSE "sleeping"

\* The process has a second thread.
Threaded == main \in {"unblocked", "sigwait", "stopping"}

----------------------------------------------------------------------------
\* daemonize: the wrapper is the child of the command that was called.
DaemonInit ==
    /\ program \in Programs
    /\ wrapper = "forking"
    /\ main = "none"
    /\ stopped = FALSE
    /\ status = 0
    /\ pidFile = FALSE
    /\ stops = 0

Fork ==
    /\ wrapper = "forking"
    /\ wrapper' = "writing"
    /\ main' = "constructing"
    /\ stopped' = FALSE
    /\ UNCHANGED <<program, status, pidFile, stops>>

ForkFails ==
    /\ wrapper = "forking"
    /\ wrapper' = "ended"
    /\ UNCHANGED <<program, main, stopped, status, pidFile, stops>>

\* fopen may fail.
WritePid ==
    /\ wrapper = "writing"
    /\ wrapper' = "waiting"
    /\ pidFile' \in BOOLEAN
    /\ UNCHANGED <<program, main, stopped, status, stops>>

\* waitpid returns.
Reap ==
    /\ wrapper = "waiting"
    /\ main = "exited"
    /\ main' = "none"
    /\ pidFile' = FALSE
    /\ wrapper' = AfterEnd(status)
    /\ UNCHANGED <<program, stopped, status, stops>>

\* sleep(5) is over.
Awake ==
    /\ wrapper = "sleeping"
    /\ wrapper' = "forking"
    /\ UNCHANGED <<program, main, stopped, status, pidFile, stops>>

----------------------------------------------------------------------------
Ends(s) ==
    /\ main' = "exited"
    /\ status' = s
    /\ UNCHANGED <<program, wrapper, stopped, pidFile, stops>>

\* A constructor throws; main catches it and returns.
ConstructorThrows == main = "constructing" /\ Ends(Exited(ReturnCode(program)))

\* run_in_thread: the thread runs, and only then are the signals blocked.
Constructed ==
    /\ main = "constructing"
    /\ main' = "unblocked"
    /\ UNCHANGED <<program, wrapper, stopped, status, pidFile, stops>>

BlockSignals ==
    /\ main = "unblocked"
    /\ main' = "sigwait"
    /\ UNCHANGED <<program, wrapper, stopped, status, pidFile, stops>>

\* The operator stops the process that the pid file names: it ends where the
\* signal is not blocked, and is told by sigwait where it is.
Signal ==
    /\ pidFile
    /\ stops < MaxStops
    /\ stops' = stops + 1
    /\ \/ /\ main \in {"constructing", "unblocked"}
          /\ main' = "exited"
          /\ status' = SIGTERM
       \/ main = "sigwait" /\ main' = "stopping" /\ UNCHANGED status
    /\ UNCHANGED <<program, wrapper, stopped, pidFile>>

\* The thread has ended, and run_in_thread joins it.
Join == main = "stopping" /\ stopped /\ Ends(Exited(ReturnCode(program)))

\* The thread takes the process with it.
Dies(s) == Threaded /\ Ends(s)

DaemonTypeOK ==
    /\ program \in Programs
    /\ wrapper \in {"forking", "writing", "waiting", "sleeping", "ended"}
    /\ main \in {"none", "constructing", "unblocked", "sigwait", "stopping", "exited"}
    /\ stopped \in BOOLEAN /\ pidFile \in BOOLEAN
    /\ stops \in 0 .. MaxStops
    /\ wrapper \in {"forking", "sleeping", "ended"} <=> main = "none"

====
