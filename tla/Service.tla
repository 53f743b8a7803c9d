---- MODULE Service ----
(***************************************************************************)
(* pyzord-server and pyzord-api as they run: the wrapper, the main thread  *)
(* that waits for a signal, and the thread of the program, through         *)
(* failures, stops and restarts.                                           *)
(***************************************************************************)
EXTENDS Daemon, Server, HttpServer, Statistics

CONSTANTS
    Requests,   \* texts that the parser is tried on, with those around them
    Histories   \* times that a ring is made, told of events and averaged at

\* A ring is made before it is averaged; time() is a number of seconds.
ASSUME ServiceAssumption ==
    /\ Requests \subseteq Seq(Classes)
    /\ \A times \in Histories : times \in Seq(Nat) /\ Len(times) >= 2

programVars == <<processVars, serverVars, httpVars>>

allVars == <<daemonVars, programVars>>

\* The process is gone: its memory, and what the system held for it.
MemoryIsLost ==
    ProcessRestarts /\ UNCHANGED faults /\ ServerRestarts /\ HttpRestarts

Init == DaemonInit /\ ProcessInit /\ ServerInit /\ HttpInit

----------------------------------------------------------------------------
\* The steps of the wrapper that the process does not see.
WrapperStep ==
    /\ Fork \/ WritePid \/ Reap \/ Awake
    /\ UNCHANGED programVars

WrapperFails ==
    /\ ForkFails
    /\ Fault
    /\ UNCHANGED <<fate, link, submitted, serverVars, httpVars>>

\* The constructors are done: pyzord-api listens from here on.
Starts ==
    /\ Constructed
    /\ IF program = "pyzord-api" THEN Listen ELSE UNCHANGED httpVars
    /\ UNCHANGED <<processVars, serverVars>>

BlocksSignals == BlockSignals /\ UNCHANGED programVars

StartFails ==
    /\ ConstructorThrows
    /\ Fault
    /\ UNCHANGED <<fate, link, submitted, serverVars, httpVars>>

IsStopped ==
    /\ Signal
    /\ IF main' = "exited" THEN MemoryIsLost ELSE UNCHANGED programVars

\* server::stop: io_service::stop.
StopServer ==
    /\ program = "pyzord-server"
    /\ UNCHANGED programVars

\* http::server::server::stop posts handle_stop.
StopHttp ==
    /\ program = "pyzord-api"
    /\ fate = "running"
    /\ HandleStop
    /\ UNCHANGED serverVars

Stop ==
    /\ main = "stopping"
    /\ ~stopped
    /\ stopped' = TRUE
    /\ StopServer \/ StopHttp
    /\ UNCHANGED <<program, wrapper, main, status, pidFile, stops>>

Exits == Join /\ MemoryIsLost

\* terminate() after an exception, or a fault.
Aborts ==
    /\ \/ fate = "threw" /\ Dies(SIGABRT)
       \/ fate = "undefined" /\ Dies(SIGSEGV)
    /\ MemoryIsLost

\* A step of the thread or its clients.
InServer(A) ==
    /\ program = "pyzord-server"
    /\ Threaded /\ ~stopped /\ fate = "running"
    /\ A
    /\ UNCHANGED <<daemonVars, httpVars>>

InHttp(A) ==
    /\ program = "pyzord-api"
    /\ Threaded /\ ~stopped /\ fate = "running"
    /\ A
    /\ UNCHANGED <<daemonVars, serverVars>>

MainStep == Starts \/ BlocksSignals \/ Stop \/ Exits \/ Aborts

Next ==
    \/ WrapperStep \/ WrapperFails
    \/ MainStep \/ StartFails \/ IsStopped
    \/ InServer(ServerRuns)
    \/ InHttp(HttpRuns)

Spec == Init /\ [][Next]_allVars

\* The wrapper and main run; the thread runs its reactor and its handlers (that a
\* client goes on to send is not assumed).
Fairness ==
    /\ WF_allVars(WrapperStep)
    /\ WF_allVars(MainStep)
    /\ WF_allVars(InServer(ServerHandler))
    /\ WF_allVars(InServer(Pass))
    /\ WF_allVars(InHttp(\E c \in Connections : HttpEnds(c)))

FairSpec == Spec /\ Fairness

----------------------------------------------------------------------------
ServiceTypeOK ==
    /\ DaemonTypeOK
    /\ fate \in {"running", "threw", "undefined"}
    /\ handles \in BOOLEAN
    /\ submitted \in Nat /\ breaks \in 0 .. MaxBreaks /\ faults \in 0 .. MaxFaults
    /\ ServerTypeOK
    /\ HttpTypeOK

\* A server that was told to stop ends for good, unless it fails before it has
\* stopped: the status that waitpid returns has its exit code in the high byte.
Retires ==
    main = "stopping" /\ program = "pyzord-server" ~>
        wrapper = "ended" \/ fate # "running"

\* A process that ended in any other way than with the exit code 128 is followed
\* by one whose thread runs, unless another call fails on the way.
ServesAgain ==
    \A f \in 0 .. MaxFaults :
        main = "exited" /\ ~IsFinal(status) /\ faults = f ~>
            main \in {"unblocked", "sigwait"} \/ faults > f

----------------------------------------------------------------------------
(* The algorithms of the services that keep no state of theirs: said once for *)
(* each program, of its initial state.                                        *)

\* request_parser accepts requests, and nothing else, and refuses as soon as it
\* can, whatever is replaced, inserted, left out or cut off (httpd.cpp:463-769).
ParserRecognises == Init => Recognises(Requests)

\* Each ring of statistics counts exactly the events of its window, whether the
\* clock stands, runs on, jumps or is set back (statistics.cpp).
RingsCountWindow == Init => \A times \in Histories : CountsWindow(times)

====
