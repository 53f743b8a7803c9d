---- MODULE Server ----
(***************************************************************************)
(* pyzor::server (common/server.cpp): pyzord-server's UDP service.  A      *)
(* chain of receives answers datagrams from the local database; it is      *)
(* started when the link to the database comes up (start_signal_) and the  *)
(* socket is closed when it goes down (stop_signal_).  When that happens   *)
(* is up to pyzor::database: see ClientDatabase.  A datagram is its number *)
(* of arrival; what it asks for is chosen when the handler looks.          *)
(*                                                                         *)
(* asio 0.3.9 (external): a pass of the reactor performs at most one       *)
(* receive and then at most one send on the socket, and completes what was *)
(* cancelled; the handlers of what it completed run before the next pass.  *)
(* Nothing is sent or received before a pass.                              *)
(***************************************************************************)
EXTENDS Process

CONSTANTS
    MaxDatagrams  \* bound on the number of datagrams

ASSUME ServerAssumption == MaxDatagrams \in Nat

VARIABLES
    socket,     \* server::socket_ is open
    receives,   \* number of pending async_receive_froms
    aborted,    \* number of cancelled ones that the reactor has yet to complete
    ready,      \* the queued completions of receives: "received" or "failed"
    kernel,     \* the datagrams waiting in the socket
    data,       \* server::data_, with the sender: a request, a reply or Empty
    sends,      \* the pending async_send_tos: whom each replies to
    shutdown,  \* server::shutdown_
    arrived,    \* number of datagrams that have arrived
    settled,    \* the datagrams that were answered, or lost
    mixedUp,    \* history: what was sent in reply to a request was not its answer
    starts,     \* history: calls of start_listening in this process
    late        \* history: requests served after a shutdown

network == <<receives, aborted, ready, kernel, sends, data>>

history == <<mixedUp, starts, late>>

serverVars == <<socket, network, shutdown, arrived, settled, history>>

\* What a datagram asks for, or "malformed", which packet::parse refuses (a check of
\* what is no digest is one), or "version": not "2.0".
Operations == {"malformed", "version", "shutdown", "statistics", "check", "report",
               "whitelist", "ping", "unknown"}

\* What is in data_: the request of a datagram, or a reply.
Request(n) == [kind |-> "request", id |-> n]

Empty == [kind |-> "empty"]

Chains == receives + aborted + Len(ready)

----------------------------------------------------------------------------
(* The decisions of handle_receive_from. *)

\* packet::parse and the version decide first, then the operation.
Code(op, admin) ==
    CASE op = "malformed" -> 400
      [] op = "version" -> 505
      [] op \in {"shutdown", "statistics"} /\ ~admin -> 401
      [] op = "unknown" -> 501
      [] OTHER -> 200

\* Only an admin's request sets shutdown_.
StopsServer(op, admin) == op = "shutdown" /\ admin

----------------------------------------------------------------------------
\* The constructors of database and server.
ServerInit ==
    /\ socket = FALSE
    /\ receives = 0 /\ aborted = 0 /\ ready = <<>>
    /\ kernel = <<>> /\ data = Empty /\ sends = <<>>
    /\ shutdown = FALSE
    /\ arrived = 0 /\ settled = {}
    /\ mixedUp = FALSE /\ starts = 0 /\ late = 0

\* The same in the next process: its memory is new, the world goes on.
ServerRestarts ==
    /\ socket' = FALSE
    /\ receives' = 0 /\ aborted' = 0 /\ ready' = <<>>
    /\ kernel' = <<>> /\ data' = Empty /\ sends' = <<>>
    /\ shutdown' = FALSE
    /\ settled' = 1 .. arrived
    /\ starts' = 0 /\ late' = 0
    /\ UNCHANGED <<arrived, mixedUp>>

\* server::start_listening, after database::setup: one more chain of receives.
StartListening ==
    /\ LinkUp
    /\ socket' = TRUE
    /\ receives' = receives + 1
    /\ starts' = starts + 1
    /\ UNCHANGED <<fate, submitted, faults, aborted, ready, kernel, sends, data,
                   shutdown, arrived, settled, mixedUp, late>>

\* setup, resolve, open or bind throws.
StartThrows ==
    /\ ~handles
    /\ Throws
    /\ UNCHANGED <<link, submitted, socket, network, shutdown, arrived,
                   settled, history>>

\* server::stop_listening, before database::teardown: the close cancels all.
StopListening ==
    /\ LinkDown
    /\ socket' = FALSE
    /\ aborted' = aborted + receives
    /\ receives' = 0
    /\ kernel' = <<>> /\ sends' = <<>>
    /\ settled' = settled \cup {kernel[i] : i \in DOMAIN kernel}
                          \cup {sends[i] : i \in DOMAIN sends}
    /\ UNCHANGED <<fate, submitted, faults, ready, data, shutdown, arrived,
                   history>>

----------------------------------------------------------------------------
\* mutant of ReceiveNext: receives only after a request, not after an error.
ReceiveAfterRequest(stop) ==
    IF stop \/ Head(ready) = "failed"
      THEN UNCHANGED receives /\ ready' = Tail(ready)
    ELSE IF socket
      THEN receives' = receives + 1 /\ ready' = Tail(ready)
    ELSE UNCHANGED receives /\ ready' = Append(Tail(ready), "failed")

\* mutant of ReceiveNext: receives again only after an error.
ReceiveOnce(stop) ==
    IF stop \/ Head(ready) = "received"
      THEN UNCHANGED receives /\ ready' = Tail(ready)
    ELSE IF socket
      THEN receives' = receives + 1 /\ ready' = Tail(ready)
    ELSE UNCHANGED receives /\ ready' = Append(Tail(ready), "failed")

\* mutant of ReceiveNext: does not look at shutdown_.
ReceiveAlways(stop) ==
    IF socket
      THEN receives' = receives + 1 /\ ready' = Tail(ready)
    ELSE UNCHANGED receives /\ ready' = Append(Tail(ready), "failed")

\* The end of handle_receive_from: async_receive_from unless shutdown_ is set;
\* on a closed socket it fails at once.
ReceiveNext(stop) ==
    IF stop
      THEN UNCHANGED receives /\ ready' = Tail(ready)
    ELSE IF socket
      THEN receives' = receives + 1 /\ ready' = Tail(ready)
    ELSE UNCHANGED receives /\ ready' = Append(Tail(ready), "failed")

Handle(completion) ==
    ready # <<>> /\ Head(ready) = completion

\* The reply is written to data_ and its send is started, on a closed socket to
\* no effect.
Reply(id, code) ==
    /\ data' = [kind |-> "reply", id |-> id, code |-> code]
    /\ IF socket
         THEN sends' = Append(sends, id) /\ UNCHANGED settled
         ELSE settled' = settled \cup {id} /\ UNCHANGED sends

\* handle_receive_from with a request.
Serve(op, admin) ==
    /\ Handle("received")
    /\ op = "check" => handles
    /\ submitted' = submitted + (IF op = "report" THEN 1 ELSE 0)
    /\ shutdown' = (shutdown \/ StopsServer(op, admin))
    /\ Reply(data.id, Code(op, admin))
    /\ ReceiveNext(shutdown')
    /\ late' = late + (IF shutdown THEN 1 ELSE 0)
    /\ UNCHANGED <<fate, link, faults, socket, aborted, kernel, arrived, mixedUp,
                   starts>>

\* A check that was received before teardown: get goes through db_ == NULL.
ServeOffline ==
    /\ Handle("received")
    /\ ~handles
    /\ fate' = "undefined"
    /\ UNCHANGED <<link, submitted, faults, socket, network, shutdown, arrived, settled, history>>

\* database::get throws, and nothing catches it.
GetThrows ==
    /\ Handle("received")
    /\ handles
    /\ Throws
    /\ UNCHANGED <<link, submitted, socket, network, shutdown, arrived,
                   settled, history>>

\* handle_receive_from with no bytes.
ReceivedNothing ==
    /\ Handle("received")
    /\ ReceiveNext(shutdown)
    /\ settled' = settled \cup {data.id}
    /\ UNCHANGED <<fate, link, submitted, faults, socket, aborted, kernel, sends, data,
                   shutdown, arrived, history>>

\* handle_receive_from with an error.
ReceiveFailed ==
    /\ Handle("failed")
    /\ ReceiveNext(shutdown)
    /\ UNCHANGED <<fate, link, submitted, faults, socket, aborted, kernel, sends, data,
                   shutdown, arrived, settled, history>>

----------------------------------------------------------------------------
(* External: asio's reactor and the clients. *)

Receivable == receives > 0 /\ kernel # <<>>

Failures(n) == [k \in 1 .. n |-> "failed"]

\* A pass of the reactor.  A send takes data_ as it is by then.
Pass ==
    /\ \A i \in DOMAIN ready : ready[i] # "received"
    /\ aborted > 0 \/ Receivable \/ sends # <<>>
    /\ aborted' = 0
    /\ IF Receivable
         THEN /\ data' = Request(Head(kernel))
              /\ kernel' = Tail(kernel)
              /\ receives' = receives - 1
              /\ ready' = ready \o Failures(aborted) \o <<"received">>
         ELSE /\ ready' = ready \o Failures(aborted)
              /\ UNCHANGED <<data, kernel, receives>>
    /\ IF sends # <<>>
         THEN /\ mixedUp' = (mixedUp \/ data'.kind # "reply" \/ data'.id # Head(sends))
              /\ settled' = settled \cup {Head(sends)}
              /\ sends' = Tail(sends)
         ELSE UNCHANGED <<mixedUp, settled, sends>>
    /\ UNCHANGED <<fate, link, submitted, faults, socket, shutdown, arrived, starts, late>>

Arrive ==
    /\ socket
    /\ arrived < MaxDatagrams
    /\ arrived' = arrived + 1
    /\ kernel' = Append(kernel, arrived')
    /\ UNCHANGED <<fate, link, submitted, faults, socket, receives, aborted, ready,
                   sends, data, shutdown, settled, history>>

----------------------------------------------------------------------------
ServerHandler ==
    \/ \E op \in Operations, admin \in BOOLEAN : Serve(op, admin)
    \/ ServeOffline \/ GetThrows \/ ReceivedNothing \/ ReceiveFailed

\* What the io_service's thread does, with the network.
ServerRuns ==
    \/ StartListening \/ StartThrows \/ StopListening
    \/ ServerHandler \/ Pass
    \/ Arrive

ServerTypeOK ==
    /\ socket \in BOOLEAN /\ shutdown \in BOOLEAN
    /\ \A n \in {receives, aborted, arrived, starts, late} : n \in Nat
    /\ ready \in Seq({"received", "failed"})
    /\ kernel \in Seq(1 .. MaxDatagrams)
    /\ sends \in Seq(1 .. MaxDatagrams)
    /\ "received" \in {ready[i] : i \in DOMAIN ready} => data.kind = "request"
    /\ settled \subseteq 1 .. arrived

\* While the server has not been told to shut down, none of its chains of
\* receives ends, though receives fail and the socket comes and goes: it is never
\* deaf.  Nor is there a way to end one: each start_listening adds a chain.
OneChainPerStart == fate = "running" /\ ~shutdown => Chains = starts

\* After a shutdown each of the other chains serves at most one more request,
\* and so does each chain that a later start_listening adds.
ShutdownDrains == late < starts \/ (starts = 0 /\ late = 0)

\* What is sent to a client in reply is the answer to its request.
ReplyIsAnswer == ~mixedUp

\* Every datagram that reaches the socket is answered, or lost with the socket, or
\* else the server is told to shut down: again and again, none is waiting.
Answered == []<>(settled = 1 .. arrived \/ shutdown)

====
