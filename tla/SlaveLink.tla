---- MODULE SlaveLink ----
(***************************************************************************)
(* The link of pyzor::slave (common/slave.cpp) to the master: the queue of *)
(* updates that client sessions hand to the slave, and the chain of        *)
(* asynchronous connects, timer waits and writes that empties it.          *)
(*                                                                         *)
(* The slave runs on one io_service thread, so a handler is one step.      *)
(* Updates are numbered in the order of submission; their contents do not  *)
(* matter here.  asio and TCP are external: an outstanding operation is a  *)
(* count (connects, waits) or the update it writes (writing until the      *)
(* kernel has taken the bytes, written until its handler has run).         *)
(***************************************************************************)
EXTENDS Naturals, Sequences, Functions

CONSTANTS
    MaxUpdates,  \* bound on the number of submitted updates
    MaxBreaks,   \* bound on the number of connections that break
    MaxExits     \* bound on the number of times the slave process ends

ASSUME BoundsAssumption ==
    /\ MaxUpdates \in Nat
    /\ MaxBreaks \in Nat
    /\ MaxExits \in Nat

VARIABLES
    process,       \* the slave process: "running", "crashed" or "stopped"
    update_queue,  \* slave::update_queue_
    connected,     \* slave::connected_
    socket,        \* slave::socket_: "closed", "connecting", "open", or
                   \* "dead": open, but the connection is gone
    connects,      \* outstanding async_connect operations
    waits,         \* outstanding waits on connect_timer_
    writing,       \* outstanding async_writes, bytes not yet in the kernel
    written,       \* outstanding async_writes, bytes taken by the kernel
    wire,          \* wire[c]: on connection c, sent and not read by the master
    submitted,     \* number of updates handed to write_update
    delivered,     \* what the master read: the update and its connection
    lost,          \* updates that no queue and no connection holds any more
    breaks,        \* connections broken so far
    exits          \* processes ended so far

link == <<update_queue, connected, socket, connects, waits, writing, written>>

world == <<wire, delivered, lost, breaks, exits>>

vars == <<process, update_queue, connected, socket, connects, waits, writing,
          written, wire, submitted, delivered, lost, breaks, exits>>

----------------------------------------------------------------------------
\* The updates on some connection, and those the master has read.
OnWire == UNION {Range(wire[c]) : c \in DOMAIN wire}

DeliveredUpdates == [k \in DOMAIN delivered |-> delivered[k].update]

Arrived == Range(DeliveredUpdates)

\* Queued updates whose bytes are on no connection: the front one stays in
\* the queue until its write handler has run.
Unsent == Range(update_queue) \ Range(written)

\* slave::write_update: bool write_in_progress = !update_queue_.empty().
NeverInProgress == FALSE  \* mutant: every submission starts a write

WriteInProgress == update_queue # <<>>

\* update_queue_.push_back(u).
PushFront(u) == <<u>> \o update_queue  \* mutant: the newest jumps the queue

PushBack(u) == Append(update_queue, u)

\* async_write of the front of queue q, if the link is up and q is not empty.
WriteOnlyBacklog(up, q) ==  \* mutant: off by one, a single update waits
    IF up /\ Len(q) > 1 THEN Append(writing, Head(q)) ELSE writing

AsyncWriteFront(up, q) ==
    IF up /\ q # <<>> THEN Append(writing, Head(q)) ELSE writing

\* connect_timer_.expires_from_now(5s); async_wait(connect).  A wait that is
\* cancelled this way still runs its handler, which ignores the error.
ReconnectLater == waits' = waits + 1

\* The connection of socket c keeps the first n updates it carries.
CutWire(c, n) ==
    /\ wire' = [wire EXCEPT ![c] = SubSeq(@, 1, n)]
    /\ lost' = lost \cup Range(SubSeq(wire[c], n + 1, Len(wire[c])))

----------------------------------------------------------------------------
\* slave::slave: the constructor opens the link with its first connect().
Init ==
    /\ process = "running"
    /\ update_queue = <<>>
    /\ connected = FALSE
    /\ socket = "connecting"
    /\ connects = 1
    /\ waits = 0
    /\ writing = <<>>
    /\ written = <<>>
    /\ wire = <<>>
    /\ submitted = 0
    /\ delivered = <<>>
    /\ lost = {}
    /\ breaks = 0
    /\ exits = 0

\* mutant of Connect: it runs although no wait has ended.
ConnectWithoutWait ==
    /\ process = "running"
    /\ waits' = waits - 1
    /\ connects' = connects + 1
    /\ socket' = IF socket = "closed" THEN "connecting" ELSE socket
    /\ UNCHANGED <<process, update_queue, connected, writing, written,
                   submitted, world>>

\* slave::connect, run by connect_timer_.  async_connect opens a closed socket;
\* on any other socket the operation completes with an error.
Connect ==
    /\ process = "running"
    /\ waits > 0
    /\ waits' = waits - 1
    /\ connects' = connects + 1
    /\ socket' = IF socket = "closed" THEN "connecting" ELSE socket
    /\ UNCHANGED <<process, update_queue, connected, writing, written,
                   submitted, world>>

\* slave::handle_connect without an error: the master accepted.
HandleConnectOk ==
    /\ process = "running"
    /\ connects > 0
    /\ socket = "connecting"
    /\ connects' = connects - 1
    /\ socket' = "open"
    /\ connected' = TRUE
    /\ wire' = Append(wire, <<>>)
    /\ writing' = AsyncWriteFront(TRUE, update_queue)
    /\ UNCHANGED <<process, update_queue, waits, written, submitted,
                   delivered, lost, breaks, exits>>

\* slave::handle_connect with an error.
HandleConnectError ==
    /\ process = "running"
    /\ connects > 0
    /\ connects' = connects - 1
    /\ socket' = "closed"
    /\ connected' = FALSE
    /\ ReconnectLater
    /\ UNCHANGED <<process, update_queue, writing, written, submitted, world>>

\* slave::write_update, called by a client session that read an update.
WriteUpdate ==
    /\ process = "running"
    /\ submitted < MaxUpdates
    /\ submitted' = submitted + 1
    /\ update_queue' = PushBack(submitted + 1)
    /\ writing' = AsyncWriteFront(connected /\ ~WriteInProgress, update_queue')
    /\ UNCHANGED <<process, connected, socket, connects, waits, written, world>>

\* slave::handle_write_update without an error.
HandleWriteUpdateOk ==
    /\ process = "running"
    /\ written # <<>>
    /\ written' = Tail(written)
    /\ update_queue' = Tail(update_queue)
    /\ writing' = AsyncWriteFront(connected, update_queue')
    /\ UNCHANGED <<process, connected, socket, connects, waits, submitted,
                   world>>

\* slave::handle_write_update with an error: the connection was found broken,
\* or the socket was closed under the write.
HandleWriteUpdateError ==
    /\ process = "running"
    /\ writing # <<>>
    /\ socket \in {"dead", "closed"}
    /\ writing' = Tail(writing)
    /\ socket' = "closed"
    /\ connected' = FALSE
    /\ ReconnectLater
    /\ UNCHANGED <<process, update_queue, connects, written, submitted, world>>

----------------------------------------------------------------------------
\* External: the kernel takes the bytes of a write.  It also does on a
\* connection whose other end is gone, as long as nobody has told it so.
KernelSend ==
    /\ process = "running"
    /\ writing # <<>>
    /\ socket \in {"open", "dead"}
    /\ writing' = Tail(writing)
    /\ written' = Append(written, Head(writing))
    /\ \/ /\ socket = "open"
          /\ wire' = [wire EXCEPT ![Len(wire)] = Append(@, Head(writing))]
          /\ UNCHANGED lost
       \/ /\ socket = "dead"
          /\ lost' = lost \cup {Head(writing)}
          /\ UNCHANGED wire
    /\ UNCHANGED <<process, update_queue, connected, socket, connects, waits,
                   submitted, delivered, breaks, exits>>

\* master::session::handle_read on connection c: sessions are independent, so
\* the master may still read an old connection after a newer one opened.
MasterRead ==
    /\ \E c \in DOMAIN wire :
         /\ wire[c] # <<>>
         /\ delivered' = Append(delivered,
                                [update |-> Head(wire[c]), conn |-> c])
         /\ wire' = [wire EXCEPT ![c] = Tail(@)]
    /\ UNCHANGED <<process, link, submitted, lost, breaks, exits>>

\* External: the connection breaks; what had reached the master stays readable.
Break ==
    /\ breaks < MaxBreaks
    /\ socket = "open"
    /\ socket' = "dead"
    /\ \E n \in 0 .. Len(wire[Len(wire)]) : CutWire(Len(wire), n)
    /\ breaks' = breaks + 1
    /\ UNCHANGED <<process, update_queue, connected, connects, waits, writing,
                   written, submitted, delivered, exits>>

\* External: the master process ends; no session of it reads anything more.
MasterExit ==
    /\ breaks < MaxBreaks
    /\ socket' = IF socket = "open" THEN "dead" ELSE socket
    /\ wire' = [c \in DOMAIN wire |-> <<>>]
    /\ lost' = lost \cup OnWire
    /\ breaks' = breaks + 1
    /\ UNCHANGED <<process, update_queue, connected, connects, waits, writing,
                   written, submitted, delivered, exits>>

\* The process ends, by a crash or by slave::handle_stop: the queue is memory.
\* Closing a socket with unread pings resets the connection, which may discard
\* what is still on its way.
Exit(how) ==
    /\ process = "running"
    /\ exits < MaxExits
    /\ process' = how
    /\ update_queue' = <<>>
    /\ connected' = FALSE
    /\ socket' = "closed"
    /\ connects' = 0
    /\ waits' = 0
    /\ writing' = <<>>
    /\ written' = <<>>
    /\ \/ /\ socket = "open"
          /\ \E n \in 0 .. Len(wire[Len(wire)]) :
               /\ wire' = [wire EXCEPT ![Len(wire)] = SubSeq(@, 1, n)]
               /\ lost' = lost \cup Unsent
                            \cup Range(SubSeq(wire[Len(wire)], n + 1,
                                              Len(wire[Len(wire)])))
       \/ /\ socket # "open"
          /\ lost' = lost \cup Unsent
          /\ UNCHANGED wire
    /\ exits' = exits + 1
    /\ UNCHANGED <<submitted, delivered, breaks>>

Crash == Exit("crashed")

HandleStop == Exit("stopped")

\* The daemon wrapper starts a process that did not exit with code 128 again;
\* its constructor runs connect().
Restart ==
    /\ process = "crashed"
    /\ process' = "running"
    /\ connects' = 1
    /\ socket' = "connecting"
    /\ UNCHANGED <<update_queue, connected, waits, writing, written, submitted,
                   world>>

Next ==
    \/ Connect \/ HandleConnectOk \/ HandleConnectError
    \/ WriteUpdate \/ HandleWriteUpdateOk \/ HandleWriteUpdateError
    \/ KernelSend \/ MasterRead \/ Break \/ MasterExit
    \/ Crash \/ HandleStop \/ Restart

Spec == Init /\ [][Next]_vars

\* Timers expire and posted handlers run (one io_service thread, FIFO); the
\* kernel ends every write; the master reads what arrives.  Of the network it
\* is assumed that connection attempts do not fail for ever.
Fairness ==
    /\ WF_vars(Connect)
    /\ WF_vars(HandleConnectOk \/ HandleConnectError)
    /\ SF_vars(HandleConnectOk)
    /\ WF_vars(HandleWriteUpdateOk)
    /\ WF_vars(KernelSend \/ HandleWriteUpdateError)
    /\ WF_vars(MasterRead)
    /\ WF_vars(Restart)

FairSpec == Spec /\ Fairness

----------------------------------------------------------------------------
UpdateIds == 1 .. submitted

TypeOK ==
    /\ process \in {"running", "crashed", "stopped"}
    /\ update_queue \in Seq(Nat)
    /\ connected \in BOOLEAN
    /\ socket \in {"closed", "connecting", "open", "dead"}
    /\ connects \in Nat
    /\ waits \in Nat
    /\ writing \in Seq(Nat)
    /\ written \in Seq(Nat)
    /\ wire \in Seq(Seq(Nat))
    /\ submitted \in Nat
    /\ delivered \in Seq([update : Nat, conn : Nat])
    /\ lost \in SUBSET Nat
    /\ breaks \in Nat
    /\ exits \in Nat

\* While the slave runs, exactly one operation carries the link on: a connect
\* or a timer wait while disconnected; while connected, a write of the front of
\* the queue if there is one, and none otherwise.  So neither is an update left
\* in the queue with nobody to send it, nor are two chains racing each other
\* over the socket, and pop_front discards the update that was written.
OneOperation ==
    process = "running" =>
        /\ ~connected =>
              /\ connects + waits = 1
              /\ connects = 1 <=> socket = "connecting"
              /\ waits = 1 <=> socket = "closed"
              /\ writing = <<>> /\ written = <<>>
        /\ connected =>
              /\ connects = 0 /\ waits = 0
              /\ socket \in {"open", "dead"}
              /\ IF update_queue = <<>>
                   THEN writing = <<>> /\ written = <<>>
                   ELSE LET front == <<Head(update_queue)>>
                        IN  \/ writing = front /\ written = <<>>
                            \/ writing = <<>> /\ written = front

\* Every submitted update is in exactly one place, once: waiting in the queue,
\* on a connection, read by the master, or lost with a connection or process.
\* The queue therefore neither drops nor repeats an update, whatever the order
\* of failures, reconnects and restarts.
Accounted ==
    /\ UpdateIds = Unsent \cup OnWire \cup Arrived \cup lost
    /\ Unsent \cap (OnWire \cup Arrived \cup lost) = {}
    /\ OnWire \cap (Arrived \cup lost) = {}
    /\ Arrived \cap lost = {}
    /\ \A c \in DOMAIN wire : IsInjective(wire[c])
    /\ \A c, d \in DOMAIN wire : c # d => Range(wire[c]) \cap Range(wire[d]) = {}
    /\ IsInjective(DeliveredUpdates)

\* Updates that travel on the same connection are processed in the order in
\* which the slave's clients submitted them.
SessionOrder ==
    \A i, j \in DOMAIN delivered :
        i < j /\ delivered[i].conn = delivered[j].conn
            => delivered[i].update < delivered[j].update

\* Every submitted update is eventually processed by the master or lost with a
\* connection or a process: none waits in the queue for ever.
Settles ==
    \A u \in 1 .. MaxUpdates : u \in UpdateIds ~> u \in Arrived \cup lost

\* The slave implements an at-most-once channel.
Channel == INSTANCE UpdateChannel
    WITH accepted <- submitted,
         delivered <- DeliveredUpdates,
         dropped <- lost

ImplementsChannel == Channel!Spec

====
