---- MODULE ClientDatabase ----
(***************************************************************************)
(* pyzor::database (common/database.cpp): the client side of the system,   *)
(* in pyzord-server, pyzord-api and bohuno-updated.  It keeps a connection *)
(* to the local slave (or master), opens the replicated database while the *)
(* connection lasts, tells its owner through start_signal_ and             *)
(* stop_signal_, and queues the updates that are submitted to it.          *)
(*                                                                         *)
(* Unlike slave.cpp it also reads the pings of its peer, so a read and a   *)
(* write can fail together, and each starts a reconnect of its own.  What  *)
(* happens then depends on asio's order of handlers, so that is modelled:  *)
(* completed operations wait in a FIFO queue; close() and                  *)
(* expires_from_now() cancel operations, whose completions the reactor     *)
(* queues on its next run, before those of any later event.                *)
(***************************************************************************)
EXTENDS Naturals, Sequences, FiniteSets, Functions

CONSTANTS
    MaxUpdates,  \* bound on the number of submitted updates
    MaxBreaks,   \* bound on the number of connections that break
    MaxStalls,   \* bound on the number of writes the kernel takes only later
    MaxPending   \* bound on the operations outstanding when a connect completes

ASSUME BoundsAssumption ==
    /\ MaxUpdates \in Nat /\ MaxBreaks \in Nat
    /\ MaxStalls \in Nat /\ MaxPending \in Nat

VARIABLES
    process,    \* "running", "dead", or "undefined" after undefined behaviour
    updates,    \* database::updates_
    connected,  \* database::connected_
    open,       \* setup() has opened env_, db_ and index_ and start_signal_
                \* was sent; stop_signal_ and teardown() end that
    socket,     \* database::socket_: "closed", "connecting", "open", or
                \* "dead": open, but there is no connection (any more)
    reading,    \* number of pending async_reads
    writing,    \* the updates of the pending async_writes
    waiting,    \* whether an async_wait on connect_timer_ is pending
    ready,      \* the completions whose handlers are queued to run
    cancelled,  \* per operation: the completions the reactor has yet to queue
    submitted,  \* number of updates handed to write_update
    sent,       \* the updates handed to the kernel, in order
    disturbed,  \* a write has failed, or an update was submitted while
                \* connected_ said up and nothing was open
    breaks,     \* connections broken so far
    stalls      \* writes that had to wait so far

vars == <<process, updates, connected, open, socket, reading, writing, waiting,
          ready, cancelled, submitted, sent, disturbed, breaks, stalls>>

Operations == {"connect", "read", "write", "wait"}

Done(op) == [op |-> op, failed |-> FALSE]

Failed(op) == [op |-> op, failed |-> TRUE]

----------------------------------------------------------------------------
(* External: asio. *)

Times(n, x) == [k \in 1 .. n |-> x]

One(condition) == IF condition THEN 1 ELSE 0

NoneCancelled == [op \in Operations |-> 0]

\* The completions of cancelled operations, as the reactor queues them.
Aborted ==
    Times(cancelled.read, Failed("read"))
      \o Times(cancelled.write, Failed("write"))
      \o Times(cancelled.connect, Failed("connect"))
      \o Times(cancelled.wait, Failed("wait"))

\* The reactor runs, and finds some operations complete.
Reactor(completions) ==
    /\ process = "running"
    /\ ready' = ready \o Aborted \o completions
    /\ cancelled' = NoneCancelled

\* The handler at the front of the queue runs, and posts some completions.
Handle(op, failed) ==
    /\ process = "running"
    /\ ready # <<>>
    /\ Head(ready) = [op |-> op, failed |-> failed]

Posts(completions) == ready' = Tail(ready) \o completions

\* async_read of a ping: on a closed socket it fails at once.
ReadPosts == IF socket = "closed" THEN <<Failed("read")>> ELSE <<>>

StartRead == reading' = reading + One(socket # "closed")

\* What an async_write of update u may do: the kernel takes the bytes at once
\* (also on a connection that is gone), fails at once, or takes its time.
WriteEffects(u) ==
    {e \in {[posts |-> <<Done("write")>>, sends |-> <<u>>, pends |-> <<>>],
            [posts |-> <<Failed("write")>>, sends |-> <<>>, pends |-> <<>>],
            [posts |-> <<>>, sends |-> <<>>, pends |-> <<u>>]} :
       /\ e.sends # <<>> => socket \in {"open", "dead"}
       /\ e.posts = <<Failed("write")>> => socket \in {"closed", "dead"}
       /\ e.pends # <<>> => socket \in {"open", "connecting"}
                              /\ stalls < MaxStalls}

NoEffect == [posts |-> <<>>, sends |-> <<>>, pends |-> <<>>]

\* async_write of the front of queue q, if the link is up and q is not empty.
WriteWhenDown(up, q) ==  \* mutant: connected_ is not looked at
    IF q # <<>> THEN WriteEffects(Head(q)) ELSE {NoEffect}

WriteFront(up, q) ==
    IF up /\ q # <<>> THEN WriteEffects(Head(q)) ELSE {NoEffect}

Writes(e) ==
    /\ sent' = sent \o e.sends
    /\ writing' = writing \o e.pends
    /\ stalls' = stalls + Len(e.pends)

\* mutant of CloseAndReconnect: no async_wait(connect).
CloseOnly ==
    /\ socket' = "closed"
    /\ reading' = 0
    /\ writing' = <<>>
    /\ UNCHANGED waiting
    /\ cancelled' =
         [cancelled EXCEPT !.read = @ + reading,
                           !.write = @ + Len(writing),
                           !.connect = @ + One(socket = "connecting")]

\* mutant of CloseAndReconnect: no socket_.close().
ReconnectUnclosed ==
    /\ UNCHANGED <<socket, reading, writing>>
    /\ waiting' = TRUE
    /\ cancelled' = [cancelled EXCEPT !.wait = @ + One(waiting)]

\* socket_.close(), connect_timer_.expires_from_now(5s), async_wait(connect).
\* A wait that is cancelled still runs connect(), which ignores the error.
CloseAndReconnect ==
    /\ socket' = "closed"
    /\ reading' = 0
    /\ writing' = <<>>
    /\ waiting' = TRUE
    /\ cancelled' =
         [read    |-> cancelled.read + reading,
          write   |-> cancelled.write + Len(writing),
          connect |-> cancelled.connect + One(socket = "connecting"),
          wait    |-> cancelled.wait + One(waiting)]

KeepHandles == UNCHANGED open  \* mutant: no teardown()

\* stop_signal_(); teardown()
CloseHandles == open' = FALSE

----------------------------------------------------------------------------
\* database::database: the constructor runs the first connect().
Init ==
    /\ process = "running"
    /\ updates = <<>>
    /\ connected = FALSE
    /\ open = FALSE
    /\ socket = "connecting"
    /\ reading = 0
    /\ writing = <<>>
    /\ waiting = FALSE
    /\ ready = <<>>
    /\ cancelled = NoneCancelled
    /\ submitted = 0
    /\ sent = <<>>
    /\ disturbed = FALSE
    /\ breaks = 0
    /\ stalls = 0

\* database::connect, the handler of connect_timer_: async_connect opens a
\* closed socket and fails at once on any other.
Connect ==
    /\ \E failed \in BOOLEAN : Handle("wait", failed)
    /\ \/ /\ socket = "closed"
          /\ socket' = "connecting"
          /\ Posts(<<>>)
       \/ /\ socket # "closed"
          /\ Posts(<<Failed("connect")>>)
          /\ UNCHANGED socket
    /\ UNCHANGED <<process, updates, connected, open, reading, writing, waiting,
                   cancelled, submitted, sent, disturbed, breaks, stalls>>

\* database::handle_connect without an error.
HandleConnectOk ==
    /\ Handle("connect", FALSE)
    /\ connected' = TRUE
    /\ open' = TRUE
    /\ StartRead
    /\ \E e \in WriteFront(TRUE, updates) : Writes(e) /\ Posts(e.posts \o ReadPosts)
    /\ UNCHANGED <<process, updates, socket, waiting, cancelled, submitted, disturbed,
                   breaks>>

\* setup() throws, for instance because the replica has no database yet:
\* nothing catches that on the io_service thread.
SetupFails ==
    /\ Handle("connect", FALSE)
    /\ process' = "dead"
    /\ UNCHANGED <<updates, connected, open, socket, reading, writing, waiting,
                   ready, cancelled, submitted, sent, disturbed, breaks, stalls>>

\* database::handle_connect with an error.
HandleConnectError ==
    /\ Handle("connect", TRUE)
    /\ CloseAndReconnect
    /\ Posts(<<>>)
    /\ UNCHANGED <<process, updates, connected, open, submitted, sent, disturbed,
                   breaks, stalls>>

\* database::handle_read_ping without an error.
HandleReadPingOk ==
    /\ Handle("read", FALSE)
    /\ StartRead
    /\ Posts(ReadPosts)
    /\ UNCHANGED <<process, updates, connected, open, socket, writing, waiting,
                   cancelled, submitted, sent, disturbed, breaks, stalls>>

\* database::handle_read_ping with an error: connected_ stays as it is.
HandleReadPingError ==
    /\ Handle("read", TRUE)
    /\ CloseAndReconnect
    /\ CloseHandles
    /\ Posts(<<>>)
    /\ UNCHANGED <<process, updates, connected, submitted, sent, disturbed, breaks,
                   stalls>>

\* database::write_update, called by the owner's handlers on the same thread.
WriteUpdate ==
    /\ process = "running"
    /\ submitted < MaxUpdates
    /\ submitted' = submitted + 1
    /\ updates' = Append(updates, submitted + 1)
    /\ \E e \in WriteFront(connected /\ updates = <<>>, updates') :
         Writes(e) /\ ready' = ready \o e.posts
    /\ disturbed' = (disturbed \/ (connected /\ ~open))
    /\ UNCHANGED <<process, connected, open, socket, reading, waiting, cancelled,
                   breaks>>

\* database::handle_write_update without an error.
HandleWriteUpdateOk ==
    /\ Handle("write", FALSE)
    /\ updates # <<>>
    /\ updates' = Tail(updates)
    /\ \E e \in WriteFront(connected, updates') : Writes(e) /\ Posts(e.posts)
    /\ UNCHANGED <<process, connected, open, socket, reading, waiting, cancelled,
                   submitted, disturbed, breaks>>

\* pop_front() on an empty queue is undefined: the model ends there.
PopFromEmptyQueue ==
    /\ Handle("write", FALSE)
    /\ updates = <<>>
    /\ process' = "undefined"
    /\ UNCHANGED <<updates, connected, open, socket, reading, writing, waiting,
                   ready, cancelled, submitted, sent, disturbed, breaks, stalls>>

\* database::handle_write_update with an error.
HandleWriteUpdateError ==
    /\ Handle("write", TRUE)
    /\ CloseAndReconnect
    /\ connected' = FALSE
    /\ CloseHandles
    /\ disturbed' = TRUE
    /\ Posts(<<>>)
    /\ UNCHANGED <<process, updates, submitted, sent, breaks, stalls>>

----------------------------------------------------------------------------
(* External: the network, the kernel and the clock, through the reactor. *)

\* The operations of a kind whose handlers have yet to run.
Count(completions, op) ==
    Cardinality({k \in DOMAIN completions : completions[k].op = op})

Queued(op) == Count(ready, op) + cancelled[op]

Reads == Queued("read") + reading

Connects == Queued("connect") + One(socket = "connecting")

Waits == Queued("wait") + One(waiting)

Outstanding == Reads + Connects + Waits + Queued("write") + Len(writing)

ConnectCompletes ==
    /\ socket = "connecting"
    /\ Outstanding <= MaxPending
    /\ \/ socket' = "open" /\ Reactor(<<Done("connect")>>)
       \/ socket' = "dead" /\ Reactor(<<Failed("connect")>>)
    /\ UNCHANGED <<process, updates, connected, open, reading, writing, waiting,
                   submitted, sent, disturbed, breaks, stalls>>

Connected ==
    ConnectCompletes /\ socket' = "open"

\* mutant of ReadCompletes: a read completes that nobody started.
ReadUnasked ==
    /\ \/ socket = "open" /\ Reactor(<<Done("read")>>)
       \/ socket = "dead" /\ Reactor(<<Failed("read")>>)
    /\ reading' = reading - 1
    /\ UNCHANGED <<process, updates, connected, open, socket, writing, waiting,
                   submitted, sent, disturbed, breaks, stalls>>

\* A ping arrives, or the read finds the connection gone.
ReadCompletes ==
    /\ reading > 0
    /\ \/ socket = "open" /\ Reactor(<<Done("read")>>)
       \/ socket = "dead" /\ Reactor(<<Failed("read")>>)
    /\ reading' = reading - 1
    /\ UNCHANGED <<process, updates, connected, open, socket, writing, waiting,
                   submitted, sent, disturbed, breaks, stalls>>

WriteCompletes ==
    /\ writing # <<>>
    /\ \/ /\ socket = "open"
          /\ sent' = Append(sent, Head(writing))
          /\ Reactor(<<Done("write")>>)
       \/ /\ socket = "dead"
          /\ Reactor(<<Failed("write")>>)
          /\ UNCHANGED sent
    /\ writing' = Tail(writing)
    /\ UNCHANGED <<process, updates, connected, open, socket, reading, waiting,
                   submitted, disturbed, breaks, stalls>>

\* The five seconds of connect_timer_ outlast the handlers that are queued.
TimerExpires ==
    /\ waiting
    /\ socket # "connecting"
    /\ ready = <<>>
    /\ cancelled = NoneCancelled
    /\ waiting' = FALSE
    /\ Reactor(<<Done("wait")>>)
    /\ UNCHANGED <<process, updates, connected, open, socket, reading, writing,
                   submitted, sent, disturbed, breaks, stalls>>

CancelledComplete ==
    /\ cancelled # NoneCancelled
    /\ Reactor(<<>>)
    /\ UNCHANGED <<process, updates, connected, open, socket, reading, writing,
                   waiting, submitted, sent, disturbed, breaks, stalls>>

Break ==
    /\ process = "running"
    /\ breaks < MaxBreaks
    /\ breaks' = breaks + 1
    /\ socket = "open"
    /\ socket' = "dead"
    /\ UNCHANGED <<process, updates, connected, open, reading, writing, waiting,
                   ready, cancelled, submitted, sent, disturbed, stalls>>

RunHandler ==
    \/ Connect \/ HandleConnectOk \/ SetupFails \/ HandleConnectError
    \/ HandleReadPingOk \/ HandleReadPingError
    \/ HandleWriteUpdateOk \/ PopFromEmptyQueue \/ HandleWriteUpdateError

Next ==
    \/ RunHandler \/ WriteUpdate
    \/ ConnectCompletes \/ ReadCompletes \/ WriteCompletes \/ TimerExpires
    \/ CancelledComplete \/ Break

Spec == Init /\ [][Next]_vars

\* The io_service runs its handlers and its reactor; timers expire; pings keep
\* coming while there is a connection (every 3 s); connecting to the local
\* slave does not fail for ever.
Fairness ==
    /\ WF_vars(RunHandler)
    /\ WF_vars(CancelledComplete)
    /\ WF_vars(TimerExpires)
    /\ WF_vars(ReadCompletes)
    /\ WF_vars(WriteCompletes)
    /\ WF_vars(ConnectCompletes)
    /\ SF_vars(Connected)

FairSpec == Spec /\ Fairness

----------------------------------------------------------------------------
TypeOK ==
    /\ process \in {"running", "dead", "undefined"}
    /\ updates \in Seq(1 .. MaxUpdates)
    /\ connected \in BOOLEAN /\ open \in BOOLEAN
    /\ socket \in {"closed", "connecting", "open", "dead"}
    /\ reading \in Nat
    /\ writing \in Seq(1 .. MaxUpdates)
    /\ waiting \in BOOLEAN
    /\ ready \in Seq([op : Operations, failed : BOOLEAN])
    /\ cancelled \in [Operations -> Nat]
    /\ submitted \in 0 .. MaxUpdates
    /\ sent \in Seq(1 .. MaxUpdates)
    /\ disturbed \in BOOLEAN
    /\ breaks \in 0 .. MaxBreaks /\ stalls \in 0 .. MaxStalls

\* Until a write fails, one operation carries the link on: while the database
\* is open, the read that will notice the end of the connection; otherwise a
\* connect or a wait.  So connects do not compete for the socket, and setup()
\* never opens the environment over handles that are still open.
OneReconnect ==
    process = "running" /\ ~disturbed =>
        IF open THEN Reads = 1 /\ Connects + Waits = 0
                ELSE Reads = 0 /\ Connects + Waits = 1

Numbers(n) == [k \in 1 .. n |-> k]

\* Until then, each update is sent once and in the order of submission, and
\* pop_front() discards the one that was sent.
SentOnce ==
    ~disturbed =>
       /\ process # "undefined"
       /\ sent = Numbers(Len(sent))
       /\ IF Done("write") \in Range(ready)
            THEN updates # <<>> /\ Head(updates) = Len(sent)
            ELSE sent \o updates = Numbers(submitted)

\* Whatever happened, the link always has an operation that carries it on.
NeverStuck == process = "running" => Reads + Connects + Waits > 0

Down == process = "running" /\ ~open /\ Outstanding <= MaxPending

\* Whatever happened, the owner gets its database back, if only for a while.
Reopens == Down ~> ~Down

\* The link comes up again after an error, and stays up once connections break
\* no more (the bound on outstanding operations is no excuse for going down).
StaysUp == <>[](process = "running" => open \/ Outstanding > MaxPending)

====
