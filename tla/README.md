# Pyzor database server: a TLA+ development

This directory models the C++ programs under `src/sources`: a distributed database of e-mail digests
(`pyzord-master`, `pyzord-slave`, `pyzord-server`, `pyzord-api`) and the publication of that database to
customers (`bohuno-updated`, `bohuno-pyzord`). Paths below are relative to `src/sources`.

Contents: 1 the system, 2 inventory, 3 hazards, 4 the modules and how they correspond to the code, 5 runs and
what they show, 6 fairness, 7 proofs, 8 what is not modelled, 9 plan.

## 1. The system

```
 mail clients --UDP--> pyzord-server --+                                +--> bohuno-pyzord --UDP--> clients
 HTTP clients -------> pyzord-api -----+--TCP 5555--> pyzord-slave      |        (import)
                       bohuno-updated -+   (loopback)     | TCP         | HTTPS
                            |  reads                      v             |
                            |  the replica         pyzord-master        |
                            |                        (all writes)       |
                            |   <--Berkeley DB repmgr replication--     |
                            +--> snapshots/ updates/ files --> web server
```

* All writes go to the **master**. A client process hands an update (report, whitelist, erase) to its
  `pyzor::database`, which queues it and sends it over TCP to the local **slave**; the slave queues it again and
  sends it to the master; the master applies it to a Berkeley DB record.
* Reads use the local replica of the master's database, which Berkeley DB keeps up to date.
* The master expires old records that were reported at most once.
* **bohuno-updated** dumps the replica into files: a full *snapshot* every four hours, otherwise every five minutes
  an *update* with the records changed since the last one. **bohuno-pyzord** is set up from a snapshot, downloads
  the updates it needs, and answers queries from its own database.
* Each program is one `asio::io_service` run by one thread; `daemonize` forks a **wrapper** that restarts it unless
  it exits with code 128.

## 2. Inventory

| component | state | operations | interacts with | what makes it correct |
|---|---|---|---|---|
| slave link (`common/slave.cpp`) | `update_queue_`, `connected_`, socket, timer | submit, connect, write, reconnect, stop | client sessions, master | every update sent at most once, none stuck, order per connection, one chain of operations |
| slave sessions and replication | acceptor, sessions, environment | accept, read, wait for a master | clients, repmgr | reads whole updates; pings the client |
| master records (`record.cpp`, `master.cpp:543-689`) | map of digests to records, index by `updated` | report, whitelist, reset/erase | sessions | counts and times agree, for late and reordered updates |
| master expiry (`master.cpp:402-541`) | position in a status file, timer | batches of deletions | records, file system | every old record is reached; nothing lies behind the position |
| master checkpoints and recovery | log, `DB_TXN_NOSYNC` | checkpoint, recover | Berkeley DB | recovery leads to sound records |
| master sessions | acceptor, ping timers | read, ping | slaves, clients | one transaction for each update |
| client database (`common/database.cpp`) | `updates_`, `connected_`, socket, timer, handles, owner's signals | connect, ping, write, reconnect, setup, teardown | slave, owner | one environment at a time, comes back after errors, each update once |
| publisher (`bohuno/bohuno-updated.cpp`) | files, timer | expire, snapshot, update | client database, web server | windows form a chain; everything changed is published |
| replica (`bohuno/bohuno-pyzord.cpp`, `bohuno-database.cpp`) | download queue, timers, database | set up, scan, download, import | web server | comes to hold every update; never goes back |
| UDP server (`common/server.cpp`) | socket, `data_`, `shutdown_` | receive, answer, start/stop listening | client database | never deaf; a shutdown takes hold; the answer sent is the answer to the request |
| packets (`common/packet.cpp`) | none | parse, archive | UDP server | parse inverts archive |
| statistics ring (`common/statistics.cpp`) | ring of counts, last time | report, average | UDP servers | counts exactly the last n seconds |
| HTTP client (`common/wget.cpp`) | endpoints, request and response buffers | resolve, connect, handshake, write, read | replica, setup | exactly one callback; hands on all that came after the headers |
| HTTP server (`common/httpd.cpp`) and `pyzord-api` | connections, their manager, parser, acceptor | accept, parse, dispatch, write, stop | client database | request framing; every connection is released; an answer for each request |
| daemon wrapper (`common/daemon.cpp`, `run_in_thread` in `common/common.cpp`) | child process, pid file, signal mask | fork, wait, restart, stop | all programs | restarts after failures, ends after stops |
| import, export, setup tools | none | one pass | databases | completeness of the pass |
| licence, base64, ciphers, MD5, syslog | none | conversions | | not behavioural |

**Hard behaviours.** Queues that outlive connections, with completion handlers that run after the connection they
belong to is gone; two operations of one connection that fail together; timers cancelled by re-arming whose handlers
do not look at the error; updates that arrive late and out of order; a commit that may be undone by a crash while
a file written later is not; files that expire while somebody relies on them; selections by time with inclusive
and exclusive ends.

## 3. Hazards

`PROJECT.json` lists the hazards with their lines and the properties that would show them going wrong. Three have no
property, and a note saying why. One needs the byte counts of TCP buffers, which no module has. The two others are things that one
action of `HttpServer` shows by itself: a failed accept leaves the server deaf, although `httpd.cpp:925-928` says that an
accept is always outstanding, and the answer to a Get has a status nobody has set. Where a property excepts a part of its
hazard, because the code does the thing and promises nothing else, a note says so.

## 4. Modules and code

| module | models | composition |
|---|---|---|
| `UpdateChannel` | the promise of a link: an at-most-once channel | abstract specification |
| `SlaveLink` | `slave.cpp:100-137, 341-421`, the master's reader `master.cpp:55-76`, wrapper | implements `UpdateChannel` |
| `Record` | `record.cpp`: pure operators on records | used by `Master` |
| `Master` | `master.cpp`: updates, expiry, checkpoints, crash, recovery | |
| `ClientDatabase` | `database.cpp:22-28, 239-474` over asio | |
| `Dump` | `database.cpp:127-223`, `bohuno-database.cpp:182-324`: pure operators | used by the next two |
| `Publisher` | `bohuno-updated.cpp:49-358` | |
| `Replica` | `bohuno-pyzord.cpp:44-344`, `bohuno-pyzord-setup.cpp` | |
| `Publication` | the web server between them | extends `Publisher`, instantiates `Replica` |
| `Process` | one process with its link to the database, seen from outside: `database.cpp:22-28, 384-437` | extended by the next two |
| `Server` | `server.cpp`: the UDP service over asio's reactor | |
| `RequestParser` | `httpd.cpp:463-769`, `request_parser`: the whole machine | used by `HttpServer` |
| `HttpServer` | `httpd.cpp:796-956` with the dispatch of `pyzord-api.cpp` | |
| `Daemon` | `daemon.cpp`, `run_in_thread` of `common.cpp:79-107` | |
| `Statistics` | `statistics.cpp`: pure operators on a ring | used by `Service` |
| `Service` | `pyzord-server` and `pyzord-api` as they run | extends `Daemon`, `Server`, `HttpServer`, `Statistics` |
| `HttpClient` | `wget.cpp`: one request of either client class | |
| `SlaveLinkProofs`, `MasterProofs`, `ClientDatabaseProofs`, `PublicationProofs`, `ServiceProofs`, `HttpClientProofs` | theorems | each extends the module it is about (`PublicationProofs` also has those about `Publisher`); section 7 |
| `AlgorithmProofs` | theorems about `RequestParser` and `Statistics` | used by `ServiceProofs` |
| `SeqLemmas` | lemmas on sequences, least and greatest numbers, folds | used by the proofs |
| `MC*` | instances for TLC | |

**Granularity.** A handler of an `io_service` is one step, because one thread runs them. Two exceptions: a handler
that changes the file system (`master::handle_expire`, `updated::snapshot`) is a step for each effect that others,
or a crash, can see in between; and the outcome of an asynchronous operation (the kernel took the bytes, the
connection is gone) is a step apart from its handler.

**SlaveLink.** `update_queue`, `connected` and `socket` are the members; `connects`, `waits`, `writing` and `written`
are the operations asio holds. An update is its submission number. `wire[c]` is what is in flight on connection `c`;
the master may still be reading an old one. `KernelSend` on a dead socket is the case where the kernel buffers bytes
for a peer that is gone: they are lost though the write succeeds. The history variable `lost` makes "at most once"
precise. `Exit("crashed")` is followed by a restart, `Exit("stopped")` (exit code 128) is not.

**Record, Master.** A record has the marks `report` and `whitelist` (`count`, `entered`, `updated`) and its own times.
Counts wrap at `CountModulus`, which stands for 2^32. `ProcessUpdate` is the whole transaction; `UpdateFails` any of
its error paths. `HandleExpire` / `OpenStatus` / `WriteStatus` split the expiry handler where the status file is
truncated and written. `durable` is what recovery would find: commits do not wait for the log (`DB_TXN_NOSYNC`), so
it lags behind `db` until `FlushLog` or a checkpoint. `CHECK_DEADLOCK` is off in all runs because the bounded clock,
update and fault counters let the instances stop.

**ClientDatabase.** The outcome depends on the order of handlers, so asio is modelled: `ready` is the FIFO of
completed operations, `cancelled` the completions that the reactor will queue on its next pass. `close()` and
`expires_from_now()` move pending operations to `cancelled`. The wait handler is `connect()` without an error
argument, so a cancelled wait connects like an expired one. `TimerExpires` is later than everything that is queued
and than loopback connects, because the timer takes five seconds.

**Dump, Publisher.** A record is its `updated` time and an identity; a dump is a function from digests to versions.
`DumpsModified2` is a *set* of dumps: the code skips the first record of the window and the order of records with
the same time is that of their digests. The dump is one step; in the code it reads record by record without a
transaction, but a record that changes under it moves past the end of the window, so it is left to a later window, as if it
had been changed before the dump. Neither dump looks at an error of its cursor but as the end, nor at the state of its
stream: with `fails` the walk ends early and the file has a part of the records (any part for a snapshot, a first part in the order of the
index for an update), and with `cut` a write has failed and the compressed stream has no proper end. Such a file is renamed like any
other and its window counts as done. An import of it finds what came before the cut and then loops, because it looks only for
the end of the stream (`bohuno-database.cpp:249`): `DownloadHangs`.

Expiry is a step per file, in any order (`RemoveSnapshot`, `RemoveUpdate`), since a directory is listed in no order and an
exit or a `remove` that throws (nothing catches it) may come between two. `expire_updates` runs only after a
snapshot has expired (`bohuno-updated.cpp:330`), so a pass that was cut is not taken up until the next one does; until then there may
be updates with a hole between them, all older than the oldest snapshot. The age is taken of `current_time`: `expire_snapshots`
reads the clock again, in the model within the same second.

`begun`, `gone` and `missed` are history: where the present chain of updates started, the latest end of an update that
has expired, and which changes the files need not have: because they came too late, because the walk skipped them, because a failing dump
left them out, or (`Skipped`) because the last update has expired and the next one starts at a snapshot that was made before
a late change of an earlier time came in. The next snapshot that is made without failure clears `missed`. `Young` says that
there is a snapshot that is not due to expire, and `GoesOn` of an update that it starts no earlier than every expired one has ended: after
an expiry that was cut, with no update left but an old one, the next one goes over times again that a replica may have passed.

**Process, Server.** The link to the database goes up and down at any time (when it does is `ClientDatabase`'s matter), and
with it `start_listening` and `stop_listening`. A *chain of receives* is a pending `async_receive_from`, a cancelled one or
a completion that waits for its handler; every handler ends by starting the next receive, which on a closed
socket fails at once, unless `shutdown_` is set. `data` is the one buffer that requests are received into and replies sent
from. `Pass` is a pass of asio 0.3.9's reactor, whose source is not in the repository; it is assumed that for a descriptor
that is ready for both it performs the read before the write, and that the handlers of what completed run before the next
pass. The finding of the run `server_reply` rests on that order. What a datagram asks for is chosen when the handler looks at it. `mixedUp`, `starts` and `late` are history.

**RequestParser, HttpServer.** The machine is a relation `Moves` of (state, class of character, next state), written by
the groups of states of `consume`; `Consume` is the function that it makes. The reference it is checked against, `IsRequest`,
says what a request is by its lines and knows nothing of states; `Reading` says of a text whether a prefix of it is a request,
whether it can become one (tried with the `Completions`), or neither. A connection is a record of what its client sends,
how far it was read, the parser, and the status of the answer. `Stray` is what an unset `reply::status` may hold:
`handle_get` does not set it (`pyzord-api.cpp:190`) and the constructor of `connection` does not initialise it, so it is whatever the
memory of the connection held, the 400 of a connection that was refused and freed before it for one. The instance takes that value,
the one that can be mistaken: a Get whose record was found may go out as a bad request. A connection therefore says in its phase who
answers it, `bad_request` ("refusing") or the handlers ("answering"), and `AnswerFits` speaks of that.
A `hash` that is made of other than 40 characters leaves its bytes unset (`hash.cpp:22`): a Get of it finds what it finds, and
a Report, Whitelist or Delete sends an update for those bytes all the same.

**Daemon, Service.** The wrapper, the main thread that waits for a signal, and the thread of the io_service
take their steps in any order. `Signal` is a SIGTERM: it kills a process that has not blocked it yet (`common.cpp:93-99`).
`status` is what `waitpid` returns, with the exit code in the high byte. `MemoryIsLost` is part of every step that ends a
process. `pyzord-api` returns 0 also when it was stopped, so the wrapper starts it again; `pyzord-server` returns 128 also
when its constructor has thrown, so it is not started again.

**HttpClient.** An answer is a sequence of lines; `Receive` hands it on in any pieces. `read_until` may have read beyond the
delimiter: what is left in `response` after the headers is the beginning of the content. `client` and `sclient` share
their handlers. The ways of the code are kept: `head` and `post` use the plain client for any scheme, whose constructor
throws for https; the CR LF CR LF that ends the headers is looked for after the status line has been consumed, so an
answer without any header is not understood.

**Replica, Publication.** The server is a parameter of the replica's actions (the files there are when it answers).
`queue` holds names, `download` says that the front is in flight. A download that fails on the network is
started again at once and changes nothing, so it is no action. `durable` is the database at the last checkpoint. `spoiled`,
`refused`, `base` and `overtaken` are history; `overtaken` says that an update was put into the queue behind a later one.
`Interesting` is what a scan queues: what the newest record does not rule out and the queue does not have. A 401 stops timers but not the process. `InOrder` says that the server lists updates
in the order of time: the code relies on it and does not sort.

## 5. Runs

All runs are exhaustive for their bounds. "Violation" runs check one statement that a comment or message of the
code makes and that the code does not keep; the finding in `PROJECT.json` quotes it.

| run | what it shows | bounds, and why they are enough |
|---|---|---|
| `slave_link` | `OneOperation`: exactly one operation carries the link on. `Accounted`: every update is in one place, once. `SessionOrder`. `Settles`: each update is delivered or lost with a connection or process. `ImplementsChannel` | 4 updates, 2 breaks, 2 exits: two connections overlap at the master while a third is opened, with a queue longer than one before, between and after |
| `master` | `RecordsSound`; `NeverUpdatedBackwards`; `OnlyLossLeavesBehind`: only a recovery or an ignored failing commit puts an old record behind the position of expiry; `OldRecordsExpire` | 2 digests (ties and a batch of one that stops between them), 3 updates, counts modulo 3 (so that they wrap), clock to 4 with age 1, delay and skew 1, one fault of any kind |
| `master_crash` | violation of `NothingBehind`: the status file survives a crash that takes commits back | the same |
| `client_database` | Until a write fails: `OneReconnect`, `SentOnce`. Always: `NeverStuck`, `Reopens` | 3 updates, 2 breaks, 2 slow writes; at most 4 outstanding operations when a connect completes (see below) |
| `client_database_flap` | violation of `StaysUp`: two reconnect chains close each other's connections for ever | 1 break, 1 update; the lasso needs 5 operations and does not touch the bound |
| `publisher` | `Chained`: windows do not overlap, and leave no hole from the oldest snapshot on. `SnapshotsCovered`. `ChangesPublished`: while a snapshot is not due to expire, every change before the end of the last update can be read in some file, but for those in `missed` | 2 digests, 2 changes up to 2 late (later than the time between two updates), one fault (a failing call, a dump that ends early or is cut, or an exit, at any step, also between two files of an expiry); the clock covers two snapshots, the updates between them and the expiry of the first with several updates |
| `publisher_skip` | violation of `EveryRecordFound`: the first record of a window is not written | no faults, no delay |
| `publication` | `PassedOverIsHeld`: what the replica's filter passes over as old it holds, over crashes that lose commits, refusals and expiry, except for the window its snapshot was made in and for updates that do not go on from the expired ones. `NeverOlder`: no step makes a record of the replica older, but for a crash, and after an update was overtaken. `QueueMoves`: only a refusal leaves a queue without a download. `CatchesUp`: the replica comes to hold every update that stays and goes on, unless one was refused or spoiled, or while one is of a single moment | 3 changes without delay (one digest changed in two updates, the other between), or 2 and either one fault of the publisher (a cut file, an early end, a failing call or an exit anywhere, within an expiry too) or one trouble of the replica (the refusal of an update that has expired is none, so it comes with any); clock over two snapshots, the updates between them and after them, and the expiry of the first |
| `publication_gap` | violation of `EveryUpdateSeen`: a replica never gets the update in whose window its snapshot was made | no faults or troubles |
| `service` | `OneChainPerStart`: the UDP service is never deaf. `ShutdownDrains`: a shutdown takes hold. `Answered`: every datagram that reaches the socket is answered or lost with the socket. `AnswerFits`: an HTTP request is dispatched, and what is none refused with 400, as soon as that is decided, in whatever pieces it comes. `Released`: no connection keeps its descriptor. `Retires`, `ServesAgain`: which process is followed by another. `ParserRecognises`, `RingsCountWindow`: two algorithms against their definitions | 3 datagrams (one being handled, one waiting, one after), one broken link, one failing call, one signal at any point; 2 connections, each with a request or a text that is refused, cut once in a place within the request line; see below |
| `server_reply` | violation of `ReplyIsAnswer`: a reply is overwritten by the next request before it is sent | 2 datagrams, nothing fails |
| `http_client` | `OneOutcome`, `Delivered`, `Understood`, `EachEndpointOnce`, `Ends` | 3 endpoints (a first, a middle, a last); six answers, with and without headers and content, with a blank line in the content, with a Content-Length that is no number, with a status line that is refused; every way to cut them, and an end or loss of the connection at every point |

`MaxPending` in `ClientDatabase` bounds the operations that flapping piles up; `ConnectCompletes` waits while there
are more. `Reopens` and `StaysUp` excuse states over the bound, so neither a pass nor a violation is due to it.
`Hashes` is symmetric in the publisher runs, whose properties are all invariants; runs with liveness use no symmetry.
`BoundedSpec` of `MCPublication` is `FairSpec` with bounds taken together (`Bounded`): trouble is on one side,
and takes the place of a change. None of the fair steps is a fault, a trouble or a change, so no fairness is cut.
An expiry of several updates, after which one may not go on from the expired ones (`GoesOn`), takes a longer clock than
this run has: the run `publisher` has it for the files, the proof of `PassedOverIsHeld` for the replica, and for `CatchesUp` it is an
exception.

`ParserRecognises` and `RingsCountWindow` are about pure operators, so they are stated of the initial states only: TLC
evaluates them once for each program, for the `Requests` and `Histories` of the instance.
The first takes every text within one edit (a character replaced, inserted or
left out) of a short request and of one with a header that goes on over a second line, and every prefix of these two: all
the states of the machine and all its transitions are visited. The second takes every sequence of five times between 0 and 5, with a ring
of three buckets: gaps of nothing, one second, the length of the ring and more, and clocks that are set back.
`AnswerFits` needs one cut only because the parser keeps nothing but its state between pieces (section 7 has the proof
for all texts and any cuts). `Texts` has no request with a header, which would add states and no way to end
a connection.

Six observations have no run of their own. After a failed accept `pyzord-api` accepts nothing until it is restarted
(`AcceptFails`), against the comment at `httpd.cpp:925-928`. The status of an answer to a Get is not set (`Status`).
The last snapshot expires like any other when none was made for ten hours (`RemoveSnapshot`), while `bohuno-updated.cpp:272` says "We always
keep two recent ones around". Between the failure of a read and the reconnect, `database::up()` says
yes while the handles are closed (`database.cpp:428`). A replica may import an update twice, the second time after a newer one
(`bohuno-pyzord.cpp:295`), so that a record goes back to an older version until the next update; nothing in the
code says otherwise. `NeverOlder` says that this (`overtaken`) and a crash are the only ways back. It ends with the next update, unless two updates
have one start: when `make_snapshot` fails after its rename, the update of that run is of a single moment (`Momentary`), the next one starts at
the same time, and a replica whose newest record is of that time may queue one behind the other at every scan, and go back
and forth as long as both are listed. TLC found this when `CatchesUp` was first checked with faults of the publisher; it now excepts it.
And `pyzord-api` accepts requests before its link to the database is up: a Get then goes through a null handle (`AnswerOffline`), the wrapper starts the process again five seconds later, and as long
as clients ask before the link is up this repeats. `ServesAgain` says that each time there is a next process, not that
it lives.

`OneReconnect` and `SentOnce` hold until `disturbed`: a write has failed, or an update was submitted in the time in
which `connected_` is stale. After that the code really has two chains; `StaysUp` shows what follows.
`SnapshotsCovered` excepts snapshots older than the start of the first update of the chain: if no update
exists, the next starts at the newest snapshot, even one whose link to `current` failed. For the same reason a change of an
earlier time that came in after that snapshot was made is in no file (`Skipped`): `ChangesPublished` excepts it, as it does the
changes that are too late for the next update, the first record of a window and what a failing dump left out. It is stated
while a snapshot is not due to expire (`Young`), since a process that was away for ten hours expires them all, one after the
other, before it makes a new one.

Every property of a passing run has a mutant: a definition of the model with a plausible bug (a dropped guard, an
off-by-one, a wrong end of the queue) under which TLC finds it violated. Mutated definitions stand next to
the ones they replace, marked `\* mutant`.

## 6. Fairness

* `SlaveLink`: timers expire and handlers run (WF); connects end (WF), and do not fail for ever (SF on the successful
  one, an assumption on the network, needed by any retry loop); the kernel ends each write; the master reads; the wrapper
  restarts. Submission, breaks and exits are not fair.
* `Master`: only the expiry timer and the steps of its handler. The model assumes `MaxDelay <= MaxAge`: an update is not
  later than the age at which records expire (about three months).
* `ClientDatabase`: the `io_service` runs handlers and reactor; timers expire; pings keep coming on a live connection
  (`slave.cpp` and `master.cpp` write one every 3 s); connects to the local slave do not fail for ever.
* `Service`: the wrapper, the main thread, the handlers of the UDP server, the reactor and the handlers that end an HTTP
  connection (WF): each is a thread or process that the system schedules, and none waits for another but through the
  state. Nothing is assumed of clients, of the link to the database, of the signals, or that a constructor is reached:
  `Answered` therefore says "answered, lost, or told to shut down", and `Released` speaks of connections that are over.
* `HttpClient`: only its handlers, with the resolver and the connects (the system ends a connect in minutes). The peer may
  be silent for ever, and then the request does not end: nothing times out. `Ends` says that the client is not the cause.
* `Publication`: downloads and scans of a live replica are answered in the end (downloads are retried at once, scans
  every five minutes), and the wrapper restarts it. Nothing is assumed of the publisher.

## 7. Proofs

Checked by TLAPS for all values of the constants that meet the named assumptions of the modules (`BoundsAssumption`,
`MasterAssumption`, `CountModulusAssumption`, `PublisherAssumption`, `ReplicaAssumption`, `ProcessAssumption`, `ServerAssumption`,
`HttpAssumption`, `DaemonAssumption`, `HttpClientAssumption`, `StatisticsAssumption`, `ServiceAssumption`). They say
that bounds are natural numbers, that intervals, endpoints, batches and the buckets of a ring are not zero, that texts and
answers are sequences, that a ring is made before it is averaged, that a status is a natural number, and of the code's environment only that
an update reaches the master before the age of expiry (`MaxDelay <= MaxAge`). `Hashes` is any set, but for the master,
whose database is finite. Every invariant and every action property of the passing runs is proved.

**`SlaveLinkProofs`.** `TypeCorrect`, `AlwaysOneOperation`, `AlwaysAccounted`, `AlwaysSessionOrder`, `ChannelImplemented`,
`DeliveredOnce`.
`OneOperation` is not inductive: it says nothing of a process that has ended, which might restart with an
operation left, and `KernelSend` writes to the last connection, which must exist. `LinkInv` adds `Quiet` (an ended
process has no operations, queue or connection) and `SocketHasWire`. `Accounted` needs `LinkInv` (the write under way
is of the front of the queue) and `QueueNumbers` (queued updates are submitted numbers in increasing order, so a popped one
is in no other place). `SessionOrder` speaks of what was delivered; what is on the way must be in order too and newer than
what was delivered on the same connection (`InOrder`), and what is not sent yet newer than both (`SendsNewer`).
`ChannelImplemented` takes each step to a step of `UpdateChannel` or to none: a submission is one, a read of the master a
delivery, and a break, an exit or a write to a dead connection loses what `Accounted` says is in no other place, which is why
it cannot be delivered later. `DeliveredOnce` proves of the abstract channel what it is there for (`AtMostOnce`), and
through `ChannelImplemented` of the slave. Lemmas named `Wire...` say what each way of changing a connection does to the union and the
disjointness of all; `SeqLemmas` has the facts on ranges and injectivity of appended, cut and shortened sequences.

**`MasterProofs`.** `TypeCorrect`, `AlwaysRecordsSound`, `LossLeavesBehind`, `UpdatedForwards`.
`StoreInv` is type correctness, soundness of stored *and* recoverable records, and a positive clock. One lemma for each
operator of `Record` shows that it preserves soundness. `LossLeavesBehind` uses `PositionsOld`: the position of
expiry is a time older than `MaxAge`, so that an update, which is not that late, always lands after it
(`UpdateLeavesNone`), and a batch ends at the time of the last record it deleted (`ExpireLeavesNone`).

**`ClientDatabaseProofs`.** `AlwaysTypeOK`, `AlwaysNeverStuck`, `AlwaysOneReconnect`, `AlwaysSentOnce`, with no bound on the
operations that pile up. An operation is outstanding (`Out`) while the kernel or the timer has it, while its cancellation waits for
the reactor, and while its handler is queued. The proofs keep a ledger: every action is shown once to end at most one
operation of one kind and to start a known number of each (`Ledger`), and both invariants read their counts from it.
`LinkInv` is `Carried` (a read, a connect or a wait is outstanding, whatever happened) and `Single` (exactly one, until a write
fails). `SentOnce` is far from inductive: `QueueInv` adds `Orderly`, which says that until a write fails exactly one
write is outstanding if there is something queued, that it is of the front, and that what was sent and what is queued are together the
submitted updates in their order, but for the front whose handler has yet to discard it (`Base`). The case that
makes it hard is the write whose connection was closed before its handler runs.

**`PublicationProofs`, the publisher.** `AlwaysTypeOK`, `AlwaysChained`, `AlwaysSnapshotsCovered`, `AlwaysChangesPublished`.
`FileInv` is about the times in the names of the files: none is of a time that is still to be written (`Past`), and `Covered` says
of every time from the oldest snapshot on what `SnapshotsCovered` says of those of the snapshots. Both it and `Chained` must hold
between any two files of an expiry: the updates that are removed end before the oldest snapshot, and from there on
neither says anything of them. `RecordInv` is about
what the files have in them: a version that is current, not missed, and in a file that can be read is in the newest snapshot if it is older than that
(`CarriedOn`, while there is a young one), which is why the file may expire, and what is before the
start of the next update is in some file already (`Found`). The attempt to prove `ChangesPublished` showed an exception that the bounds
of the run had hidden, `Skipped`; the run now has the delay under which it matters.

**`PublicationProofs`, the replica.** `AlwaysPublicationTypeOK`, `AlwaysQueueMoves`, `StepsNeverOlder`, `AlwaysPassedOverIsHeld`, in four layers.
`PublisherInv`: the windows of the updates that can be listed together do not overlap. `TypeInv`: types, no name
twice in the queue, a process that is gone has nothing in flight. `TimeInv`: the replica has seen no time after that of the last update, those that have
expired included (`Behind`; an update that goes on, `GoesOn`, is still to be made for none of them), and while its queue is in turn no record is newer than the start of what the queue has. `HeldInv`: a record that is newer than
the start of an update is a sign that the update was imported (`Holds`), because what comes before an update of the queue is ahead of it
there or imported already (`NoneForgotten`). `NeverOlder` came out of this proof: `Holds` is lost when an update is queued behind a
later one, and that is the case in which a record goes back.

**`ServiceProofs`.** `NeverDeaf`, `ShutdownTakesHold`, `AlwaysServiceTypeOK`, `AnswersFit`, `AlwaysParserRecognises`,
`AlwaysRingsCountWindow`: for any number of datagrams, connections, breaks,
faults, stops and restarts.
Neither of the first two properties is inductive, because chains change their form (pending, cancelled, completed) and a shutdown turns
one count into another. `ChainInv` says so in one line each: until a shutdown there are as many chains as starts and nothing was
late; after it, late requests and chains that are left are together fewer than the starts. `ReceiveNext` either keeps the
number of chains or, when it stops, takes one (`NextReceive`); a pass of the reactor only changes their form
(`PassBalances`); every other step leaves the six variables alone or begins a new process.
`ServiceTypeOK` says of `data_` that it has a request while one is queued, which needs that at most one is (`InData`: a pass
receives none while one waits); and of `connection_manager` that it has the open connections, through accepts, answers, errors and
`handle_stop`. Its proof showed that the type of an answer's status left out what an unset one may hold.
`AnswerFits` compares an answer with the definition of a request, and the parser that gave it has read the text in pieces.
The invariant that carries it is `FitsText`, a part of `HttpInv`: while a connection reads, its parser stands where it would had it
read all of that at once, and has not answered; while it writes, its phase is "refusing" and its status 400 if no request can come of what it has read, and
"answering" if that is a request. By `ParserReads` the answer on which a status is given is what the text says. `Requests` and `Histories`, of which `ParserRecognises` and `RingsCountWindow` speak,
are constants: any texts, any histories.

**`AlgorithmProofs`, the parser.** `ParserReads`: for *every* text, `Parse` says what `Reading` says; `ParserRecognisesAny` is the
form that the run checks. A *run* is the sequence of the parsers between the characters of a text. In one direction, what a parser has
read is told by its state: of the line it is in (`SeenFirst`, `SeenField`, a clause for each state) and of the lines before
(`HasRead`), so that it can be done only at the end of a request (`OnlyRequests`). In the other, the place in a line of a request
tells the state (`OnLine`, `OnHeader`, `OnContinuation`, joined by `On`), so that it is done there and not before (`Accepted`).
`CompleteIs` connects the two, which speak of places, with `IsRequest`, which speaks of lines cut out of the text. That a parser
refuses no earlier than it must is `Viable`: from every state that is no answer one of the `Completions` leads to the end; with
`RequestAccepted` it also shows that the few `Completions` are enough to say "can become a request".

**`AlgorithmProofs`, the ring.** `RingCountsWindow`: for every history, however long, whatever the clock does, and any number of
buckets. `RingHas` is the invariant along a history: bucket `s` holds as many events as the window has whose second has the slot `s`,
that is, leaves the rest `s` after division by the number of buckets. It holds after `advance` because the buckets
that are cleared are those of the seconds that leave the window (`Leaves`), and no others, two seconds of one window never having one slot
(`SlotsApart`). `StandsFacts` says that the ring stands at the latest time, so that a clock that is set back counts as one that stands.
`RingCounts` sums up: the buckets are disjoint and make up the window.

**Induction and folds.** The library states induction for an operator, which the provers cannot instantiate. `SeqLemmas` has it for a set
(`EveryNumber`: a set with 0 that has the successor of each of its numbers has them all, from the well-foundedness of the naturals), and
every induction here is over a set of numbers for which the claim holds. `FoldLeft` and `MapThenSumSet` are defined by
CHOOSE of a function on sets; `FoldExists` shows that there is one, by induction on the cardinality, so that what is chosen obeys its
recursion (`ParseRuns`, `ReportsRun`, `InRingFolds`).

**`HttpClientProofs`.** `TypeCorrect`, `ToldOnce`, `TriedInTurn`, `DeliversAll`, `AlwaysUnderstood`: for every answer and any number
of endpoints. `Inv` adds to type correctness and the two first properties what the handlers count on: endpoints exist from
`handle_resolve` on, a connect has tried one, and nothing is in `response_` before something was read. The other two rest on
`Delivery`, which says for each state where in the answer its lines are from: all of it while the status line is read,
from the second line on while the headers are, and in the content `data_` and `response_` together are what follows the
first blank line. That the code's position of the blank line in its buffer is that of the answer (`RestOfReceived`)
needs the first of a set of positions to exist (`Least`, from the well-foundedness of the naturals).

**Only model-checked:** liveness (`Settles`, `OldRecordsExpire`, `Reopens`, `CatchesUp`, `Answered`, `Released`, `Retires`,
`ServesAgain`, `Ends`): TLAPS has no rule for fairness and ENABLED here. And the violations: a counterexample needs no proof.

## 8. Not modelled

* Berkeley DB itself (transactions are atomic, an index follows its database) and its replication: set up by a few calls,
  external. A replica's delay appears as `MaxDelay` in `Publisher`.
* Packets (`packet.cpp`) and the encoding of updates: text conversions. `Server` sees whether `parse` accepts a datagram.
* The slave's client sessions and the wait for the master (`slave.cpp:149-300`), the master's acceptors and pings:
  `SlaveLink` has the submission of an update and its reading. Full receive buffers need byte counts.
* The UDP service of `bohuno-pyzord` (a second copy of `server.cpp`'s, on a database that is always open), by which an admin may set
  `shutdown_` as well (`bohuno-pyzord.cpp:383`), so that no download starts any more, and its upload of statistics. `http::post`, which nothing calls, never sends its data and sends the method HEAD (`wget.cpp:499`);
  `propget` hands its body to a client that does not send it. A request's text is not modelled.
* `register_request_handler` of the HTTP server, which no program calls, and the formatting of replies.
* Listings of the directories of `bohuno-updated` or of the web server that come back cut short: `Listings` has every
  name that there is. The setup of a replica from a cut snapshot, which never ends: `SetUp` is from a whole one. The record of no
  digest that an import which hangs puts under a key of zeros.
* Bytes: update encoding, compression, XML of the listing, licences, digests. No property depends on them.
* Clocks that go back. `time(NULL)` is monotonic in `Master` and `Publisher`; the skew between client and master
  is modelled (`MaxSkew`).
* A signal to `bohuno-pyzord`: it ends with code 128 for good (or, with a scan in flight that re-arms its timer, does not
  end); nothing happens afterwards.
* Sequential tools (`pyzord-import`, `pyzord-export`), dead code (`blah.cpp`), demonstrations (`httpd-test.cpp`).

## 9. Plan

Done in this order: the links (`SlaveLink`), the master (`Record`, `Master`), the client (`ClientDatabase`), publication
(`Dump`, `Publisher`, `Replica`, `Publication`), the services (`Server`, `HttpServer`, `Daemon`, `Service`, `Statistics`), the
HTTP client (`HttpClient`). Next:

1. **Proofs**: every safety property that a run checks is proved, and so is the refinement of `UpdateChannel`. What is left are the
   liveness properties, which would need rules for fairness; their safety part, that something which can go on is always
   outstanding, is proved (`OneOperation`, `NeverStuck`, `OneChainPerStart`, `QueueMoves`).
2. **Delivery**: client database, slave and master composed over two channels, with pings and full receive buffers;
   the end-to-end promise (an update is applied at most once, in the order of its connections).
3. **The replica's downloads through `HttpClient`**: what `Replica` takes as the outcomes of a download, as the outcomes of a
   request; and the UDP service of `bohuno-pyzord` as an instance of `Server` without a link.

There are twelve runs; a new component's run will take the place of a violation run whose finding
another run implies, or extend an existing run's properties.
