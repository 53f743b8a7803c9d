---- MODULE Replica ----
(***************************************************************************)
(* bohuno::pyzord (bohuno/bohuno-pyzord.cpp) as a follower of the files    *)
(* that Publisher makes: it is set up from a snapshot, scans the list of   *)
(* updates on a timer, queues those that are not older than its newest     *)
(* record, and downloads and imports the queue, one update at a time.      *)
(*                                                                         *)
(* Everything but main runs on one thread, so each handler is a step.  The *)
(* server is seen through parameters: the update files it has when it      *)
(* answers.  A name of an update is <<from, to>>.  A download that fails   *)
(* starts again at once, which changes nothing here.                       *)
(***************************************************************************)
EXTENDS Dump, SequencesExt

CONSTANTS
    InOrder,     \* BOOLEAN: the server lists the updates in the order of time
    MaxTroubles  \* bound on crashes, refusals and bad files, together

VARIABLES
    replica,   \* "new" before setup, "running", "stopping" and "stopped" by a
               \* 401, "hung" in an import, "ended" until the wrapper restarts it
    stored,    \* the database of the replica
    durable,   \* what of it is certain to survive a crash
    queue,     \* updates_to_download_
    download,  \* a download is in flight, that of the front of the queue
    scan,      \* the scan for updates: "waiting" for its timer, "fetching" the
               \* list, or "off" for ever
    base,      \* history: the time of the snapshot it was set up from
    overtaken, \* history: an update was queued behind a later one
    refused,   \* history: the server refused an update since the last start
    spoiled,   \* history: an import was cut, or lost with the process
    troubles   \* number of crashes, refusals and bad files

----------------------------------------------------------------------------
Name(u) == <<u.from, u.to>>

\* The interest of handle_updates_scan_success in an update: its start against
\* the newest record of the database.
WantedAfter(from) == from > Highest(stored)  \* mutant: only what is newer

Wanted(from) == from >= Highest(stored)

InterestingAnyway(u) ==  \* mutant: whatever its time
    ~Contains(queue, Name(u))

Interesting(u) == Wanted(u.from) /\ ~Contains(queue, Name(u))

\* Each update begins where an earlier one in the queue has ended, or later.
InTurn(q) == \A i, j \in DOMAIN q : i < j => q[i][2] <= q[j][1]

\* The interesting ones, in the order in which the server lists them.
Listings(names) ==
    {s \in SetToSeqs(names) :
       InOrder => \A i, j \in DOMAIN s : i < j => s[i][1] <= s[j][1]}

\* What it is to download has expired on the server.
FrontIsGone(updates) == Head(queue) \notin {Name(u) : u \in updates}

Trouble == troubles < MaxTroubles /\ troubles' = troubles + 1

\* shutdown_ is not set, or the process at least still handles events.
Open == replica \in {"running", "stopping"}
Alive == Open \/ replica = "stopped"

\* start_update_download
StartUnlessStopped(q) == download' = Open  \* mutant: without empty()

StartDownload(q) == download' = (Open /\ q # <<>>)

DownloadNothing(q) == download' = FALSE  \* mutant: waits for a scan

NextDownload(q) == StartDownload(q)

Empty == /\ queue' = <<>> /\ download' = FALSE /\ refused' = FALSE

----------------------------------------------------------------------------
ReplicaInit ==
    /\ replica = "new"
    /\ stored = EmptyDatabase /\ durable = EmptyDatabase
    /\ queue = <<>> /\ download = FALSE
    /\ scan = "off"
    /\ base = 0 /\ overtaken = FALSE
    /\ refused = FALSE /\ spoiled = FALSE
    /\ troubles = 0

\* bohuno-pyzord-setup imports the current snapshot; then the daemon starts.  The
\* import of a snapshot without a proper end does not end: it is set up from another.
SetUp(current) ==
    /\ replica = "new"
    /\ ~current.cut
    /\ replica' = "running"
    /\ stored' = Imported(stored, current.records)
    /\ durable' = stored'
    /\ base' = current.time
    /\ scan' = "waiting"
    /\ UNCHANGED <<queue, download, overtaken, refused, spoiled, troubles>>

\* updates_scan, when its timer expires.
ScanStarts ==
    /\ Alive /\ scan = "waiting"
    /\ scan' = "fetching"
    /\ UNCHANGED <<replica, stored, durable, queue, download, base, overtaken,
                   refused, spoiled, troubles>>

\* handle_updates_scan_success with a list; a download starts if the queue was
\* empty.
ScanSucceeds(updates) ==
    /\ Alive /\ scan = "fetching"
    /\ \E listing \in Listings({Name(u) : u \in {u \in updates : Interesting(u)}}) :
         queue' = queue \o listing
    /\ overtaken' = (overtaken \/ ~InTurn(queue'))
    /\ IF queue = <<>> THEN StartDownload(queue') ELSE UNCHANGED download
    /\ scan' = "waiting"
    /\ UNCHANGED <<replica, stored, durable, base, refused, spoiled, troubles>>

\* handle_updates_scan_failure
ScanFails ==
    /\ Alive /\ scan = "fetching"
    /\ scan' = "waiting"
    /\ UNCHANGED <<replica, stored, durable, queue, download, base, overtaken,
                   refused, spoiled, troubles>>

\* handle_updates_scan_success with a status that is neither 2xx nor 401: no
\* other scan is scheduled.
ScanRefused ==
    /\ Alive /\ scan = "fetching"
    /\ Trouble
    /\ scan' = "off"
    /\ UNCHANGED <<replica, stored, durable, queue, download, base, overtaken,
                   refused, spoiled>>

\* A 401 to a scan or a download: nothing is started or scheduled after it, and
\* stop posts handle_stop.
Unlicensed ==
    /\ Open
    /\ Trouble
    /\ \/ scan = "fetching" /\ scan' = "off" /\ UNCHANGED download
       \/ download /\ download' = FALSE /\ UNCHANGED scan
    /\ replica' = "stopping"
    /\ UNCHANGED <<stored, durable, queue, base, overtaken, refused, spoiled>>

\* handle_stop cancels the timers; what is in flight goes on, and the process
\* stays, because main waits for a signal.
HandleStop ==
    /\ replica = "stopping"
    /\ replica' = "stopped"
    /\ scan' = IF scan = "waiting" THEN "off" ELSE scan
    /\ UNCHANGED <<stored, durable, queue, download, base, overtaken, refused,
                   spoiled, troubles>>

\* handle_update_download_success with status 200: take it off the queue, import
\* it, and start the next one.
DownloadSucceeds(updates) ==
    /\ download
    /\ \E u \in updates :
         /\ Name(u) = Head(queue) /\ ~u.cut
         /\ stored' = Imported(stored, u.records)
    /\ queue' = Tail(queue)
    /\ NextDownload(queue')
    /\ UNCHANGED <<replica, durable, scan, base, overtaken, refused, spoiled,
                   troubles>>

\* The same, when the file has no proper end: the import, which looks for the end of
\* the stream only, does not end, and commits what it has read, or a part of it.
DownloadHangs(updates) ==
    /\ download
    /\ \E u \in updates :
         /\ Name(u) = Head(queue) /\ u.cut
         /\ \E part \in Beginnings(u.records) : stored' = Imported(stored, part)
    /\ queue' = Tail(queue)
    /\ replica' = "hung" /\ download' = FALSE
    /\ spoiled' = TRUE
    /\ UNCHANGED <<durable, scan, base, overtaken, refused, troubles>>

\* The same, when the import throws: what was committed stays, and the next
\* download starts.  Or the file came in cut short, and the import does not end.
DownloadSpoiled(updates) ==
    /\ download
    /\ Trouble
    /\ \E u \in updates :
         /\ Name(u) = Head(queue)
         /\ \E part \in Beginnings(u.records) : stored' = Imported(stored, part)
    /\ queue' = Tail(queue)
    /\ \/ NextDownload(queue') /\ UNCHANGED replica
       \/ replica' = "hung" /\ download' = FALSE
    /\ spoiled' = TRUE
    /\ UNCHANGED <<durable, scan, base, overtaken, refused>>

\* The same with another status: the file has expired, or the server is at a
\* loss.  No other download starts.
DownloadRefused(updates) ==
    /\ download
    /\ \/ FrontIsGone(updates) /\ UNCHANGED troubles
       \/ Trouble
    /\ queue' = Tail(queue)
    /\ download' = FALSE
    /\ refused' = TRUE
    /\ UNCHANGED <<replica, stored, durable, scan, base, overtaken, spoiled>>

\* checkpoint
Checkpoint ==
    /\ Open
    /\ durable # stored
    /\ durable' = stored
    /\ UNCHANGED <<replica, stored, queue, download, scan, base, overtaken, refused,
                   spoiled, troubles>>

\* The process dies.  The commits did not wait for the disk (DB_TXN_NOSYNC), so
\* those after the last checkpoint may be lost.
Crash ==
    /\ Alive \/ replica = "hung"
    /\ Trouble
    /\ replica' = "ended"
    /\ stored' \in {stored, durable}
    /\ durable' = stored'
    /\ Empty
    /\ scan' = "off"
    /\ UNCHANGED <<base, overtaken, spoiled>>

\* It dies in the middle of an import.
CrashInImport(updates) ==
    /\ download
    /\ Trouble
    /\ \E u \in updates :
         /\ Name(u) = Head(queue)
         /\ \E part \in Beginnings(u.records) : stored' = Imported(stored, part)
    /\ durable' = stored'
    /\ replica' = "ended"
    /\ spoiled' = TRUE
    /\ Empty
    /\ scan' = "off"
    /\ UNCHANGED <<base, overtaken>>

Restart ==
    /\ replica = "ended"
    /\ replica' = "running"
    /\ scan' = "waiting"
    /\ UNCHANGED <<stored, durable, queue, download, base, overtaken, refused,
                   spoiled, troubles>>

ReplicaTypeOK ==
    /\ replica \in {"new", "running", "stopping", "stopped", "hung", "ended"}
    /\ stored \in Databases /\ durable \in Databases
    /\ queue \in Seq(Nat \X Nat) /\ IsInjective(queue)
    /\ download \in BOOLEAN /\ (download => queue # <<>>)
    /\ scan \in {"waiting", "fetching", "off"}
    /\ base \in Nat
    /\ \A flag \in {overtaken, refused, spoiled} : flag \in BOOLEAN
    /\ troubles \in Nat

====
