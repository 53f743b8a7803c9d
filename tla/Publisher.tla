---- MODULE Publisher ----
(***************************************************************************)
(* bohuno::updated (bohuno/bohuno-updated.cpp): the process that publishes *)
(* the database as files under the root of a web server.  On a timer it    *)
(* removes old files and makes either a snapshot, a dump of everything, or *)
(* an update, a dump of what changed since the last update.  The files are *)
(* the state it goes by: their names hold the times they stand for.        *)
(*                                                                         *)
(* The handler of the timer works on files while the database changes and  *)
(* may be cut by a crash, so it is a step for each of its effects: each    *)
(* file that expires is one.  The database is the local replica of the     *)
(* master's, seen from outside.  A file that is being written has a name   *)
(* nobody reads until the rename; what a failing cursor or write leaves    *)
(* out of it nobody looks at, and it is renamed like any other.            *)
(***************************************************************************)
EXTENDS Dump

CONSTANTS
    TimerInterval,     \* TIMER_INTERVAL
    SnapshotInterval,  \* SNAPSHOT_INTERVAL
    KeepSnapshots,     \* how long expire_snapshots keeps a snapshot
    MaxDelay,          \* how late a change may reach this database
    MaxTime,           \* bound on the clock
    MaxChanges,        \* bound on the number of changes to the database
    MaxFaults          \* bound on the failing calls and exits, together

ASSUME PublisherAssumption ==
    /\ TimerInterval \in Nat \ {0}
    /\ SnapshotInterval \in Nat /\ KeepSnapshots \in Nat
    /\ MaxDelay \in Nat
    /\ MaxTime \in Nat /\ MaxChanges \in Nat /\ MaxFaults \in Nat

NoFile == [missing |-> TRUE]

VARIABLES
    process,    \* "running", or "ended" until the wrapper starts it again
    now,        \* the clock
    db,         \* the replicated database
    changes,    \* number of changes to it, of which the last
    snapshots,  \* the directory snapshots: files [time, records, cut]; cut is
                \* TRUE when a write to it has failed, and it has no proper end
    current,    \* its file current, a hard link to a snapshot, or NoFile
    updates,    \* the directory updates: files [from, to, records, cut]
    task,       \* what the handler does next: "wait", "expire", "prune",
                \* "snapshot", "unlink", "link" or "update"
    at,         \* current_time of the handler
    next_run,   \* when snapshot_timer_ expires
    begun,      \* history: where the first of the updates in a row started
    gone,       \* history: the latest end of an update that has expired
    missed,     \* history: digests whose last change need be in no file (see
                \* ChangesPublished)
    faults      \* number of failed calls and exits

files == <<snapshots, current, updates>>

vars == <<process, now, db, changes, snapshots, current, updates, task, at,
          next_run, begun, gone, missed, faults>>

\* The histories.
told == <<begun, gone, missed>>

\* What the steps of the handler leave to the others.
outside == <<process, now, db, changes>>

----------------------------------------------------------------------------
Latest(s, t) == IF s < t THEN t ELSE s

\* find_most_recent_snapshot, find_oldest_snapshot: the time, 0 if there is none
\* (the oldest snapshot is only asked for when there is one).
NewestSnapshot(files_) ==
    IF files_ = {} THEN 0
    ELSE CHOOSE t \in {s.time : s \in files_} : \A s \in files_ : s.time <= t

OldestSnapshot(files_) ==
    CHOOSE t \in {s.time : s \in files_} : \A s \in files_ : t <= s.time

\* find_most_recent_update: the end of the window, 0 if there is none.
LastEnd ==
    IF updates = {} THEN 0
    ELSE CHOOSE t \in {u.to : u \in updates} : \A u \in updates : u.to <= t

\* Where make_update starts: the last update, or else the last snapshot.
UpdateStartAtSnapshot ==  \* mutant: the snapshot counts even after an update
    Latest(LastEnd, NewestSnapshot(snapshots))

UpdateStartAfter ==  \* mutant: starts a second later, to repeat no record
    IF updates # {} THEN LastEnd + 1 ELSE NewestSnapshot(snapshots)

UpdateStart == IF updates # {} THEN LastEnd ELSE NewestSnapshot(snapshots)

\* expire_snapshots: the snapshots it removes at a time.
Expired(time) == {s \in snapshots : s.time + KeepSnapshots < time}

\* expire_updates: the updates it removes, when there is a snapshot.
NeedlessFromStart(files_) ==  \* mutant: looks at the start of the window
    IF files_ = {} THEN {} ELSE {u \in updates : u.from < OldestSnapshot(files_)}

Needless(files_) ==
    IF files_ = {} THEN {} ELSE {u \in updates : u.to < OldestSnapshot(files_)}

\* snapshot, once the expiry is done: make_snapshot's own condition, and make_update
\* if it made none.
ToMake(time, files_) ==
    IF time - NewestSnapshot(files_) >= SnapshotInterval THEN "snapshot" ELSE "update"

\* The current version of a record is in a file that can be read to its end.
Published(h) ==
    \E f \in snapshots \cup updates :
        ~f.cut /\ h \in DOMAIN f.records /\ f.records[h] = db[h]

\* When the last update expires the next one starts at a snapshot: a change of a time
\* between the two, which came after the snapshot was made, is in no file.
Skipped(u) ==
    IF updates = {u}
      THEN {h \in Stored(db) :
              u.to <= db[h].updated /\ db[h].updated < NewestSnapshot(snapshots)}
      ELSE {}

\* Of the records that a file should have, those that a reader does not find in it.
LeftOut(records, file) == records \ (IF file.cut THEN {} ELSE DOMAIN file.records)

Fault == faults < MaxFaults /\ faults' = faults + 1

Running(step) == process = "running" /\ task = step

----------------------------------------------------------------------------
\* updated::updated on empty directories and an empty database.
Init ==
    /\ process = "running"
    /\ now = SnapshotInterval + 1
    /\ db = EmptyDatabase
    /\ changes = 0
    /\ snapshots = {}
    /\ current = NoFile
    /\ updates = {}
    /\ task = "wait"
    /\ at = 0
    /\ next_run = now
    /\ begun = 0 /\ gone = 0
    /\ missed = {}
    /\ faults = 0

Tick ==
    /\ now < MaxTime
    /\ now' = now + 1
    /\ UNCHANGED <<process, db, changes, files, task, at, next_run, told, faults>>

\* External: the master's database changes, as record::report and the others
\* change a record: a late change leaves its time as it is.
Change ==
    /\ changes < MaxChanges
    /\ changes' = changes + 1
    /\ \E h \in Hashes, t \in 1 .. now :
         /\ now <= t + MaxDelay
         /\ LET before == IF h \in Stored(db) THEN db[h].updated ELSE 0
                after  == [updated |-> Latest(before, t), number |-> changes']
            IN  /\ db' = [db EXCEPT ![h] = after]
                /\ missed' = IF after.updated < UpdateStart THEN missed \cup {h}
                                                             ELSE missed \ {h}
    /\ UNCHANGED <<process, now, files, task, at, next_run, begun, gone, faults>>

\* External: the master expires a record; nothing is left to publish.
Delete ==
    /\ \E h \in Stored(db) :
         /\ db' = [db EXCEPT ![h] = NoVersion]
         /\ missed' = missed \ {h}
    /\ changes < MaxChanges
    /\ changes' = changes + 1
    /\ UNCHANGED <<process, now, files, task, at, next_run, begun, gone, faults>>

----------------------------------------------------------------------------
\* updated::snapshot while the database is down.
RetryLater ==
    /\ Running("wait")
    /\ now >= next_run
    /\ next_run' = now + 1
    /\ UNCHANGED <<outside, files, task, at, told, faults>>

\* updated::snapshot up to the first effect on a file.
Begin ==
    /\ Running("wait")
    /\ now >= next_run
    /\ at' = now
    /\ task' = IF Expired(now) # {} THEN "expire" ELSE ToMake(now, snapshots)
    /\ UNCHANGED <<outside, files, next_run, told, faults>>

\* expire_snapshots, file by file, in the order in which the directory has them.
RemoveSnapshot ==
    /\ Running("expire")
    /\ UNCHANGED <<outside, current, updates, at, next_run, told, faults>>
    /\ \E s \in Expired(at) : snapshots' = snapshots \ {s}
    /\ task' = IF Expired(at)' # {} THEN "expire"
               ELSE IF Needless(snapshots)' # {} THEN "prune"
               ELSE ToMake(at, snapshots)'

\* expire_updates, in the same way.
RemoveUpdate ==
    /\ Running("prune")
    /\ UNCHANGED <<outside, snapshots, current, at, next_run, begun, faults>>
    /\ \E u \in Needless(snapshots) :
         /\ updates' = updates \ {u}
         /\ gone' = Latest(gone, u.to)
         /\ missed' = missed \cup {h \in Skipped(u) : ~Published(h)}
    /\ task' = IF Needless(snapshots)' # {} THEN "prune" ELSE ToMake(at, snapshots)

\* make_snapshot up to the rename.  Errors of the cursor and of writes go unseen.
MakeSnapshot ==
    /\ Running("snapshot")
    /\ \E fails, cut \in BOOLEAN :
         /\ cut => fails
         /\ IF fails THEN Fault ELSE UNCHANGED faults
         /\ \E dump \in DumpsModified(db, 0, at - 1, fails) :
              LET file == [time |-> at - 1, records |-> dump, cut |-> cut]
                  all  == Within(db, 0, at - 1)
              IN  /\ snapshots' = {s \in snapshots : s.time # at - 1} \cup {file}
                  /\ missed' = IF fails THEN (missed \ all) \cup LeftOut(all, file)
                                        ELSE missed \ all
    /\ task' = "unlink"
    /\ UNCHANGED <<outside, current, updates, at, next_run, begun, gone>>

UnlinkCurrent ==
    /\ Running("unlink")
    /\ current' = NoFile
    /\ task' = "link"
    /\ UNCHANGED <<outside, snapshots, updates, at, next_run, told, faults>>

\* The handler is done: it arms the timer, counted from when it began.
Done == task' = "wait" /\ at' = 0 /\ next_run' = at + TimerInterval

LinkCurrent ==
    /\ Running("link")
    /\ current' = CHOOSE s \in snapshots : s.time = at - 1
    /\ Done
    /\ UNCHANGED <<outside, snapshots, updates, told, faults>>

\* A call in make_snapshot throws: it returns FALSE, and an update is made.
MakeSnapshotFails ==
    /\ \E step \in {"snapshot", "unlink", "link"} : Running(step)
    /\ Fault
    /\ task' = "update"
    /\ UNCHANGED <<outside, files, at, next_run, told>>

\* make_update, when there is an update or a snapshot to start from.
MakeUpdate ==
    /\ Running("update")
    /\ UpdateStart # 0
    /\ \E fails, cut \in BOOLEAN :
         /\ cut => fails
         /\ IF fails THEN Fault ELSE UNCHANGED faults
         /\ \E dump \in DumpsModified2(db, UpdateStart, at - 1, fails) :
              LET file == [from |-> UpdateStart, to |-> at - 1,
                           records |-> dump, cut |-> cut]
                  all  == Within(db, UpdateStart, at - 1)
                  lost == IF fails THEN all ELSE all \cap Firsts(db, UpdateStart)
              IN  /\ updates' = {u \in updates : u.from # UpdateStart \/ u.to # at - 1}
                                  \cup {file}
                  /\ missed' = missed \cup {h \in LeftOut(lost, file) : ~Published(h)}
    /\ Done
    /\ begun' = IF updates = {} THEN UpdateStart ELSE begun
    /\ UNCHANGED <<outside, snapshots, current, gone>>

\* make_update finds nothing to start from, or a call in it throws.
NoUpdate ==
    /\ Running("update")
    /\ \/ UpdateStart = 0 /\ UNCHANGED faults
       \/ UpdateStart # 0 /\ Fault
    /\ Done
    /\ UNCHANGED <<outside, files, told>>

\* The process ends, in the middle of a handler or not.  That is so for a stop
\* as well as for a crash: main returns 0, and the wrapper starts it again.  It is
\* so for a remove that throws too, which nothing catches.
Exit ==
    /\ process = "running"
    /\ Fault
    /\ process' = "ended"
    /\ task' = "wait" /\ at' = 0
    /\ UNCHANGED <<now, db, changes, files, next_run, told>>

Restart ==
    /\ process = "ended"
    /\ process' = "running"
    /\ next_run' = now
    /\ UNCHANGED <<now, db, changes, files, task, at, told, faults>>

Next ==
    \/ Tick \/ Change \/ Delete
    \/ RetryLater \/ Begin \/ RemoveSnapshot \/ RemoveUpdate
    \/ MakeSnapshot \/ UnlinkCurrent \/ LinkCurrent \/ MakeSnapshotFails
    \/ MakeUpdate \/ NoUpdate
    \/ Exit \/ Restart

Spec == Init /\ [][Next]_vars

----------------------------------------------------------------------------
\* The files of a directory are dumps, and their times are times.
IsSnapshot(s) == s.time \in Nat /\ IsDump(s.records) /\ s.cut \in BOOLEAN

IsUpdate(u) == /\ u.from \in Nat /\ u.to \in Nat /\ u.from <= u.to
               /\ IsDump(u.records) /\ u.cut \in BOOLEAN

TypeOK ==
    /\ process \in {"running", "ended"}
    /\ now \in Nat
    /\ db \in Databases
    /\ changes \in Nat
    /\ \A s \in snapshots : IsSnapshot(s)
    /\ current # NoFile => IsSnapshot(current)
    /\ \A u \in updates : IsUpdate(u)
    /\ task \in {"wait", "expire", "prune", "snapshot", "unlink", "link", "update"}
    /\ at \in Nat /\ next_run \in Nat
    /\ begun \in Nat /\ gone \in Nat
    /\ missed \subseteq Hashes
    /\ faults \in Nat

\* The windows of the update files do not overlap, and from the oldest snapshot on
\* they leave no hole, whatever fails, and wherever the expiry of the files is cut: a
\* replica that starts with a snapshot and follows them misses no time.
Chained ==
    \A u, v \in updates :
        u.to < v.to =>
            /\ u.to <= v.from
            /\ (\E s \in snapshots : s.time <= u.to)
                 => \E w \in updates : w.from = u.to /\ w.to > u.to

\* For each snapshot that is kept, the updates that a replica which starts with
\* it needs are kept as well, unless the updates began after it: the first one
\* goes by the newest snapshot, which a failure may have left unlinked.
SnapshotsCovered ==
    \A s \in snapshots :
        s.time >= begun /\ (\E u \in updates : s.time < u.to)
            => \E u \in updates : u.from <= s.time /\ s.time < u.to

\* A snapshot that is not due to expire: there is none when the process was gone too
\* long, or makes none.
Young == \E s \in snapshots : s.time + KeepSnapshots >= now

\* While there is one, every change before the end of the last update is in a file
\* that is kept and can be read, but for those that came too late for an update, were
\* the first of its window, or fell between the last of the expired updates and the
\* snapshot from which the next one starts, and those that a failing dump has left
\* out.  The next snapshot that is made without a failure makes up for all of them.
ChangesPublished ==
    \A h \in Stored(db) \ missed :
        Young /\ updates # {} /\ db[h].updated < LastEnd => Published(h)

\* The same without exception, for changes that come in time.
EveryRecordFound ==
    \A h \in Stored(db) :
        snapshots # {} /\ updates # {} /\ db[h].updated < LastEnd => Published(h)

====
