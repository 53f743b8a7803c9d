---- MODULE Master ----
(***************************************************************************)
(* pyzor::master (common/master.cpp): the one process that writes the      *)
(* signature database.  It applies the updates its sessions read, expires  *)
(* old records in batches from a position it saves in the file             *)
(* expire_status, and checkpoints.  Commits do not wait for the log        *)
(* (DB_TXN_NOSYNC): what a crash leaves is an earlier state of the         *)
(* database, while the status file keeps what was written to it.           *)
(*                                                                         *)
(* The master runs on one io_service thread.  A handler is one step,       *)
(* except handle_expire: a crash may separate its commit, the truncation   *)
(* of the status file and the write to it.  Berkeley DB is external.       *)
(***************************************************************************)
EXTENDS Record, FiniteSets

CONSTANTS
    Hashes,      \* the digests that updates are about
    MaxAge,      \* MAX_RECORD_AGE
    MaxBatch,    \* MAX_RECORDS_TO_EXPIRE
    MaxDelay,    \* how old an update may be when the master reads it
    MaxSkew,     \* how far a client's clock may run ahead of the master's
    MaxTime,     \* bound on the clock
    MaxUpdates,  \* bound on the number of updates read
    MaxFaults    \* bound on the crashes and the failing calls, together

\* An update reaches the master, through the queues of the slaves, before a
\* record of its time would be due for expiry.
ASSUME MasterAssumption ==
    /\ Hashes # {} /\ IsFiniteSet(Hashes)
    /\ MaxAge \in Nat /\ MaxBatch \in Nat \ {0}
    /\ MaxDelay \in Nat /\ MaxDelay <= MaxAge
    /\ MaxSkew \in Nat /\ MaxTime \in Nat /\ MaxUpdates \in Nat
    /\ MaxFaults \in Nat

NoRecord == [missing |-> TRUE]

VARIABLES
    process,        \* "running", "crashed" or "stopped"
    now,            \* the master's clock
    db,             \* the committed database: Hashes -> Records or NoRecord
    durable,        \* the database that recovery would find
    expire_status,  \* the file expire_status; 0 if missing or empty
    expiry,         \* handle_expire: "waiting" for expire_timer_, "opening"
                    \* the status file, "writing" it, or "off": no timer
    updated_to,     \* the position handle_expire is about to save, or 0
    updates,        \* number of updates read
    faults          \* number of crashes and failed calls

vars == <<process, now, db, durable, expire_status, expiry, updated_to,
          updates, faults>>

----------------------------------------------------------------------------
\* The io_service thread is between two handlers.
Idle == process = "running" /\ expiry \in {"waiting", "off"}

Fault == faults < MaxFaults /\ faults' = faults + 1

\* The record that a get finds; the code starts from one with every bit 0.
Found(h) == IF db[h] = NoRecord THEN EmptyRecord ELSE db[h]

Low(r) == r # NoRecord /\ r.report.count <= 1

\* The times an update may carry when it is read now.
UpdateTimes == {0} \cup {t \in 1 .. now + MaxSkew : now <= t + MaxDelay}

\* Where the next expiry pass starts to look, if this one is not cut short.
Position ==
    IF expiry \in {"opening", "writing"} THEN updated_to ELSE expire_status

\* mutant of Due: a strict comparison with the saved position.
DueAfterPosition(h) ==
    /\ Low(db[h])
    /\ db[h].updated > expire_status
    /\ db[h].updated + MaxAge < now

\* master::expire meets h between updated_from and updated_to, and deletes it.
Due(h) ==
    /\ Low(db[h])
    /\ db[h].updated >= expire_status
    /\ db[h].updated + MaxAge < now

\* mutant of Batches: the cursor does not follow the index.
UnorderedBatches ==
    LET due == {h \in Hashes : Due(h)}
    IN  {batch \in SUBSET due :
           Cardinality(batch) = Earlier(MaxBatch, Cardinality(due))}

\* The sets one pass may delete: the first MaxBatch records due in the order
\* of the index on updated.
Batches ==
    LET due == {h \in Hashes : Due(h)}
    IN  {batch \in SUBSET due :
           /\ Cardinality(batch) = Earlier(MaxBatch, Cardinality(due))
           /\ \A h \in batch, g \in due \ batch :
                db[h].updated <= db[g].updated}

LastOf(batch) == {h \in batch : \A g \in batch : db[g].updated <= db[h].updated}

----------------------------------------------------------------------------
\* master::master on an empty database.  The clock starts past MaxAge.
Init ==
    /\ process = "running"
    /\ now = MaxAge + 1
    /\ db = [h \in Hashes |-> NoRecord]
    /\ durable = db
    /\ expire_status = 0
    /\ expiry = "waiting"
    /\ updated_to = 0
    /\ updates = 0 /\ faults = 0

\* A tick is a part of MAX_RECORD_AGE, 84 days: checkpoints, 300 s apart, do
\* not fall behind it.
Tick ==
    /\ now < MaxTime
    /\ process = "running" => durable = db
    /\ now' = now + 1
    /\ UNCHANGED <<process, db, durable, expire_status, expiry, updated_to,
                   updates, faults>>

\* master::process_update, from session::handle_read: the transaction commits.
Put(h, r) ==
    /\ Idle
    /\ updates < MaxUpdates
    /\ updates' = updates + 1
    /\ db' = [db EXCEPT ![h] = r]
    /\ UNCHANGED <<process, now, durable, expire_status, expiry, updated_to,
                   faults>>

ProcessReport(h, t) == Put(h, Report(Found(h), t, now))

ProcessWhitelist(h, t) == Put(h, Whitelist(Found(h), t, now))

\* The master erases at its own time, whatever time the update carries.
ProcessErase(h) == Put(h, Reset(Found(h), 0, now))

ProcessUpdate ==
    \E h \in Hashes :
        \/ \E t \in UpdateTimes : ProcessReport(h, t) \/ ProcessWhitelist(h, t)
        \/ ProcessErase(h)

\* A get, a put or the commit fails: the update is dropped with a log line.
UpdateFails ==
    /\ Idle
    /\ updates < MaxUpdates
    /\ updates' = updates + 1
    /\ Fault
    /\ UNCHANGED <<process, now, db, durable, expire_status, expiry,
                   updated_to>>

\* master::handle_expire up to the commit of the transaction in expire().
Expire(batch) ==
    /\ Idle /\ expiry = "waiting"
    /\ batch \in Batches
    /\ \E last \in LastOf(batch) : updated_to' = db[last].updated
    /\ expiry' = "opening"
    /\ UNCHANGED <<process, now, durable, expire_status, updates>>

\* A pass that finds nothing only arms the timer again.
HandleExpire ==
    \E batch \in SUBSET Hashes :
        /\ Expire(batch)
        /\ db' = [h \in Hashes |-> IF h \in batch THEN NoRecord ELSE db[h]]
        /\ UNCHANGED faults

\* The commit fails; expire() logs that and still returns what it deleted.
ExpireCommitFails ==
    \E batch \in SUBSET Hashes :
        /\ Expire(batch)
        /\ Fault
        /\ UNCHANGED db

\* Opening the status file, to read or to write it, fails: handle_expire
\* returns without arming the timer.
OpenStatusFails ==
    /\ process = "running"
    /\ expiry \in {"waiting", "opening"}
    /\ Fault
    /\ expiry' = "off"
    /\ updated_to' = 0
    /\ UNCHANGED <<process, now, db, durable, expire_status, updates>>

\* Opening the status file for writing truncates it.
OpenStatus ==
    /\ process = "running"
    /\ expiry = "opening"
    /\ expire_status' = 0
    /\ expiry' = "writing"
    /\ UNCHANGED <<process, now, db, durable, updated_to, updates,
                   faults>>

\* The position is written and the timer armed, sooner if more may be due.
WriteStatus ==
    /\ process = "running"
    /\ expiry = "writing"
    /\ expire_status' = updated_to
    /\ expiry' = "waiting"
    /\ updated_to' = 0
    /\ UNCHANGED <<process, now, db, durable, updates, faults>>

\* master::handle_checkpoint
HandleCheckpoint ==
    /\ Idle
    /\ durable' = db
    /\ UNCHANGED <<process, now, db, expire_status, expiry, updated_to,
                   updates, faults>>

\* External: Berkeley DB writes out its log buffer.
FlushLog ==
    /\ process = "running"
    /\ durable' = db
    /\ UNCHANGED <<process, now, db, expire_status, expiry, updated_to,
                   updates, faults>>

\* The process dies, also of an exception out of a handler (txn_begin failed).
\* What its log buffer still held is gone.
Crash ==
    /\ process = "running"
    /\ Fault
    /\ process' = "crashed"
    /\ db' = durable
    /\ expiry' = "off"
    /\ updated_to' = 0
    /\ UNCHANGED <<now, durable, expire_status, updates>>

\* The wrapper starts a new process; DB_RECOVER replays the log that is there.
Restart ==
    /\ process = "crashed"
    /\ process' = "running"
    /\ expiry' = "waiting"
    /\ UNCHANGED <<now, db, durable, expire_status, updated_to, updates,
                   faults>>

\* A setup step throws; the process returns 128 and the wrapper ends with it.
RestartFails ==
    /\ process = "crashed"
    /\ process' = "stopped"
    /\ UNCHANGED <<now, db, durable, expire_status, expiry, updated_to,
                   updates, faults>>

\* master::stop between two handlers; closing the database writes it out.
Stop ==
    /\ Idle
    /\ process' = "stopped"
    /\ durable' = db
    /\ expiry' = "off"
    /\ UNCHANGED <<now, db, expire_status, updated_to, updates, faults>>

Next ==
    \/ Tick \/ ProcessUpdate \/ UpdateFails
    \/ HandleExpire \/ ExpireCommitFails
    \/ OpenStatusFails \/ OpenStatus \/ WriteStatus
    \/ HandleCheckpoint \/ FlushLog
    \/ Crash \/ Restart \/ RestartFails \/ Stop

Spec == Init /\ [][Next]_vars

\* The expiry timer fires, and its handler runs to its end.
Fairness ==
    /\ WF_vars(HandleExpire)
    /\ WF_vars(OpenStatus \/ OpenStatusFails)
    /\ WF_vars(WriteStatus)

FairSpec == Spec /\ Fairness

----------------------------------------------------------------------------
TypeOK ==
    /\ process \in {"running", "crashed", "stopped"}
    /\ now \in Nat
    /\ db \in [Hashes -> Records \cup {NoRecord}]
    /\ durable \in [Hashes -> Records \cup {NoRecord}]
    /\ expire_status \in Nat
    /\ expiry \in {"waiting", "opening", "writing", "off"}
    /\ updated_to \in Nat
    /\ updates \in Nat /\ faults \in Nat

\* What a reader of a record relies on: a count that is not 0 has its times,
\* and no mark was last updated after the record was.
MarkSound(mark, r) ==
    /\ mark.count > 0 => mark.updated > 0 /\ r.entered > 0
    /\ mark.updated > 0 => mark.entered > 0
    /\ mark.updated <= r.updated

Sound(r) ==
    /\ MarkSound(r.report, r)
    /\ MarkSound(r.whitelist, r)
    /\ r.updated > 0

\* In every order of reports, whitelistings and erasures, with late updates,
\* counts that wrap and recovery after a crash, every stored record is sound.
RecordsSound ==
    \A h \in Hashes :
        /\ db[h] # NoRecord => Sound(db[h])
        /\ durable[h] # NoRecord => Sound(durable[h])

\* A record that changes moves to the end of the index, or stays: no update
\* takes its time back to before both its own last change and the present.
\* Readers that ask for the records updated since their last look rely on it.
NeverUpdatedBackwards ==
    [][\A h \in Hashes :
         db[h] # NoRecord /\ db'[h] # NoRecord =>
            \/ db'[h].updated >= Earlier(db[h].updated, now)
            \/ process' = "crashed"]_vars

\* No record that expiry is for lies before the position of the next pass.
NothingBehind ==
    \A h \in Hashes :
        process = "running" /\ Low(db[h]) => db[h].updated >= Position

\* Late updates, batches, ties at the end of a batch and crashes in
\* handle_expire put no such record there: only a recovery that brings deleted
\* records back does, or a failing commit that expire() ignores.
OnlyLossLeavesBehind ==
    [][NothingBehind =>
         NothingBehind' \/ process = "crashed" \/ faults' > faults]_vars

\* While its timer is armed and nothing lies behind, expiry gets to every
\* record that is old and was reported at most once, batch after batch.
Old(h) == Low(db[h]) /\ db[h].updated + MaxAge < now

Expiring == process = "running" /\ expiry # "off" /\ NothingBehind

OldRecordsExpire ==
    \A h \in Hashes : Old(h) /\ Expiring ~> ~Old(h) \/ ~Expiring

====
