---- MODULE MasterProofs ----
(***************************************************************************)
(* Theorems about Master: what the database holds is well formed and       *)
(* sound, and what can leave a record behind the expiry position, for      *)
(* every set of digests, every age, batch, delay and skew.                 *)
(***************************************************************************)
EXTENDS Master, TLAPS

----------------------------------------------------------------------------
(* Records. *)

\* A stored count is a natural number below the modulus, wrapped or not.
LEMMA CountWraps ==
    ASSUME NEW n \in Nat
    PROVE  (n + 1) % CountModulus \in Nat
BY CountModulusAssumption

LEMMA MissingIsNoRecord == NoRecord \notin Records
<1> SUFFICES ASSUME NoRecord \in Records PROVE FALSE
  OBVIOUS
<1>1. "entered" \in DOMAIN NoRecord
  BY DEF Records
<1>2. QED
  BY <1>1 DEF NoRecord

LEMMA CountedFacts ==
    ASSUME NEW m \in Marks, NEW t \in Nat, NEW n \in Nat
    PROVE  /\ Counted(m, t, n) \in Marks
           /\ Counted(m, t, n).updated
                = IF t = 0 \/ m.updated < TimeOf(t, n)
                    THEN TimeOf(t, n) ELSE m.updated
           /\ Counted(m, t, n).entered
                = IF m.entered = 0 /\ (t = 0 \/ m.updated < TimeOf(t, n))
                    THEN TimeOf(t, n) ELSE m.entered
<1>1. (m.count + 1) % CountModulus \in Nat
  BY CountWraps DEF Marks
<1>2. TimeOf(t, n) \in Nat
  BY DEF TimeOf
<1>3. QED
  BY <1>1, <1>2 DEF Counted, Marks

LEMMA TouchedFacts ==
    ASSUME NEW r \in Records, NEW t \in Nat, NEW n \in Nat
    PROVE  /\ Touched(r, t, n) \in Records
           /\ Touched(r, t, n).report = r.report
           /\ Touched(r, t, n).whitelist = r.whitelist
           /\ Touched(r, t, n).updated = Later(r.updated, TimeOf(t, n))
           /\ Touched(r, t, n).entered
                = IF r.entered = 0 THEN TimeOf(t, n) ELSE r.entered
<1>1. TimeOf(t, n) \in Nat
  BY DEF TimeOf
<1>2. Later(r.updated, TimeOf(t, n)) \in Nat
  BY <1>1 DEF Later, Records
<1>3. QED
  BY <1>1, <1>2 DEF Touched, Records

\* A record as an operation finds it: stored and sound, or all zero.
Usable(r) == r \in Records /\ (Sound(r) \/ r = EmptyRecord)

LEMMA UsableFacts ==
    ASSUME NEW r, Usable(r)
    PROVE  /\ r \in Records /\ r.report \in Marks /\ r.whitelist \in Marks
           /\ MarkSound(r.report, r) /\ MarkSound(r.whitelist, r)
BY DEF Usable, Sound, MarkSound, EmptyRecord, NoMark, Records, Marks

\* Touching and counting a mark leaves that mark sound in the touched record.
LEMMA CountedSound ==
    ASSUME NEW r \in Records, NEW m \in Marks, MarkSound(m, r),
           NEW t \in Nat, NEW n \in Nat, n > 0,
           NEW s \in Records,
           s.updated = Later(r.updated, TimeOf(t, n)),
           s.entered = IF r.entered = 0 THEN TimeOf(t, n) ELSE r.entered
    PROVE  /\ MarkSound(Counted(m, t, n), s)
           /\ MarkSound(m, s)
           /\ s.updated > 0
<1>1. TimeOf(t, n) \in Nat /\ TimeOf(t, n) > 0
  BY DEF TimeOf
<1>2. /\ m.entered \in Nat /\ m.updated \in Nat /\ m.count \in Nat
      /\ r.entered \in Nat /\ r.updated \in Nat
  BY DEF Marks, Records
<1>3. s.entered > 0 /\ s.updated > 0 /\ s.updated >= r.updated
      /\ s.updated >= TimeOf(t, n)
  BY <1>1, <1>2 DEF Later
<1>4. MarkSound(m, s)
  BY <1>2, <1>3 DEF MarkSound, Records
<1> DEFINE c == Counted(m, t, n)
           at == TimeOf(t, n)
<1>5. /\ c.updated = IF t = 0 \/ m.updated < at THEN at ELSE m.updated
      /\ c.entered = IF m.entered = 0 /\ (t = 0 \/ m.updated < at)
                       THEN at ELSE m.entered
  BY CountedFacts
<1>6. m.updated <= r.updated /\ (m.updated > 0 => m.entered > 0)
  BY DEF MarkSound
<1> HIDE DEF c, at
<1>7. at \in Nat /\ at > 0 /\ s.updated >= at
  BY <1>1, <1>3 DEF at
<1>8. s.updated \in Nat
  BY DEF Records
<1>9. c.updated > 0 /\ c.updated <= s.updated
  BY <1>2, <1>3, <1>5, <1>6, <1>7, <1>8
<1>10. c.entered > 0
  BY <1>2, <1>5, <1>6, <1>7
<1>11. MarkSound(c, s)
  BY <1>3, <1>9, <1>10 DEF MarkSound
<1>12. QED
  BY <1>3, <1>4, <1>11 DEF c

LEMMA ReportSound ==
    ASSUME NEW r, Usable(r), NEW t \in Nat, NEW n \in Nat, n > 0
    PROVE  /\ Report(r, t, n) \in Records
           /\ Sound(Report(r, t, n))
           /\ Report(r, t, n).updated = Later(r.updated, TimeOf(t, n))
<1> DEFINE s == Touched(r, t, n)
           m == Counted(r.report, t, n)
           q == Report(r, t, n)
<1>1. /\ r \in Records /\ r.report \in Marks /\ r.whitelist \in Marks
      /\ MarkSound(r.report, r) /\ MarkSound(r.whitelist, r)
  BY UsableFacts
<1>2. /\ s \in Records /\ s.report = r.report /\ s.whitelist = r.whitelist
      /\ s.updated = Later(r.updated, TimeOf(t, n))
      /\ s.entered = IF r.entered = 0 THEN TimeOf(t, n) ELSE r.entered
  BY <1>1, TouchedFacts
<1>3. m \in Marks
  BY <1>1, CountedFacts
<1>4. q = [s EXCEPT !.report = m]
  BY <1>2 DEF Report, Records
<1>5. MarkSound(m, s) /\ MarkSound(r.whitelist, s) /\ s.updated > 0
  BY <1>1, <1>2, CountedSound
<1> HIDE DEF s, m, q
<1>6. /\ q \in Records /\ q.report = m /\ q.whitelist = s.whitelist
      /\ q.updated = s.updated /\ q.entered = s.entered
  BY <1>2, <1>3, <1>4 DEF Records
<1>7. Sound(q)
  BY <1>2, <1>5, <1>6 DEF Sound, MarkSound
<1>8. QED
  BY <1>2, <1>6, <1>7 DEF q

LEMMA WhitelistSound ==
    ASSUME NEW r, Usable(r), NEW t \in Nat, NEW n \in Nat, n > 0
    PROVE  /\ Whitelist(r, t, n) \in Records
           /\ Sound(Whitelist(r, t, n))
           /\ Whitelist(r, t, n).updated = Later(r.updated, TimeOf(t, n))
<1> DEFINE s == Touched(r, t, n)
           m == Counted(r.whitelist, t, n)
           q == Whitelist(r, t, n)
<1>1. /\ r \in Records /\ r.report \in Marks /\ r.whitelist \in Marks
      /\ MarkSound(r.report, r) /\ MarkSound(r.whitelist, r)
  BY UsableFacts
<1>2. /\ s \in Records /\ s.report = r.report /\ s.whitelist = r.whitelist
      /\ s.updated = Later(r.updated, TimeOf(t, n))
      /\ s.entered = IF r.entered = 0 THEN TimeOf(t, n) ELSE r.entered
  BY <1>1, TouchedFacts
<1>3. m \in Marks
  BY <1>1, CountedFacts
<1>4. q = [s EXCEPT !.whitelist = m]
  BY <1>2 DEF Whitelist, Records
<1>5. MarkSound(m, s) /\ MarkSound(r.report, s) /\ s.updated > 0
  BY <1>1, <1>2, CountedSound
<1> HIDE DEF s, m, q
<1>6. /\ q \in Records /\ q.whitelist = m /\ q.report = s.report
      /\ q.updated = s.updated /\ q.entered = s.entered
  BY <1>2, <1>3, <1>4 DEF Records
<1>7. Sound(q)
  BY <1>2, <1>5, <1>6 DEF Sound, MarkSound
<1>8. QED
  BY <1>2, <1>6, <1>7 DEF q

LEMMA ResetSound ==
    ASSUME NEW r, Usable(r), NEW n \in Nat, n > 0
    PROVE  /\ Reset(r, 0, n) \in Records
           /\ Sound(Reset(r, 0, n))
           /\ Reset(r, 0, n).updated = n
<1> DEFINE q == Reset(r, 0, n)
<1>1. r \in Records
  BY DEF Usable
<1>2. /\ q \in Records
      /\ q.updated = n
      /\ q.report.count = 0 /\ q.report.updated = 0
      /\ q.whitelist.count = 0 /\ q.whitelist.updated = 0
  BY <1>1 DEF Reset, TimeOf, Records, Marks
<1> HIDE DEF q
<1>3. Sound(q)
  BY <1>2 DEF Sound, MarkSound
<1>4. QED
  BY <1>2, <1>3 DEF q

----------------------------------------------------------------------------
(* Types and soundness. *)

\* The inductive invariant behind TypeOK and RecordsSound: the clock has
\* started, so no time that an operation stores is 0.
StoreInv == TypeOK /\ RecordsSound /\ now > 0

\* What an update finds is fit for an operation.
LEMMA FoundUsable ==
    ASSUME StoreInv, NEW h \in Hashes
    PROVE  Usable(Found(h))
<1>1. CASE db[h] = NoRecord
  <2>1. EmptyRecord \in Records
    BY DEF EmptyRecord, NoMark, Records, Marks
  <2>2. QED
    BY <1>1, <2>1 DEF Found, Usable
<1>2. CASE db[h] # NoRecord
  <2>1. db[h] \in Records /\ Sound(db[h])
    BY <1>2 DEF StoreInv, TypeOK, RecordsSound
  <2>2. QED
    BY <1>2, <2>1 DEF Found, Usable
<1>3. QED
  BY <1>1, <1>2

\* Every update stores a sound record, whose time is at least the position
\* expiry has reached, or what the record's time was before.
LEMMA PutsSound ==
    ASSUME StoreInv, ProcessUpdate
    PROVE  \E h \in Hashes, r \in Records :
              /\ Put(h, r)
              /\ Sound(r)
              /\ \/ \E t \in UpdateTimes :
                      r.updated = Later(Found(h).updated, TimeOf(t, now))
                 \/ r.updated = now
<1>1. PICK h \in Hashes :
        \/ \E t \in UpdateTimes : ProcessReport(h, t) \/ ProcessWhitelist(h, t)
        \/ ProcessErase(h)
  BY DEF ProcessUpdate
<1>2. Usable(Found(h)) /\ now \in Nat /\ now > 0
  BY FoundUsable DEF StoreInv, TypeOK
<1>3. ASSUME NEW t \in UpdateTimes PROVE t \in Nat
  BY <1>3, <1>2 DEF UpdateTimes
<1>4. CASE \E t \in UpdateTimes : ProcessReport(h, t)
  BY <1>2, <1>3, <1>4, ReportSound DEF ProcessReport
<1>5. CASE \E t \in UpdateTimes : ProcessWhitelist(h, t)
  BY <1>2, <1>3, <1>5, WhitelistSound DEF ProcessWhitelist
<1>6. CASE ProcessErase(h)
  BY <1>2, <1>6, ResetSound DEF ProcessErase
<1>7. QED
  BY <1>1, <1>4, <1>5, <1>6

LEMMA StoreInvInit == Init => StoreInv
<1> SUFFICES ASSUME Init PROVE StoreInv
  OBVIOUS
<1>1. now \in Nat /\ now > 0
  BY MasterAssumption DEF Init
<1>2. db \in [Hashes -> Records \cup {NoRecord}] /\ durable = db
  BY DEF Init
<1>3. RecordsSound
  BY DEF Init, RecordsSound
<1>4. QED
  BY <1>1, <1>2, <1>3 DEF Init, StoreInv, TypeOK

\* The steps that leave the database, or move it whole, keep what it holds.
LEMMA SameRecords ==
    ASSUME StoreInv,
           db' \in {db, durable}, durable' \in {db, durable}
    PROVE  /\ RecordsSound'
           /\ db' \in [Hashes -> Records \cup {NoRecord}]
           /\ durable' \in [Hashes -> Records \cup {NoRecord}]
<1>1. /\ db \in [Hashes -> Records \cup {NoRecord}]
      /\ durable \in [Hashes -> Records \cup {NoRecord}]
      /\ RecordsSound
  BY DEF StoreInv, TypeOK
<1>2. QED
  BY <1>1 DEF RecordsSound

LEMMA StoreInvStep ==
    ASSUME StoreInv, [Next]_vars
    PROVE  StoreInv'
<1> USE MasterAssumption
<1>0. TypeOK /\ RecordsSound /\ now > 0
  BY DEF StoreInv
<1>1. CASE Tick
  <2>1. /\ now' = now + 1 /\ db' = db /\ durable' = durable
        /\ UNCHANGED <<process, expire_status, expiry, updated_to, updates,
                       faults>>
    BY <1>1 DEF Tick
  <2>2. QED
    BY <1>0, <2>1 DEF StoreInv, TypeOK, RecordsSound
<1>2. CASE ProcessUpdate
  <2>1. PICK h \in Hashes, r \in Records : Put(h, r) /\ Sound(r)
    BY <1>2, PutsSound
  <2>2. /\ db' = [db EXCEPT ![h] = r] /\ durable' = durable
        /\ updates' = updates + 1
        /\ UNCHANGED <<process, now, expire_status, expiry, updated_to, faults>>
    BY <2>1 DEF Put
  <2>3. db' \in [Hashes -> Records \cup {NoRecord}]
    BY <1>0, <2>2 DEF TypeOK
  <2>4. RecordsSound'
    BY <1>0, <2>1, <2>2 DEF RecordsSound, TypeOK
  <2>5. TypeOK'
    BY <1>0, <2>2, <2>3 DEF TypeOK
  <2>6. QED
    BY <1>0, <2>2, <2>4, <2>5 DEF StoreInv
<1>3. CASE UpdateFails
  <2>1. /\ UNCHANGED <<process, now, db, durable, expire_status, expiry,
                       updated_to>>
        /\ updates' = updates + 1 /\ faults' = faults + 1
    BY <1>3 DEF UpdateFails, Fault
  <2>2. QED
    BY <1>0, <2>1, SameRecords DEF StoreInv, TypeOK
<1>4. ASSUME NEW batch \in SUBSET Hashes, Expire(batch)
      PROVE  /\ updated_to' \in Nat
             /\ expiry' \in {"waiting", "opening", "writing", "off"}
             /\ UNCHANGED <<process, now, durable, expire_status, updates>>
  <2>1. PICK last \in LastOf(batch) : updated_to' = db[last].updated
    BY <1>4 DEF Expire
  <2>2. last \in Hashes /\ Low(db[last])
    BY <1>4, <2>1 DEF Expire, LastOf, Batches, Due
  <2>3. db[last] \in Records
    BY <1>0, <2>2 DEF Low, TypeOK
  <2>4. QED
    BY <1>4, <2>1, <2>3 DEF Expire, Records
<1>5. CASE HandleExpire
  <2>1. PICK batch \in SUBSET Hashes :
          /\ Expire(batch)
          /\ db' = [h \in Hashes |-> IF h \in batch THEN NoRecord ELSE db[h]]
          /\ faults' = faults
    BY <1>5 DEF HandleExpire
  <2>2. /\ updated_to' \in Nat
        /\ expiry' \in {"waiting", "opening", "writing", "off"}
        /\ UNCHANGED <<process, now, durable, expire_status, updates>>
    BY <1>4, <2>1
  <2>3. db' \in [Hashes -> Records \cup {NoRecord}]
    BY <1>0, <2>1 DEF TypeOK
  <2>4. RecordsSound'
    BY <1>0, <2>1, <2>2 DEF RecordsSound
  <2>5. QED
    BY <1>0, <2>1, <2>2, <2>3, <2>4 DEF StoreInv, TypeOK
<1>6. CASE ExpireCommitFails
  <2>1. PICK batch \in SUBSET Hashes :
          Expire(batch) /\ db' = db /\ faults' = faults + 1
    BY <1>6 DEF ExpireCommitFails, Fault
  <2>2. /\ updated_to' \in Nat
        /\ expiry' \in {"waiting", "opening", "writing", "off"}
        /\ UNCHANGED <<process, now, durable, expire_status, updates>>
    BY <1>4, <2>1
  <2>3. QED
    BY <1>0, <2>1, <2>2, SameRecords DEF StoreInv, TypeOK
<1>7. CASE OpenStatusFails \/ OpenStatus \/ WriteStatus
  <2>1. /\ UNCHANGED <<process, now, db, durable, updates>>
        /\ expiry' \in {"waiting", "opening", "writing", "off"}
        /\ expire_status' \in {0, expire_status, updated_to}
        /\ updated_to' \in {0, updated_to}
        /\ faults' \in {faults, faults + 1}
    BY <1>7 DEF OpenStatusFails, OpenStatus, WriteStatus, Fault
  <2>2. QED
    BY <1>0, <2>1, SameRecords DEF StoreInv, TypeOK
<1>8. CASE HandleCheckpoint \/ FlushLog \/ Stop
  <2>1. /\ UNCHANGED <<now, db, expire_status, updated_to, updates, faults>>
        /\ durable' = db
        /\ process' \in {process, "stopped"}
        /\ expiry' \in {expiry, "off"}
    BY <1>8 DEF HandleCheckpoint, FlushLog, Stop
  <2>2. QED
    BY <1>0, <2>1, SameRecords DEF StoreInv, TypeOK
<1>9. CASE Crash
  <2>1. /\ UNCHANGED <<now, durable, expire_status, updates>>
        /\ db' = durable /\ process' = "crashed" /\ expiry' = "off"
        /\ updated_to' = 0 /\ faults' = faults + 1
    BY <1>9 DEF Crash, Fault
  <2>2. QED
    BY <1>0, <2>1, SameRecords DEF StoreInv, TypeOK
<1>10. CASE Restart \/ RestartFails
  <2>1. /\ UNCHANGED <<now, db, durable, expire_status, updated_to, updates>>
        /\ process' \in {"running", "stopped"}
        /\ expiry' \in {expiry, "waiting"}
        /\ faults' \in {faults, faults + 1}
    BY <1>10 DEF Restart, RestartFails, Fault
  <2>2. QED
    BY <1>0, <2>1, SameRecords DEF StoreInv, TypeOK
<1>11. CASE UNCHANGED vars
  <2>1. UNCHANGED <<process, now, db, durable, expire_status, expiry, updated_to,
                    updates, faults>>
    BY <1>11 DEF vars
  <2>2. QED
    BY <1>0, <2>1, SameRecords DEF StoreInv, TypeOK
<1>12. QED
  BY <1>1, <1>2, <1>3, <1>5, <1>6, <1>7, <1>8, <1>9, <1>10, <1>11 DEF Next

\* The state of the master has the types its variables declare.
THEOREM TypeCorrect == Spec => []TypeOK
<1>1. StoreInv => TypeOK
  BY DEF StoreInv
<1>2. QED
  BY <1>1, StoreInvInit, StoreInvStep, PTL DEF Spec

\* Every record that process_update stores, and every one that recovery finds,
\* has the times that go with its counts, for any number of digests, updates
\* and crashes and any width of the counts.
THEOREM AlwaysRecordsSound == Spec => []RecordsSound
<1>1. StoreInv => RecordsSound
  BY DEF StoreInv
<1>2. QED
  BY <1>1, StoreInvInit, StoreInvStep, PTL DEF Spec

----------------------------------------------------------------------------
(* Expiry. *)

\* The saved position and the one about to be saved are older than MaxAge.
OldEnough(t) == t = 0 \/ t + MaxAge < now

PositionsOld == OldEnough(expire_status) /\ OldEnough(updated_to)

\* A batch stops at a record that is older than MaxAge.
LEMMA ExpirePosition ==
    ASSUME StoreInv, NEW batch \in SUBSET Hashes, Expire(batch)
    PROVE  /\ updated_to' \in Nat
           /\ updated_to' + MaxAge < now
           /\ UNCHANGED <<process, now, durable, expire_status>>
           /\ expiry = "waiting" /\ expiry' = "opening" /\ process = "running"
           /\ batch \in Batches
           /\ \E last \in batch : updated_to' = db[last].updated
<1>1. PICK last \in LastOf(batch) : updated_to' = db[last].updated
  BY DEF Expire
<1>2. last \in batch /\ batch \in Batches
  BY <1>1 DEF Expire, LastOf
<1>3. last \in Hashes /\ Due(last)
  BY <1>2 DEF Batches
<1>4. db[last] \in Records
  BY <1>3 DEF Due, Low, StoreInv, TypeOK
<1>5. QED
  BY <1>1, <1>2, <1>3, <1>4 DEF Expire, Idle, Due, Records

\* What is too young to expire was updated after what is old enough.
LEMMA YoungerIsLater ==
    ASSUME NEW young \in Nat, NEW old \in Nat, NEW age \in Nat, NEW t \in Nat,
           old + age < t, ~(young + age < t)
    PROVE  young >= old
OBVIOUS

LEMMA PositionsOldInit == Init => PositionsOld
BY DEF Init, PositionsOld, OldEnough

LEMMA PositionsOldStep ==
    ASSUME StoreInv, PositionsOld, [Next]_vars
    PROVE  PositionsOld'
<1> USE MasterAssumption
<1>0. /\ now \in Nat /\ expire_status \in Nat /\ updated_to \in Nat
      /\ OldEnough(expire_status) /\ OldEnough(updated_to)
  BY DEF StoreInv, TypeOK, PositionsOld
<1>1. CASE Tick
  <2>1. now' = now + 1 /\ UNCHANGED <<expire_status, updated_to>>
    BY <1>1 DEF Tick
  <2>2. QED
    BY <1>0, <2>1 DEF PositionsOld, OldEnough
<1>2. CASE HandleExpire \/ ExpireCommitFails
  <2>1. PICK batch \in SUBSET Hashes : Expire(batch)
    BY <1>2 DEF HandleExpire, ExpireCommitFails
  <2>2. /\ updated_to' + MaxAge < now
        /\ UNCHANGED <<now, expire_status>>
    BY <2>1, ExpirePosition
  <2>3. QED
    BY <1>0, <2>2 DEF PositionsOld, OldEnough
<1>3. CASE ProcessUpdate
  <2>1. PICK h \in Hashes, r \in Records : Put(h, r)
    BY <1>3, PutsSound
  <2>2. QED
    BY <1>0, <2>1 DEF Put, PositionsOld, OldEnough
<1>4. CASE \/ UpdateFails \/ OpenStatusFails \/ OpenStatus \/ WriteStatus
           \/ HandleCheckpoint \/ FlushLog
           \/ Crash \/ Restart \/ RestartFails \/ Stop \/ UNCHANGED vars
  <2>1. /\ now' = now
        /\ expire_status' \in {0, expire_status, updated_to}
        /\ updated_to' \in {0, updated_to}
    BY <1>4 DEF UpdateFails, OpenStatusFails, OpenStatus, WriteStatus,
         HandleCheckpoint, FlushLog, Crash, Restart, RestartFails, Stop, vars
  <2>2. QED
    BY <1>0, <2>1 DEF PositionsOld, OldEnough
<1>5. QED
  BY <1>1, <1>2, <1>3, <1>4 DEF Next

\* A pass deletes the oldest records due, so what remains does not lie before
\* the last one it deleted.
LEMMA ExpireLeavesNone ==
    ASSUME StoreInv, NothingBehind, HandleExpire
    PROVE  NothingBehind'
<1> USE MasterAssumption
<1>1. PICK batch \in SUBSET Hashes :
        /\ Expire(batch)
        /\ db' = [h \in Hashes |-> IF h \in batch THEN NoRecord ELSE db[h]]
  BY DEF HandleExpire
<1>2. PICK last \in batch : updated_to' = db[last].updated
  BY <1>1, ExpirePosition
<1>3. /\ batch \in Batches /\ updated_to' + MaxAge < now /\ updated_to' \in Nat
      /\ expiry = "waiting" /\ expiry' = "opening" /\ process = "running"
  BY <1>1, ExpirePosition
<1>4. Position' = updated_to' /\ Position = expire_status
  BY <1>3 DEF Position
<1>5. ASSUME NEW h \in Hashes, Low(db'[h]) PROVE db'[h].updated >= updated_to'
  <2>1. h \notin batch /\ db'[h] = db[h] /\ Low(db[h])
    BY <1>1, <1>5 DEF Low
  <2>2. db[h] \in Records /\ db[h].updated \in Nat /\ now \in Nat
    BY <2>1 DEF Low, StoreInv, TypeOK, Records
  <2>3. db[h].updated >= expire_status
    BY <1>3, <1>4, <2>1 DEF NothingBehind
  <2>4. CASE Due(h)
    <3>1. db[last].updated <= db[h].updated
      BY <1>3, <2>1, <2>4 DEF Batches
    <3>2. QED
      BY <1>2, <1>3, <2>1, <2>2, <3>1
  <2>5. CASE ~Due(h)
    <3>1. ~(db[h].updated + MaxAge < now)
      BY <2>1, <2>3, <2>5 DEF Due
    <3>2. MaxAge \in Nat /\ updated_to' \in Nat /\ updated_to' + MaxAge < now
      BY <1>3
    <3>3. db[h].updated >= updated_to'
      BY <2>2, <3>1, <3>2, YoungerIsLater
    <3>4. QED
      BY <2>1, <3>3
  <2>6. QED
    BY <2>4, <2>5
<1>6. QED
  BY <1>4, <1>5 DEF NothingBehind

\* An update is younger than the position, and moves its record past it.
LEMMA UpdateLeavesNone ==
    ASSUME StoreInv, PositionsOld, NothingBehind, ProcessUpdate
    PROVE  NothingBehind'
<1> USE MasterAssumption
<1>1. PICK h \in Hashes, r \in Records :
        /\ Put(h, r)
        /\ \/ \E t \in UpdateTimes :
               r.updated = Later(Found(h).updated, TimeOf(t, now))
           \/ r.updated = now
  BY PutsSound
<1>2. /\ db' = [db EXCEPT ![h] = r] /\ db \in [Hashes -> Records \cup {NoRecord}]
      /\ UNCHANGED <<process, expiry, expire_status, updated_to>>
      /\ process = "running" /\ expiry \in {"waiting", "off"}
  BY <1>1 DEF Put, Idle, StoreInv, TypeOK
<1>3. Position = expire_status /\ Position' = expire_status
  BY <1>2 DEF Position
<1>4. now \in Nat /\ expire_status \in Nat /\ OldEnough(expire_status) /\ now > 0
  BY DEF StoreInv, TypeOK, PositionsOld
<1>5. r.updated >= expire_status
  <2>1. CASE r.updated = now
    BY <1>4, <2>1 DEF OldEnough
  <2>2. CASE \E t \in UpdateTimes :
               r.updated = Later(Found(h).updated, TimeOf(t, now))
    <3>1. PICK t \in UpdateTimes :
            r.updated = Later(Found(h).updated, TimeOf(t, now))
      BY <2>2
    <3>2. /\ TimeOf(t, now) \in Nat
          /\ TimeOf(t, now) >= expire_status
      BY <1>4, <3>1 DEF UpdateTimes, TimeOf, OldEnough
    <3>3. Found(h).updated \in Nat
      BY FoundUsable DEF Usable, Records
    <3>4. QED
      BY <1>4, <3>1, <3>2, <3>3 DEF Later
  <2>3. QED
    BY <1>1, <2>1, <2>2
<1>6. ASSUME NEW g \in Hashes, Low(db'[g]) PROVE db'[g].updated >= expire_status
  <2>1. CASE g = h
    BY <1>2, <1>5, <2>1
  <2>2. CASE g # h
    BY <1>2, <1>3, <1>6, <2>2 DEF NothingBehind
  <2>3. QED
    BY <2>1, <2>2
<1>7. QED
  BY <1>3, <1>6 DEF NothingBehind

\* Late updates, batches, ties and crashes inside handle_expire leave no record
\* that expiry is for behind its position, for any age and batch size and any
\* delay up to the age: only a recovery or a failed call can.
THEOREM LossLeavesBehind == Spec => OnlyLossLeavesBehind
<1>1. ASSUME StoreInv, PositionsOld, [Next]_vars
      PROVE  NothingBehind =>
               NothingBehind' \/ process = "crashed" \/ faults' > faults
  <2> SUFFICES ASSUME NothingBehind, process # "crashed", ~(faults' > faults)
               PROVE  NothingBehind'
    OBVIOUS
  <2>0. faults \in Nat
    BY <1>1 DEF StoreInv, TypeOK
  <2>1. CASE Tick \/ HandleCheckpoint \/ FlushLog \/ UNCHANGED vars
    <3>1. UNCHANGED <<process, db, expire_status, expiry, updated_to>>
      BY <2>1 DEF Tick, HandleCheckpoint, FlushLog, vars
    <3>2. QED
      BY <3>1 DEF NothingBehind, Position
  <2>2. CASE ProcessUpdate
    BY <1>1, <2>2, UpdateLeavesNone
  <2>3. CASE HandleExpire
    BY <1>1, <2>3, ExpireLeavesNone
  <2>4. CASE OpenStatus
    <3>1. /\ UNCHANGED <<process, db, updated_to>>
          /\ expiry = "opening" /\ expiry' = "writing"
      BY <2>4 DEF OpenStatus
    <3>2. QED
      BY <3>1 DEF NothingBehind, Position
  <2>5. CASE WriteStatus
    <3>1. /\ UNCHANGED <<process, db>>
          /\ expire_status' = updated_to
          /\ expiry = "writing" /\ expiry' = "waiting"
      BY <2>5 DEF WriteStatus
    <3>2. QED
      BY <3>1 DEF NothingBehind, Position
  <2>6. CASE UpdateFails \/ ExpireCommitFails \/ OpenStatusFails \/ Crash
             \/ RestartFails
    BY <2>0, <2>6 DEF UpdateFails, ExpireCommitFails, OpenStatusFails, Crash,
         RestartFails, Fault
  <2>7. CASE Restart
    BY <2>7 DEF Restart
  <2>8. CASE Stop
    BY <2>8 DEF Stop, NothingBehind
  <2>9. QED
    BY <1>1, <2>1, <2>2, <2>3, <2>4, <2>5, <2>6, <2>7, <2>8 DEF Next
<1>2. StoreInv /\ PositionsOld /\ [Next]_vars => (StoreInv /\ PositionsOld)'
  BY StoreInvStep, PositionsOldStep
<1>3. StoreInv /\ PositionsOld /\ [Next]_vars =>
        [NothingBehind =>
           NothingBehind' \/ process = "crashed" \/ faults' > faults]_vars
  BY <1>1
<1>4. QED
  BY <1>2, <1>3, StoreInvInit, PositionsOldInit, PTL
     DEF Spec, OnlyLossLeavesBehind

----------------------------------------------------------------------------
(* The order of the index on updated. *)

\* No update moves a record back in the index before both its last change and
\* the present, whatever the clocks of the clients say: a report or whitelisting
\* only moves it forward, and an erasure moves it to the present.
THEOREM UpdatedForwards == Spec => NeverUpdatedBackwards
<1> DEFINE Forwards ==
      \A h \in Hashes :
         db[h] # NoRecord /\ db'[h] # NoRecord =>
            \/ db'[h].updated >= Earlier(db[h].updated, now)
            \/ process' = "crashed"
<1>1. ASSUME StoreInv, [Next]_vars PROVE Forwards
  <2>0. /\ db \in [Hashes -> Records \cup {NoRecord}] /\ now \in Nat
        /\ \A h \in Hashes : db[h] # NoRecord => db[h].updated \in Nat
    BY <1>1 DEF StoreInv, TypeOK, Records
  <2>1. CASE db' = db
    BY <2>0, <2>1 DEF Earlier
  <2>2. CASE ProcessUpdate
    <3>1. PICK h \in Hashes, r \in Records :
            /\ Put(h, r)
            /\ \/ \E t \in UpdateTimes :
                   r.updated = Later(Found(h).updated, TimeOf(t, now))
               \/ r.updated = now
      BY <1>1, <2>2, PutsSound
    <3>2. db' = [db EXCEPT ![h] = r]
      BY <3>1 DEF Put
    <3>3. ASSUME db[h] # NoRecord
          PROVE  r.updated >= Earlier(db[h].updated, now)
      <4>1. Found(h).updated = db[h].updated /\ db[h].updated \in Nat
        BY <2>0, <3>3 DEF Found
      <4>2. CASE r.updated = now
        BY <2>0, <4>1, <4>2 DEF Earlier
      <4>3. ASSUME NEW t \in UpdateTimes,
                   r.updated = Later(Found(h).updated, TimeOf(t, now))
            PROVE  r.updated >= db[h].updated
        <5>1. TimeOf(t, now) \in Nat
          BY <2>0, MasterAssumption DEF UpdateTimes, TimeOf
        <5>2. QED
          BY <4>1, <4>3, <5>1 DEF Later
      <4>4. r.updated \in Nat
        BY <3>1 DEF Records
      <4>5. QED
        BY <2>0, <3>1, <4>1, <4>2, <4>3, <4>4 DEF Earlier
    <3>4. ASSUME NEW g \in Hashes, db[g] # NoRecord
          PROVE  db'[g].updated >= Earlier(db[g].updated, now)
      <4>1. CASE g = h
        BY <2>0, <3>2, <3>3, <3>4, <4>1
      <4>2. CASE g # h
        BY <2>0, <3>2, <3>4, <4>2 DEF Earlier
      <4>3. QED
        BY <4>1, <4>2
    <3>5. QED
      BY <3>4
  <2>3. CASE HandleExpire
    <3>1. \A h \in Hashes : db'[h] \in {NoRecord, db[h]}
      BY <2>3 DEF HandleExpire
    <3>2. QED
      BY <2>0, <3>1 DEF Earlier
  <2>4. CASE Crash
    BY <2>4 DEF Crash
  <2>5. db' = db \/ ProcessUpdate \/ HandleExpire \/ Crash
    BY <1>1 DEF Next, Tick, UpdateFails, ExpireCommitFails, OpenStatusFails,
         OpenStatus, WriteStatus, HandleCheckpoint, FlushLog, Restart,
         RestartFails, Stop, vars
  <2>6. QED
    BY <2>1, <2>2, <2>3, <2>4, <2>5
<1>2. StoreInv /\ [Next]_vars => [Forwards]_vars
  BY <1>1
<1>3. QED
  BY <1>2, StoreInvInit, StoreInvStep, PTL DEF Spec, NeverUpdatedBackwards

====
