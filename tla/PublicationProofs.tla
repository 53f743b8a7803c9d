---- MODULE PublicationProofs ----
(***************************************************************************)
(* The files of the publisher, and the replica that follows them, for any  *)
(* set of digests, any intervals and delays, and any number of changes,    *)
(* failures, exits and troubles.                                           *)
(*                                                                         *)
(* The publisher.  FileInv is about the times in the names of the files.   *)
(* What it adds to the properties: no file is of a time that the handler,  *)
(* or the next one, is still to write (Past), and a snapshot that is to be *)
(* linked is there (Made).  Covered says of every time what                *)
(* SnapshotsCovered says of those of the snapshots, for as long as there   *)
(* is a snapshot to start from; it and Chained hold between any two files  *)
(* of an expiry, because an update expires only when it ends before every  *)
(* snapshot.  RecordInv is about their contents.  While a snapshot is      *)
(* Young the newest one never expires, and a version that is current and   *)
(* in a file before it is in it too (CarriedOn), which is why that file    *)
(* may expire; and what is before the start of the next update is in some  *)
(* file already (Found), whether the next update follows another or a      *)
(* snapshot.  Both except the digests in missed: what a failed dump leaves *)
(* out, what comes late, and the record each update forgets.               *)
(*                                                                         *)
(* The replica, in four layers.  PublisherInv is what it needs to know of  *)
(* the files: their windows do not overlap.  TypeInv is about the          *)
(* replica's variables.  TimeInv is about the times it has seen: none is   *)
(* after the last of the updates, kept or gone (Behind), and while the     *)
(* queue is in turn no record is newer than what is to come.  HeldInv is   *)
(* about what it has: a record newer than the start of an update is a sign *)
(* that the update was imported (Holds), because what comes before an      *)
(* update of the queue is ahead of it there, or imported already           *)
(* (NoneForgotten).  A new update that starts before the end of one that   *)
(* is gone would break both: they are about those that GoesOn has.         *)
(***************************************************************************)
EXTENDS Publication, SeqLemmas, FiniteSetTheorems

\* The first time that is not yet over for the handler, or for the next one.
Edge == IF task = "wait" THEN now ELSE at

Past ==
    /\ 1 <= now
    /\ task # "wait" => 1 <= at /\ at <= now
    /\ \A s \in snapshots : s.time < Edge
    /\ \A u \in updates : u.to < Edge

Made == task \in {"unlink", "link"} => \E s \in snapshots : s.time = at - 1

\* A replica that is at a time finds the update that goes on from there.
Covered ==
    \A t \in Nat :
        (/\ begun <= t
         /\ \E s \in snapshots : s.time <= t
         /\ \E u \in updates : t < u.to)
            => \E u \in updates : u.from <= t /\ t < u.to

FileInv == TypeOK /\ Past /\ Made /\ Chained /\ Covered

----------------------------------------------------------------------------
(* The helpers that go by the names of the files. *)

\* find_most_recent_snapshot returns the latest time of the snapshots.
LEMMA NewestFacts ==
    ASSUME NEW S, \A s \in S : s.time \in Nat, NEW b \in Nat, \A s \in S : s.time < b
    PROVE  /\ NewestSnapshot(S) \in Nat
           /\ S = {} => NewestSnapshot(S) = 0
           /\ S # {} => /\ \E s \in S : s.time = NewestSnapshot(S)
                        /\ \A s \in S : s.time <= NewestSnapshot(S)
                        /\ NewestSnapshot(S) < b
<1>1. CASE S = {}
  BY <1>1 DEF NewestSnapshot
<1>2. CASE S # {}
  <2> DEFINE T == {s.time : s \in S}
  <2>1. T \subseteq Nat /\ T # {} /\ \A n \in T : n <= b
    BY <1>2
  <2>2. PICK n \in T : \A m \in T : m <= n
    BY <2>1, Greatest
  <2>3. \E t \in T : \A s \in S : s.time <= t
    BY <2>2
  <2>4. NewestSnapshot(S) \in T /\ \A s \in S : s.time <= NewestSnapshot(S)
    BY <1>2, <2>3 DEF NewestSnapshot
  <2>5. QED
    BY <1>2, <2>1, <2>4
<1>3. QED
  BY <1>1, <1>2

\* find_oldest_snapshot returns the earliest one.
LEMMA OldestFacts ==
    ASSUME NEW S, \A s \in S : s.time \in Nat, S # {}
    PROVE  /\ OldestSnapshot(S) \in Nat
           /\ \E s \in S : s.time = OldestSnapshot(S)
           /\ \A s \in S : OldestSnapshot(S) <= s.time
<1> DEFINE T == {s.time : s \in S}
<1>1. T \subseteq Nat /\ T # {}
  OBVIOUS
<1>2. PICK n \in T : \A m \in T : n <= m
  BY <1>1, Least
<1>3. \E t \in T : \A s \in S : t <= s.time
  BY <1>2
<1>4. OldestSnapshot(S) \in T /\ \A s \in S : OldestSnapshot(S) <= s.time
  BY <1>3 DEF OldestSnapshot
<1>5. QED
  BY <1>1, <1>4

\* find_most_recent_update returns the latest end.
LEMMA LastEndFacts ==
    ASSUME \A u \in updates : u.to \in Nat, NEW b \in Nat, \A u \in updates : u.to < b
    PROVE  /\ LastEnd \in Nat
           /\ updates = {} => LastEnd = 0
           /\ updates # {} => /\ \E u \in updates : u.to = LastEnd
                              /\ \A u \in updates : u.to <= LastEnd
                              /\ LastEnd < b
<1>1. CASE updates = {}
  BY <1>1 DEF LastEnd
<1>2. CASE updates # {}
  <2> DEFINE T == {u.to : u \in updates}
  <2>1. T \subseteq Nat /\ T # {} /\ \A n \in T : n <= b
    BY <1>2
  <2>2. PICK n \in T : \A m \in T : m <= n
    BY <2>1, Greatest
  <2>3. \E t \in T : \A u \in updates : u.to <= t
    BY <2>2
  <2>4. LastEnd \in T /\ \A u \in updates : u.to <= LastEnd
    BY <1>2, <2>3 DEF LastEnd
  <2>5. QED
    BY <1>2, <2>1, <2>4
<1>3. QED
  BY <1>1, <1>2

\* The files are of the past, and so is the start of the next update.
LEMMA EdgeFacts ==
    ASSUME TypeOK, Past
    PROVE  /\ now \in Nat /\ at \in Nat /\ Edge \in Nat /\ 1 <= Edge /\ Edge <= now
           /\ \A s \in snapshots : s.time \in Nat /\ s.time < Edge
           /\ \A u \in updates : u.from \in Nat /\ u.to \in Nat /\ u.from <= u.to /\ u.to < Edge
<1>1. now \in Nat /\ at \in Nat
  BY DEF TypeOK
<1>2. QED
  BY <1>1 DEF TypeOK, IsSnapshot, IsUpdate, Past, Edge

LEMMA StartFacts ==
    ASSUME TypeOK, Past
    PROVE  /\ UpdateStart \in Nat /\ UpdateStart < Edge
           /\ updates # {} => /\ \E u \in updates : u.to = UpdateStart
                              /\ \A u \in updates : u.to <= UpdateStart
           /\ updates = {} => /\ UpdateStart = NewestSnapshot(snapshots)
                              /\ \A s \in snapshots : s.time <= UpdateStart
           /\ UpdateStart # 0 /\ updates = {} =>
                \E s \in snapshots : s.time = UpdateStart
<1>1. /\ Edge \in Nat /\ 1 <= Edge
      /\ \A s \in snapshots : s.time \in Nat /\ s.time < Edge
      /\ \A u \in updates : u.to \in Nat /\ u.to < Edge
  BY EdgeFacts
<1>2. /\ LastEnd \in Nat
      /\ updates # {} => /\ \E u \in updates : u.to = LastEnd
                         /\ \A u \in updates : u.to <= LastEnd
                         /\ LastEnd < Edge
  BY <1>1, LastEndFacts
<1>3. /\ NewestSnapshot(snapshots) \in Nat
      /\ snapshots = {} => NewestSnapshot(snapshots) = 0
      /\ snapshots # {} => /\ \E s \in snapshots : s.time = NewestSnapshot(snapshots)
                           /\ \A s \in snapshots : s.time <= NewestSnapshot(snapshots)
                           /\ NewestSnapshot(snapshots) < Edge
  BY <1>1, NewestFacts
<1>4. CASE updates # {}
  BY <1>2, <1>4 DEF UpdateStart
<1>5. CASE updates = {}
  <2>1. UpdateStart = NewestSnapshot(snapshots)
    BY <1>5 DEF UpdateStart
  <2>2. QED
    BY <1>1, <1>3, <1>5, <2>1
<1>6. QED
  BY <1>4, <1>5

----------------------------------------------------------------------------
(* The contents of dumps. *)

\* A part of the stored records, as a file.
LEMMA RestrictFacts ==
    ASSUME db \in Databases, NEW S, S \subseteq Stored(db)
    PROVE  LET d == Restrict(db, S)
           IN  /\ IsDump(d) /\ DOMAIN d = S
               /\ \A h \in S : d[h] = db[h]
<1>1. DOMAIN Restrict(db, S) = S /\ \A h \in S : Restrict(db, S)[h] = db[h]
  BY DEF Restrict
<1>2. \A h \in S : h \in Hashes /\ db[h] \in Versions
  BY DEF Stored, Databases
<1>3. Restrict(db, S) = [h \in S |-> db[h]]
  BY DEF Restrict
<1>4. Restrict(db, S) \in [S -> Versions]
  BY <1>2, <1>3
<1>5. QED
  BY <1>1, <1>2, <1>4 DEF IsDump

LEMMA WithinFacts ==
    ASSUME db \in Databases, NEW from \in Nat, NEW to \in Nat
    PROVE  /\ Within(db, from, to) \subseteq Stored(db)
           /\ \A h \in Stored(db) : /\ h \in Hashes /\ db[h] \in Versions
                                    /\ db[h].updated \in Nat /\ db[h].number \in Nat
           /\ \A h \in Stored(db) :
                h \in Within(db, from, to) <=> from <= db[h].updated /\ db[h].updated <= to
<1>1. \A h \in Stored(db) : h \in Hashes /\ db[h] \in Versions
  BY DEF Stored, Databases
<1>2. \A h \in Stored(db) : db[h].updated \in Nat /\ db[h].number \in Nat
  BY <1>1 DEF Versions
<1>3. QED
  BY <1>1, <1>2 DEF Within

\* The first part of a dump.
LEMMA BeginningFacts ==
    ASSUME NEW d, IsDump(d), NEW part \in Beginnings(d)
    PROVE  /\ IsDump(part) /\ DOMAIN part \subseteq DOMAIN d
           /\ \A h \in DOMAIN part : part[h] = d[h]
<1>1. PICK S \in SUBSET DOMAIN d : part = Restrict(d, S)
  BY DEF Beginnings
<1>2. part = [h \in S |-> d[h]]
  BY <1>1 DEF Restrict
<1>3. part \in [S -> Versions] /\ DOMAIN part = S
  BY <1>2 DEF IsDump
<1>4. QED
  BY <1>2, <1>3 DEF IsDump

\* The walk of dump_modified_records2 is over the records of the window, but for
\* the one that the cursor is positioned on.
LEMMA WalkFacts ==
    ASSUME db \in Databases, NEW from \in Nat, NEW to \in Nat,
           NEW dump \in Walks(db, from, to)
    PROVE  /\ IsDump(dump)
           /\ DOMAIN dump \subseteq Within(db, from, to)
           /\ \A h \in DOMAIN dump : dump[h] = db[h]
           /\ Within(db, from, to) \ Firsts(db, from) \subseteq DOMAIN dump
<1>1. CASE Firsts(db, from) = {} /\ dump = <<>>
  <2>1. DOMAIN dump = {} /\ IsDump(dump)
    BY <1>1 DEF IsDump
  <2>2. Within(db, from, to) = {}
    <3> SUFFICES ASSUME NEW g \in Within(db, from, to) PROVE FALSE
      OBVIOUS
    <3> DEFINE T == {db[h].updated : h \in {k \in Stored(db) : db[k].updated >= from}}
    <3>1. T \subseteq Nat
      BY WithinFacts, Zenon
    <3>2. g \in Stored(db) /\ db[g].updated >= from
      BY WithinFacts
    <3>3. T # {}
      BY <3>2, Zenon
    <3>4. PICK n \in T : \A m \in T : n <= m
      BY <3>1, <3>3, Least
    <3>5. PICK h \in Stored(db) : db[h].updated >= from /\ n = db[h].updated
      BY <3>4, Zenon
    <3>6. \A k \in Stored(db) : db[k].updated >= from => db[k].updated \in T
      BY Zenon
    <3>7. h \in Firsts(db, from)
      BY <3>4, <3>5, <3>6 DEF Firsts, Stored
    <3>8. QED
      BY <1>1, <3>7
  <2>3. QED
    BY <2>1, <2>2
<1>2. CASE \E h \in Firsts(db, from) : dump = Restrict(db, Within(db, from, to) \ {h})
  <2>1. PICK h \in Firsts(db, from) : dump = Restrict(db, Within(db, from, to) \ {h})
    BY <1>2
  <2>2. Within(db, from, to) \ {h} \subseteq Stored(db)
    BY WithinFacts
  <2>3. QED
    BY <2>1, <2>2, RestrictFacts
<1>3. QED
  BY <1>1, <1>2 DEF Walks

\* It writes all of them, if nothing fails.
LEMMA UpdateDump ==
    ASSUME db \in Databases, NEW from \in Nat, NEW to \in Nat, NEW fails \in BOOLEAN,
           NEW dump \in DumpsModified2(db, from, to, fails)
    PROVE  /\ IsDump(dump)
           /\ DOMAIN dump \subseteq Within(db, from, to)
           /\ \A h \in DOMAIN dump : dump[h] = db[h]
           /\ ~fails => Within(db, from, to) \ Firsts(db, from) \subseteq DOMAIN dump
<1>1. CASE fails
  <2>1. PICK walk \in Walks(db, from, to) : dump \in Beginnings(walk)
    BY <1>1 DEF DumpsModified2
  <2>2. /\ IsDump(walk) /\ DOMAIN walk \subseteq Within(db, from, to)
        /\ \A h \in DOMAIN walk : walk[h] = db[h]
    BY <2>1, WalkFacts
  <2>3. /\ IsDump(dump) /\ DOMAIN dump \subseteq DOMAIN walk
        /\ \A h \in DOMAIN dump : dump[h] = walk[h]
    BY <2>1, <2>2, BeginningFacts
  <2>4. QED
    BY <1>1, <2>2, <2>3
<1>2. CASE ~fails
  BY <1>2, WalkFacts DEF DumpsModified2
<1>3. QED
  BY <1>1, <1>2

\* So does dump_modified_records, and leaves out none of the window.
LEMMA SnapshotDump ==
    ASSUME db \in Databases, NEW from \in Nat, NEW to \in Nat, NEW fails \in BOOLEAN,
           NEW dump \in DumpsModified(db, from, to, fails)
    PROVE  /\ IsDump(dump)
           /\ DOMAIN dump \subseteq Within(db, from, to)
           /\ \A h \in DOMAIN dump : dump[h] = db[h]
           /\ ~fails => DOMAIN dump = Within(db, from, to)
<1>1. PICK S \in SUBSET Within(db, from, to) :
        dump = Restrict(db, S) /\ (~fails => S = Within(db, from, to))
  BY DEF DumpsModified
<1>2. S \subseteq Stored(db)
  BY WithinFacts
<1>3. QED
  BY <1>1, <1>2, RestrictFacts

----------------------------------------------------------------------------
(* What each step does to the times of the files. *)

LEMMA FileInvInit == Init => FileInv
<1> SUFFICES ASSUME Init PROVE FileInv
  OBVIOUS
<1>1. /\ now \in Nat /\ 1 <= now /\ SnapshotInterval \in Nat
      /\ snapshots = {} /\ updates = {} /\ task = "wait"
  BY PublisherAssumption DEF Init
<1>2. EmptyDatabase \in Databases
  BY DEF EmptyDatabase, Databases
<1>3. TypeOK
  BY <1>1, <1>2 DEF Init, TypeOK
<1>4. Past /\ Made /\ Chained /\ Covered
  BY <1>1 DEF Past, Made, Chained, Covered
<1>5. QED
  BY <1>3, <1>4 DEF FileInv

\* A step that leaves the files as they are, and does not go back in time.
LEMMA SameFiles ==
    ASSUME FileInv, UNCHANGED <<snapshots, updates, begun>>, TypeOK',
           Edge' \in Nat, Edge <= Edge', 1 <= now',
           task' # "wait" => 1 <= at' /\ at' <= now',
           task' \in {"unlink", "link"} => \E s \in snapshots : s.time = at' - 1
    PROVE  FileInv'
<1>1. /\ Edge \in Nat
      /\ \A s \in snapshots : s.time \in Nat /\ s.time < Edge
      /\ \A u \in updates : u.to \in Nat /\ u.to < Edge
  BY EdgeFacts DEF FileInv
<1>2. /\ \A s \in snapshots' : s.time < Edge'
      /\ \A u \in updates' : u.to < Edge'
  BY <1>1
<1>3. Past'
  BY <1>2 DEF Past
<1>4. Made'
  BY DEF Made
<1>5. Chained' /\ Covered'
  BY DEF FileInv, Chained, Covered
<1>6. QED
  BY <1>3, <1>4, <1>5 DEF FileInv

\* The clock and the timer go on.
LEMMA ClockStep ==
    ASSUME FileInv, Tick \/ RetryLater
    PROVE  FileInv'
<1>1. /\ now \in Nat /\ now' \in Nat /\ now <= now'
      /\ UNCHANGED <<process, db, changes, files, task, at, told, faults>>
      /\ next_run' \in Nat
  BY DEF FileInv, TypeOK, Tick, RetryLater, outside, files
<1>2. TypeOK'
  BY <1>1 DEF FileInv, TypeOK, files, told
<1>3. Edge' \in Nat /\ Edge <= Edge' /\ 1 <= now' /\ at' = at /\ task' = task
  BY <1>1, EdgeFacts DEF FileInv, Past, Edge
<1>4. /\ UNCHANGED <<snapshots, updates, begun>>
      /\ task' # "wait" => 1 <= at' /\ at' <= now'
      /\ task' \in {"unlink", "link"} => \E s \in snapshots : s.time = at' - 1
  <2>1. at \in Nat /\ (task # "wait" => 1 <= at /\ at <= now)
    BY DEF FileInv, Past, TypeOK
  <2>2. QED
    BY <1>1, <1>3, <2>1 DEF FileInv, Made, files, told
<1>5. QED
  BY <1>2, <1>3, <1>4, SameFiles

\* The database changes; the files know nothing of it.
LEMMA DatabaseStep ==
    ASSUME FileInv, Change \/ Delete
    PROVE  FileInv'
<1>1. UNCHANGED <<process, now, files, task, at, next_run, begun, gone, faults>>
  BY DEF Change, Delete
<1>2. changes \in Nat /\ changes' = changes + 1
  BY DEF Change, Delete, FileInv, TypeOK
<1>3. db' \in Databases /\ missed' \subseteq Hashes
  <2>1. CASE Change
    <3>1. PICK h \in Hashes, t \in 1 .. now :
            LET before == IF h \in Stored(db) THEN db[h].updated ELSE 0
                after  == [updated |-> Latest(before, t), number |-> changes']
            IN  /\ db' = [db EXCEPT ![h] = after]
                /\ missed' = IF after.updated < UpdateStart THEN missed \cup {h}
                                                             ELSE missed \ {h}
      BY <2>1 DEF Change
    <3> DEFINE before == IF h \in Stored(db) THEN db[h].updated ELSE 0
               after == [updated |-> Latest(before, t), number |-> changes']
    <3>2. before \in Nat /\ t \in Nat
      BY WithinFacts DEF FileInv, TypeOK
    <3>3. after \in Versions
      BY <1>2, <3>2 DEF Latest, Versions
    <3>4. db' = [db EXCEPT ![h] = after] /\ missed' \subseteq missed \cup {h}
      BY <3>1
    <3> HIDE DEF after, before
    <3>5. QED
      BY <3>3, <3>4 DEF FileInv, TypeOK, Databases
  <2>2. CASE Delete
    BY <2>2 DEF Delete, FileInv, TypeOK, Databases, Stored
  <2>3. QED
    BY <2>1, <2>2
<1>4. TypeOK'
  BY <1>1, <1>2, <1>3 DEF FileInv, TypeOK, files
<1>5. Edge' = Edge /\ Edge \in Nat /\ now' = now /\ at' = at /\ task' = task
  BY <1>1, EdgeFacts DEF FileInv, Edge
<1>6. QED
  BY <1>1, <1>4, <1>5, SameFiles DEF FileInv, Past, Made, files

\* The handler begins, and the files are as they are.
LEMMA BeginStep ==
    ASSUME FileInv, Begin
    PROVE  FileInv'
<1>1. /\ task = "wait" /\ at' = now /\ now' = now
      /\ task' \in {"expire", "snapshot", "update"}
      /\ UNCHANGED <<process, db, changes, files, next_run, told, faults>>
  BY DEF Begin, ToMake, Running, outside
<1>2. TypeOK'
  BY <1>1 DEF FileInv, TypeOK, files, told
<1>3. Edge = now /\ Edge' = now /\ now \in Nat /\ 1 <= now
  BY <1>1 DEF Edge, FileInv, TypeOK, Past
<1>4. QED
  BY <1>1, <1>2, <1>3, SameFiles DEF files, told

\* Less snapshots are fewer places to start from.
LEMMA RemoveSnapshotStep ==
    ASSUME FileInv, RemoveSnapshot
    PROVE  FileInv'
<1>1. /\ task = "expire" /\ task' \in {"expire", "prune", "snapshot", "update"}
      /\ UNCHANGED <<process, now, db, changes, current, updates, at, next_run, told, faults>>
      /\ snapshots' \subseteq snapshots
  BY DEF RemoveSnapshot, ToMake, Running, outside
<1>2. TypeOK'
  BY <1>1 DEF FileInv, TypeOK, told
<1>3. Past' /\ Made'
  BY <1>1 DEF FileInv, Past, Made, Edge
<1>4. Chained'
  BY <1>1 DEF FileInv, Chained
<1>5. Covered'
  BY <1>1 DEF FileInv, Covered, told
<1>6. QED
  BY <1>2, <1>3, <1>4, <1>5 DEF FileInv

\* The update that is removed has ended before every snapshot.
LEMMA NeedlessFacts ==
    ASSUME FileInv, NEW x \in Needless(snapshots)
    PROVE  /\ x \in updates /\ snapshots # {}
           /\ \A s \in snapshots : x.to < s.time
<1>1. /\ \A s \in snapshots : s.time \in Nat
      /\ \A u \in updates : u.to \in Nat
  BY EdgeFacts DEF FileInv
<1>2. snapshots # {} /\ x \in updates /\ x.to < OldestSnapshot(snapshots)
  BY DEF Needless
<1>3. /\ OldestSnapshot(snapshots) \in Nat
      /\ \A s \in snapshots : OldestSnapshot(snapshots) <= s.time
  BY <1>1, <1>2, OldestFacts
<1>4. QED
  BY <1>1, <1>2, <1>3

\* So those that go on from a snapshot, or from an update that ends after it, stay.
LEMMA RemoveUpdateStep ==
    ASSUME FileInv, RemoveUpdate
    PROVE  FileInv'
<1>1. PICK x \in Needless(snapshots) :
         /\ updates' = updates \ {x}
         /\ gone' = Latest(gone, x.to)
         /\ missed' = missed \cup {h \in Skipped(x) : ~Published(h)}
  BY DEF RemoveUpdate
<1>2. /\ task = "prune" /\ task' \in {"prune", "snapshot", "update"}
      /\ UNCHANGED <<process, now, db, changes, snapshots, current, at, next_run, begun, faults>>
  BY DEF RemoveUpdate, ToMake, Running, outside
<1>3. /\ \A s \in snapshots : s.time \in Nat /\ x.to < s.time
      /\ \A u \in updates : u.to \in Nat
      /\ x \in updates
  BY EdgeFacts, NeedlessFacts DEF FileInv
<1>4. TypeOK'
  <2>1. gone' \in Nat
    BY <1>1, <1>3 DEF Latest, FileInv, TypeOK
  <2>2. missed' \subseteq Hashes
    BY <1>1 DEF Skipped, Stored, FileInv, TypeOK
  <2>3. QED
    BY <1>1, <1>2, <2>1, <2>2 DEF FileInv, TypeOK
<1>5. Past' /\ Made'
  BY <1>1, <1>2 DEF FileInv, Past, Made, Edge
<1>6. Chained'
  <2> SUFFICES ASSUME NEW u \in updates', NEW v \in updates', u.to < v.to
               PROVE  /\ u.to <= v.from
                      /\ (\E s \in snapshots : s.time <= u.to)
                           => \E w \in updates' : w.from = u.to /\ w.to > u.to
    BY <1>2 DEF Chained
  <2>1. u.to <= v.from
    BY <1>1 DEF FileInv, Chained
  <2>2. ASSUME NEW s \in snapshots, s.time <= u.to
        PROVE  \E w \in updates' : w.from = u.to /\ w.to > u.to
    <3>1. PICK w \in updates : w.from = u.to /\ w.to > u.to
      BY <1>1, <2>2 DEF FileInv, Chained
    <3>2. w # x
      BY <1>1, <1>3, <2>2, <3>1
    <3>3. QED
      BY <1>1, <3>1, <3>2
  <2>3. QED
    BY <2>1, <2>2
<1>7. Covered'
  <2> SUFFICES ASSUME NEW t \in Nat, begun <= t, NEW s \in snapshots, s.time <= t,
                      NEW v \in updates', t < v.to
               PROVE  \E u \in updates' : u.from <= t /\ t < u.to
    BY <1>2 DEF Covered
  <2>1. PICK u \in updates : u.from <= t /\ t < u.to
    BY <1>1 DEF FileInv, Covered
  <2>2. u # x
    BY <1>3, <2>1
  <2>3. QED
    BY <1>1, <2>1, <2>2
<1>8. QED
  BY <1>4, <1>5, <1>6, <1>7 DEF FileInv

\* What make_snapshot makes.
LEMMA NewSnapshotFacts ==
    ASSUME FileInv, MakeSnapshot
    PROVE  \E fails, cut \in BOOLEAN : \E dump \in DumpsModified(db, 0, at - 1, fails) :
             LET file == [time |-> at - 1, records |-> dump, cut |-> cut]
                 all  == Within(db, 0, at - 1)
             IN  /\ cut => fails
                 /\ snapshots' = {s \in snapshots : s.time # at - 1} \cup {file}
                 /\ missed' = IF fails THEN (missed \ all) \cup LeftOut(all, file)
                                       ELSE missed \ all
                 /\ IsDump(dump) /\ DOMAIN dump \subseteq all
                 /\ \A h \in DOMAIN dump : dump[h] = db[h]
                 /\ ~fails => DOMAIN dump = all
<1>0. PICK fails, cut \in BOOLEAN :
        (cut => fails) /\
        \E dump \in DumpsModified(db, 0, at - 1, fails) :
          LET file == [time |-> at - 1, records |-> dump, cut |-> cut]
              all  == Within(db, 0, at - 1)
          IN  /\ snapshots' = {s \in snapshots : s.time # at - 1} \cup {file}
              /\ missed' = IF fails THEN (missed \ all) \cup LeftOut(all, file)
                                    ELSE missed \ all
  BY DEF MakeSnapshot
<1>1. PICK dump \in DumpsModified(db, 0, at - 1, fails) :
             LET file == [time |-> at - 1, records |-> dump, cut |-> cut]
                 all  == Within(db, 0, at - 1)
             IN  /\ cut => fails
                 /\ snapshots' = {s \in snapshots : s.time # at - 1} \cup {file}
                 /\ missed' = IF fails THEN (missed \ all) \cup LeftOut(all, file)
                                       ELSE missed \ all
  BY <1>0
<1>2. at - 1 \in Nat /\ db \in Databases
  BY EdgeFacts DEF FileInv, TypeOK, Past, MakeSnapshot, Running
<1>3. /\ IsDump(dump) /\ DOMAIN dump \subseteq Within(db, 0, at - 1)
      /\ \A h \in DOMAIN dump : dump[h] = db[h]
      /\ ~fails => DOMAIN dump = Within(db, 0, at - 1)
  BY <1>2, SnapshotDump
<1>4. QED
  BY <1>1, <1>3

\* A snapshot of the time up to which the database is dumped.
LEMMA MakeSnapshotStep ==
    ASSUME FileInv, MakeSnapshot
    PROVE  FileInv'
<1>1. /\ task = "snapshot" /\ task' = "unlink" /\ at' = at /\ now' = now
      /\ UNCHANGED <<process, db, changes, current, updates, next_run, begun, gone>>
      /\ faults' \in Nat
  BY DEF MakeSnapshot, Fault, Running, outside, FileInv, TypeOK
<1>2. /\ Edge = at /\ Edge' = at /\ 1 <= at /\ at <= now /\ 1 <= now
      /\ at \in Nat /\ at - 1 \in Nat
      /\ \A s \in snapshots : s.time \in Nat /\ s.time < at
      /\ \A u \in updates : u.to \in Nat /\ u.to < at
  BY <1>1, EdgeFacts DEF FileInv, Past, Edge
<1>12. PICK cut \in BOOLEAN, dump \in UNION {DumpsModified(db, 0, at - 1, f) : f \in BOOLEAN} :
         /\ snapshots' = {s \in snapshots : s.time # at - 1}
                           \cup {[time |-> at - 1, records |-> dump, cut |-> cut]}
         /\ missed' \subseteq missed \cup Within(db, 0, at - 1)
         /\ IsDump(dump)
  BY NewSnapshotFacts DEF LeftOut
<1> DEFINE new == [time |-> at - 1, records |-> dump, cut |-> cut]
<1>3. IsSnapshot(new)
  BY <1>2, <1>12 DEF IsSnapshot
<1>4. /\ new.time = at - 1 /\ new \in snapshots'
      /\ \A s \in snapshots' : s = new \/ s \in snapshots
  BY <1>12
<1> HIDE DEF new
<1>5. \A s \in snapshots' : IsSnapshot(s) /\ s.time < at
  BY <1>2, <1>3, <1>4 DEF FileInv, TypeOK
<1>6. TypeOK'
  <2>1. missed' \subseteq Hashes
    BY <1>12 DEF Within, Stored, FileInv, TypeOK
  <2>2. QED
    BY <1>1, <1>5, <2>1 DEF FileInv, TypeOK
<1>7. Past'
  BY <1>1, <1>2, <1>5 DEF Past
<1>8. Made'
  BY <1>1, <1>4 DEF Made
<1>9. Chained'
  <2> SUFFICES ASSUME NEW u \in updates, NEW v \in updates, u.to < v.to
               PROVE  /\ u.to <= v.from
                      /\ (\E s \in snapshots' : s.time <= u.to)
                           => \E w \in updates : w.from = u.to /\ w.to > u.to
    BY <1>1 DEF Chained
  <2>1. \A s \in snapshots' : s.time <= u.to => s \in snapshots
    BY <1>2, <1>4
  <2>2. QED
    BY <2>1 DEF FileInv, Chained
<1>10. Covered'
  <2> SUFFICES ASSUME NEW t \in Nat, begun <= t, NEW s \in snapshots', s.time <= t,
                      NEW v \in updates, t < v.to
               PROVE  \E u \in updates : u.from <= t /\ t < u.to
    BY <1>1 DEF Covered
  <2>1. s \in snapshots
    BY <1>2, <1>4
  <2>2. QED
    BY <2>1 DEF FileInv, Covered
<1>11. QED
  BY <1>6, <1>7, <1>8, <1>9, <1>10 DEF FileInv

\* A handler ends: the present is later than the time it began at.
LEMMA DoneFacts ==
    ASSUME FileInv, task # "wait", Done, UNCHANGED now
    PROVE  /\ task' = "wait" /\ at' \in Nat /\ next_run' \in Nat
           /\ 1 <= now' /\ Edge' = now /\ now \in Nat /\ at \in Nat /\ 1 <= at /\ at <= now
           /\ Edge = at
BY EdgeFacts, PublisherAssumption DEF FileInv, Past, Done, Edge

\* The steps on current, and the failures.
LEMMA LinkStep ==
    ASSUME FileInv, UnlinkCurrent \/ LinkCurrent \/ MakeSnapshotFails \/ NoUpdate
    PROVE  FileInv'
<1>1. /\ task # "wait"
      /\ UNCHANGED <<process, now, db, changes, snapshots, updates, begun, gone, missed>>
  BY DEF UnlinkCurrent, LinkCurrent, MakeSnapshotFails, NoUpdate, Running, outside, files, told
<1>2. faults' \in Nat
  BY DEF UnlinkCurrent, LinkCurrent, MakeSnapshotFails, NoUpdate, Fault, FileInv, TypeOK
<1>3. /\ 1 <= now /\ 1 <= at /\ at <= now /\ now \in Nat /\ at \in Nat /\ Edge = at
  BY <1>1, EdgeFacts DEF FileInv, Past, Edge
<1>4. CASE UnlinkCurrent
  <2>1. /\ task = "unlink" /\ task' = "link" /\ UNCHANGED <<at, next_run>> /\ current' = NoFile
    BY <1>4 DEF UnlinkCurrent, Running
  <2>2. TypeOK'
    BY <1>1, <1>2, <2>1 DEF FileInv, TypeOK
  <2>3. Edge' = at
    BY <2>1 DEF Edge
  <2>4. QED
    BY <1>1, <1>3, <2>1, <2>2, <2>3, SameFiles DEF FileInv, Made
<1>5. CASE LinkCurrent
  <2>1. task = "link" /\ Done /\ current' = CHOOSE s \in snapshots : s.time = at - 1
    BY <1>5 DEF LinkCurrent, Running
  <2>2. current' \in snapshots
    BY <2>1 DEF FileInv, Made
  <2>3. IsSnapshot(current')
    BY <2>2 DEF FileInv, TypeOK
  <2>4. /\ task' = "wait" /\ at' \in Nat /\ next_run' \in Nat /\ 1 <= now' /\ Edge' = now
    BY <1>1, <2>1, DoneFacts
  <2>5. TypeOK'
    BY <1>1, <1>2, <2>3, <2>4 DEF FileInv, TypeOK
  <2>6. QED
    BY <1>1, <1>3, <2>4, <2>5, SameFiles
<1>6. CASE MakeSnapshotFails
  <2>1. task' = "update" /\ UNCHANGED <<current, at, next_run>>
    BY <1>6 DEF MakeSnapshotFails, files
  <2>2. TypeOK'
    BY <1>1, <1>2, <2>1 DEF FileInv, TypeOK
  <2>3. Edge' = at
    BY <2>1 DEF Edge
  <2>4. QED
    BY <1>1, <1>3, <2>1, <2>2, <2>3, SameFiles
<1>7. CASE NoUpdate
  <2>1. Done /\ UNCHANGED current
    BY <1>7 DEF NoUpdate, files
  <2>2. /\ task' = "wait" /\ at' \in Nat /\ next_run' \in Nat /\ 1 <= now' /\ Edge' = now
    BY <1>1, <2>1, DoneFacts
  <2>3. TypeOK'
    BY <1>1, <1>2, <2>1, <2>2 DEF FileInv, TypeOK
  <2>4. QED
    BY <1>1, <1>3, <2>2, <2>3, SameFiles
<1>8. QED
  BY <1>4, <1>5, <1>6, <1>7

\* The process ends, and begins again with an idle handler.
LEMMA ExitStep ==
    ASSUME FileInv, Exit \/ Restart
    PROVE  FileInv'
<1>1. /\ UNCHANGED <<now, db, changes, snapshots, current, updates, begun, gone, missed>>
      /\ process' \in {"running", "ended"}
      /\ (task' = "wait" /\ at' = 0) \/ UNCHANGED <<task, at>>
      /\ faults' \in Nat /\ next_run' \in Nat
  BY DEF Exit, Restart, Fault, files, told, FileInv, TypeOK
<1>2. /\ now \in Nat /\ at \in Nat /\ Edge \in Nat /\ 1 <= now /\ Edge <= now
      /\ Edge = IF task = "wait" THEN now ELSE at
  BY EdgeFacts DEF FileInv, Past, Edge
<1>3. TypeOK'
  BY <1>1 DEF FileInv, TypeOK
<1>4. CASE task' = "wait" /\ at' = 0
  <2>1. Edge' = now
    BY <1>1, <1>4 DEF Edge
  <2>2. QED
    BY <1>1, <1>2, <1>3, <1>4, <2>1, SameFiles
<1>5. CASE UNCHANGED <<task, at>>
  <2>1. Edge' = Edge
    BY <1>1, <1>5 DEF Edge
  <2>2. QED
    BY <1>1, <1>2, <1>3, <1>5, <2>1, SameFiles DEF FileInv, Past, Made
<1>6. QED
  BY <1>1, <1>4, <1>5

\* What make_update makes.
LEMMA NewUpdateFacts ==
    ASSUME FileInv, MakeUpdate
    PROVE  \E fails, cut \in BOOLEAN : \E dump \in DumpsModified2(db, UpdateStart, at - 1, fails) :
             LET file == [from |-> UpdateStart, to |-> at - 1, records |-> dump, cut |-> cut]
                 all  == Within(db, UpdateStart, at - 1)
                 lost == IF fails THEN all ELSE all \cap Firsts(db, UpdateStart)
             IN  /\ cut => fails
                 /\ updates' = {u \in updates : u.from # UpdateStart \/ u.to # at - 1}
                                 \cup {file}
                 /\ missed' = missed \cup {h \in LeftOut(lost, file) : ~Published(h)}
                 /\ IsDump(dump) /\ DOMAIN dump \subseteq all
                 /\ \A h \in DOMAIN dump : dump[h] = db[h]
                 /\ all \ lost \subseteq DOMAIN dump
<1>0. PICK fails, cut \in BOOLEAN :
        (cut => fails) /\
        \E dump \in DumpsModified2(db, UpdateStart, at - 1, fails) :
          LET file == [from |-> UpdateStart, to |-> at - 1, records |-> dump, cut |-> cut]
              all  == Within(db, UpdateStart, at - 1)
              lost == IF fails THEN all ELSE all \cap Firsts(db, UpdateStart)
          IN  /\ updates' = {u \in updates : u.from # UpdateStart \/ u.to # at - 1}
                              \cup {file}
              /\ missed' = missed \cup {h \in LeftOut(lost, file) : ~Published(h)}
  BY DEF MakeUpdate
<1>1. PICK dump \in DumpsModified2(db, UpdateStart, at - 1, fails) :
             LET file == [from |-> UpdateStart, to |-> at - 1, records |-> dump, cut |-> cut]
                 all  == Within(db, UpdateStart, at - 1)
                 lost == IF fails THEN all ELSE all \cap Firsts(db, UpdateStart)
             IN  /\ cut => fails
                 /\ updates' = {u \in updates : u.from # UpdateStart \/ u.to # at - 1}
                                 \cup {file}
                 /\ missed' = missed \cup {h \in LeftOut(lost, file) : ~Published(h)}
  BY <1>0
<1>2. UpdateStart \in Nat /\ at - 1 \in Nat /\ db \in Databases
  BY StartFacts, EdgeFacts DEF FileInv, TypeOK, Past, MakeUpdate, Running
<1>3. /\ IsDump(dump) /\ DOMAIN dump \subseteq Within(db, UpdateStart, at - 1)
      /\ \A h \in DOMAIN dump : dump[h] = db[h]
      /\ ~fails => Within(db, UpdateStart, at - 1) \ Firsts(db, UpdateStart)
                     \subseteq DOMAIN dump
  BY <1>2, UpdateDump
<1>4. QED
  BY <1>1, <1>3

\* An update goes on where the last one ends, or at the snapshot.
LEMMA MakeUpdateStep ==
    ASSUME FileInv, MakeUpdate
    PROVE  FileInv'
<1>1. /\ task = "update" /\ UpdateStart # 0 /\ Done
      /\ UNCHANGED <<process, now, db, changes, snapshots, current, gone>>
      /\ begun' = IF updates = {} THEN UpdateStart ELSE begun
      /\ faults' \in Nat
  BY DEF MakeUpdate, Fault, Running, outside, FileInv, TypeOK
<1>2. PICK cut \in BOOLEAN,
           dump \in UNION {DumpsModified2(db, UpdateStart, at - 1, f) : f \in BOOLEAN} :
         /\ updates' = {u \in updates : u.from # UpdateStart \/ u.to # at - 1}
                         \cup {[from |-> UpdateStart, to |-> at - 1, records |-> dump,
                                cut |-> cut]}
         /\ missed' \subseteq missed \cup Within(db, UpdateStart, at - 1)
         /\ IsDump(dump)
  BY NewUpdateFacts DEF LeftOut
<1> DEFINE new == [from |-> UpdateStart, to |-> at - 1, records |-> dump, cut |-> cut]
<1>3. /\ task' = "wait" /\ at' \in Nat /\ next_run' \in Nat /\ 1 <= now' /\ Edge' = now
      /\ now \in Nat /\ at \in Nat /\ 1 <= at /\ at <= now /\ Edge = at /\ at - 1 \in Nat
  BY <1>1, DoneFacts
<1>4. /\ UpdateStart \in Nat /\ UpdateStart < at
      /\ updates # {} => /\ \E u \in updates : u.to = UpdateStart
                         /\ \A u \in updates : u.to <= UpdateStart
  BY <1>3, StartFacts DEF FileInv
<1>5. IsUpdate(new)
  BY <1>2, <1>3, <1>4 DEF IsUpdate
<1>6. /\ new.from = UpdateStart /\ new.to = at - 1
      /\ new \in updates'
      /\ \A u \in updates' : u = new \/ u \in updates
      /\ \A u \in updates : u \in updates' \/ (u.from = UpdateStart /\ u.to = at - 1)
  BY <1>2
<1> HIDE DEF new
<1>7. \A u \in updates : /\ u.from \in Nat /\ u.to \in Nat
                         /\ u.from <= u.to /\ u.to < at
  BY <1>3 DEF FileInv, TypeOK, IsUpdate, Past
<1>8. \A u \in updates' : /\ u.from \in Nat /\ u.to \in Nat
                          /\ u.from <= u.to /\ u.to < at
  BY <1>3, <1>4, <1>6, <1>7
<1>14. \A u \in updates' : IsUpdate(u)
  BY <1>5, <1>6 DEF FileInv, TypeOK
<1>9. TypeOK'
  <2>1. begun' \in Nat
    BY <1>1, <1>4 DEF FileInv, TypeOK
  <2>2. missed' \subseteq Hashes
    BY <1>2 DEF FileInv, TypeOK, Within, Stored
  <2>3. QED
    BY <1>1, <1>3, <1>14, <2>1, <2>2 DEF FileInv, TypeOK
<1>10. Past' /\ Made'
  <2>1. \A s \in snapshots : s.time \in Nat /\ s.time < at
    BY <1>3, EdgeFacts DEF FileInv
  <2>2. /\ \A s \in snapshots' : s.time < Edge'
        /\ \A u \in updates' : u.to < Edge'
    BY <1>1, <1>3, <1>8, <2>1
  <2>3. QED
    BY <1>3, <2>2 DEF Past, Made
<1>11. Chained'
  <2> SUFFICES ASSUME NEW u \in updates', NEW v \in updates', u.to < v.to
               PROVE  /\ u.to <= v.from
                      /\ (\E s \in snapshots : s.time <= u.to)
                           => \E w \in updates' : w.from = u.to /\ w.to > u.to
    BY <1>1 DEF Chained
  <2>1. u \in updates /\ u.to < at - 1
    BY <1>3, <1>6, <1>8
  <2>2. u.to <= UpdateStart /\ updates # {}
    BY <1>4, <2>1
  <2>3. u.to <= v.from
    BY <1>6, <2>1, <2>2 DEF FileInv, Chained
  <2>4. ASSUME NEW s \in snapshots, s.time <= u.to
        PROVE  \E w \in updates' : w.from = u.to /\ w.to > u.to
    <3>1. CASE u.to = UpdateStart
      BY <1>6, <2>1, <3>1
    <3>2. CASE u.to # UpdateStart
      <4>1. PICK x \in updates : x.to = UpdateStart
        BY <1>4, <2>2
      <4>2. u.to < x.to
        BY <1>4, <1>7, <2>1, <2>2, <3>2, <4>1
      <4>3. PICK w \in updates : w.from = u.to /\ w.to > u.to
        BY <2>1, <2>4, <4>2 DEF FileInv, Chained
      <4>4. w \in updates'
        BY <1>6, <3>2, <4>3
      <4>5. QED
        BY <4>3, <4>4
    <3>3. QED
      BY <3>1, <3>2
  <2>5. QED
    BY <2>3, <2>4
<1>12. Covered'
  <2> SUFFICES ASSUME NEW t \in Nat, begun' <= t, NEW s \in snapshots, s.time <= t,
                      NEW v \in updates', t < v.to
               PROVE  \E u \in updates' : u.from <= t /\ t < u.to
    BY <1>1 DEF Covered
  <2>1. t < at - 1
    BY <1>3, <1>8
  <2>2. CASE UpdateStart <= t
    BY <1>6, <2>1, <2>2
  <2>3. CASE ~(UpdateStart <= t)
    <3>1. updates # {} /\ begun <= t
      BY <1>1, <1>4, <2>3
    <3>2. PICK x \in updates : x.to = UpdateStart
      BY <1>4, <3>1
    <3>3. t < x.to
      BY <1>4, <2>3, <3>2
    <3>4. PICK u \in updates : u.from <= t /\ t < u.to
      BY <3>1, <3>3 DEF FileInv, Covered
    <3>5. u.from # UpdateStart
      BY <1>4, <1>7, <2>3, <3>4
    <3>6. u \in updates'
      BY <1>6, <3>5
    <3>7. QED
      BY <3>4, <3>6
  <2>4. QED
    BY <2>2, <2>3
<1>13. QED
  BY <1>9, <1>10, <1>11, <1>12 DEF FileInv

LEMMA FileInvStep == FileInv /\ [Next]_vars => FileInv'
<1> SUFFICES ASSUME FileInv, [Next]_vars PROVE FileInv'
  OBVIOUS
<1>1. CASE UNCHANGED vars
  BY <1>1 DEF vars, files, FileInv, TypeOK, Past, Made, Chained, Covered, Edge
<1>2. CASE Next
  BY <1>2, ClockStep, DatabaseStep, BeginStep, RemoveSnapshotStep, RemoveUpdateStep,
     MakeSnapshotStep, LinkStep, MakeUpdateStep, ExitStep DEF Next
<1>3. QED
  BY <1>1, <1>2

LEMMA FileInvAlways == Spec => []FileInv
BY FileInvInit, FileInvStep, PTL DEF Spec
----------------------------------------------------------------------------
(* What each step does to the contents of the files. *)

\* A file that can be read has the version of a record that is in the database.
Current(h, file) == ~file.cut /\ h \in DOMAIN file.records /\ file.records[h] = db[h]

\* Versions are numbered in the order of the changes.
Numbered ==
    /\ \A h \in Stored(db) : db[h].number <= changes
    /\ \A s \in snapshots : \A h \in DOMAIN s.records : s.records[h].number <= changes
    /\ \A u \in updates : \A h \in DOMAIN u.records : u.records[h].number <= changes

\* What is in a file is of a time that its name stands for.
InWindow ==
    /\ \A s \in snapshots : \A h \in DOMAIN s.records : s.records[h].updated <= s.time
    /\ \A u \in updates : \A h \in DOMAIN u.records :
         u.from <= u.records[h].updated /\ u.records[h].updated <= u.to

\* The snapshot that a next one, or a first update, goes on from.
Newest(s) == s \in snapshots /\ \A r \in snapshots : r.time <= s.time

\* The newest snapshot has what is current in the files before it.
CarriedOn ==
    Young => \A s : Newest(s) => \A h \in Hashes \ missed :
        /\ \A r \in snapshots : r.time < s.time /\ Current(h, r) => Current(h, s)
        /\ \A u \in updates : u.to < s.time /\ Current(h, u) => Current(h, s)

\* Whatever the next update starts from, what is before it is in a file.
Found ==
    Young =>
        \A h \in Stored(db) \ missed : db[h].updated < UpdateStart => Published(h)

RecordInv == FileInv /\ Numbered /\ InWindow /\ CarriedOn /\ Found

LEMMA PublishedIsCurrent ==
    \A h : Published(h) <=> \/ \E s \in snapshots : Current(h, s)
                            \/ \E u \in updates : Current(h, u)
BY DEF Published, Current

LEMMA PublishedIsCurrentNext ==
    \A h : Published(h)' <=> \/ \E s \in snapshots' : Current(h, s)'
                             \/ \E u \in updates' : Current(h, u)'
BY DEF Published, Current

\* A version is the digest's in the database only if there is one.
LEMMA CurrentFacts ==
    ASSUME NEW file, IsDump(file.records), NEW h, Current(h, file)
    PROVE  /\ h \in Hashes /\ h \in Stored(db) /\ file.records[h] = db[h]
           /\ db[h] \in Versions /\ db[h].updated \in Nat /\ db[h].number \in Nat
<1>1. /\ h \in DOMAIN file.records /\ file.records[h] = db[h]
      /\ h \in Hashes /\ file.records[h] \in Versions
  BY DEF Current, IsDump
<1>2. \A v \in Versions : v # NoVersion /\ v.updated \in Nat /\ v.number \in Nat
  BY DEF Versions, NoVersion
<1>3. QED
  BY <1>1, <1>2 DEF Stored

\* The latest of a set of snapshots.
LEMMA NewestExists ==
    ASSUME FileInv, snapshots # {}
    PROVE  \E s : Newest(s)
<1>1. /\ \A s \in snapshots : s.time \in Nat /\ s.time < Edge
      /\ Edge \in Nat
  BY EdgeFacts DEF FileInv
<1>2. PICK s \in snapshots : \A r \in snapshots : r.time <= s.time
  BY <1>1, NewestFacts
<1>3. QED
  BY <1>2 DEF Newest

\* A snapshot only comes to be too old.
LEMMA YoungShrinks ==
    ASSUME FileInv, now' \in Nat, now <= now', snapshots' \subseteq snapshots, Young'
    PROVE  Young
<1>1. now \in Nat /\ KeepSnapshots \in Nat /\ \A s \in snapshots : s.time \in Nat
  BY EdgeFacts, PublisherAssumption DEF FileInv
<1>2. PICK s \in snapshots' : s.time + KeepSnapshots >= now'
  BY DEF Young
<1>3. s \in snapshots /\ s.time + KeepSnapshots >= now
  BY <1>1, <1>2
<1>4. QED
  BY <1>3 DEF Young

LEMMA DumpVersions ==
    ASSUME NEW records, IsDump(records), NEW h \in DOMAIN records
    PROVE  /\ h \in Hashes /\ records[h] \in Versions /\ records[h] # NoVersion
           /\ records[h].updated \in Nat /\ records[h].number \in Nat
<1>1. h \in Hashes /\ records[h] \in Versions
  BY DEF IsDump
<1>2. \A v \in Versions : v # NoVersion /\ v.updated \in Nat /\ v.number \in Nat
  BY DEF Versions, NoVersion
<1>3. QED
  BY <1>1, <1>2

\* The start of the next update, as StartFacts has it, for the state after a step.
StartBounds ==
    /\ UpdateStart \in Nat /\ UpdateStart < Edge
    /\ updates # {} => \E u \in updates : u.to = UpdateStart
    /\ updates = {} /\ snapshots # {} => \E s \in snapshots : s.time = UpdateStart

LEMMA StartBoundsHold == FileInv => StartBounds
<1> SUFFICES ASSUME FileInv PROVE StartBounds
  OBVIOUS
<1>1. updates = {} /\ snapshots # {} => \E s \in snapshots : s.time = UpdateStart
  BY EdgeFacts, NewestFacts DEF FileInv, UpdateStart
<1>2. QED
  BY <1>1, StartFacts DEF FileInv, StartBounds

LEMMA RecordInvInit == Init => RecordInv
<1> SUFFICES ASSUME Init PROVE RecordInv
  OBVIOUS
<1>1. snapshots = {} /\ updates = {} /\ db = EmptyDatabase
  BY DEF Init
<1>2. Stored(db) = {}
  BY <1>1 DEF Stored, EmptyDatabase
<1>3. QED
  BY <1>1, <1>2, FileInvInit DEF RecordInv, Numbered, InWindow, CarriedOn, Found

\* The steps that change neither the database nor the files.
LEMMA SameContents ==
    ASSUME RecordInv, now' \in Nat, now <= now',
           UNCHANGED <<db, changes, snapshots, updates, missed>>
    PROVE  Numbered' /\ InWindow' /\ CarriedOn' /\ Found'
<1>1. Numbered' /\ InWindow'
  BY DEF RecordInv, Numbered, InWindow
<1>2. Young' => Young
  BY YoungShrinks DEF RecordInv
<1>3. CarriedOn'
  BY <1>2 DEF RecordInv, CarriedOn, Current, Newest
<1>4. Found'
  BY <1>2 DEF RecordInv, Found, UpdateStart, LastEnd, Published
<1>5. QED
  BY <1>1, <1>3, <1>4

\* A change makes a version that no file has.
LEMMA ChangeContents ==
    ASSUME RecordInv, Change \/ Delete
    PROVE  Numbered' /\ InWindow' /\ CarriedOn' /\ Found'
<1>1. UNCHANGED <<snapshots, updates, now>>
  BY DEF Change, Delete, files
<1>2. changes \in Nat /\ changes' = changes + 1 /\ db \in Databases
  BY DEF Change, Delete, RecordInv, FileInv, TypeOK
<1>3. UpdateStart \in Nat
  BY StartFacts DEF RecordInv, FileInv
<1>4. PICK h \in Hashes :
        /\ \A g \in Hashes \ {h} : db'[g] = db[g]
        /\ \A g \in Hashes \ {h} : g \in missed => g \in missed'
        /\ \/ db'[h] = NoVersion
           \/ /\ db'[h].number = changes'
              /\ h \notin missed' => ~(db'[h].updated < UpdateStart)
              /\ db'[h].updated \in Nat
  <2>1. CASE Change
    <3>1. PICK h \in Hashes, t \in 1 .. now :
            LET before == IF h \in Stored(db) THEN db[h].updated ELSE 0
                after  == [updated |-> Latest(before, t), number |-> changes']
            IN  /\ db' = [db EXCEPT ![h] = after]
                /\ missed' = IF after.updated < UpdateStart THEN missed \cup {h}
                                                             ELSE missed \ {h}
      BY <2>1 DEF Change
    <3> DEFINE before == IF h \in Stored(db) THEN db[h].updated ELSE 0
               after == [updated |-> Latest(before, t), number |-> changes']
    <3>2. before \in Nat /\ t \in Nat
      BY <1>2, WithinFacts DEF RecordInv, FileInv, TypeOK
    <3>3. after.number = changes' /\ after.updated \in Nat
      BY <3>2 DEF Latest
    <3>4. /\ db' = [db EXCEPT ![h] = after]
          /\ missed' = IF after.updated < UpdateStart THEN missed \cup {h} ELSE missed \ {h}
      BY <3>1
    <3> HIDE DEF after, before
    <3>5. db'[h] = after /\ \A g \in Hashes \ {h} : db'[g] = db[g]
      BY <1>2, <3>4 DEF Databases
    <3>6. QED
      BY <3>3, <3>4, <3>5
  <2>2. CASE Delete
    <3>1. PICK h \in Stored(db) : db' = [db EXCEPT ![h] = NoVersion] /\ missed' = missed \ {h}
      BY <2>2 DEF Delete
    <3>2. h \in Hashes /\ db'[h] = NoVersion /\ \A g \in Hashes \ {h} : db'[g] = db[g]
      BY <1>2, <3>1 DEF Databases, Stored
    <3>3. QED
      BY <3>1, <3>2
  <2>3. QED
    BY <2>1, <2>2
<1>5. \A g \in Hashes \ {h} : g \in Stored(db)' <=> g \in Stored(db)
  BY <1>4 DEF Stored
<1>6. /\ \A s \in snapshots : IsDump(s.records)
      /\ \A u \in updates : IsDump(u.records)
  BY DEF RecordInv, FileInv, TypeOK, IsSnapshot, IsUpdate
<1>7. ASSUME NEW file, IsDump(file.records), NEW g,
             \A k \in DOMAIN file.records : file.records[k].number <= changes
      PROVE  Current(g, file)' <=> g # h /\ Current(g, file)
  <2> DEFINE records == file.records
  <2>1. CASE g \in DOMAIN records
    <3>1. /\ g \in Hashes /\ records[g] # NoVersion
          /\ records[g].number \in Nat /\ records[g].number <= changes
      BY <1>7, <2>1, DumpVersions
    <3>2. g = h => records[g] # db'[g]
      BY <1>2, <1>4, <3>1
    <3>3. QED
      BY <1>4, <3>1, <3>2 DEF Current
  <2>2. CASE g \notin DOMAIN records
    BY <2>2 DEF Current
  <2>3. QED
    BY <2>1, <2>2
<1>8. /\ \A s \in snapshots : \A g : Current(g, s)' <=> g # h /\ Current(g, s)
      /\ \A u \in updates : \A g : Current(g, u)' <=> g # h /\ Current(g, u)
  BY <1>6, <1>7 DEF RecordInv, Numbered
<1>9. Numbered'
  <2>1. /\ \A g \in Stored(db) : db[g].number \in Nat
        /\ \A s \in snapshots : \A g \in DOMAIN s.records : s.records[g].number \in Nat
        /\ \A u \in updates : \A g \in DOMAIN u.records : u.records[g].number \in Nat
    BY <1>2, <1>6, WithinFacts, DumpVersions
  <2>2. /\ \A s \in snapshots' : \A g \in DOMAIN s.records : s.records[g].number <= changes'
        /\ \A u \in updates' : \A g \in DOMAIN u.records : u.records[g].number <= changes'
    BY <1>1, <1>2, <2>1 DEF RecordInv, Numbered
  <2>3. ASSUME NEW g \in Stored(db)' PROVE db'[g].number <= changes'
    <3>1. g \in Hashes /\ db'[g] # NoVersion
      BY DEF Stored
    <3>2. CASE g = h
      BY <1>2, <1>4, <3>1, <3>2
    <3>3. CASE g # h
      BY <1>2, <1>4, <1>5, <2>1, <3>1, <3>3 DEF RecordInv, Numbered
    <3>4. QED
      BY <3>2, <3>3
  <2>4. QED
    BY <2>2, <2>3 DEF Numbered
<1>10. InWindow'
  BY <1>1 DEF RecordInv, InWindow
<1>11. CarriedOn'
  <2> SUFFICES ASSUME Young, NEW s, Newest(s), NEW g \in Hashes, g \notin missed'
               PROVE  /\ \A r \in snapshots : r.time < s.time /\ Current(g, r)' => Current(g, s)'
                      /\ \A u \in updates : u.to < s.time /\ Current(g, u)' => Current(g, s)'
    BY <1>1 DEF CarriedOn, Newest, Young
  <2>1. CASE g = h
    BY <1>8, <2>1
  <2>2. CASE g # h
    <3>1. g \notin missed /\ s \in snapshots
      BY <1>4, <2>2 DEF Newest
    <3>2. QED
      BY <1>8, <2>2, <3>1 DEF RecordInv, CarriedOn
  <2>3. QED
    BY <2>1, <2>2
<1>12. Found'
  <2> SUFFICES ASSUME Young, NEW g \in Stored(db)', g \notin missed',
                      db'[g].updated < UpdateStart'
               PROVE  Published(g)'
    BY <1>1 DEF Found, Young
  <2>1. UpdateStart' = UpdateStart
    BY <1>1 DEF UpdateStart, LastEnd
  <2>2. g \in Hashes /\ db'[g] # NoVersion
    BY DEF Stored
  <2>3. g # h
    BY <1>3, <1>4, <2>1, <2>2
  <2>4. g \in Stored(db) \ missed /\ db[g].updated < UpdateStart
    BY <1>4, <1>5, <2>1, <2>2, <2>3
  <2>5. Published(g)
    BY <2>4 DEF RecordInv, Found
  <2>6. QED
    BY <1>1, <1>8, <2>3, <2>5, PublishedIsCurrent, PublishedIsCurrentNext
<1>13. QED
  BY <1>9, <1>10, <1>11, <1>12

\* A snapshot that expires is before one that is young, which has what it had.
LEMMA RemoveSnapshotContents ==
    ASSUME RecordInv, RemoveSnapshot
    PROVE  Numbered' /\ InWindow' /\ CarriedOn' /\ Found'
<1>1. UNCHANGED <<now, db, changes, updates, at, missed>> /\ task = "expire"
  BY DEF RemoveSnapshot, Running, outside, told
<1>2. PICK x \in Expired(at) : snapshots' = snapshots \ {x}
  BY DEF RemoveSnapshot
<1>3. /\ now \in Nat /\ at \in Nat /\ at <= now /\ KeepSnapshots \in Nat
      /\ x \in snapshots /\ x.time + KeepSnapshots < at
      /\ \A s \in snapshots : s.time \in Nat
  BY <1>1, EdgeFacts, PublisherAssumption DEF RecordInv, FileInv, Past, Expired
<1>4. Numbered' /\ InWindow'
  BY <1>1, <1>2 DEF RecordInv, Numbered, InWindow
<1>5. Young' => Young
  BY <1>1, <1>2, <1>3, YoungShrinks DEF RecordInv
<1>6. ASSUME Young', NEW s, s \in snapshots', \A r \in snapshots' : r.time <= s.time
      PROVE  Newest(s) /\ x.time < s.time
  <2>1. PICK r \in snapshots' : r.time + KeepSnapshots >= now
    BY <1>1, <1>6 DEF Young
  <2>2. x.time < r.time /\ r.time <= s.time
    BY <1>2, <1>3, <1>6, <2>1
  <2>3. QED
    BY <1>2, <1>3, <1>6, <2>2 DEF Newest
<1>7. CarriedOn'
  <2> SUFFICES ASSUME Young', NEW s, s \in snapshots', \A r \in snapshots' : r.time <= s.time,
                      NEW h \in Hashes, h \notin missed
               PROVE  /\ \A r \in snapshots' :
                           r.time < s.time /\ Current(h, r) => Current(h, s)
                      /\ \A u \in updates :
                           u.to < s.time /\ Current(h, u) => Current(h, s)
    BY <1>1 DEF CarriedOn, Newest, Current
  <2>1. Newest(s) /\ Young
    BY <1>5, <1>6
  <2>2. QED
    BY <1>2, <2>1 DEF RecordInv, CarriedOn
<1>8. Found'
  <2> SUFFICES ASSUME Young', NEW h \in Stored(db), h \notin missed,
                      db[h].updated < UpdateStart'
               PROVE  Published(h)'
    BY <1>1 DEF Found
  <2>1. FileInv'
    BY RemoveSnapshotStep DEF RecordInv
  <2>2. snapshots' # {}
    BY DEF Young
  <2>3. \A s \in snapshots' : s.time \in Nat /\ s.time < Edge /\ Edge \in Nat
    BY <1>2, EdgeFacts DEF RecordInv, FileInv
  <2>4. PICK s \in snapshots' : \A r \in snapshots' : r.time <= s.time
    BY <2>2, <2>3, NewestFacts
  <2>5. Newest(s) /\ x.time < s.time /\ s \in snapshots
    BY <1>6, <2>4 DEF Newest
  <2>6. UpdateStart' \in Nat /\ UpdateStart' <= UpdateStart /\ UpdateStart \in Nat
    <3>1. StartBounds'
      BY <2>1, StartBoundsHold, PTL
    <3>2. CASE updates = {}
      <4>1. /\ UpdateStart \in Nat
            /\ \A r \in snapshots : r.time <= UpdateStart
        BY <3>2, StartFacts DEF RecordInv, FileInv
      <4>2. PICK r \in snapshots' : r.time = UpdateStart'
        BY <1>1, <2>2, <3>1, <3>2 DEF StartBounds
      <4>3. QED
        BY <1>2, <3>1, <4>1, <4>2 DEF StartBounds
    <3>3. CASE updates # {}
      <4>1. UpdateStart' = UpdateStart
        BY <1>1, <3>3 DEF UpdateStart, LastEnd
      <4>2. QED
        BY <3>1, <4>1 DEF StartBounds
    <3>4. QED
      BY <3>2, <3>3
  <2>7. h \in Hashes /\ db[h].updated \in Nat
    BY WithinFacts DEF RecordInv, FileInv, TypeOK
  <2>8. Published(h)
    BY <1>5, <2>6, <2>7 DEF RecordInv, Found
  <2>9. \/ \E r \in snapshots' : Current(h, r)
        \/ \E u \in updates : Current(h, u)
    <3>1. Current(h, x) => Current(h, s)
      BY <1>3, <1>5, <2>5, <2>7 DEF RecordInv, CarriedOn
    <3>2. QED
      BY <1>2, <2>4, <2>8, <3>1, PublishedIsCurrent
  <2>10. QED
    BY <1>1, <2>9, PublishedIsCurrentNext DEF Current
<1>9. QED
  BY <1>4, <1>7, <1>8

\* What an update had that expires is in the newest snapshot.
LEMMA RemoveUpdateContents ==
    ASSUME RecordInv, RemoveUpdate
    PROVE  Numbered' /\ InWindow' /\ CarriedOn' /\ Found'
<1>1. UNCHANGED <<now, db, changes, snapshots>>
  BY DEF RemoveUpdate, outside
<1>2. PICK x \in Needless(snapshots) :
         /\ updates' = updates \ {x}
         /\ missed' = missed \cup {h \in Skipped(x) : ~Published(h)}
  BY DEF RemoveUpdate
<1>3. /\ x \in updates /\ snapshots # {}
      /\ \A s \in snapshots : x.to < s.time
  BY NeedlessFacts DEF RecordInv
<1>4. Numbered' /\ InWindow'
  BY <1>1, <1>2 DEF RecordInv, Numbered, InWindow
<1>5. CarriedOn'
  <2> SUFFICES ASSUME Young, NEW s, Newest(s), NEW h \in Hashes, h \notin missed'
               PROVE  /\ \A r \in snapshots :
                           r.time < s.time /\ Current(h, r) => Current(h, s)
                      /\ \A u \in updates' :
                           u.to < s.time /\ Current(h, u) => Current(h, s)
    BY <1>1 DEF CarriedOn, Newest, Current, Young
  <2>1. QED
    BY <1>2 DEF RecordInv, CarriedOn
<1>6. Found'
  <2> SUFFICES ASSUME Young, NEW h \in Stored(db), h \notin missed',
                      db[h].updated < UpdateStart'
               PROVE  Published(h)'
    BY <1>1 DEF Found, Young
  <2>1. h \in Hashes /\ db[h].updated \in Nat /\ h \notin missed
    BY <1>2, WithinFacts DEF RecordInv, FileInv, TypeOK
  <2>2. /\ UpdateStart \in Nat
        /\ \A u \in updates : u.to <= UpdateStart
    BY <1>3, StartFacts DEF RecordInv, FileInv
  <2>3. Published(h)
    <3>1. CASE db[h].updated < UpdateStart
      BY <2>1, <3>1 DEF RecordInv, Found
    <3>2. CASE ~(db[h].updated < UpdateStart)
      <4>1. StartBounds'
        <5>1. FileInv'
          BY RemoveUpdateStep DEF RecordInv
        <5>2. QED
          BY <5>1, StartBoundsHold, PTL
      <4>2. updates' = {}
        <5>1. ASSUME updates' # {} PROVE FALSE
          <6>1. PICK u \in updates' : u.to = UpdateStart'
            BY <4>1, <5>1 DEF StartBounds
          <6>2. UpdateStart' \in Nat /\ UpdateStart' <= UpdateStart
            BY <1>2, <2>2, <4>1, <6>1 DEF StartBounds
          <6>3. QED
            BY <2>1, <2>2, <3>2, <6>2
        <5>2. QED
          BY <5>1
      <4>3. updates = {x}
        BY <1>2, <1>3, <4>2
      <4>4. UpdateStart' = NewestSnapshot(snapshots)
        BY <1>1, <4>2 DEF UpdateStart
      <4>5. x.to = UpdateStart
        BY <4>3, StartFacts DEF RecordInv, FileInv
      <4>6. x.to <= db[h].updated
        BY <2>1, <2>2, <3>2, <4>5
      <4>7. h \in Skipped(x)
        BY <4>3, <4>4, <4>6 DEF Skipped
      <4>8. QED
        BY <1>2, <4>7
    <3>3. QED
      BY <3>1, <3>2
  <2>4. \/ \E r \in snapshots : Current(h, r)
        \/ \E u \in updates' : Current(h, u)
    <3>1. PICK s : Newest(s)
      BY <1>3, NewestExists DEF RecordInv
    <3>2. s \in snapshots /\ (Current(h, x) => Current(h, s))
      BY <1>3, <2>1, <3>1 DEF RecordInv, CarriedOn, Newest
    <3>3. QED
      BY <1>2, <2>3, <3>2, PublishedIsCurrent
  <2>5. QED
    BY <1>1, <2>4, PublishedIsCurrentNext DEF Current
<1>7. QED
  BY <1>4, <1>5, <1>6

\* A snapshot has everything up to its time, but for what is in missed.
LEMMA MakeSnapshotContents ==
    ASSUME RecordInv, MakeSnapshot
    PROVE  Numbered' /\ InWindow' /\ CarriedOn' /\ Found'
<1>1. /\ task = "snapshot" /\ task' = "unlink" /\ at' = at /\ now' = now
      /\ UNCHANGED <<db, changes, updates>>
  BY DEF MakeSnapshot, Running, outside
<1>2. /\ Edge' = at /\ at \in Nat /\ at - 1 \in Nat
      /\ \A s \in snapshots : s.time \in Nat /\ s.time < at
      /\ \A u \in updates : u.to \in Nat /\ u.to < at
  BY <1>1, EdgeFacts DEF RecordInv, FileInv, Past, Edge
<1>3. db \in Databases /\ changes \in Nat
  BY DEF RecordInv, FileInv, TypeOK
<1>4. /\ Within(db, 0, at - 1) \subseteq Stored(db)
      /\ \A h \in Stored(db) : h \in Hashes /\ db[h].updated \in Nat
      /\ \A h \in Stored(db) :
           h \in Within(db, 0, at - 1) <=> 0 <= db[h].updated /\ db[h].updated <= at - 1
  BY <1>2, <1>3, WithinFacts
<1> DEFINE all == Within(db, 0, at - 1)
<1>5. PICK new :
        /\ snapshots' = {s \in snapshots : s.time # at - 1} \cup {new}
        /\ new.time = at - 1
        /\ DOMAIN new.records \subseteq all
        /\ \A h \in DOMAIN new.records : new.records[h] = db[h]
        /\ \A h \in all \ missed' : Current(h, new)
  <2>1. PICK fails, cut \in BOOLEAN : \E dump \in DumpsModified(db, 0, at - 1, fails) :
             LET file == [time |-> at - 1, records |-> dump, cut |-> cut]
             IN  /\ cut => fails
                 /\ snapshots' = {s \in snapshots : s.time # at - 1} \cup {file}
                 /\ missed' = IF fails THEN (missed \ all) \cup LeftOut(all, file)
                                       ELSE missed \ all
                 /\ IsDump(dump) /\ DOMAIN dump \subseteq all
                 /\ \A h \in DOMAIN dump : dump[h] = db[h]
                 /\ ~fails => DOMAIN dump = all
    BY NewSnapshotFacts DEF RecordInv
  <2>2. PICK dump \in DumpsModified(db, 0, at - 1, fails) :
             LET file == [time |-> at - 1, records |-> dump, cut |-> cut]
             IN  /\ cut => fails
                 /\ snapshots' = {s \in snapshots : s.time # at - 1} \cup {file}
                 /\ missed' = IF fails THEN (missed \ all) \cup LeftOut(all, file)
                                       ELSE missed \ all
                 /\ IsDump(dump) /\ DOMAIN dump \subseteq all
                 /\ \A h \in DOMAIN dump : dump[h] = db[h]
                 /\ ~fails => DOMAIN dump = all
    BY <2>1
  <2> DEFINE file == [time |-> at - 1, records |-> dump, cut |-> cut]
  <2>3. ASSUME NEW h \in all, h \notin missed' PROVE Current(h, file)
    <3>1. CASE fails
      BY <2>2, <2>3, <3>1 DEF LeftOut, Current
    <3>2. CASE ~fails
      BY <2>2, <2>3, <3>2 DEF Current
    <3>3. QED
      BY <3>1, <3>2
  <2>4. file.time = at - 1 /\ file.records = dump
    OBVIOUS
  <2> HIDE DEF all
  <2>5. snapshots' = {s \in snapshots : s.time # at - 1} \cup {file}
    BY <2>2
  <2> HIDE DEF file
  <2>6. QED
    BY <2>2, <2>3, <2>4, <2>5
<1>6. /\ new \in snapshots'
      /\ \A s \in snapshots' : s = new \/ (s \in snapshots /\ s.time # at - 1)
  BY <1>5
<1>7. \A h \in Stored(db) : db[h].updated <= at - 1 /\ h \notin missed' => Current(h, new)
  BY <1>4, <1>5
<1>8. Numbered'
  BY <1>1, <1>4, <1>5, <1>6 DEF RecordInv, Numbered
<1>9. InWindow'
  BY <1>1, <1>4, <1>5, <1>6 DEF RecordInv, InWindow
<1>10. /\ \A s \in snapshots : \A h : Current(h, s) =>
            h \in Stored(db) /\ db[h].updated <= s.time
       /\ \A u \in updates : \A h : Current(h, u) =>
            h \in Stored(db) /\ db[h].updated <= u.to
  <2>1. /\ \A s \in snapshots : IsDump(s.records)
        /\ \A u \in updates : IsDump(u.records)
    BY DEF RecordInv, FileInv, TypeOK, IsSnapshot, IsUpdate
  <2>2. ASSUME NEW s \in snapshots, NEW h, Current(h, s)
        PROVE  h \in Stored(db) /\ db[h].updated <= s.time
    <3>1. h \in Stored(db) /\ s.records[h] = db[h]
      BY <2>1, <2>2, CurrentFacts
    <3>2. QED
      BY <2>2, <3>1 DEF RecordInv, InWindow, Current
  <2>3. ASSUME NEW u \in updates, NEW h, Current(h, u)
        PROVE  h \in Stored(db) /\ db[h].updated <= u.to
    <3>1. h \in Stored(db) /\ u.records[h] = db[h]
      BY <2>1, <2>3, CurrentFacts
    <3>2. QED
      BY <2>3, <3>1 DEF RecordInv, InWindow, Current
  <2>4. QED
    BY <2>2, <2>3
<1>11. ASSUME NEW s, s \in snapshots', \A r \in snapshots' : r.time <= s.time PROVE s = new
  BY <1>2, <1>5, <1>6, <1>11
<1>12. CarriedOn'
  <2> SUFFICES ASSUME NEW s, s \in snapshots', \A r \in snapshots' : r.time <= s.time,
                      NEW h \in Hashes, h \notin missed'
               PROVE  /\ \A r \in snapshots' :
                           r.time < s.time /\ Current(h, r) => Current(h, s)
                      /\ \A u \in updates :
                           u.to < s.time /\ Current(h, u) => Current(h, s)
    BY <1>1 DEF CarriedOn, Newest, Current
  <2>1. s = new
    BY <1>11
  <2>2. ASSUME NEW r \in snapshots', r.time < s.time, Current(h, r)
        PROVE  Current(h, s)
    <3>1. r \in snapshots
      BY <1>2, <1>5, <1>6, <2>1, <2>2
    <3>2. h \in Stored(db) /\ db[h].updated <= r.time /\ r.time \in Nat
      BY <1>2, <1>10, <2>2, <3>1
    <3>3. db[h].updated <= at - 1
      BY <1>2, <1>4, <1>5, <2>1, <2>2, <3>2
    <3>4. QED
      BY <1>7, <2>1, <3>2, <3>3
  <2>3. ASSUME NEW u \in updates, u.to < s.time, Current(h, u)
        PROVE  Current(h, s)
    <3>1. h \in Stored(db) /\ db[h].updated <= u.to /\ u.to \in Nat
      BY <1>2, <1>10, <2>3
    <3>2. db[h].updated <= at - 1
      BY <1>2, <1>4, <1>5, <2>1, <2>3, <3>1
    <3>3. QED
      BY <1>7, <2>1, <3>1, <3>2
  <2>4. QED
    BY <2>2, <2>3
<1>13. Found'
  <2> SUFFICES ASSUME NEW h \in Stored(db), h \notin missed', db[h].updated < UpdateStart'
               PROVE  Published(h)'
    BY <1>1 DEF Found
  <2>1. StartBounds'
    <3>1. FileInv'
      BY MakeSnapshotStep DEF RecordInv
    <3>2. QED
      BY <3>1, StartBoundsHold, PTL
  <2>2. UpdateStart' \in Nat /\ UpdateStart' < at
    BY <1>2, <2>1 DEF StartBounds
  <2>3. db[h].updated <= at - 1
    BY <1>2, <1>4, <2>2
  <2>4. Current(h, new)
    BY <1>7, <2>3
  <2>5. QED
    BY <1>1, <1>6, <2>4, PublishedIsCurrentNext DEF Current
<1>14. QED
  BY <1>8, <1>9, <1>12, <1>13

\* An update has everything of its window, but for what was published or is missed.
LEMMA MakeUpdateContents ==
    ASSUME RecordInv, MakeUpdate
    PROVE  Numbered' /\ InWindow' /\ CarriedOn' /\ Found'
<1>1. /\ task = "update" /\ Done
      /\ UNCHANGED <<now, db, changes, snapshots>>
  BY DEF MakeUpdate, Running, outside
<1>3. db \in Databases /\ changes \in Nat
  BY DEF RecordInv, FileInv, TypeOK
<1>4. at \in Nat /\ at - 1 \in Nat /\ Edge = at
  BY <1>1, DoneFacts DEF RecordInv
<1>5. /\ UpdateStart \in Nat /\ UpdateStart < at
      /\ updates # {} => \A u \in updates : u.to <= UpdateStart
  BY <1>4, StartFacts DEF RecordInv, FileInv
<1>6. /\ \A s \in snapshots : s.time \in Nat /\ s.time < at
      /\ \A u \in updates : u.to \in Nat /\ u.to < at
  BY <1>4, EdgeFacts DEF RecordInv, FileInv
<1> DEFINE all == Within(db, UpdateStart, at - 1)
<1>8. /\ all \subseteq Stored(db)
      /\ \A h \in Stored(db) : h \in Hashes /\ db[h].updated \in Nat
      /\ \A h \in Stored(db) :
           h \in all <=> UpdateStart <= db[h].updated /\ db[h].updated <= at - 1
  BY <1>3, <1>4, <1>5, WithinFacts
<1>7. PICK new :
        /\ updates' = {u \in updates : u.from # UpdateStart \/ u.to # at - 1} \cup {new}
        /\ new.from = UpdateStart /\ new.to = at - 1
        /\ DOMAIN new.records \subseteq all
        /\ \A h \in DOMAIN new.records : new.records[h] = db[h]
        /\ missed \subseteq missed'
        /\ \A h \in all \ missed' : Current(h, new) \/ Published(h)
  <2>1. PICK fails, cut \in BOOLEAN :
          \E dump \in DumpsModified2(db, UpdateStart, at - 1, fails) :
             LET file == [from |-> UpdateStart, to |-> at - 1, records |-> dump, cut |-> cut]
                 lost == IF fails THEN all ELSE all \cap Firsts(db, UpdateStart)
             IN  /\ cut => fails
                 /\ updates' = {u \in updates : u.from # UpdateStart \/ u.to # at - 1}
                                 \cup {file}
                 /\ missed' = missed \cup {h \in LeftOut(lost, file) : ~Published(h)}
                 /\ IsDump(dump) /\ DOMAIN dump \subseteq all
                 /\ \A h \in DOMAIN dump : dump[h] = db[h]
                 /\ all \ lost \subseteq DOMAIN dump
    BY NewUpdateFacts DEF RecordInv
  <2> DEFINE lost == IF fails THEN all ELSE all \cap Firsts(db, UpdateStart)
  <2>2. PICK dump \in DumpsModified2(db, UpdateStart, at - 1, fails) :
             LET file == [from |-> UpdateStart, to |-> at - 1, records |-> dump, cut |-> cut]
             IN  /\ cut => fails
                 /\ updates' = {u \in updates : u.from # UpdateStart \/ u.to # at - 1}
                                 \cup {file}
                 /\ missed' = missed \cup {h \in LeftOut(lost, file) : ~Published(h)}
                 /\ IsDump(dump) /\ DOMAIN dump \subseteq all
                 /\ \A h \in DOMAIN dump : dump[h] = db[h]
                 /\ all \ lost \subseteq DOMAIN dump
    BY <2>1
  <2> DEFINE file == [from |-> UpdateStart, to |-> at - 1, records |-> dump, cut |-> cut]
  <2>3. fails => all \subseteq lost
    OBVIOUS
  <2>4. /\ file.from = UpdateStart /\ file.to = at - 1 /\ file.records = dump /\ file.cut = cut
    OBVIOUS
  <2> HIDE DEF all, lost
  <2>5. /\ cut => fails
        /\ updates' = {u \in updates : u.from # UpdateStart \/ u.to # at - 1} \cup {file}
        /\ missed' = missed \cup {h \in LeftOut(lost, file) : ~Published(h)}
    BY <2>2
  <2> HIDE DEF file
  <2>6. ASSUME NEW h \in all, h \notin missed', ~Published(h) PROVE Current(h, file)
    <3>1. h \notin LeftOut(lost, file)
      BY <2>5, <2>6
    <3>2. CASE h \in lost
      BY <2>2, <2>4, <3>1, <3>2 DEF LeftOut, Current
    <3>3. CASE h \notin lost
      BY <2>2, <2>3, <2>4, <2>5, <2>6, <3>3 DEF Current
    <3>4. QED
      BY <3>2, <3>3
  <2>7. QED
    BY <2>2, <2>4, <2>5, <2>6
<1> HIDE DEF all
<1>9. /\ new \in updates'
      /\ \A u \in updates' : u = new \/ u \in updates
      /\ \A u \in updates : u \in updates' \/ (u.from = UpdateStart /\ u.to = at - 1)
  BY <1>7
<1>10. Numbered'
  BY <1>1, <1>7, <1>8, <1>9 DEF RecordInv, Numbered
<1>11. InWindow'
  BY <1>1, <1>7, <1>8, <1>9 DEF RecordInv, InWindow
<1>12. CarriedOn'
  <2> SUFFICES ASSUME Young, NEW s, Newest(s), NEW h \in Hashes, h \notin missed'
               PROVE  /\ \A r \in snapshots :
                           r.time < s.time /\ Current(h, r) => Current(h, s)
                      /\ \A u \in updates' :
                           u.to < s.time /\ Current(h, u) => Current(h, s)
    BY <1>1 DEF CarriedOn, Newest, Current, Young
  <2>1. s \in snapshots /\ h \notin missed
    BY <1>7 DEF Newest
  <2>2. \A u \in updates' : u.to < s.time => u \in updates
    BY <1>4, <1>6, <1>7, <1>9, <2>1
  <2>3. QED
    BY <2>1, <2>2 DEF RecordInv, CarriedOn
<1>13. Found'
  <2> SUFFICES ASSUME Young, NEW h \in Stored(db), h \notin missed',
                      db[h].updated < UpdateStart'
               PROVE  Published(h)'
    BY <1>1 DEF Found, Young
  <2>1. StartBounds'
    <3>1. FileInv'
      BY MakeUpdateStep DEF RecordInv
    <3>2. QED
      BY <3>1, StartBoundsHold, PTL
  <2>2. UpdateStart' \in Nat /\ UpdateStart' <= at - 1
    <3>1. PICK u \in updates' : u.to = UpdateStart'
      BY <1>9, <2>1 DEF StartBounds
    <3>2. u.to <= at - 1
      BY <1>4, <1>6, <1>7, <1>9, <3>1
    <3>3. QED
      BY <2>1, <3>1, <3>2 DEF StartBounds
  <2>3. db[h].updated \in Nat /\ db[h].updated < at - 1
    BY <1>4, <1>8, <2>2
  <2>4. h \notin missed
    BY <1>7
  <2>5. CASE Current(h, new)
    BY <1>1, <1>9, <2>5, PublishedIsCurrentNext DEF Current
  <2>6. CASE ~Current(h, new)
    <3>1. Published(h)
      <4>1. CASE db[h].updated < UpdateStart
        BY <2>4, <4>1 DEF RecordInv, Found
      <4>2. CASE ~(db[h].updated < UpdateStart)
        <5>1. h \in all
          BY <1>4, <1>5, <1>8, <2>3, <4>2
        <5>2. QED
          BY <1>7, <2>6, <5>1
      <4>3. QED
        BY <4>1, <4>2
    <3>2. CASE \E s \in snapshots : Current(h, s)
      BY <1>1, <3>2, PublishedIsCurrentNext DEF Current
    <3>3. CASE \E u \in updates : Current(h, u)
      <4>1. PICK u \in updates : Current(h, u)
        BY <3>3
      <4>2. u.from <= db[h].updated /\ u.to <= UpdateStart
        BY <1>5, <4>1 DEF RecordInv, InWindow, Current
      <4>3. u \in updates'
        <5>1. ASSUME u.from = UpdateStart, u.to = at - 1 PROVE FALSE
          BY <1>4, <1>5, <2>3, <4>2, <5>1
        <5>2. QED
          BY <1>9, <5>1
      <4>4. Current(h, u)'
        BY <1>1, <4>1 DEF Current
      <4>5. QED
        BY <4>3, <4>4, PublishedIsCurrentNext
    <3>4. QED
      BY <3>1, <3>2, <3>3, PublishedIsCurrent
  <2>7. QED
    BY <2>5, <2>6
<1>14. QED
  BY <1>10, <1>11, <1>12, <1>13

LEMMA RecordInvStep == RecordInv /\ [Next]_vars => RecordInv'
<1> SUFFICES ASSUME RecordInv, [Next]_vars PROVE RecordInv'
  OBVIOUS
<1>1. FileInv'
  BY FileInvStep DEF RecordInv
<1>2. CASE UNCHANGED vars
  <2>1. now \in Nat /\ now' = now
    BY <1>2 DEF vars, RecordInv, FileInv, TypeOK
  <2>2. QED
    BY <1>1, <1>2, <2>1, SameContents DEF vars, files, told, RecordInv
<1>3. CASE \/ Begin \/ Tick \/ RetryLater \/ UnlinkCurrent \/ LinkCurrent \/ MakeSnapshotFails
           \/ NoUpdate \/ Exit \/ Restart
  <2>1. UNCHANGED <<db, changes, snapshots, updates, missed>>
    BY <1>3 DEF Begin, Tick, RetryLater, UnlinkCurrent, LinkCurrent, MakeSnapshotFails,
                NoUpdate, Exit, Restart, outside, files, told
  <2>2. now \in Nat /\ now' \in Nat /\ now <= now'
    BY <1>3 DEF Begin, Tick, RetryLater, UnlinkCurrent, LinkCurrent, MakeSnapshotFails,
                NoUpdate, Exit, Restart, outside, RecordInv, FileInv, TypeOK
  <2>3. QED
    BY <1>1, <2>1, <2>2, SameContents DEF RecordInv
<1>4. CASE Change \/ Delete
  BY <1>1, <1>4, ChangeContents DEF RecordInv
<1>5. CASE RemoveSnapshot \/ RemoveUpdate
  BY <1>1, <1>5, RemoveSnapshotContents, RemoveUpdateContents DEF RecordInv
<1>6. CASE MakeSnapshot
  BY <1>1, <1>6, MakeSnapshotContents DEF RecordInv
<1>7. CASE MakeUpdate
  BY <1>1, <1>7, MakeUpdateContents DEF RecordInv
<1>8. QED
  BY <1>2, <1>3, <1>4, <1>5, <1>6, <1>7 DEF Next

LEMMA RecordInvAlways == Spec => []RecordInv
BY RecordInvInit, RecordInvStep, PTL DEF Spec

----------------------------------------------------------------------------
\* The variables of the publisher and its files stay in their types, whatever
\* fails, exits or is late.
THEOREM AlwaysTypeOK == Spec => []TypeOK
<1>1. FileInv => TypeOK
  BY DEF FileInv
<1>2. QED
  BY <1>1, FileInvAlways, PTL

\* make_update and expire_updates keep the windows of the updates apart, and from the
\* oldest snapshot on without a hole, for any failures, delays and intervals, and
\* wherever the expiry is cut by an exit.
THEOREM AlwaysChained == Spec => []Chained
<1>1. FileInv => Chained
  BY DEF FileInv
<1>2. QED
  BY <1>1, FileInvAlways, PTL

\* expire_updates keeps the updates that a replica needs which starts with any of
\* the snapshots that expire_snapshots keeps, but for those of a time before the first
\* of the updates in a row.
THEOREM AlwaysSnapshotsCovered == Spec => []SnapshotsCovered
<1>1. FileInv => SnapshotsCovered
  <2> SUFFICES ASSUME FileInv, NEW s \in snapshots, s.time >= begun,
                      NEW v \in updates, s.time < v.to
               PROVE  \E u \in updates : u.from <= s.time /\ s.time < u.to
    BY DEF SnapshotsCovered
  <2>1. s.time \in Nat /\ begun \in Nat
    BY DEF FileInv, TypeOK, IsSnapshot
  <2>2. begun <= s.time /\ s.time <= s.time
    BY <2>1
  <2>3. QED
    BY <2>1, <2>2 DEF FileInv, Covered
<1>2. QED
  BY <1>1, FileInvAlways, PTL

\* While there is a snapshot that is not due to expire, the files that can be read
\* among those that make_snapshot and make_update have written and the expiry has
\* left have every change before the end of the last update, but for the ones in
\* missed.
THEOREM AlwaysChangesPublished == Spec => []ChangesPublished
<1>1. RecordInv => ChangesPublished
  BY DEF RecordInv, Found, ChangesPublished, UpdateStart
<1>2. QED
  BY <1>1, RecordInvAlways, PTL

----------------------------------------------------------------------------
(* The replica. *)

\* The replica has its own view of Dump; it is the publisher's.
LEMMA SameDump ==
    /\ R!Databases = Databases /\ R!EmptyDatabase = EmptyDatabase
    /\ \A X : R!Stored(X) = Stored(X) /\ R!Highest(X) = Highest(X)
    /\ \A X, d : R!Imported(X, d) = Imported(X, d)
    /\ \A d : R!Beginnings(d) = Beginnings(d)
    /\ \A f : R!IsInjective(f) <=> IsInjective(f)
<1>1. R!NoVersion = NoVersion /\ R!Versions = Versions
  BY DEF R!NoVersion, NoVersion, R!Versions, Versions
<1>2. R!Databases = Databases /\ R!EmptyDatabase = EmptyDatabase
  BY <1>1 DEF R!Databases, Databases, R!EmptyDatabase, EmptyDatabase
<1>3. \A X : R!Stored(X) = Stored(X)
  BY <1>1 DEF R!Stored, Stored
<1>4. \A X : R!Highest(X) = Highest(X)
  BY SMT DEF R!Highest, Highest, R!Stored, Stored, R!NoVersion, NoVersion
<1>5. \A X, d : R!Imported(X, d) = Imported(X, d)
  BY DEF R!Imported, Imported
<1>6. \A d : R!Beginnings(d) = Beginnings(d)
  BY DEF R!Beginnings, Beginnings, R!Restrict, Restrict
<1>7. \A f : R!IsInjective(f) <=> IsInjective(f)
  BY DEF R!IsInjective, IsInjective
<1>8. QED
  BY <1>2, <1>3, <1>4, <1>5, <1>6, <1>7

LEMMA ImportedFacts ==
    ASSUME NEW X \in Databases, NEW d, IsDump(d)
    PROVE  /\ Imported(X, d) \in Databases
           /\ Stored(Imported(X, d)) = Stored(X) \cup DOMAIN d
           /\ \A h \in Hashes : Imported(X, d)[h] = IF h \in DOMAIN d THEN d[h] ELSE X[h]
<1>1. \A h \in Hashes : Imported(X, d)[h] = IF h \in DOMAIN d THEN d[h] ELSE X[h]
  BY DEF Imported
<1>2. \A h \in DOMAIN d : h \in Hashes /\ d[h] \in Versions /\ d[h] # NoVersion
  BY DumpVersions
<1>3. Imported(X, d) \in Databases
  BY <1>2 DEF Imported, Databases
<1>4. Stored(Imported(X, d)) = Stored(X) \cup DOMAIN d
  BY <1>1, <1>2 DEF Stored
<1>5. QED
  BY <1>1, <1>3, <1>4

\* The names of finitely many updates.
LEMMA NamesFinite ==
    ASSUME NEW U, IsFiniteSet(U)
    PROVE  IsFiniteSet({R!Name(u) : u \in U})
<1> DEFINE f == [u \in U |-> R!Name(u)]
           N == {R!Name(u) : u \in U}
<1>1. f \in Surjection(U, N)
  <2>1. f \in [U -> N]
    OBVIOUS
  <2>2. \A n \in N : \E u \in U : f[u] = n
    OBVIOUS
  <2>3. QED
    BY <2>1, <2>2 DEF Surjection
<1>2. QED
  BY <1>1, FS_Surjection

\* A listing has each name once.
LEMMA ListingFacts ==
    ASSUME NEW N, IsFiniteSet(N), NEW s \in R!Listings(N)
    PROVE  s \in Seq(N) /\ Range(s) = N /\ IsInjective(s)
<1> DEFINE n == Cardinality(N)
<1>1. n \in Nat
  BY FS_CardinalityType
<1>2. /\ s \in [1 .. n -> N]
      /\ \A i, j \in 1 .. n : i # j => s[i] # s[j]
  <2>1. R!Cardinality(N) = n
    BY DEF R!Cardinality, Cardinality
  <2>2. s \in R!SetToSeqs(N)
    BY DEF R!Listings
  <2>3. QED
    BY <2>1, <2>2 DEF R!SetToSeqs
<1>3. s \in Seq(N)
  BY <1>1, <1>2, SeqDef
<1>4. s \in Injection(1 .. n, N)
  BY <1>2 DEF Injection, IsInjective
<1>5. Cardinality(1 .. n) = n
  BY <1>1, FS_Interval
<1>6. s \in Surjection(1 .. n, N)
  BY <1>4, <1>5, FS_Injection
<1>7. Range(s) = N
  BY <1>2, <1>6 DEF Range, Surjection
<1>8. IsInjective(s)
  BY <1>2 DEF IsInjective
<1>9. QED
  BY <1>2, <1>3, <1>7, <1>8

----------------------------------------------------------------------------
(* What the replica needs to know of the files. *)

\* Different updates are of different names, and their windows do not overlap.
Apart ==
    \A u, v \in updates :
        u = v \/ /\ R!Name(u) # R!Name(v)
                 /\ u.to <= v.from \/ v.to <= u.from

CurrentInWindow ==
    current # NoFile =>
        \A h \in DOMAIN current.records : current.records[h].updated <= current.time

PublisherInv == RecordInv /\ Apart /\ IsFiniteSet(updates) /\ CurrentInWindow

LEMMA PublisherInvInit == Init => PublisherInv
<1> SUFFICES ASSUME Init PROVE PublisherInv
  OBVIOUS
<1>1. updates = {} /\ current = NoFile
  BY DEF Init
<1>2. QED
  BY <1>1, RecordInvInit, FS_EmptySet DEF PublisherInv, Apart, CurrentInWindow

LEMMA PublisherInvStep == PublisherInv /\ [Next]_vars => PublisherInv'
<1> SUFFICES ASSUME PublisherInv, [Next]_vars PROVE PublisherInv'
  OBVIOUS
<1>1. RecordInv'
  BY RecordInvStep DEF PublisherInv
<1>2. ASSUME updates' \subseteq updates PROVE Apart' /\ IsFiniteSet(updates')
  <2>1. Apart'
    BY <1>2 DEF PublisherInv, Apart
  <2>2. IsFiniteSet(updates')
    BY <1>2, FS_Subset DEF PublisherInv
  <2>3. QED
    BY <2>1, <2>2
<1>3. ASSUME MakeUpdate PROVE Apart' /\ IsFiniteSet(updates')
  <2>1. PICK dump, cut :
          updates' = {u \in updates : u.from # UpdateStart \/ u.to # at - 1}
                       \cup {[from |-> UpdateStart, to |-> at - 1, records |-> dump, cut |-> cut]}
    BY <1>3 DEF MakeUpdate
  <2> DEFINE kept == {u \in updates : u.from # UpdateStart \/ u.to # at - 1}
             new == [from |-> UpdateStart, to |-> at - 1, records |-> dump, cut |-> cut]
  <2>2. IsFiniteSet(updates')
    <3>1. IsFiniteSet(kept)
      BY FS_Subset DEF PublisherInv
    <3>2. QED
      BY <2>1, <3>1, FS_AddElement
  <2>3. Apart'
    <3>1. updates # {} => \A u \in updates : u.to <= UpdateStart
      BY StartFacts DEF PublisherInv, RecordInv, FileInv
    <3>2. /\ new.from = UpdateStart /\ new.to = at - 1
          /\ \A u \in updates' : u = new \/ u \in kept
      BY <2>1
    <3>3. \A u \in kept : R!Name(u) # R!Name(new) /\ u.to <= new.from /\ u \in updates
      BY <3>1, <3>2 DEF R!Name
    <3> HIDE DEF kept, new
    <3>4. QED
      BY <3>2, <3>3 DEF PublisherInv, Apart
  <2>4. QED
    BY <2>2, <2>3
<1>4. ASSUME ~MakeUpdate PROVE Apart' /\ IsFiniteSet(updates')
  <2>1. updates' \subseteq updates
    BY <1>4 DEF Next, vars, Tick, Change, Delete, RetryLater, Begin, RemoveSnapshot,
       RemoveUpdate, MakeSnapshot, UnlinkCurrent, LinkCurrent, MakeSnapshotFails, NoUpdate,
       Exit, Restart, outside, files
  <2>2. QED
    BY <1>2, <2>1
<1>5. CurrentInWindow'
  <2>1. CASE LinkCurrent
    <3>1. current' \in snapshots
      BY <2>1 DEF LinkCurrent, Running, PublisherInv, RecordInv, FileInv, Made
    <3>2. QED
      BY <3>1 DEF PublisherInv, RecordInv, InWindow, CurrentInWindow
  <2>2. CASE ~LinkCurrent
    <3>1. current' = current \/ current' = NoFile
      BY <2>2 DEF Next, vars, Tick, Change, Delete, RetryLater, Begin, RemoveSnapshot,
         RemoveUpdate, MakeSnapshot, UnlinkCurrent, MakeUpdate, MakeSnapshotFails, NoUpdate,
         Exit, Restart, outside, files
    <3>2. QED
      BY <3>1 DEF PublisherInv, CurrentInWindow
  <2>3. QED
    BY <2>1, <2>2
<1>6. QED
  BY <1>1, <1>2, <1>3, <1>4, <1>5 DEF PublisherInv

----------------------------------------------------------------------------
(* The variables of the replica. *)

\* Before it runs a replica has nothing to do.
Quiet ==
    replica \in {"new", "ended"} => queue = <<>> /\ ~download /\ scan = "off"

Windows == Nat \X Nat

\* R!ReplicaTypeOK, without R.
Types ==
    /\ replica \in {"new", "running", "stopping", "stopped", "hung", "ended"}
    /\ stored \in Databases /\ durable \in Databases
    /\ queue \in Seq(Windows) /\ IsInjective(queue)
    /\ download \in BOOLEAN /\ (download => queue # <<>>)
    /\ scan \in {"waiting", "fetching", "off"}
    /\ base \in Nat
    /\ overtaken \in BOOLEAN /\ refused \in BOOLEAN /\ spoiled \in BOOLEAN
    /\ troubles \in Nat

TypeInv == PublisherInv /\ Types /\ Quiet /\ QueueMoves

LEMMA TypesAreTypes == R!ReplicaTypeOK <=> Types
BY SameDump DEF R!ReplicaTypeOK, Types, Windows

LEMMA EmptyQueue == <<>> \in Seq(Windows) /\ IsInjective(<<>>)
<1>1. DOMAIN <<>> = {}
  OBVIOUS
<1>2. QED
  BY <1>1, EmptySeq DEF IsInjective

\* The steps of the publisher leave the replica alone.
LEMMA PublisherTypes ==
    ASSUME TypeInv, UNCHANGED replicaVars
    PROVE  Types' /\ Quiet' /\ QueueMoves'
BY DEF TypeInv, Types, Quiet, QueueMoves, replicaVars

\* The files that the replica sees are dumps, and their names are windows.
LEMMA UpdateFacts ==
    ASSUME PublisherInv
    PROVE  /\ \A u \in updates :
                /\ u.from \in Nat /\ u.to \in Nat /\ u.from <= u.to /\ IsDump(u.records)
                /\ R!Name(u) = <<u.from, u.to>> /\ R!Name(u) \in Windows
           /\ current # NoFile => current.time \in Nat /\ IsDump(current.records)
BY DEF PublisherInv, RecordInv, FileInv, TypeOK, IsUpdate, IsSnapshot, R!Name, Windows

\* What a scan queues.
LEMMA ScanFacts ==
    ASSUME TypeInv, R!ScanSucceeds(updates)
    PROVE  \E listing \in Seq(Windows) :
             /\ queue' = queue \o listing
             /\ IsInjective(listing)
             /\ \A w : w \in Range(listing) <=>
                  \E u \in updates : R!Interesting(u) /\ w = R!Name(u)
<1> DEFINE U == {u \in updates : R!Interesting(u)}
           N == {R!Name(u) : u \in U}
<1>1. PICK listing \in R!Listings(N) : queue' = queue \o listing
  BY DEF R!ScanSucceeds
<1>2. IsFiniteSet(N)
  <2>1. IsFiniteSet(U)
    BY FS_Subset DEF TypeInv, PublisherInv
  <2>2. QED
    BY <2>1, NamesFinite
<1>3. listing \in Seq(N) /\ Range(listing) = N /\ IsInjective(listing)
  BY <1>2, ListingFacts
<1>4. N \subseteq Windows
  BY UpdateFacts DEF TypeInv
<1>5. listing \in Seq(Windows)
  <2>1. Len(listing) \in Nat /\ listing \in [1 .. Len(listing) -> N]
    BY <1>3, LenProperties
  <2>2. listing \in [1 .. Len(listing) -> Windows]
    BY <1>4, <2>1
  <2>3. QED
    BY <2>1, <2>2, SeqDef
<1>6. \A w : w \in N <=> \E u \in updates : R!Interesting(u) /\ w = R!Name(u)
  OBVIOUS
<1>7. QED
  BY <1>1, <1>3, <1>5, <1>6

LEMMA ScanTypes ==
    ASSUME TypeInv, R!ScanSucceeds(updates)
    PROVE  Types' /\ Quiet' /\ QueueMoves'
<1>1. PICK listing \in Seq(Windows) :
             /\ queue' = queue \o listing
             /\ IsInjective(listing)
             /\ \A w : w \in Range(listing) <=>
                  \E u \in updates : R!Interesting(u) /\ w = R!Name(u)
  BY ScanFacts
<1>2. queue \in Seq(Windows) /\ IsInjective(queue)
  BY DEF TypeInv, Types
<1>3. Range(queue) \cap Range(listing) = {}
  <2>1. \A u \in updates : R!Interesting(u) => R!Name(u) \notin Range(queue)
    BY <1>2, LenProperties DEF R!Interesting, R!Contains, Range
  <2>2. QED
    BY <1>1, <2>1
<1>4. /\ queue' \in Seq(Windows) /\ IsInjective(queue')
      /\ queue # <<>> => queue' # <<>>
  BY <1>1, <1>2, <1>3, InjectiveConcat
<1>5. /\ scan' = "waiting"
      /\ stored' = stored /\ durable' = durable /\ base' = base /\ replica' = replica
      /\ refused' = refused /\ spoiled' = spoiled /\ troubles' = troubles
      /\ replica \in {"running", "stopping", "stopped"}
      /\ overtaken' \in BOOLEAN
      /\ \/ queue = <<>> /\ download' = (replica \in {"running", "stopping"} /\ queue' # <<>>)
         \/ queue # <<>> /\ download' = download
  BY DEF R!ScanSucceeds, R!Alive, R!Open, R!StartDownload, TypeInv, Types, R!InTurn
<1>6. Types'
  BY <1>4, <1>5 DEF TypeInv, Types
<1>7. Quiet'
  BY <1>5 DEF Quiet
<1>8. QueueMoves'
  <2>1. CASE queue = <<>>
    BY <1>5, <2>1, Zenon DEF QueueMoves
  <2>2. CASE queue # <<>>
    <3>1. download' = download /\ replica' = replica /\ refused' = refused
      BY <1>5, <2>2
    <3>2. QED
      BY <2>2, <3>1 DEF TypeInv, QueueMoves
  <2>3. QED
    BY <2>1, <2>2
<1>9. QED
  BY <1>6, <1>7, <1>8

\* The front is taken off the queue.
LEMMA DownloadTypes ==
    ASSUME TypeInv,
           \/ R!DownloadSucceeds(updates) \/ R!DownloadHangs(updates)
           \/ R!DownloadSpoiled(updates) \/ R!DownloadRefused(updates)
    PROVE  Types' /\ Quiet' /\ QueueMoves'
<1>1. /\ download /\ queue # <<>> /\ queue \in Seq(Windows) /\ IsInjective(queue)
      /\ replica \notin {"new", "ended"}
  BY DEF TypeInv, Types, Quiet, R!DownloadSucceeds, R!DownloadHangs, R!DownloadSpoiled,
     R!DownloadRefused
<1>2. queue' = Tail(queue)
  BY DEF R!DownloadSucceeds, R!DownloadHangs, R!DownloadSpoiled, R!DownloadRefused
<1>3. queue' \in Seq(Windows) /\ IsInjective(queue')
  BY <1>1, <1>2, TailFacts, InjectiveTail
<1>4. stored' \in Databases
  <2>1. CASE R!DownloadSucceeds(updates)
    <3>1. PICK u \in updates : stored' = Imported(stored, u.records)
      BY <2>1, SameDump DEF R!DownloadSucceeds
    <3>2. QED
      BY <3>1, UpdateFacts, ImportedFacts DEF TypeInv, Types
  <2>2. CASE R!DownloadHangs(updates) \/ R!DownloadSpoiled(updates)
    <3>1. PICK u \in updates :
            \E part \in Beginnings(u.records) : stored' = Imported(stored, part)
      BY <2>2, SameDump DEF R!DownloadHangs, R!DownloadSpoiled
    <3>2. PICK part \in Beginnings(u.records) : stored' = Imported(stored, part)
      BY <3>1
    <3>3. IsDump(part)
      BY <3>2, UpdateFacts, BeginningFacts DEF TypeInv
    <3>4. QED
      BY <3>2, <3>3, ImportedFacts DEF TypeInv, Types
  <2>3. CASE R!DownloadRefused(updates)
    BY <2>3 DEF R!DownloadRefused, TypeInv, Types
  <2>4. QED
    BY <2>1, <2>2, <2>3
<1>5. troubles' \in Nat
  <2>1. troubles \in Nat
    BY DEF TypeInv, Types
  <2>2. QED
    BY <2>1 DEF R!DownloadSucceeds, R!DownloadHangs, R!DownloadSpoiled, R!DownloadRefused,
       R!Trouble
<1>6. /\ UNCHANGED <<durable, scan, base, overtaken>>
      /\ refused' \in BOOLEAN /\ spoiled' \in BOOLEAN
      /\ download' \in BOOLEAN /\ (download' => queue' # <<>>)
      /\ \/ replica' = replica /\ (download' <=> replica \in {"running", "stopping"} /\ queue' # <<>>)
         \/ replica' = replica /\ refused'
         \/ replica' = "hung"
  <2>1. CASE R!DownloadSucceeds(updates)
    BY <2>1, Zenon
       DEF R!DownloadSucceeds, R!NextDownload, R!StartDownload, R!Open, TypeInv, Types
  <2>2. CASE R!DownloadSpoiled(updates)
    BY <2>2, Zenon
       DEF R!DownloadSpoiled, R!NextDownload, R!StartDownload, R!Open, TypeInv, Types
  <2>3. CASE R!DownloadRefused(updates)
    BY <2>3, Zenon DEF R!DownloadRefused, TypeInv, Types
  <2>4. CASE R!DownloadHangs(updates)
    BY <2>4, Zenon DEF R!DownloadHangs, TypeInv, Types
  <2>5. QED
    BY <2>1, <2>2, <2>3, <2>4
<1>7. Types'
  <2>1. replica' \in {"new", "running", "stopping", "stopped", "hung", "ended"}
    BY <1>6 DEF TypeInv, Types
  <2>2. QED
    BY <1>3, <1>4, <1>5, <1>6, <2>1, Zenon DEF TypeInv, Types
<1>8. Quiet' /\ QueueMoves'
  BY <1>1, <1>6, Zenon DEF Quiet, QueueMoves
<1>9. QED
  BY <1>7, <1>8

\* The process dies.
LEMMA CrashTypes ==
    ASSUME TypeInv, R!Crash \/ R!CrashInImport(updates)
    PROVE  Types' /\ Quiet' /\ QueueMoves'
<1>1. /\ replica' = "ended" /\ scan' = "off" /\ durable' = stored'
      /\ queue' = <<>> /\ download' = FALSE /\ refused' = FALSE
      /\ UNCHANGED <<base, overtaken>>
      /\ spoiled' \in BOOLEAN
  BY Zenon DEF R!Crash, R!CrashInImport, R!Empty, TypeInv, Types
<1>2. stored' \in Databases
  <2>1. CASE R!Crash
    BY <2>1 DEF R!Crash, TypeInv, Types
  <2>2. CASE R!CrashInImport(updates)
    <3>1. PICK u \in updates :
            \E part \in Beginnings(u.records) : stored' = Imported(stored, part)
      BY <2>2, SameDump DEF R!CrashInImport
    <3>2. PICK part \in Beginnings(u.records) : stored' = Imported(stored, part)
      BY <3>1
    <3>3. IsDump(part)
      BY <3>2, UpdateFacts, BeginningFacts DEF TypeInv
    <3>4. QED
      BY <3>2, <3>3, ImportedFacts DEF TypeInv, Types
  <2>3. QED
    BY <2>1, <2>2
<1>3. queue' \in Seq(Windows) /\ IsInjective(queue')
  BY <1>1, EmptyQueue
<1>4. troubles' \in Nat
  <2>1. troubles \in Nat
    BY DEF TypeInv, Types
  <2>2. QED
    BY <2>1 DEF R!Crash, R!CrashInImport, R!Trouble
<1>5. Types'
  BY <1>1, <1>2, <1>3, <1>4 DEF TypeInv, Types
<1>6. Quiet' /\ QueueMoves'
  BY <1>1 DEF Quiet, QueueMoves
<1>7. QED
  BY <1>5, <1>6

\* The steps that leave the queue alone.
LEMMA OtherTypes ==
    ASSUME TypeInv,
           \/ SetUp \/ R!ScanStarts \/ R!ScanFails \/ R!ScanRefused \/ R!Unlicensed
           \/ R!HandleStop \/ R!Checkpoint \/ R!Restart
    PROVE  Types' /\ Quiet' /\ QueueMoves'
<1>1. /\ queue' = queue /\ overtaken' = overtaken /\ refused' = refused /\ spoiled' = spoiled
      /\ download' = download \/ download' = FALSE
      /\ scan' \in {"waiting", "fetching", "off"}
      /\ troubles' \in Nat
      /\ replica' \in {"running", "stopping", "stopped"}
      /\ durable' \in {durable, stored, stored'}
  BY DEF SetUp, R!SetUp, R!ScanStarts, R!ScanFails, R!ScanRefused, R!Unlicensed, R!HandleStop,
     R!Checkpoint, R!Restart, R!Trouble, R!Alive, R!Open, TypeInv, Types
<1>2. stored' \in Databases /\ base' \in Nat
  <2>1. CASE SetUp
    <3>1. /\ current # NoFile /\ base' = current.time
          /\ stored' = Imported(stored, current.records)
      BY <2>1, SameDump DEF SetUp, R!SetUp
    <3>2. QED
      BY <3>1, UpdateFacts, ImportedFacts DEF TypeInv, Types
  <2>2. CASE ~SetUp
    <3>1. UNCHANGED <<stored, base>>
      BY <2>2 DEF R!ScanStarts, R!ScanFails, R!ScanRefused, R!Unlicensed, R!HandleStop,
         R!Checkpoint, R!Restart
    <3>2. QED
      BY <3>1 DEF TypeInv, Types
  <2>3. QED
    BY <2>1, <2>2
<1>3. Types'
  <2>1. /\ stored' \in Databases /\ durable' \in Databases /\ base' \in Nat
        /\ queue' \in Seq(Windows) /\ IsInjective(queue')
        /\ replica' \in {"new", "running", "stopping", "stopped", "hung", "ended"}
        /\ scan' \in {"waiting", "fetching", "off"} /\ troubles' \in Nat
    BY <1>1, <1>2 DEF TypeInv, Types
  <2>2. /\ download' \in BOOLEAN /\ (download' => queue' # <<>>)
        /\ overtaken' \in BOOLEAN /\ refused' \in BOOLEAN /\ spoiled' \in BOOLEAN
    <3>1. /\ download \in BOOLEAN /\ (download => queue # <<>>)
          /\ overtaken \in BOOLEAN /\ refused \in BOOLEAN /\ spoiled \in BOOLEAN
      BY DEF TypeInv, Types
    <3>2. CASE download' = download
      BY <1>1, <3>1, <3>2
    <3>3. CASE download' = FALSE
      BY <1>1, <3>1, <3>3
    <3>4. QED
      BY <1>1, <3>2, <3>3
  <2>3. QED
    BY <2>1, <2>2 DEF Types
<1>4. Quiet'
  BY <1>1 DEF Quiet
<1>5. QueueMoves'
  BY DEF SetUp, R!SetUp, R!ScanStarts, R!ScanFails, R!ScanRefused, R!Unlicensed, R!HandleStop,
     R!Checkpoint, R!Restart, TypeInv, Quiet, QueueMoves
<1>6. QED
  BY <1>3, <1>4, <1>5

LEMMA TypeInvInit == PublicationInit => TypeInv
<1> SUFFICES ASSUME PublicationInit PROVE TypeInv
  OBVIOUS
<1>1. EmptyDatabase \in Databases /\ R!EmptyDatabase = EmptyDatabase
  BY SameDump DEF EmptyDatabase, Databases
<1>2. <<>> \in Seq(Windows) /\ IsInjective(<<>>)
  BY EmptyQueue
<1>3. PublisherInv
  BY PublisherInvInit DEF PublicationInit
<1>4. Types
  BY <1>1, <1>2 DEF PublicationInit, R!ReplicaInit, Types
<1>5. Quiet /\ QueueMoves
  BY DEF PublicationInit, R!ReplicaInit, Quiet, QueueMoves
<1>6. QED
  BY <1>3, <1>4, <1>5 DEF TypeInv

LEMMA TypeInvStep == TypeInv /\ [PublicationNext]_allVars => TypeInv'
<1> SUFFICES ASSUME TypeInv, [PublicationNext]_allVars PROVE TypeInv'
  OBVIOUS
<1>1. PublisherInv'
  <2>1. [Next]_vars
    BY DEF PublicationNext, allVars
  <2>2. QED
    BY <2>1, PublisherInvStep DEF TypeInv
<1>2. CASE UNCHANGED replicaVars
  BY <1>1, <1>2, PublisherTypes DEF TypeInv
<1>3. CASE ReplicaStep
  <2>1. Types' /\ Quiet' /\ QueueMoves'
    BY <1>3, ScanTypes, DownloadTypes, CrashTypes, OtherTypes DEF ReplicaStep
  <2>2. QED
    BY <1>1, <2>1 DEF TypeInv
<1>4. QED
  BY <1>2, <1>3 DEF PublicationNext, allVars

LEMMA TypeInvAlways == PublicationSpec => []TypeInv
BY TypeInvInit, TypeInvStep, PTL DEF PublicationSpec

----------------------------------------------------------------------------
(* The times that the replica has seen. *)

\* Not after the last of the updates, those that have expired included.
Behind(t) == t <= Latest(LastEnd, gone)

QueuePast ==
    \A i \in DOMAIN queue : queue[i][1] <= queue[i][2] /\ Behind(queue[i][2])

StoredPast(X) ==
    \A h \in Stored(X) : X[h].updated <= base \/ Behind(X[h].updated)

\* Before the setup there is nothing.
Fresh == replica = "new" => Stored(stored) = {}

\* While the queue is in turn, no record is newer than what is to come.
InTurnQueue ==
    ~overtaken =>
       /\ R!InTurn(queue)
       /\ \A i \in DOMAIN queue : \A h \in Stored(stored) : stored[h].updated <= queue[i][1]

TimeInv ==
    /\ TypeInv /\ QueuePast /\ StoredPast(stored) /\ StoredPast(durable)
    /\ Fresh /\ InTurnQueue

\* The last of the updates, kept or not.
GoneBounds ==
    /\ LastEnd \in Nat /\ gone \in Nat
    /\ updates # {} => \E u \in updates : u.to = LastEnd
    /\ \A u \in updates : u.to \in Nat /\ u.to <= LastEnd
    /\ updates = {} => LastEnd = 0
    /\ LastEnd <= UpdateStart /\ UpdateStart \in Nat

LEMMA GoneFacts == FileInv => GoneBounds /\ Latest(LastEnd, gone) \in Nat
<1> SUFFICES ASSUME FileInv
             PROVE  GoneBounds /\ Latest(LastEnd, gone) \in Nat
  OBVIOUS
<1>1. /\ Edge \in Nat
      /\ \A s \in snapshots : s.time \in Nat /\ s.time < Edge
      /\ \A u \in updates : u.to \in Nat /\ u.to < Edge
  BY EdgeFacts DEF FileInv
<1>2. /\ LastEnd \in Nat
      /\ updates # {} => \E u \in updates : u.to = LastEnd
      /\ \A u \in updates : u.to <= LastEnd
      /\ updates = {} => LastEnd = 0
  BY <1>1, LastEndFacts
<1>3. gone \in Nat
  BY DEF FileInv, TypeOK
<1>4. LastEnd <= UpdateStart /\ UpdateStart \in Nat
  <2>1. CASE updates = {}
    BY <1>2, <2>1, StartFacts DEF FileInv
  <2>2. CASE updates # {}
    BY <1>2, <2>2 DEF UpdateStart
  <2>3. QED
    BY <2>1, <2>2
<1>5. QED
  BY <1>1, <1>2, <1>3, <1>4 DEF GoneBounds, Latest

\* No step brings it back.
LEMMA GoneGrows ==
    ASSUME FileInv, [Next]_vars
    PROVE  Latest(LastEnd, gone) <= Latest(LastEnd', gone') /\ gone <= gone'
<1>1. /\ LastEnd \in Nat /\ gone \in Nat
      /\ updates # {} => \E u \in updates : u.to = LastEnd
      /\ \A u \in updates : u.to \in Nat /\ u.to <= LastEnd
      /\ updates = {} => LastEnd = 0
  BY GoneFacts DEF GoneBounds
<1>2. FileInv'
  BY FileInvStep
<1>3. /\ LastEnd' \in Nat /\ gone' \in Nat
      /\ \A u \in updates' : u.to \in Nat /\ u.to <= LastEnd'
  <2>1. GoneBounds'
    BY <1>2, GoneFacts, PTL
  <2>2. QED
    BY <2>1 DEF GoneBounds
<1>4. CASE UNCHANGED <<updates, gone>>
  <2>1. LastEnd' = LastEnd
    BY <1>4 DEF LastEnd
  <2>2. QED
    BY <1>1, <1>4, <2>1 DEF Latest
<1>5. CASE RemoveUpdate
  <2>1. PICK x \in updates : updates' = updates \ {x} /\ gone' = Latest(gone, x.to)
    BY <1>5, NeedlessFacts DEF RemoveUpdate
  <2>2. gone <= gone' /\ x.to <= gone'
    BY <1>1, <2>1 DEF Latest
  <2>3. LastEnd <= LastEnd' \/ LastEnd <= gone'
    <3>1. PICK u \in updates : u.to = LastEnd
      BY <1>1, <2>1
    <3>2. CASE u = x
      BY <2>2, <3>1, <3>2
    <3>3. CASE u # x
      BY <1>3, <2>1, <3>1, <3>3
    <3>4. QED
      BY <3>2, <3>3
  <2>4. QED
    BY <1>1, <1>3, <2>2, <2>3 DEF Latest
<1>6. CASE MakeUpdate
  <2>1. PICK dump, cut :
          [from |-> UpdateStart, to |-> at - 1, records |-> dump, cut |-> cut] \in updates'
    BY <1>6 DEF MakeUpdate
  <2> DEFINE new == [from |-> UpdateStart, to |-> at - 1, records |-> dump, cut |-> cut]
  <2>2. new \in updates' /\ new.to = at - 1
    BY <2>1
  <2> HIDE DEF new
  <2>3. at - 1 <= LastEnd' /\ at - 1 \in Nat
    BY <1>3, <2>2
  <2>4. at \in Nat /\ LastEnd <= at - 1
    <3>1. Edge = at /\ at \in Nat /\ 1 <= Edge /\ \A u \in updates : u.to < Edge
      BY <1>6, EdgeFacts DEF FileInv, Edge, MakeUpdate, Running
    <3>2. QED
      BY <1>1, <3>1
  <2>5. gone' = gone
    BY <1>6 DEF MakeUpdate
  <2>6. QED
    BY <1>1, <1>3, <2>3, <2>4, <2>5 DEF Latest
<1>7. CASE ~(RemoveUpdate \/ MakeUpdate)
  <2>1. UNCHANGED <<updates, gone>>
    BY <1>7 DEF Next, vars, Tick, Change, Delete, RetryLater, Begin, RemoveSnapshot,
       MakeSnapshot, UnlinkCurrent, LinkCurrent, MakeSnapshotFails, NoUpdate, Exit, Restart,
       outside, files, told
  <2>2. QED
    BY <1>4, <2>1
<1>8. QED
  BY <1>5, <1>6, <1>7

\* So what is behind stays behind.
LEMMA BehindStep ==
    ASSUME PublisherInv, [Next]_vars
    PROVE  \A t \in Nat : t <= Latest(LastEnd, gone) => t <= Latest(LastEnd', gone')
<1>1. FileInv /\ FileInv'
  BY FileInvStep DEF PublisherInv, RecordInv
<1>2. Latest(LastEnd, gone) \in Nat /\ Latest(LastEnd, gone) <= Latest(LastEnd', gone')
  BY <1>1, GoneFacts, GoneGrows
<1>3. Latest(LastEnd', gone') \in Nat
  <2>1. GoneBounds'
    BY <1>1, GoneFacts, PTL
  <2>2. QED
    BY <2>1 DEF GoneBounds, Latest
<1>4. QED
  BY <1>2, <1>3

\* Nothing that is in a file is newer.
LEMMA UpdateBehind ==
    ASSUME PublisherInv
    PROVE  \A u \in updates : \A t \in Nat : t <= u.to => Behind(t)
<1>1. /\ LastEnd \in Nat /\ gone \in Nat
      /\ \A u \in updates : u.to \in Nat /\ u.to <= LastEnd
  BY GoneFacts DEF GoneBounds, PublisherInv, RecordInv
<1>2. QED
  BY <1>1 DEF Behind, Latest

\* The records of a database have times.
LEMMA StoredFacts ==
    ASSUME NEW X \in Databases
    PROVE  \A h \in Stored(X) : h \in Hashes /\ X[h] \in Versions /\ X[h].updated \in Nat
<1>1. \A h \in Stored(X) : h \in Hashes /\ X[h] \in Versions
  BY DEF Stored, Databases
<1>2. QED
  BY <1>1 DEF Versions

\* The queue is one of windows.
LEMMA QueueFacts ==
    ASSUME TypeInv
    PROVE  \A i \in DOMAIN queue :
             queue[i] \in Windows /\ queue[i][1] \in Nat /\ queue[i][2] \in Nat
<1>1. \A i \in DOMAIN queue : queue[i] \in Windows
  BY LenProperties DEF TypeInv, Types
<1>2. QED
  BY <1>1 DEF Windows

\* lookup_last returns the time of the newest record.
LEMMA HighestFacts ==
    ASSUME NEW X \in Databases, NEW b \in Nat, \A h \in Stored(X) : X[h].updated <= b
    PROVE  /\ Highest(X) \in Nat
           /\ \A h \in Stored(X) : X[h].updated <= Highest(X)
           /\ Stored(X) # {} => \E h \in Stored(X) : X[h].updated = Highest(X)
           /\ Stored(X) = {} => Highest(X) = 0
<1>1. CASE Stored(X) = {}
  BY <1>1 DEF Highest
<1>2. CASE Stored(X) # {}
  <2> DEFINE T == {X[h].updated : h \in Stored(X)}
  <2>1. T \subseteq Nat /\ T # {} /\ \A n \in T : n <= b
    BY <1>2, StoredFacts
  <2>2. PICK n \in T : \A m \in T : m <= n
    BY <2>1, Greatest
  <2>3. \E t \in T : \A h \in Stored(X) : X[h].updated <= t
    BY <2>2
  <2>4. Highest(X) \in T /\ \A h \in Stored(X) : X[h].updated <= Highest(X)
    BY <1>2, <2>3 DEF Highest
  <2>5. QED
    BY <1>2, <2>1, <2>4
<1>3. QED
  BY <1>1, <1>2

\* The replica's newest record is behind, or in the snapshot.
LEMMA HighestStored ==
    ASSUME TimeInv
    PROVE  /\ Highest(stored) \in Nat
           /\ \A h \in Stored(stored) : /\ stored[h].updated \in Nat
                                        /\ stored[h].updated <= Highest(stored)
           /\ Stored(stored) # {} => \E h \in Stored(stored) : stored[h].updated = Highest(stored)
           /\ Stored(stored) = {} => Highest(stored) = 0
<1>1. stored \in Databases /\ base \in Nat
  BY DEF TimeInv, TypeInv, Types
<1>2. Latest(LastEnd, gone) \in Nat
  BY GoneFacts DEF TimeInv, TypeInv, PublisherInv, RecordInv
<1> DEFINE b == base + Latest(LastEnd, gone)
<1>3. ASSUME NEW h \in Stored(stored) PROVE stored[h].updated <= b
  <2>1. stored[h].updated \in Nat
    BY <1>1, StoredFacts
  <2>2. stored[h].updated <= base \/ stored[h].updated <= Latest(LastEnd, gone)
    BY DEF TimeInv, StoredPast, Behind
  <2>3. QED
    BY <1>1, <1>2, <2>1, <2>2
<1>4. b \in Nat
  BY <1>1, <1>2
<1> HIDE DEF b
<1>5. QED
  BY <1>1, <1>3, <1>4, HighestFacts, StoredFacts

\* The steps that bring no record and no update.
LEMMA KeepTimes ==
    ASSUME TimeInv, [Next]_vars, base' = base,
           stored' \in {stored, durable}, durable' \in {stored, durable},
           \A i \in DOMAIN queue' : \E k \in DOMAIN queue : queue'[i] = queue[k]
    PROVE  QueuePast' /\ StoredPast(stored)' /\ StoredPast(durable)'
<1>1. \A t \in Nat : t <= Latest(LastEnd, gone) => t <= Latest(LastEnd', gone')
  BY BehindStep DEF TimeInv, TypeInv
<1>2. QueuePast'
  <2>1. SUFFICES ASSUME NEW i \in DOMAIN queue'
                 PROVE  queue'[i][1] <= queue'[i][2] /\ queue'[i][2] <= Latest(LastEnd', gone')
    BY DEF QueuePast, Behind
  <2>2. PICK k \in DOMAIN queue : queue'[i] = queue[k]
    OBVIOUS
  <2>3. /\ queue[k][1] <= queue[k][2] /\ queue[k][2] <= Latest(LastEnd, gone)
        /\ queue[k][2] \in Nat
    BY QueueFacts DEF TimeInv, QueuePast, Behind
  <2>4. QED
    BY <1>1, <2>2, <2>3
<1>3. ASSUME NEW X \in {stored, durable}, NEW h \in Stored(X), ~(X[h].updated <= base)
      PROVE  X[h].updated <= Latest(LastEnd', gone')
  <2>1. X \in Databases
    BY DEF TimeInv, TypeInv, Types
  <2>2. X[h].updated \in Nat
    BY <2>1, StoredFacts
  <2>3. X[h].updated <= Latest(LastEnd, gone)
    BY <1>3 DEF TimeInv, StoredPast, Behind
  <2>4. QED
    BY <1>1, <2>2, <2>3
<1>4. StoredPast(stored)'
  BY <1>3 DEF StoredPast, Behind
<1>5. StoredPast(durable)'
  BY <1>3 DEF StoredPast, Behind
<1>6. QED
  BY <1>2, <1>4, <1>5

\* What an import brings is within the window of the update.
LEMMA ImportTimes ==
    ASSUME TimeInv, queue # <<>>, NEW u \in updates, R!Name(u) = Head(queue),
           NEW d, IsDump(d), DOMAIN d \subseteq DOMAIN u.records,
           \A h \in DOMAIN d : d[h] = u.records[h],
           stored' = Imported(stored, d)
    PROVE  /\ Stored(stored) \subseteq Stored(stored')
           /\ u.from = queue[1][1] /\ u.to = queue[1][2] /\ 1 \in DOMAIN queue
           /\ \A h \in Stored(stored') :
                \/ h \in Stored(stored) /\ stored'[h] = stored[h] /\ h \notin DOMAIN d
                \/ /\ h \in DOMAIN d /\ stored'[h] = d[h] /\ stored'[h].updated \in Nat
                   /\ u.from <= stored'[h].updated /\ stored'[h].updated <= u.to
<1>1. stored \in Databases /\ queue \in Seq(Windows)
  BY DEF TimeInv, TypeInv, Types
<1>2. /\ stored' \in Databases
      /\ Stored(stored') = Stored(stored) \cup DOMAIN d
      /\ \A h \in Hashes : stored'[h] = IF h \in DOMAIN d THEN d[h] ELSE stored[h]
  BY <1>1, ImportedFacts
<1>3. R!Name(u) = <<u.from, u.to>> /\ Head(queue) = queue[1] /\ 1 \in DOMAIN queue
  BY <1>1, TailCases, UpdateFacts DEF TimeInv, TypeInv
<1>4. u.from = queue[1][1] /\ u.to = queue[1][2]
  BY <1>3
<1>5. \A h \in DOMAIN u.records : u.from <= u.records[h].updated /\ u.records[h].updated <= u.to
  BY DEF TimeInv, TypeInv, PublisherInv, RecordInv, InWindow
<1>6. ASSUME NEW h \in Stored(stored')
      PROVE  \/ h \in Stored(stored) /\ stored'[h] = stored[h] /\ h \notin DOMAIN d
             \/ /\ h \in DOMAIN d /\ stored'[h] = d[h] /\ stored'[h].updated \in Nat
                /\ u.from <= stored'[h].updated /\ stored'[h].updated <= u.to
  <2>1. h \in Hashes
    BY DEF Stored
  <2>2. CASE h \in DOMAIN d
    BY <1>2, <1>5, <2>1, <2>2, DumpVersions
  <2>3. CASE h \notin DOMAIN d
    BY <1>2, <2>1, <2>3
  <2>4. QED
    BY <2>2, <2>3
<1>7. QED
  BY <1>2, <1>3, <1>4, <1>6

\* What an import brings is no newer than the end of its update, which is behind.
LEMMA ImportPast ==
    ASSUME TimeInv, UNCHANGED vars, base' = base, queue # <<>>,
           NEW u \in updates, R!Name(u) = Head(queue),
           NEW d, IsDump(d), DOMAIN d \subseteq DOMAIN u.records,
           \A h \in DOMAIN d : d[h] = u.records[h],
           stored' = Imported(stored, d), durable' \in {durable, stored'},
           queue' = Tail(queue) \/ queue' = <<>>
    PROVE  QueuePast' /\ StoredPast(stored)' /\ StoredPast(durable)'
<1>0. LastEnd' = LastEnd /\ gone' = gone
  BY DEF vars, files, told, LastEnd
<1>1. queue \in Seq(Windows)
  BY DEF TimeInv, TypeInv, Types
<1>2. \A i \in DOMAIN queue' : \E k \in DOMAIN queue : queue'[i] = queue[k]
  <2>1. CASE queue' = Tail(queue)
    BY <1>1, <2>1, TailCases
  <2>2. CASE queue' = <<>>
    BY <2>2
  <2>3. QED
    BY <2>1, <2>2
<1>3. QueuePast'
  BY <1>0, <1>2 DEF TimeInv, QueuePast, Behind, vars
<1>4. \A h \in Stored(stored') :
                \/ h \in Stored(stored) /\ stored'[h] = stored[h]
                \/ stored'[h].updated \in Nat /\ stored'[h].updated <= u.to
  BY ImportTimes
<1>5. u.to \in Nat /\ Behind(u.to) /\ Latest(LastEnd, gone) \in Nat
  BY UpdateFacts, UpdateBehind, GoneFacts DEF TimeInv, TypeInv, PublisherInv, RecordInv
<1>6. ASSUME NEW h \in Stored(stored'), ~(stored'[h].updated <= base)
      PROVE  stored'[h].updated <= Latest(LastEnd, gone)
  <2>1. CASE h \in Stored(stored) /\ stored'[h] = stored[h]
    BY <1>6, <2>1 DEF TimeInv, StoredPast, Behind
  <2>2. CASE stored'[h].updated \in Nat /\ stored'[h].updated <= u.to
    BY <1>5, <2>2 DEF Behind
  <2>3. QED
    BY <1>4, <2>1, <2>2
<1>7. StoredPast(stored)'
  BY <1>0, <1>6 DEF StoredPast, Behind, vars
<1>8. StoredPast(durable)'
  <2>1. CASE durable' = durable
    BY <1>0, <2>1 DEF TimeInv, StoredPast, Behind, vars
  <2>2. CASE durable' = stored'
    BY <1>0, <1>6, <2>2 DEF StoredPast, Behind, vars
  <2>3. QED
    BY <2>1, <2>2
<1>9. QED
  BY <1>3, <1>7, <1>8

\* The rest of the queue is in turn, and what is stored is not newer than it.
LEMMA ImportInTurn ==
    ASSUME TimeInv, queue # <<>>, NEW u \in updates, R!Name(u) = Head(queue),
           NEW d, IsDump(d), DOMAIN d \subseteq DOMAIN u.records,
           \A h \in DOMAIN d : d[h] = u.records[h],
           stored' = Imported(stored, d), queue' = Tail(queue), overtaken' = overtaken
    PROVE  InTurnQueue'
<1>1. queue \in Seq(Windows)
  BY DEF TimeInv, TypeInv, Types
<1>2. SUFFICES ASSUME ~overtaken
               PROVE  /\ R!InTurn(queue')
                      /\ \A i \in DOMAIN queue' : \A h \in Stored(stored') :
                           stored'[h].updated <= queue'[i][1]
  BY DEF InTurnQueue
<1>3. /\ R!InTurn(queue)
      /\ \A i \in DOMAIN queue : \A h \in Stored(stored) : stored[h].updated <= queue[i][1]
  BY <1>2 DEF TimeInv, InTurnQueue
<1>4. \A i \in DOMAIN queue' : /\ i \in Nat \ {0} /\ i + 1 \in DOMAIN queue
                               /\ queue'[i] = queue[i + 1]
  BY <1>1, TailCases
<1>5. R!InTurn(queue')
  BY <1>3, <1>4 DEF R!InTurn
<1>6. ASSUME NEW i \in DOMAIN queue', NEW h \in Stored(stored')
      PROVE  stored'[h].updated <= queue'[i][1]
  <2>1. /\ i + 1 \in DOMAIN queue /\ queue'[i] = queue[i + 1]
        /\ queue[i + 1][1] \in Nat /\ 1 < i + 1
    BY <1>4, QueueFacts DEF TimeInv
  <2>2. CASE h \in Stored(stored) /\ stored'[h] = stored[h]
    BY <1>3, <2>1, <2>2
  <2>3. CASE stored'[h].updated \in Nat /\ stored'[h].updated <= u.to
    <3>1. u.to = queue[1][2] /\ 1 \in DOMAIN queue /\ queue[1][2] \in Nat
      BY ImportTimes, QueueFacts DEF TimeInv
    <3>2. queue[1][2] <= queue[i + 1][1]
      BY <1>3, <2>1, <3>1 DEF R!InTurn
    <3>3. QED
      BY <2>1, <2>3, <3>1, <3>2
  <2>4. QED
    BY <2>2, <2>3, ImportTimes
<1>7. QED
  BY <1>5, <1>6

\* An import of the first update of the queue, whole or cut.
LEMMA ImportCases ==
    ASSUME TimeInv,
           \/ R!DownloadSucceeds(updates) \/ R!DownloadHangs(updates)
           \/ R!DownloadSpoiled(updates) \/ R!CrashInImport(updates)
    PROVE  /\ queue # <<>> /\ base' = base /\ overtaken' = overtaken
           /\ replica' # "new" /\ durable' \in {durable, stored'}
           /\ \/ queue' = Tail(queue) /\ replica' = replica
              \/ queue' = Tail(queue) /\ replica' = "hung"
              \/ queue' = <<>> /\ replica' = "ended"
           /\ \E u \in updates :
                \E d \in Beginnings(u.records) \cup {u.records} :
                  R!Name(u) = Head(queue) /\ stored' = Imported(stored, d)
<1>1. /\ download /\ queue # <<>> /\ replica \notin {"new", "ended"}
  BY DEF TimeInv, TypeInv, Types, Quiet, R!DownloadSucceeds, R!DownloadHangs,
     R!DownloadSpoiled, R!CrashInImport
<1>2. CASE R!DownloadSucceeds(updates)
  BY <1>1, <1>2, SameDump DEF R!DownloadSucceeds
<1>3. CASE R!DownloadHangs(updates) \/ R!DownloadSpoiled(updates)
  BY <1>1, <1>3, SameDump DEF R!DownloadHangs, R!DownloadSpoiled
<1>4. CASE R!CrashInImport(updates)
  BY <1>1, <1>4, SameDump DEF R!CrashInImport, R!Empty
<1>5. QED
  BY <1>2, <1>3, <1>4

LEMMA ImportStep ==
    ASSUME TimeInv, UNCHANGED vars,
           \/ R!DownloadSucceeds(updates) \/ R!DownloadHangs(updates)
           \/ R!DownloadSpoiled(updates) \/ R!CrashInImport(updates)
    PROVE  QueuePast' /\ StoredPast(stored)' /\ StoredPast(durable)' /\ Fresh' /\ InTurnQueue'
<1>1. /\ queue # <<>> /\ base' = base /\ overtaken' = overtaken
      /\ replica' # "new" /\ durable' \in {durable, stored'}
      /\ queue' = Tail(queue) \/ queue' = <<>>
  BY ImportCases
<1>2. PICK u \in updates :
        \E d \in Beginnings(u.records) \cup {u.records} :
           R!Name(u) = Head(queue) /\ stored' = Imported(stored, d)
  BY ImportCases
<1>3. PICK d \in Beginnings(u.records) \cup {u.records} :
           R!Name(u) = Head(queue) /\ stored' = Imported(stored, d)
  BY <1>2
<1>4. /\ IsDump(d) /\ DOMAIN d \subseteq DOMAIN u.records
      /\ \A h \in DOMAIN d : d[h] = u.records[h]
  BY <1>3, UpdateFacts, BeginningFacts DEF TimeInv, TypeInv
<1>5. QueuePast' /\ StoredPast(stored)' /\ StoredPast(durable)'
  BY <1>1, <1>3, <1>4, ImportPast
<1>6. Fresh'
  BY <1>1 DEF Fresh
<1>7. InTurnQueue'
  <2>1. CASE queue' = Tail(queue)
    BY <1>1, <1>3, <1>4, <2>1, ImportInTurn
  <2>2. CASE queue' = <<>>
    BY <2>2 DEF InTurnQueue, R!InTurn
  <2>3. QED
    BY <1>1, <2>1, <2>2
<1>8. QED
  BY <1>5, <1>6, <1>7

LEMMA SetUpStep ==
    ASSUME TimeInv, SetUp
    PROVE  QueuePast' /\ StoredPast(stored)' /\ StoredPast(durable)' /\ Fresh' /\ InTurnQueue'
<1>1. /\ replica = "new" /\ replica' = "running" /\ queue' = queue /\ overtaken' = overtaken
      /\ current # NoFile /\ base' = current.time /\ durable' = stored'
      /\ stored' = Imported(stored, current.records)
  BY SameDump DEF SetUp, R!SetUp
<1>2. queue = <<>> /\ Stored(stored) = {} /\ stored \in Databases
  BY <1>1 DEF TimeInv, TypeInv, Types, Quiet, Fresh
<1>3. /\ IsDump(current.records)
      /\ \A h \in DOMAIN current.records : current.records[h].updated <= current.time
  BY <1>1, UpdateFacts DEF TimeInv, TypeInv, PublisherInv, CurrentInWindow
<1>4. ASSUME NEW h \in Stored(stored') PROVE stored'[h].updated <= base'
  <2>1. h \in Hashes
    BY DEF Stored
  <2>2. h \in DOMAIN current.records
    BY <1>1, <1>2, <1>3, ImportedFacts
  <2>3. stored'[h] = current.records[h]
    BY <1>1, <1>2, <1>3, <2>1, <2>2, ImportedFacts
  <2>4. QED
    BY <1>1, <1>3, <2>2, <2>3
<1>5. QueuePast' /\ InTurnQueue'
  BY <1>1, <1>2 DEF QueuePast, InTurnQueue, R!InTurn
<1>6. StoredPast(stored)' /\ StoredPast(durable)'
  BY <1>1, <1>4 DEF StoredPast
<1>7. Fresh'
  BY <1>1 DEF Fresh
<1>8. QED
  BY <1>5, <1>6, <1>7

\* Where the updates of the queue come from after a scan.
LEMMA ScanCases ==
    ASSUME TypeInv, R!ScanSucceeds(updates)
    PROVE  /\ \A i \in DOMAIN queue : i \in DOMAIN queue' /\ queue'[i] = queue[i]
           /\ \A i \in DOMAIN queue' :
                \/ i \in DOMAIN queue /\ queue'[i] = queue[i]
                \/ \E u \in updates : R!Interesting(u) /\ queue'[i] = R!Name(u)
           /\ \A u \in updates :
                R!Interesting(u) => \E k \in DOMAIN queue' : queue'[k] = R!Name(u)
<1>1. PICK listing \in Seq(Windows) :
             /\ queue' = queue \o listing
             /\ \A w : w \in Range(listing) <=>
                  \E u \in updates : R!Interesting(u) /\ w = R!Name(u)
  BY ScanFacts
<1>2. queue \in Seq(Windows)
  BY DEF TypeInv, Types
<1>3. /\ \A i \in DOMAIN queue : i \in DOMAIN queue' /\ queue'[i] = queue[i]
      /\ \A i \in DOMAIN queue' :
           \/ i \in DOMAIN queue /\ queue'[i] = queue[i]
           \/ i - Len(queue) \in DOMAIN listing /\ queue'[i] = listing[i - Len(queue)]
  BY <1>1, <1>2, ConcatCases
<1>4. \A k \in DOMAIN listing : listing[k] \in Range(listing)
  BY DEF Range
<1>5. ASSUME NEW i \in DOMAIN queue', ~(i \in DOMAIN queue /\ queue'[i] = queue[i])
      PROVE  \E u \in updates : R!Interesting(u) /\ queue'[i] = R!Name(u)
  <2>1. queue'[i] \in Range(listing)
    BY <1>3, <1>4, <1>5
  <2>2. QED
    BY <1>1, <2>1
<1>6. ASSUME NEW u \in updates, R!Interesting(u)
      PROVE  \E k \in DOMAIN queue' : queue'[k] = R!Name(u)
  <2>1. R!Name(u) \in Range(listing)
    BY <1>1, <1>6
  <2>2. Range(queue') = Range(queue) \cup Range(listing)
    BY <1>1, <1>2, RangeConcat
  <2>3. R!Name(u) \in Range(queue')
    BY <2>1, <2>2
  <2>4. QED
    BY <2>3 DEF Range
<1>7. QED
  BY <1>3, <1>5, <1>6

\* What a scan queues starts at the newest record or later, and is behind.
LEMMA ScanStep ==
    ASSUME TimeInv, UNCHANGED vars, R!ScanSucceeds(updates)
    PROVE  QueuePast' /\ StoredPast(stored)' /\ StoredPast(durable)' /\ Fresh' /\ InTurnQueue'
<1>0. LastEnd' = LastEnd /\ gone' = gone
  BY DEF vars, files, told, LastEnd
<1>3. \A i \in DOMAIN queue' :
         \/ i \in DOMAIN queue /\ queue'[i] = queue[i]
         \/ \E u \in updates : R!Interesting(u) /\ queue'[i] = R!Name(u)
  BY ScanCases DEF TimeInv
<1>4. /\ stored' = stored /\ durable' = durable /\ base' = base /\ replica' = replica
      /\ overtaken' = (overtaken \/ ~R!InTurn(queue'))
      /\ replica # "new"
  BY DEF R!ScanSucceeds, R!Alive, R!Open
<1>5. ASSUME NEW u \in updates, R!Interesting(u)
      PROVE  /\ R!Name(u) = <<u.from, u.to>> /\ u.from <= u.to /\ Behind(u.to)
             /\ \A h \in Stored(stored) : stored[h].updated <= u.from
  <2>1. /\ R!Name(u) = <<u.from, u.to>> /\ u.from <= u.to /\ u.from \in Nat /\ u.to \in Nat
    BY UpdateFacts DEF TimeInv, TypeInv
  <2>2. Behind(u.to)
    BY <2>1, UpdateBehind DEF TimeInv, TypeInv
  <2>3. Highest(stored) <= u.from
    BY <1>5, SameDump DEF R!Interesting, R!Wanted
  <2>4. ASSUME NEW h \in Stored(stored) PROVE stored[h].updated <= u.from
    <3>1. /\ stored[h].updated \in Nat /\ stored[h].updated <= Highest(stored)
          /\ Highest(stored) \in Nat
      BY HighestStored
    <3>2. QED
      BY <2>1, <2>3, <3>1
  <2>5. QED
    BY <2>1, <2>2, <2>4
<1>6. ASSUME NEW i \in DOMAIN queue' PROVE queue'[i][1] <= queue'[i][2] /\ Behind(queue'[i][2])
  <2>1. CASE i \in DOMAIN queue /\ queue'[i] = queue[i]
    BY <2>1 DEF TimeInv, QueuePast
  <2>2. ASSUME NEW u \in updates, R!Interesting(u), queue'[i] = R!Name(u)
        PROVE  queue'[i][1] <= queue'[i][2] /\ Behind(queue'[i][2])
    BY <1>5, <2>2
  <2>3. QED
    BY <1>3, <2>1, <2>2
<1>7. QueuePast'
  BY <1>0, <1>6 DEF QueuePast, Behind, vars
<1>8. StoredPast(stored)' /\ StoredPast(durable)'
  BY <1>0, <1>4 DEF TimeInv, StoredPast, Behind, vars
<1>9. InTurnQueue'
  <2>1. SUFFICES ASSUME ~overtaken'
                 PROVE  /\ R!InTurn(queue')
                        /\ \A i \in DOMAIN queue' : \A h \in Stored(stored) :
                             stored[h].updated <= queue'[i][1]
    BY <1>4 DEF InTurnQueue
  <2>2. ~overtaken /\ R!InTurn(queue')
    BY <1>4, <2>1
  <2>3. ASSUME NEW i \in DOMAIN queue', NEW h \in Stored(stored)
        PROVE  stored[h].updated <= queue'[i][1]
    <3>1. CASE i \in DOMAIN queue /\ queue'[i] = queue[i]
      BY <2>2, <3>1 DEF TimeInv, InTurnQueue
    <3>2. ASSUME NEW u \in updates, R!Interesting(u), queue'[i] = R!Name(u)
          PROVE  stored[h].updated <= queue'[i][1]
      BY <1>5, <3>2
    <3>3. QED
      BY <1>3, <3>1, <3>2
  <2>4. QED
    BY <2>2, <2>3
<1>10. Fresh'
  BY <1>4 DEF Fresh
<1>11. QED
  BY <1>7, <1>8, <1>9, <1>10

\* The front of the queue is refused.
LEMMA RefusedStep ==
    ASSUME TimeInv, UNCHANGED vars, R!DownloadRefused(updates)
    PROVE  QueuePast' /\ StoredPast(stored)' /\ StoredPast(durable)' /\ Fresh' /\ InTurnQueue'
<1>1. /\ queue # <<>> /\ queue \in Seq(Windows) /\ replica # "new"
      /\ queue' = Tail(queue)
      /\ UNCHANGED <<replica, stored, durable, base, overtaken>>
  BY DEF TimeInv, TypeInv, Types, Quiet, R!DownloadRefused
<1>2. \A i \in DOMAIN queue' : /\ i \in Nat /\ i + 1 \in DOMAIN queue
                               /\ queue'[i] = queue[i + 1]
  BY <1>1, TailCases
<1>3. QueuePast' /\ StoredPast(stored)' /\ StoredPast(durable)'
  BY <1>1, <1>2, KeepTimes
<1>4. InTurnQueue'
  <2>1. R!InTurn(queue) => R!InTurn(queue')
    BY <1>2 DEF R!InTurn
  <2>2. QED
    BY <1>1, <1>2, <2>1 DEF TimeInv, InTurnQueue
<1>5. Fresh'
  BY <1>1 DEF Fresh
<1>6. QED
  BY <1>3, <1>4, <1>5

\* The process dies outside of an import.
LEMMA CrashStep ==
    ASSUME TimeInv, UNCHANGED vars, R!Crash
    PROVE  QueuePast' /\ StoredPast(stored)' /\ StoredPast(durable)' /\ Fresh' /\ InTurnQueue'
<1>1. /\ replica' = "ended" /\ queue' = <<>> /\ base' = base /\ overtaken' = overtaken
      /\ stored' \in {stored, durable} /\ durable' = stored'
  BY DEF R!Crash, R!Empty
<1>2. QueuePast' /\ StoredPast(stored)' /\ StoredPast(durable)'
  BY <1>1, KeepTimes
<1>3. Fresh' /\ InTurnQueue'
  BY <1>1 DEF Fresh, InTurnQueue, R!InTurn
<1>4. QED
  BY <1>2, <1>3

\* The steps that leave the queue alone.
LEMMA OtherStep ==
    ASSUME TimeInv, UNCHANGED vars,
           \/ R!ScanStarts \/ R!ScanFails \/ R!ScanRefused \/ R!Unlicensed
           \/ R!HandleStop \/ R!Checkpoint \/ R!Restart
    PROVE  QueuePast' /\ StoredPast(stored)' /\ StoredPast(durable)' /\ Fresh' /\ InTurnQueue'
<1>1. /\ queue' = queue /\ base' = base /\ overtaken' = overtaken /\ stored' = stored
      /\ durable' \in {stored, durable} /\ replica' # "new"
  BY DEF R!ScanStarts, R!ScanFails, R!ScanRefused, R!Unlicensed, R!HandleStop,
     R!Checkpoint, R!Restart, R!Alive, R!Open
<1>2. QueuePast' /\ StoredPast(stored)' /\ StoredPast(durable)'
  BY <1>1, KeepTimes
<1>3. Fresh' /\ InTurnQueue'
  BY <1>1 DEF Fresh, TimeInv, InTurnQueue
<1>4. QED
  BY <1>2, <1>3

\* The steps of the publisher.
LEMMA PublisherStep ==
    ASSUME TimeInv, [Next]_vars, UNCHANGED replicaVars
    PROVE  QueuePast' /\ StoredPast(stored)' /\ StoredPast(durable)' /\ Fresh' /\ InTurnQueue'
<1>1. QueuePast' /\ StoredPast(stored)' /\ StoredPast(durable)'
  BY KeepTimes DEF replicaVars
<1>2. Fresh' /\ InTurnQueue'
  BY DEF replicaVars, TimeInv, Fresh, InTurnQueue
<1>3. QED
  BY <1>1, <1>2

LEMMA TimeInvInit == PublicationInit => TimeInv
<1> SUFFICES ASSUME PublicationInit PROVE TimeInv
  OBVIOUS
<1>1. /\ stored = EmptyDatabase /\ durable = EmptyDatabase /\ queue = <<>>
      /\ overtaken = FALSE
  BY SameDump DEF PublicationInit, R!ReplicaInit
<1>2. Stored(stored) = {} /\ Stored(durable) = {}
  BY <1>1 DEF Stored, EmptyDatabase
<1>3. QED
  BY <1>1, <1>2, TypeInvInit
     DEF TimeInv, QueuePast, StoredPast, Fresh, InTurnQueue, R!InTurn

LEMMA TimeInvStep == TimeInv /\ [PublicationNext]_allVars => TimeInv'
<1> SUFFICES ASSUME TimeInv, [PublicationNext]_allVars PROVE TimeInv'
  OBVIOUS
<1>1. TypeInv'
  BY TypeInvStep DEF TimeInv
<1>2. QueuePast' /\ StoredPast(stored)' /\ StoredPast(durable)' /\ Fresh' /\ InTurnQueue'
  <2>1. CASE ReplicaStep /\ UNCHANGED vars
    BY <2>1, SetUpStep, ScanStep, ImportStep, RefusedStep, CrashStep, OtherStep DEF ReplicaStep
  <2>2. CASE [Next]_vars /\ UNCHANGED replicaVars
    BY <2>2, PublisherStep
  <2>3. QED
    BY <2>1, <2>2 DEF PublicationNext, allVars
<1>3. QED
  BY <1>1, <1>2 DEF TimeInv

LEMMA TimeInvAlways == PublicationSpec => []TimeInv
BY TimeInvInit, TimeInvStep, PTL DEF PublicationSpec

\* No step of a running replica takes a record away or makes it older.
LEMMA NeverOlderStep ==
    ASSUME TimeInv, [PublicationNext]_allVars, replica' = replica, ~overtaken,
           NEW h \in Stored(stored)
    PROVE  h \in Stored(stored') /\ stored[h].updated <= stored'[h].updated
<1>1. stored[h].updated \in Nat
  BY HighestStored
<1>2. CASE stored' = stored
  BY <1>1, <1>2
<1>3. CASE \/ R!DownloadSucceeds(updates) \/ R!DownloadHangs(updates)
           \/ R!DownloadSpoiled(updates) \/ R!CrashInImport(updates)
  <2>1. queue # <<>>
    BY <1>3, ImportCases
  <2>2. PICK u \in updates :
          \E d \in Beginnings(u.records) \cup {u.records} :
             R!Name(u) = Head(queue) /\ stored' = Imported(stored, d)
    BY <1>3, ImportCases
  <2>3. PICK d \in Beginnings(u.records) \cup {u.records} :
             R!Name(u) = Head(queue) /\ stored' = Imported(stored, d)
    BY <2>2
  <2>4. /\ IsDump(d) /\ DOMAIN d \subseteq DOMAIN u.records
        /\ \A g \in DOMAIN d : d[g] = u.records[g]
    BY <2>3, UpdateFacts, BeginningFacts DEF TimeInv, TypeInv
  <2>5. /\ h \in Stored(stored') /\ 1 \in DOMAIN queue
        /\ \/ stored'[h] = stored[h]
           \/ stored'[h].updated \in Nat /\ queue[1][1] <= stored'[h].updated
    BY <2>1, <2>3, <2>4, ImportTimes
  <2>6. stored[h].updated <= queue[1][1] /\ queue[1][1] \in Nat
    BY <2>5, QueueFacts DEF TimeInv, InTurnQueue
  <2>7. QED
    BY <1>1, <2>5, <2>6
<1>4. CASE SetUp \/ R!Crash
  BY <1>4 DEF SetUp, R!SetUp, R!Crash, R!Alive, R!Open
<1>5. QED
  <2>1. CASE UNCHANGED replicaVars
    BY <1>2, <2>1 DEF replicaVars
  <2>2. CASE ReplicaStep
    BY <1>2, <1>3, <1>4, <2>2
       DEF ReplicaStep, R!ScanStarts, R!ScanSucceeds, R!ScanFails, R!ScanRefused, R!Unlicensed,
           R!HandleStop, R!DownloadRefused, R!Checkpoint, R!Restart
  <2>3. QED
    BY <2>1, <2>2 DEF PublicationNext, allVars

----------------------------------------------------------------------------
(* The updates that the replica has. *)

HasIn(X, u) ==
    \A h \in DOMAIN u.records :
        h \in Stored(X) /\ u.records[h].updated <= X[h].updated

\* With a record of a later time than an update's start, the update is there.
Holds(X) ==
    ~spoiled /\ ~overtaken =>
      \A u \in updates :
        base <= u.from /\ GoesOn(u) /\ (\E h \in Stored(X) : u.from < X[h].updated)
          => HasIn(X, u)

\* What comes before an update of the queue is ahead of it, or there already.
NoneForgotten ==
    ~spoiled /\ ~overtaken /\ download =>
      \A i \in DOMAIN queue : \A u \in updates :
        base <= u.from /\ GoesOn(u) /\ u.to <= queue[i][1] /\ R!Name(u) # queue[i]
          => HasIn(stored, u) \/ \E j \in DOMAIN queue : j < i /\ queue[j] = R!Name(u)

HeldInv == TimeInv /\ Holds(stored) /\ Holds(durable) /\ NoneForgotten

\* An update that the publisher makes, if it goes on, starts where nothing is newer.
LEMMA NewUpdate ==
    ASSUME TimeInv, [Next]_vars, NEW u \in updates', u \notin updates, gone' <= u.from
    PROVE  /\ u.from \in Nat /\ Latest(LastEnd, gone) <= u.from
           /\ u.to \in Nat /\ u.from <= u.to /\ R!Name(u) = <<u.from, u.to>>
<1>1. PublisherInv /\ FileInv
  BY DEF TimeInv, TypeInv, PublisherInv, RecordInv
<1>2. PublisherInv'
  BY <1>1, PublisherInvStep
<1>3. u.to \in Nat /\ u.from <= u.to /\ R!Name(u) = <<u.from, u.to>>
  <2>1. TypeOK'
    BY <1>2 DEF PublisherInv, RecordInv, FileInv
  <2>2. u.to \in Nat /\ u.from <= u.to
    BY <2>1 DEF TypeOK, IsUpdate
  <2>3. QED
    BY <2>2 DEF R!Name
<1>4. /\ LastEnd \in Nat /\ gone \in Nat
      /\ LastEnd <= UpdateStart /\ UpdateStart \in Nat
  BY <1>1, GoneFacts DEF GoneBounds
<1>5. MakeUpdate
  BY DEF Next, vars, Tick, Change, Delete, RetryLater, Begin, RemoveSnapshot, RemoveUpdate,
     MakeSnapshot, UnlinkCurrent, LinkCurrent, MakeSnapshotFails, NoUpdate, Exit, Restart,
     outside, files
<1>6. gone' = gone
  BY <1>5 DEF MakeUpdate
<1>7. u.from = UpdateStart
  <2>1. PICK dump, cut :
          updates' = {v \in updates : v.from # UpdateStart \/ v.to # at - 1}
                       \cup {[from |-> UpdateStart, to |-> at - 1, records |-> dump, cut |-> cut]}
    BY <1>5 DEF MakeUpdate
  <2>2. u = [from |-> UpdateStart, to |-> at - 1, records |-> dump, cut |-> cut]
    BY <2>1
  <2>3. QED
    BY <2>2
<1>8. QED
  BY <1>3, <1>4, <1>6, <1>7 DEF Latest

\* The steps of the publisher.
LEMMA PublisherHolds ==
    ASSUME HeldInv, [Next]_vars, UNCHANGED replicaVars
    PROVE  Holds(stored)' /\ Holds(durable)' /\ NoneForgotten'
<1>0. /\ gone \in Nat /\ gone' \in Nat /\ gone <= gone'
      /\ \A u \in updates' : u.from \in Nat
  <2>1. FileInv /\ FileInv'
    BY FileInvStep DEF HeldInv, TimeInv, TypeInv, PublisherInv, RecordInv
  <2>2. QED
    BY <2>1, GoneGrows DEF FileInv, TypeOK, IsUpdate
<1>1. /\ stored' = stored /\ durable' = durable /\ queue' = queue /\ base' = base
      /\ spoiled' = spoiled /\ overtaken' = overtaken /\ download' = download
  BY DEF replicaVars
<1>2. base \in Nat /\ stored \in Databases /\ durable \in Databases
  BY DEF HeldInv, TimeInv, TypeInv, Types
<1>3. ASSUME NEW X \in {stored, durable}, ~spoiled, ~overtaken, NEW u \in updates',
             base <= u.from, gone' <= u.from, NEW h \in Stored(X), u.from < X[h].updated
      PROVE  HasIn(X, u)
  <2>1. CASE u \in updates
    BY <1>0, <1>3, <2>1 DEF HeldInv, Holds, GoesOn
  <2>2. CASE u \notin updates
    <3>1. u.from \in Nat /\ Latest(LastEnd, gone) <= u.from
      BY <1>3, <2>2, NewUpdate DEF HeldInv
    <3>2. X[h].updated <= base \/ X[h].updated <= Latest(LastEnd, gone)
      BY <3>1 DEF HeldInv, TimeInv, StoredPast, Behind
    <3>3. X[h].updated \in Nat
      BY <1>2, StoredFacts
    <3>4. Latest(LastEnd, gone) \in Nat
      BY GoneFacts DEF HeldInv, TimeInv, TypeInv, PublisherInv, RecordInv
    <3>5. QED
      BY <1>2, <1>3, <3>1, <3>2, <3>3, <3>4
  <2>3. QED
    BY <2>1, <2>2
<1>4. Holds(stored)' /\ Holds(durable)'
  <2>1. Holds(stored)'
    BY <1>1, <1>3 DEF Holds, HasIn, GoesOn
  <2>2. Holds(durable)'
    BY <1>1, <1>3 DEF Holds, HasIn, GoesOn
  <2>3. QED
    BY <2>1, <2>2
<1>5. ASSUME ~spoiled, ~overtaken, download, NEW i \in DOMAIN queue, NEW u \in updates',
             base <= u.from, gone' <= u.from, u.to <= queue[i][1], R!Name(u) # queue[i]
      PROVE  HasIn(stored, u) \/ \E j \in DOMAIN queue : j < i /\ queue[j] = R!Name(u)
  <2>1. CASE u \in updates
    BY <1>0, <1>5, <2>1 DEF HeldInv, NoneForgotten, GoesOn
  <2>2. CASE u \notin updates
    <3>1. /\ u.from \in Nat /\ Latest(LastEnd, gone) <= u.from
          /\ u.to \in Nat /\ u.from <= u.to /\ R!Name(u) = <<u.from, u.to>>
      BY <1>5, <2>2, NewUpdate DEF HeldInv
    <3>2. /\ queue[i][1] <= queue[i][2] /\ queue[i][2] <= Latest(LastEnd, gone)
          /\ Latest(LastEnd, gone) \in Nat
      BY GoneFacts DEF HeldInv, TimeInv, QueuePast, Behind, TypeInv, PublisherInv, RecordInv
    <3>3. queue[i] \in Windows /\ queue[i][1] \in Nat /\ queue[i][2] \in Nat
      BY QueueFacts DEF HeldInv, TimeInv
    <3>4. queue[i][1] = u.from /\ queue[i][2] = u.to
      BY <1>5, <3>1, <3>2, <3>3
    <3>5. queue[i] = <<queue[i][1], queue[i][2]>>
      BY <3>3 DEF Windows
    <3>6. QED
      BY <1>5, <3>1, <3>4, <3>5
  <2>3. QED
    BY <2>1, <2>2
<1>6. NoneForgotten'
  BY <1>1, <1>5 DEF NoneForgotten, HasIn, GoesOn
<1>7. QED
  BY <1>4, <1>6

\* Setup: nothing is newer than the snapshot.
LEMMA SetUpHolds ==
    ASSUME HeldInv, SetUp, UNCHANGED vars
    PROVE  Holds(stored)' /\ Holds(durable)' /\ NoneForgotten'
<1>1. /\ replica = "new" /\ download' = download
      /\ current # NoFile /\ base' = current.time /\ durable' = stored'
      /\ stored' = Imported(stored, current.records)
  BY SameDump DEF SetUp, R!SetUp
<1>2. Stored(stored) = {} /\ stored \in Databases /\ ~download
  BY <1>1 DEF HeldInv, TimeInv, TypeInv, Types, Quiet, Fresh
<1>3. /\ IsDump(current.records) /\ current.time \in Nat
      /\ \A h \in DOMAIN current.records : current.records[h].updated <= current.time
  BY <1>1, UpdateFacts DEF HeldInv, TimeInv, TypeInv, PublisherInv, CurrentInWindow
<1>4. ASSUME NEW h \in Stored(stored')
      PROVE  stored'[h].updated <= base' /\ stored'[h].updated \in Nat
  <2>1. h \in Hashes
    BY DEF Stored
  <2>2. h \in DOMAIN current.records
    BY <1>1, <1>2, <1>3, ImportedFacts
  <2>3. stored'[h] = current.records[h]
    BY <1>1, <1>2, <1>3, <2>1, <2>2, ImportedFacts
  <2>4. QED
    BY <1>1, <1>3, <2>2, <2>3, DumpVersions
<1>5. ASSUME NEW u \in updates, base' <= u.from, NEW h \in Stored(stored'),
             u.from < stored'[h].updated
      PROVE  FALSE
  <2>1. u.from \in Nat /\ base' \in Nat
    BY <1>1, <1>3, UpdateFacts DEF HeldInv, TimeInv, TypeInv
  <2>2. QED
    BY <1>4, <1>5, <2>1
<1>6. Holds(stored)'
  BY <1>5 DEF Holds, vars
<1>7. Holds(durable)'
  BY <1>1, <1>5 DEF Holds, vars
<1>8. NoneForgotten'
  BY <1>1, <1>2 DEF NoneForgotten
<1>9. QED
  BY <1>6, <1>7, <1>8

\* A scan: what it passes over is there, and the rest is in turn.
LEMMA ScanHolds ==
    ASSUME HeldInv, R!ScanSucceeds(updates), UNCHANGED vars
    PROVE  Holds(stored)' /\ Holds(durable)' /\ NoneForgotten'
<1>1. /\ stored' = stored /\ durable' = durable /\ base' = base /\ spoiled' = spoiled
      /\ overtaken' = (overtaken \/ ~R!InTurn(queue'))
      /\ queue # <<>> => download' = download
      /\ updates' = updates /\ gone' = gone
  BY DEF R!ScanSucceeds, vars, files, told
<1>2. Holds(stored)' /\ Holds(durable)'
  BY <1>1 DEF HeldInv, Holds, GoesOn
<1>3. TimeInv'
  BY TimeInvStep DEF HeldInv, PublicationNext, ReplicaStep, allVars, vars
<1>4. ASSUME ~spoiled, ~overtaken', download', NEW i \in DOMAIN queue', NEW u \in updates,
             base <= u.from, GoesOn(u), u.to <= queue'[i][1], R!Name(u) # queue'[i]
      PROVE  HasIn(stored, u) \/ \E j \in DOMAIN queue' : j < i /\ queue'[j] = R!Name(u)
  <2>1. R!InTurn(queue') /\ ~overtaken
    BY <1>1, <1>4
  <2>2. /\ u.from \in Nat /\ u.to \in Nat /\ u.from <= u.to /\ R!Name(u) = <<u.from, u.to>>
    BY UpdateFacts DEF HeldInv, TimeInv, TypeInv
  <2>3. /\ queue'[i] \in Windows /\ queue'[i][1] \in Nat /\ queue'[i][2] \in Nat
        /\ queue'[i][1] <= queue'[i][2]
    <3>1. TypeInv' /\ QueuePast'
      BY <1>3 DEF TimeInv
    <3>2. queue' \in Seq(Windows)
      BY <3>1 DEF TypeInv, Types
    <3>3. queue'[i] \in Windows
      BY <3>2, LenProperties
    <3>4. queue'[i][1] <= queue'[i][2]
      BY <3>1 DEF QueuePast
    <3>5. QED
      BY <3>3, <3>4 DEF Windows
  <2>4. ASSUME NEW k \in DOMAIN queue', queue'[k] = R!Name(u) PROVE k < i
    <3>1. k \in Int /\ i \in Int /\ k # i
      <4>1. queue' \in Seq(Windows)
        BY <1>3 DEF TimeInv, TypeInv, Types
      <4>2. QED
        BY <1>4, <2>4, <4>1, LenProperties
    <3>2. ASSUME i < k PROVE FALSE
      <4>1. queue'[i][2] <= u.from
        BY <2>1, <2>2, <2>4, <3>2 DEF R!InTurn
      <4>2. queue'[i][1] = u.from /\ queue'[i][2] = u.to
        BY <1>4, <2>2, <2>3, <4>1
      <4>3. queue'[i] = <<queue'[i][1], queue'[i][2]>>
        BY <2>3 DEF Windows
      <4>4. QED
        BY <1>4, <2>2, <4>2, <4>3
    <3>3. QED
      BY <3>1, <3>2
  <2>5. CASE \E k \in DOMAIN queue' : queue'[k] = R!Name(u)
    BY <2>4, <2>5
  <2>6. CASE ~\E k \in DOMAIN queue' : queue'[k] = R!Name(u)
    <3>1. ~R!Interesting(u)
      BY <2>6, ScanCases DEF HeldInv, TimeInv
    <3>2. ~R!Contains(queue, R!Name(u))
      <4>1. queue \in Seq(Windows)
        BY DEF HeldInv, TimeInv, TypeInv, Types
      <4>2. \A k \in DOMAIN queue : queue[k] # R!Name(u)
        BY <2>6, ScanCases DEF HeldInv, TimeInv
      <4>3. QED
        BY <4>1, <4>2, LenProperties DEF R!Contains
    <3>3. ~(u.from >= Highest(stored))
      BY <3>1, <3>2, SameDump DEF R!Interesting, R!Wanted
    <3>4. \E h \in Stored(stored) : u.from < stored[h].updated
      BY <2>2, <3>3, HighestStored DEF HeldInv
    <3>5. QED
      BY <1>4, <2>1, <3>4 DEF HeldInv, Holds
  <2>7. QED
    BY <2>5, <2>6
<1>5. NoneForgotten'
  BY <1>1, <1>4 DEF NoneForgotten, HasIn, GoesOn
<1>6. QED
  BY <1>2, <1>5

\* What was there stays there, when the records do not go back.
LEMMA StillHolds ==
    ASSUME TypeInv, NEW Y \in Databases,
           \A h \in Stored(stored) : h \in Stored(Y) /\ stored[h].updated <= Y[h].updated,
           NEW u \in updates, HasIn(stored, u)
    PROVE  HasIn(Y, u)
<1>1. IsDump(u.records)
  BY UpdateFacts DEF TypeInv
<1>2. stored \in Databases
  BY DEF TypeInv, Types
<1>3. ASSUME NEW h \in DOMAIN u.records
      PROVE  h \in Stored(Y) /\ u.records[h].updated <= Y[h].updated
  <2>1. h \in Stored(stored) /\ u.records[h].updated <= stored[h].updated
    BY DEF HasIn
  <2>2. h \in Stored(Y) /\ stored[h].updated <= Y[h].updated
    BY <2>1
  <2>3. u.records[h].updated \in Nat /\ stored[h].updated \in Nat /\ Y[h].updated \in Nat
    BY <1>1, <1>2, <2>1, <2>2, DumpVersions, StoredFacts
  <2>4. QED
    BY <2>1, <2>2, <2>3
<1>4. QED
  BY <1>3 DEF HasIn

\* A download: what the update overtakes was there before, and the update is now.
LEMMA DownloadHolds ==
    ASSUME HeldInv, R!DownloadSucceeds(updates), UNCHANGED vars
    PROVE  Holds(stored)' /\ Holds(durable)' /\ NoneForgotten'
<1>1. /\ durable' = durable /\ base' = base /\ spoiled' = spoiled /\ overtaken' = overtaken
      /\ replica' = replica /\ queue' = Tail(queue) /\ download /\ updates' = updates
      /\ gone' = gone
  BY DEF R!DownloadSucceeds, vars, files, told
<1>2. PICK n \in updates : R!Name(n) = Head(queue) /\ stored' = Imported(stored, n.records)
  BY SameDump DEF R!DownloadSucceeds
<1>3. TimeInv' /\ [PublicationNext]_allVars
  BY TimeInvStep DEF HeldInv, PublicationNext, ReplicaStep, allVars, vars
<1>4. stored' \in Databases
  BY <1>3 DEF TimeInv, TypeInv, Types
<1>5. IsDump(n.records) /\ queue # <<>> /\ queue \in Seq(Windows)
  BY <1>1, UpdateFacts DEF HeldInv, TimeInv, TypeInv, Types
<1>6. HasIn(stored', n)
  <2>1. ASSUME NEW h \in DOMAIN n.records
        PROVE  h \in Stored(stored') /\ n.records[h].updated <= stored'[h].updated
    <3>1. stored \in Databases
      BY DEF HeldInv, TimeInv, TypeInv, Types
    <3>2. h \in Stored(stored') /\ stored'[h] = n.records[h] /\ n.records[h].updated \in Nat
      BY <1>2, <1>5, <3>1, ImportedFacts, DumpVersions
    <3>3. QED
      BY <3>2
  <2>2. QED
    BY <2>1 DEF HasIn
<1>7. ASSUME ~overtaken, NEW u \in updates, HasIn(stored, u) PROVE HasIn(stored', u)
  <2>1. \A h \in Stored(stored) : h \in Stored(stored') /\ stored[h].updated <= stored'[h].updated
    BY <1>1, <1>3, <1>7, NeverOlderStep DEF HeldInv
  <2>2. QED
    BY <1>4, <1>7, <2>1, StillHolds DEF HeldInv, TimeInv
<1>8. \A u \in updates : R!Name(u) = Head(queue) => u = n
  BY <1>2 DEF HeldInv, TimeInv, TypeInv, PublisherInv, Apart
<1>9. ASSUME ~spoiled, ~overtaken, NEW u \in updates, base <= u.from, GoesOn(u),
             NEW h \in Stored(stored'), u.from < stored'[h].updated
      PROVE  HasIn(stored', u)
  <2>1. CASE u = n
    BY <1>6, <2>1
  <2>2. CASE u # n
    <3>1. /\ n.from = queue[1][1] /\ 1 \in DOMAIN queue
          /\ \/ h \in Stored(stored) /\ stored'[h] = stored[h]
             \/ stored'[h].updated \in Nat /\ stored'[h].updated <= n.to
      BY <1>2, <1>5, ImportTimes DEF HeldInv
    <3>2. CASE h \in Stored(stored) /\ stored'[h] = stored[h]
      BY <1>7, <1>9, <3>2 DEF HeldInv, Holds
    <3>3. CASE stored'[h].updated \in Nat /\ stored'[h].updated <= n.to
      <4>1. u.from \in Nat /\ u.to \in Nat /\ n.from \in Nat /\ n.to \in Nat
        BY UpdateFacts DEF HeldInv, TimeInv, TypeInv
      <4>2. u.to <= n.from \/ n.to <= u.from
        BY <2>2 DEF HeldInv, TimeInv, TypeInv, PublisherInv, Apart
      <4>3. u.to <= queue[1][1]
        BY <1>9, <3>1, <3>3, <4>1, <4>2
      <4>4. R!Name(u) # queue[1]
        BY <1>2, <1>5, <1>8, <2>2, TailCases
      <4>5. HasIn(stored, u) \/ \E j \in DOMAIN queue : j < 1 /\ queue[j] = R!Name(u)
        BY <1>1, <1>9, <3>1, <4>3, <4>4 DEF HeldInv, NoneForgotten
      <4>6. \A j \in DOMAIN queue : ~(j < 1)
        BY <1>5, LenProperties
      <4>7. QED
        BY <1>7, <1>9, <4>5, <4>6
    <3>4. QED
      BY <3>1, <3>2, <3>3
  <2>3. QED
    BY <2>1, <2>2
<1>10. Holds(stored)' /\ Holds(durable)'
  <2>1. Holds(stored)'
    BY <1>1, <1>9 DEF Holds, HasIn, GoesOn
  <2>2. Holds(durable)'
    BY <1>1 DEF HeldInv, Holds, HasIn, GoesOn
  <2>3. QED
    BY <2>1, <2>2
<1>11. ASSUME ~spoiled, ~overtaken, NEW i \in DOMAIN queue', NEW u \in updates,
              base <= u.from, GoesOn(u), u.to <= queue'[i][1], R!Name(u) # queue'[i]
       PROVE  HasIn(stored', u) \/ \E j \in DOMAIN queue' : j < i /\ queue'[j] = R!Name(u)
  <2>1. /\ Len(queue) \in Nat \ {0} /\ DOMAIN queue = 1 .. Len(queue)
        /\ DOMAIN queue' = 1 .. Len(queue) - 1 /\ Head(queue) = queue[1]
        /\ \A k \in DOMAIN queue' : k + 1 \in DOMAIN queue /\ queue'[k] = queue[k + 1]
    BY <1>1, <1>5, TailCases
  <2>2. HasIn(stored, u) \/ \E j \in DOMAIN queue : j < i + 1 /\ queue[j] = R!Name(u)
    BY <1>1, <1>11, <2>1 DEF HeldInv, NoneForgotten
  <2>3. ASSUME NEW j \in DOMAIN queue, j < i + 1, queue[j] = R!Name(u)
        PROVE  HasIn(stored', u) \/ \E k \in DOMAIN queue' : k < i /\ queue'[k] = R!Name(u)
    <3>1. CASE j = 1
      BY <1>6, <1>8, <2>1, <2>3, <3>1
    <3>2. CASE j # 1
      <4>1. j - 1 \in DOMAIN queue' /\ j - 1 < i /\ (j - 1) + 1 = j
        BY <2>1, <2>3, <3>2
      <4>2. queue'[j - 1] = R!Name(u)
        BY <2>1, <2>3, <4>1
      <4>3. QED
        BY <4>1, <4>2
    <3>3. QED
      BY <3>1, <3>2
  <2>4. QED
    BY <1>7, <1>11, <2>2, <2>3
<1>12. NoneForgotten'
  BY <1>1, <1>11 DEF NoneForgotten, HasIn, GoesOn
<1>13. QED
  BY <1>10, <1>12

\* The steps that bring no update, or after which an import is spoiled.
LEMMA OtherHolds ==
    ASSUME HeldInv, UNCHANGED vars,
           \/ R!ScanStarts \/ R!ScanFails \/ R!ScanRefused \/ R!Unlicensed \/ R!HandleStop
           \/ R!DownloadHangs(updates) \/ R!DownloadSpoiled(updates)
           \/ R!DownloadRefused(updates) \/ R!Checkpoint \/ R!Crash \/ R!CrashInImport(updates) \/ R!Restart
    PROVE  Holds(stored)' /\ Holds(durable)' /\ NoneForgotten'
<1>1. CASE R!DownloadHangs(updates) \/ R!DownloadSpoiled(updates) \/ R!CrashInImport(updates)
  <2>1. spoiled' = TRUE
    BY <1>1 DEF R!DownloadHangs, R!DownloadSpoiled, R!CrashInImport
  <2>2. QED
    BY <2>1 DEF Holds, NoneForgotten
<1>2. CASE ~(\/ R!DownloadHangs(updates) \/ R!DownloadSpoiled(updates)
             \/ R!CrashInImport(updates))
  <2>1. /\ stored' \in {stored, durable} /\ durable' \in {stored, durable}
        /\ base' = base /\ spoiled' = spoiled /\ overtaken' = overtaken
        /\ \/ download' = FALSE
           \/ download' = download /\ queue' = queue /\ stored' = stored
    BY <1>2 DEF R!ScanStarts, R!ScanFails, R!ScanRefused, R!Unlicensed, R!HandleStop,
       R!DownloadRefused, R!Checkpoint, R!Crash, R!Empty, R!Restart
  <2>2. Holds(stored)' /\ Holds(durable)'
    BY <2>1 DEF HeldInv, Holds, GoesOn, vars, files, told
  <2>3. NoneForgotten'
    <3>1. CASE download' = FALSE
      BY <3>1 DEF NoneForgotten
    <3>2. CASE download' = download /\ queue' = queue /\ stored' = stored
      BY <2>1, <3>2 DEF HeldInv, NoneForgotten, GoesOn, vars, files, told
    <3>3. QED
      BY <2>1, <3>1, <3>2
  <2>4. QED
    BY <2>2, <2>3
<1>3. QED
  BY <1>1, <1>2

LEMMA HeldInvInit == PublicationInit => HeldInv
<1> SUFFICES ASSUME PublicationInit PROVE HeldInv
  OBVIOUS
<1>1. updates = {} /\ download = FALSE
  BY DEF PublicationInit, Init, R!ReplicaInit
<1>2. QED
  BY <1>1, TimeInvInit DEF HeldInv, Holds, NoneForgotten

LEMMA HeldInvStep == HeldInv /\ [PublicationNext]_allVars => HeldInv'
<1> SUFFICES ASSUME HeldInv, [PublicationNext]_allVars PROVE HeldInv'
  OBVIOUS
<1>1. TimeInv'
  BY TimeInvStep DEF HeldInv
<1>2. Holds(stored)' /\ Holds(durable)' /\ NoneForgotten'
  <2>1. CASE ReplicaStep /\ UNCHANGED vars
    BY <2>1, SetUpHolds, ScanHolds, DownloadHolds, OtherHolds DEF ReplicaStep
  <2>2. CASE [Next]_vars /\ UNCHANGED replicaVars
    BY <2>2, PublisherHolds
  <2>3. QED
    BY <2>1, <2>2 DEF PublicationNext, allVars
<1>3. QED
  BY <1>1, <1>2 DEF HeldInv

LEMMA HeldInvAlways == PublicationSpec => []HeldInv
BY HeldInvInit, HeldInvStep, PTL DEF PublicationSpec

----------------------------------------------------------------------------
\* The variables of the publisher and of the replica stay in their types, no update
\* is in the queue twice, and a download has an update at the front of the queue.
THEOREM AlwaysPublicationTypeOK == PublicationSpec => []PublicationTypeOK
<1>1. TypeInv => PublicationTypeOK
  BY TypesAreTypes DEF TypeInv, PublicationTypeOK, PublisherInv, RecordInv, FileInv
<1>2. QED
  BY <1>1, TypeInvAlways, PTL

\* After every handler of a running replica the next download is in flight, or the
\* queue is empty, or the server has refused an update since the replica started: then
\* the queue may wait until a restart, for no timer starts a download
\* (start_update_download, handle_update_download_success).
THEOREM AlwaysQueueMoves == PublicationSpec => []QueueMoves
<1>1. TypeInv => QueueMoves
  BY DEF TypeInv
<1>2. QED
  BY <1>1, TypeInvAlways, PTL

\* No step takes a record of the replica away or brings it back to an older version,
\* but a crash, which may lose commits; and as long as handle_updates_scan_success has
\* put no update behind a later one.
THEOREM StepsNeverOlder == PublicationSpec => NeverOlder
<1>1. TimeInv /\ [PublicationNext]_allVars =>
        [replica' = replica /\ ~overtaken
           => \A h \in Stored(stored) : /\ h \in Stored(stored')
                                        /\ stored[h].updated <= stored'[h].updated]_allVars
  BY NeverOlderStep
<1>2. QED
  BY <1>1, TimeInvAlways, PTL DEF PublicationSpec, NeverOlder

\* What handle_updates_scan_success does not queue because it starts before the
\* newest record is in the database, whatever expires, is refused or is lost in a
\* crash; if no import was spoiled and the queue was in turn, and but for the updates
\* that start before the snapshot, or before the end of an update that has expired.
THEOREM AlwaysPassedOverIsHeld == PublicationSpec => []PassedOverIsHeld
<1>1. HeldInv => PassedOverIsHeld
  <2>1. SUFFICES ASSUME HeldInv, NEW u \in updates, ~spoiled, ~overtaken,
                        u.from >= base, GoesOn(u), ~R!Wanted(u.from)
                 PROVE  Has(u)
    BY DEF PassedOverIsHeld, PassedOver
  <2>2. u.from \in Nat /\ base \in Nat
    BY <2>1, UpdateFacts DEF HeldInv, TimeInv, TypeInv, Types
  <2>3. ~(u.from >= Highest(stored))
    BY <2>1, SameDump DEF R!Wanted
  <2>4. \E h \in Stored(stored) : u.from < stored[h].updated
    BY <2>1, <2>2, <2>3, HighestStored DEF HeldInv
  <2>5. HasIn(stored, u)
    BY <2>1, <2>2, <2>4 DEF HeldInv, Holds
  <2>6. QED
    BY <2>5 DEF HasIn, Has
<1>2. QED
  BY <1>1, HeldInvAlways, PTL

====
