---- MODULE Dump ----
(***************************************************************************)
(* The files that carry records from the publisher to its replicas: what   *)
(* dump_modified_records and dump_modified_records2 (common/database.cpp)  *)
(* write, and what bohuno::database::import (bohuno/bohuno-database.cpp)   *)
(* makes of it.                                                            *)
(*                                                                         *)
(* Of a record only its time `updated' and its identity matter: two        *)
(* versions of a record differ in their number.  A dump is a function from *)
(* the digests it contains to their versions.                              *)
(***************************************************************************)
EXTENDS Naturals, Functions

CONSTANT Hashes  \* the digests that have records

Versions == [updated : Nat, number : Nat]

NoVersion == [missing |-> TRUE]

Databases == [Hashes -> Versions \cup {NoVersion}]

EmptyDatabase == [h \in Hashes |-> NoVersion]

IsDump(d) == DOMAIN d \subseteq Hashes /\ d \in [DOMAIN d -> Versions]

Stored(db) == {h \in Hashes : db[h] # NoVersion}

Within(db, from, to) == {h \in Stored(db) : db[h].updated \in from .. to}

\* The records that the cursor on the index finds first from a time on; the
\* order of digests with the same time is left open.
Firsts(db, from) ==
    {h \in Stored(db) :
       /\ db[h].updated >= from
       /\ \A g \in Stored(db) :
            db[g].updated >= from => db[h].updated <= db[g].updated}

\* The first part of a dump in the order of the index, in which
\* dump_modified_records2 writes: what it has written when it ends early, and what
\* an import of it that does not reach its end may have committed.
Beginnings(dump) ==
    {Restrict(dump, S) :
       S \in {S \in SUBSET DOMAIN dump :
                \A h \in S, g \in DOMAIN dump \ S :
                  dump[h].updated <= dump[g].updated}}

\* dump_modified_records: every record last updated within the window, in no
\* order.  Any error of the cursor ends the loop as the last record does, and
\* nobody asks whether the writes went well.
DumpsModified(db, from, to, fails) ==
    IF fails
      THEN {Restrict(db, S) : S \in SUBSET Within(db, from, to)}
      ELSE {Restrict(db, Within(db, from, to))}

\* mutant of DumpsModified2: the walk starts on the second record again after
\* its first step.
DumpsWithoutTwo(db, from, to, fails) ==
    {Restrict(db, Within(db, from, to) \ {h, g}) :
       h \in Firsts(db, from), g \in Within(db, from, to)}
      \cup (IF Firsts(db, from) = {} THEN {<<>>} ELSE {})

\* The walk of dump_modified_records2: the cursor is positioned on the first record
\* at or after the start of the window, and writing starts with the next one.
Walks(db, from, to) ==
    IF Firsts(db, from) = {}
      THEN {<<>>}
      ELSE {Restrict(db, Within(db, from, to) \ {h}) : h \in Firsts(db, from)}

\* dump_modified_records2, which no more looks at errors than the other.
DumpsModified2(db, from, to, fails) ==
    IF fails
      THEN UNION {Beginnings(d) : d \in Walks(db, from, to)}
      ELSE Walks(db, from, to)

\* database::lookup_last: the time of the last record of the index, or 0.
Highest(db) ==
    IF Stored(db) = {}
      THEN 0
      ELSE CHOOSE t \in {db[h].updated : h \in Stored(db)} :
             \A h \in Stored(db) : db[h].updated <= t

\* database::import: every record of the dump replaces the one that is there.
Imported(db, dump) ==
    [h \in Hashes |-> IF h \in DOMAIN dump THEN dump[h] ELSE db[h]]

====
