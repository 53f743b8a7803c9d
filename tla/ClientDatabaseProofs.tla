---- MODULE ClientDatabaseProofs ----
(***************************************************************************)
(* Proofs about ClientDatabase, for every number of updates, breaks and    *)
(* stalled writes, and every bound on the outstanding operations.          *)
(*                                                                         *)
(* An operation that was started is outstanding until its handler has run: *)
(* held by the kernel or the timer, cancelled, or queued as complete.  The *)
(* proofs keep a ledger of each kind of operation; every step ends at most *)
(* one and starts a known number of others.                                *)
(***************************************************************************)
EXTENDS ClientDatabase, SeqLemmas, FiniteSetTheorems

Completions == [op : Operations, failed : BOOLEAN]

\* Where completions of operation op are in a queue.
Places(s, op) == {k \in DOMAIN s : s[k].op = op}

\* A queue has finitely many completions of an operation, and none only if there
\* is none.
LEMMA CountType ==
    ASSUME NEW s \in Seq(Completions), NEW op
    PROVE  /\ IsFiniteSet(Places(s, op))
           /\ Count(s, op) = Cardinality(Places(s, op)) /\ Count(s, op) \in Nat
           /\ Count(s, op) = 0 <=> \A k \in DOMAIN s : s[k].op # op
<1>1. Len(s) \in Nat /\ DOMAIN s = 1 .. Len(s)
  BY LenProperties
<1>2. IsFiniteSet(1 .. Len(s))
  BY <1>1, FS_Interval
<1>3. Places(s, op) \in SUBSET (1 .. Len(s))
  BY <1>1 DEF Places
<1>4. IsFiniteSet(Places(s, op))
  BY <1>2, <1>3, FS_Subset
<1>5. Count(s, op) = Cardinality(Places(s, op))
  BY DEF Count, Places
<1>6. Cardinality(Places(s, op)) \in Nat
  BY <1>4, FS_CardinalityType
<1>7. Cardinality(Places(s, op)) = 0 <=> Places(s, op) = {}
  BY <1>4, FS_EmptySet
<1>8. QED
  BY <1>4, <1>5, <1>6, <1>7 DEF Places

\* Posting a queue of completions behind another adds up.
LEMMA CountConcat ==
    ASSUME NEW s \in Seq(Completions), NEW t \in Seq(Completions), NEW op
    PROVE  Count(s \o t, op) = Count(s, op) + Count(t, op)
<1> DEFINE A == Places(s, op)
           B == Places(t, op)
           C == {k + Len(s) : k \in B}
           f == [k \in B |-> k + Len(s)]
<1>1. /\ Len(s) \in Nat /\ DOMAIN s = 1 .. Len(s)
      /\ Len(t) \in Nat /\ DOMAIN t = 1 .. Len(t)
  BY LenProperties
<1>2. /\ s \o t \in Seq(Completions)
      /\ DOMAIN (s \o t) = 1 .. Len(s) + Len(t)
      /\ \A i \in 1 .. Len(s) + Len(t) :
           (s \o t)[i] = IF i <= Len(s) THEN s[i] ELSE t[i - Len(s)]
  BY ConcatProperties, LenProperties
<1>3. /\ \A k \in A : k \in 1 .. Len(s) /\ s[k].op = op
      /\ \A k \in B : k \in 1 .. Len(t) /\ t[k].op = op
  BY <1>1 DEF Places
<1>4. Places(s \o t, op) \subseteq A \cup C
  <2>1. SUFFICES ASSUME NEW k \in Places(s \o t, op), k \notin A PROVE k \in C
    OBVIOUS
  <2>2. k \in 1 .. Len(s) + Len(t) /\ (s \o t)[k].op = op
    BY <1>2 DEF Places
  <2>3. ~(k <= Len(s))
    BY <1>1, <1>2, <2>1, <2>2 DEF Places
  <2>4. k - Len(s) \in 1 .. Len(t) /\ t[k - Len(s)].op = op
    BY <1>1, <1>2, <2>2, <2>3
  <2>5. k - Len(s) \in B /\ k = (k - Len(s)) + Len(s)
    BY <1>1, <2>2, <2>4 DEF Places
  <2>6. QED
    BY <2>5
<1>5. A \cup C \subseteq Places(s \o t, op)
  <2>1. ASSUME NEW k \in A PROVE k \in Places(s \o t, op)
    BY <1>1, <1>2, <1>3 DEF Places
  <2>2. ASSUME NEW k \in B PROVE k + Len(s) \in Places(s \o t, op)
    <3>1. k \in 1 .. Len(t) /\ t[k].op = op
      BY <1>3
    <3>2. /\ k + Len(s) \in 1 .. Len(s) + Len(t) /\ ~(k + Len(s) <= Len(s))
          /\ (k + Len(s)) - Len(s) = k
      BY <1>1, <3>1
    <3>3. QED
      BY <1>2, <3>1, <3>2 DEF Places
  <2>3. QED
    BY <2>1, <2>2
<1>6. A \cap C = {}
  BY <1>1, <1>3
<1>7. f \in Bijection(B, C)
  <2>1. f \in [B -> C]
    OBVIOUS
  <2>2. \A i, j \in B : f[i] = f[j] => i = j
    BY <1>1, <1>3
  <2>3. \A m \in C : \E k \in B : f[k] = m
    OBVIOUS
  <2> HIDE DEF f, B, C
  <2>4. QED
    BY <2>1, <2>2, <2>3 DEF Bijection, Injection, Surjection, IsInjective
<1>8. IsFiniteSet(A) /\ IsFiniteSet(B)
  BY CountType
<1>9. IsFiniteSet(C) /\ Cardinality(C) = Cardinality(B)
  <2>1. ExistsBijection(B, C)
    BY <1>7 DEF ExistsBijection
  <2> HIDE DEF B, C
  <2>2. QED
    BY <1>8, <2>1, FS_Bijection
<1>10. Places(s \o t, op) = A \cup C
  BY <1>4, <1>5
<1>11. /\ Count(s, op) = Cardinality(A) /\ Count(t, op) = Cardinality(B)
       /\ Count(s \o t, op) = Cardinality(Places(s \o t, op))
       /\ Count(s, op) \in Nat /\ Count(t, op) \in Nat
  BY <1>2, CountType
<1> HIDE DEF A, B, C
<1>12. Cardinality(A \cup C) = Cardinality(A) + Cardinality(C) - Cardinality(A \cap C)
  BY <1>8, <1>9, FS_Union
<1>13. Cardinality(A \cap C) = 0
  BY <1>6, FS_EmptySet
<1>14. QED
  BY <1>9, <1>10, <1>11, <1>12, <1>13

\* An empty queue has no completions.
LEMMA CountEmpty == \A op : Count(<<>>, op) = 0
<1>1. <<>> \in Seq(Completions) /\ DOMAIN <<>> = {}
  BY EmptySeq
<1>2. QED
  BY <1>1, CountType

\* A queue of n equal completions.
LEMMA CountTimes ==
    ASSUME NEW n \in Nat, NEW c \in Completions, NEW op
    PROVE  /\ Times(n, c) \in Seq(Completions)
           /\ Count(Times(n, c), op) = IF c.op = op THEN n ELSE 0
<1> DEFINE t == Times(n, c)
<1>1. t \in [1 .. n -> Completions] /\ \A k \in 1 .. n : t[k] = c
  BY DEF Times
<1>2. t \in Seq(Completions)
  <2>1. t \in UNION {[1 .. m -> Completions] : m \in Nat}
    BY <1>1, Zenon
  <2>2. QED
    BY <2>1, SeqDef, Zenon
<1>3. Count(t, op) = Cardinality(Places(t, op))
  BY <1>2, CountType
<1>4. CASE c.op = op
  <2>1. Places(t, op) = 1 .. n
    BY <1>1, <1>4 DEF Places
  <2>2. Cardinality(1 .. n) = n
    BY FS_Interval
  <2>3. QED
    BY <1>2, <1>3, <1>4, <2>1, <2>2
<1>5. CASE c.op # op
  <2>1. Places(t, op) = {}
    BY <1>1, <1>5 DEF Places
  <2>2. QED
    BY <1>2, <1>3, <1>5, <2>1, FS_EmptySet
<1>6. QED
  BY <1>4, <1>5

\* A queue of one completion.
LEMMA CountOne ==
    ASSUME NEW c \in Completions, NEW op
    PROVE  <<c>> \in Seq(Completions) /\ Count(<<c>>, op) = One(c.op = op)
<1>1. <<c>> \in Seq(Completions) /\ DOMAIN <<c>> = {1} /\ <<c>>[1] = c
  OBVIOUS
<1>2. Count(<<c>>, op) = Cardinality(Places(<<c>>, op))
  BY <1>1, CountType
<1>3. Places(<<c>>, op) = IF c.op = op THEN {1} ELSE {}
  BY <1>1 DEF Places
<1>4. QED
  BY <1>1, <1>2, <1>3, FS_EmptySet, FS_Singleton DEF One

\* The handler at the front takes one completion of its operation off the queue.
LEMMA CountTail ==
    ASSUME NEW s \in Seq(Completions), s # <<>>, NEW op
    PROVE  /\ Tail(s) \in Seq(Completions) /\ Head(s) \in Completions
           /\ Count(s, op) = One(Head(s).op = op) + Count(Tail(s), op)
<1>1. Tail(s) \in Seq(Completions) /\ Head(s) \in Completions
  BY TailFacts
<1>2. s = <<Head(s)>> \o Tail(s)
  OBVIOUS
<1>3. <<Head(s)>> \in Seq(Completions) /\ Count(<<Head(s)>>, op) = One(Head(s).op = op)
  BY <1>1, CountOne
<1>4. Count(<<Head(s)>> \o Tail(s), op) = Count(<<Head(s)>>, op) + Count(Tail(s), op)
  BY <1>1, <1>3, CountConcat
<1>5. QED
  BY <1>1, <1>2, <1>3, <1>4

----------------------------------------------------------------------------
\* The operations whose handlers have yet to run, in a state given by its parts.
WritesOut == Queued("write") + Len(writing)

\* The reactor queues what is cancelled, and what it finds complete.
LEMMA AbortedCounts ==
    ASSUME TypeOK
    PROVE  /\ Aborted \in Seq(Completions)
           /\ \A op \in Operations : Count(Aborted, op) = cancelled[op]
<1>1. /\ cancelled.read \in Nat /\ cancelled.write \in Nat
      /\ cancelled.connect \in Nat /\ cancelled.wait \in Nat
  BY DEF TypeOK, Operations
<1> DEFINE r == Times(cancelled.read, Failed("read"))
           w == Times(cancelled.write, Failed("write"))
           c == Times(cancelled.connect, Failed("connect"))
           t == Times(cancelled.wait, Failed("wait"))
<1>2. \A op \in Operations : Failed(op) \in Completions /\ Failed(op).op = op
  BY DEF Failed, Completions
<1>3. /\ Failed("read") \in Completions /\ Failed("write") \in Completions
      /\ Failed("connect") \in Completions /\ Failed("wait") \in Completions
      /\ Failed("read").op = "read" /\ Failed("write").op = "write"
      /\ Failed("connect").op = "connect" /\ Failed("wait").op = "wait"
  BY <1>2 DEF Operations
<1>4. ASSUME NEW op
      PROVE  /\ r \in Seq(Completions) /\ w \in Seq(Completions)
             /\ c \in Seq(Completions) /\ t \in Seq(Completions)
             /\ Count(r, op) = IF "read" = op THEN cancelled.read ELSE 0
             /\ Count(w, op) = IF "write" = op THEN cancelled.write ELSE 0
             /\ Count(c, op) = IF "connect" = op THEN cancelled.connect ELSE 0
             /\ Count(t, op) = IF "wait" = op THEN cancelled.wait ELSE 0
  <2> HIDE DEF r, w, c, t
  <2>1. r \in Seq(Completions) /\ Count(r, op) = IF "read" = op THEN cancelled.read ELSE 0
    <3>1. /\ Times(cancelled.read, Failed("read")) \in Seq(Completions)
          /\ Count(Times(cancelled.read, Failed("read")), op)
               = IF Failed("read").op = op THEN cancelled.read ELSE 0
      BY <1>1, <1>3, CountTimes
    <3>2. QED
      BY <1>3, <3>1 DEF r
  <2>2. w \in Seq(Completions) /\ Count(w, op) = IF "write" = op THEN cancelled.write ELSE 0
    <3>1. /\ Times(cancelled.write, Failed("write")) \in Seq(Completions)
          /\ Count(Times(cancelled.write, Failed("write")), op)
               = IF Failed("write").op = op THEN cancelled.write ELSE 0
      BY <1>1, <1>3, CountTimes
    <3>2. QED
      BY <1>3, <3>1 DEF w
  <2>3. c \in Seq(Completions) /\ Count(c, op) = IF "connect" = op THEN cancelled.connect ELSE 0
    <3>1. /\ Times(cancelled.connect, Failed("connect")) \in Seq(Completions)
          /\ Count(Times(cancelled.connect, Failed("connect")), op)
               = IF Failed("connect").op = op THEN cancelled.connect ELSE 0
      BY <1>1, <1>3, CountTimes
    <3>2. QED
      BY <1>3, <3>1 DEF c
  <2>4. t \in Seq(Completions) /\ Count(t, op) = IF "wait" = op THEN cancelled.wait ELSE 0
    <3>1. /\ Times(cancelled.wait, Failed("wait")) \in Seq(Completions)
          /\ Count(Times(cancelled.wait, Failed("wait")), op)
               = IF Failed("wait").op = op THEN cancelled.wait ELSE 0
      BY <1>1, <1>3, CountTimes
    <3>2. QED
      BY <1>3, <3>1 DEF t
  <2>5. QED
    BY <2>1, <2>2, <2>3, <2>4
<1> DEFINE rw == r \o w
           rwc == rw \o c
           all == rwc \o t
<1>5. Aborted = all
  BY DEF Aborted
<1> HIDE DEF r, w, c, t
<1>6. /\ r \in Seq(Completions) /\ w \in Seq(Completions)
      /\ c \in Seq(Completions) /\ t \in Seq(Completions)
  BY <1>4
<1>7. /\ rw \in Seq(Completions)
      /\ \A op : Count(rw, op) = Count(r, op) + Count(w, op)
  BY <1>6, ConcatProperties, CountConcat
<1> HIDE DEF rw
<1>8. /\ rwc \in Seq(Completions)
      /\ \A op : Count(rwc, op) = Count(rw, op) + Count(c, op)
  BY <1>6, <1>7, ConcatProperties, CountConcat
<1> HIDE DEF rwc
<1>9. /\ all \in Seq(Completions)
      /\ \A op : Count(all, op) = Count(rwc, op) + Count(t, op)
  BY <1>6, <1>8, ConcatProperties, CountConcat
<1>10. ASSUME NEW op \in Operations PROVE Count(Aborted, op) = cancelled[op]
  <2>1. Count(Aborted, op)
          = ((Count(r, op) + Count(w, op)) + Count(c, op)) + Count(t, op)
    BY <1>5, <1>7, <1>8, <1>9
  <2>2. /\ Count(r, op) = IF "read" = op THEN cancelled.read ELSE 0
        /\ Count(w, op) = IF "write" = op THEN cancelled.write ELSE 0
        /\ Count(c, op) = IF "connect" = op THEN cancelled.connect ELSE 0
        /\ Count(t, op) = IF "wait" = op THEN cancelled.wait ELSE 0
    BY <1>4
  <2>3. QED
    BY <1>1, <2>1, <2>2 DEF Operations
<1>11. QED
  BY <1>5, <1>9, <1>10

\* The reactor queues what was cancelled and then what completed; none is lost.
LEMMA ReactorCounts ==
    ASSUME TypeOK, NEW t \in Seq(Completions), Reactor(t)
    PROVE  /\ ready' \in Seq(Completions) /\ cancelled' \in [Operations -> Nat]
           /\ \A op \in Operations :
                Count(ready', op) + cancelled'[op] = Queued(op) + Count(t, op)
<1>1. /\ ready \in Seq(Completions) /\ cancelled \in [Operations -> Nat]
      /\ ready' = (ready \o Aborted) \o t /\ cancelled' = NoneCancelled
  BY DEF TypeOK, Completions, Reactor
<1>2. ready \o Aborted \in Seq(Completions)
  BY <1>1, AbortedCounts, ConcatProperties
<1>3. ready' \in Seq(Completions)
  BY <1>1, <1>2, ConcatProperties
<1>4. ASSUME NEW op \in Operations
      PROVE  Count(ready', op) + cancelled'[op] = Queued(op) + Count(t, op)
  <2>0. Aborted \in Seq(Completions)
    BY AbortedCounts
  <2>01. Count(ready \o Aborted, op) = Count(ready, op) + Count(Aborted, op)
    BY <1>1, <2>0, CountConcat
  <2>02. Count((ready \o Aborted) \o t, op) = Count(ready \o Aborted, op) + Count(t, op)
    BY <1>2, CountConcat
  <2>1. Count(ready', op) = (Count(ready, op) + Count(Aborted, op)) + Count(t, op)
    BY <1>1, <2>01, <2>02
  <2>2. Count(Aborted, op) = cancelled[op] /\ cancelled'[op] = 0
    BY <1>1, AbortedCounts DEF NoneCancelled
  <2>3. /\ Count(ready, op) \in Nat /\ Count(t, op) \in Nat
        /\ cancelled[op] \in Nat
    BY <1>1, CountType
  <2>4. QED
    BY <2>1, <2>2, <2>3 DEF Queued
<1>5. cancelled' \in [Operations -> Nat]
  BY <1>1 DEF NoneCancelled
<1>6. QED
  BY <1>3, <1>4, <1>5

\* A handler takes its completion off the front and posts others at the end.
LEMMA HandlerCounts ==
    ASSUME TypeOK, NEW o \in Operations, NEW failed \in BOOLEAN,
           Handle(o, failed), NEW t \in Seq(Completions), Posts(t)
    PROVE  /\ ready' \in Seq(Completions)
           /\ \A op \in Operations :
                /\ Count(ready', op) = Count(ready, op) - One(o = op) + Count(t, op)
                /\ Count(ready, op) \in Nat /\ Count(ready', op) \in Nat
                /\ Count(ready, op) >= One(o = op)
<1>1. /\ ready \in Seq(Completions) /\ ready # <<>> /\ Head(ready).op = o
      /\ ready' = Tail(ready) \o t
  BY DEF TypeOK, Completions, Handle, Posts
<1>2. Tail(ready) \in Seq(Completions)
  BY <1>1, TailFacts
<1>3. ready' \in Seq(Completions)
  BY <1>1, <1>2, ConcatProperties
<1>4. ASSUME NEW op \in Operations
      PROVE  /\ Count(ready', op) = Count(ready, op) - One(o = op) + Count(t, op)
             /\ Count(ready, op) \in Nat /\ Count(ready', op) \in Nat
             /\ Count(ready, op) >= One(o = op)
  <2>1. Count(ready', op) = Count(Tail(ready), op) + Count(t, op)
    BY <1>1, <1>2, CountConcat
  <2>2. Count(ready, op) = One(o = op) + Count(Tail(ready), op)
    BY <1>1, CountTail
  <2>3. /\ Count(ready, op) \in Nat /\ Count(t, op) \in Nat
        /\ Count(Tail(ready), op) \in Nat
    BY <1>1, <1>2, CountType
  <2>4. One(o = op) \in {0, 1}
    BY DEF One
  <2>5. QED
    BY <2>1, <2>2, <2>3, <2>4
<1>5. QED
  BY <1>3, <1>4

\* Closing the socket cancels what is pending and starts one wait: the pending
\* operations stay outstanding until their handlers have run.
LEMMA CloseCounts ==
    ASSUME TypeOK, CloseAndReconnect
    PROVE  /\ cancelled' \in [Operations -> Nat]
           /\ socket' = "closed" /\ reading' = 0 /\ writing' = <<>> /\ waiting' = TRUE
           /\ cancelled'["read"] + reading' = cancelled["read"] + reading
           /\ cancelled'["write"] + Len(writing') = cancelled["write"] + Len(writing)
           /\ cancelled'["connect"] + One(socket' = "connecting")
                = cancelled["connect"] + One(socket = "connecting")
           /\ cancelled'["wait"] + One(waiting') = cancelled["wait"] + One(waiting) + 1
<1>1. /\ cancelled.read \in Nat /\ cancelled.write \in Nat
      /\ cancelled.connect \in Nat /\ cancelled.wait \in Nat
      /\ reading \in Nat /\ Len(writing) \in Nat
      /\ One(socket = "connecting") \in Nat /\ One(waiting) \in Nat
  BY LenProperties DEF TypeOK, One, Operations
<1>2. /\ socket' = "closed" /\ reading' = 0 /\ writing' = <<>> /\ waiting' = TRUE
      /\ cancelled' =
           [read    |-> cancelled.read + reading,
            write   |-> cancelled.write + Len(writing),
            connect |-> cancelled.connect + One(socket = "connecting"),
            wait    |-> cancelled.wait + One(waiting)]
  BY DEF CloseAndReconnect
<1>3. /\ cancelled.read + reading \in Nat /\ cancelled.write + Len(writing) \in Nat
      /\ cancelled.connect + One(socket = "connecting") \in Nat
      /\ cancelled.wait + One(waiting) \in Nat
  BY <1>1, SMTT(30)
<1>4. cancelled' \in [Operations -> Nat]
  BY <1>2, <1>3 DEF Operations
<1>5. Len(writing') = 0 /\ One(socket' = "connecting") = 0 /\ One(waiting') = 1
  BY <1>2, EmptySeq DEF One
<1>6. QED
  BY <1>1, <1>2, <1>3, <1>4, <1>5, SMTT(30) DEF Operations

Numerals == 1 .. MaxUpdates

\* What an async_write of the front of a queue leads to.
LEMMA WriteCases ==
    ASSUME TypeOK, NEW up \in BOOLEAN, NEW q \in Seq(Numerals), NEW e \in WriteFront(up, q)
    PROVE  \/ /\ ~(up /\ q # <<>>)
              /\ e.posts = <<>> /\ e.sends = <<>> /\ e.pends = <<>>
           \/ /\ up /\ q # <<>> /\ Head(q) \in Numerals
              /\ e.posts = <<Done("write")>> /\ e.sends = <<Head(q)>> /\ e.pends = <<>>
              /\ socket \in {"open", "dead"}
           \/ /\ up /\ q # <<>> /\ Head(q) \in Numerals
              /\ e.posts = <<Failed("write")>> /\ e.sends = <<>> /\ e.pends = <<>>
              /\ socket \in {"closed", "dead"}
           \/ /\ up /\ q # <<>> /\ Head(q) \in Numerals
              /\ e.posts = <<>> /\ e.sends = <<>> /\ e.pends = <<Head(q)>>
              /\ socket \in {"open", "connecting"} /\ stalls < MaxStalls
<1>1. CASE ~(up /\ q # <<>>)
  BY <1>1 DEF WriteFront, NoEffect
<1>2. CASE up /\ q # <<>>
  <2>1. Head(q) \in Numerals
    BY <1>2, TailFacts
  <2>2. e \in WriteEffects(Head(q))
    BY <1>2 DEF WriteFront
  <2> DEFINE x == Head(q)
  <2> HIDE DEF x
  <2>3. <<x>> # <<>> /\ <<Failed("write")>> # <<>> /\ <<Done("write")>> # <<Failed("write")>>
    BY DEF Done, Failed
  <2>4. /\ e \in {[posts |-> <<Done("write")>>, sends |-> <<x>>, pends |-> <<>>],
                 [posts |-> <<Failed("write")>>, sends |-> <<>>, pends |-> <<>>],
                 [posts |-> <<>>, sends |-> <<>>, pends |-> <<x>>]}
        /\ e.sends # <<>> => socket \in {"open", "dead"}
        /\ e.posts = <<Failed("write")>> => socket \in {"closed", "dead"}
        /\ e.pends # <<>> => socket \in {"open", "connecting"} /\ stalls < MaxStalls
    BY <2>2 DEF WriteEffects, x
  <2>5. CASE e = [posts |-> <<Done("write")>>, sends |-> <<x>>, pends |-> <<>>]
    BY <1>2, <2>1, <2>3, <2>4, <2>5 DEF x
  <2>6. CASE e = [posts |-> <<Failed("write")>>, sends |-> <<>>, pends |-> <<>>]
    BY <1>2, <2>1, <2>4, <2>6
  <2>7. CASE e = [posts |-> <<>>, sends |-> <<>>, pends |-> <<x>>]
    BY <1>2, <2>1, <2>3, <2>4, <2>7 DEF x
  <2>8. QED
    BY <2>4, <2>5, <2>6, <2>7
<1>3. QED
  BY <1>1, <1>2

\* Its operation is outstanding afterwards: done, failed or pending.
LEMMA WriteLedger ==
    ASSUME TypeOK, NEW up \in BOOLEAN, NEW q \in Seq(Numerals), NEW e \in WriteFront(up, q),
           Writes(e)
    PROVE  /\ e.posts \in Seq(Completions)
           /\ Count(e.posts, "read") = 0 /\ Count(e.posts, "connect") = 0
           /\ Count(e.posts, "wait") = 0 /\ Count(e.posts, "write") \in Nat
           /\ Count(e.posts, "write") + Len(writing')
                = Len(writing) + One(up /\ q # <<>>)
           /\ sent' \in Seq(Numerals) /\ writing' \in Seq(Numerals)
           /\ stalls' \in 0 .. MaxStalls
<1>1. /\ Done("write") \in Completions /\ Failed("write") \in Completions
      /\ Done("write").op = "write" /\ Failed("write").op = "write"
  BY DEF Done, Failed, Completions, Operations
<1>2. /\ sent \in Seq(Numerals) /\ writing \in Seq(Numerals)
      /\ Len(writing) \in Nat /\ stalls \in 0 .. MaxStalls /\ MaxStalls \in Nat
  BY BoundsAssumption, LenProperties DEF TypeOK, Numerals
<1>3. /\ sent' = sent \o e.sends /\ writing' = writing \o e.pends
      /\ stalls' = stalls + Len(e.pends)
  BY DEF Writes
<1>4. /\ <<>> \in Seq(Completions) /\ \A op : Count(<<>>, op) = 0
      /\ <<>> \in Seq(Numerals) /\ Len(<<>>) = 0
  BY CountEmpty, EmptySeq
<1>5. ASSUME NEW c \in {Done("write"), Failed("write")}
      PROVE  /\ <<c>> \in Seq(Completions) /\ Count(<<c>>, "write") = 1
             /\ Count(<<c>>, "read") = 0 /\ Count(<<c>>, "connect") = 0
             /\ Count(<<c>>, "wait") = 0
  <2>1. c \in Completions /\ c.op = "write"
    BY <1>1
  <2>2. <<c>> \in Seq(Completions) /\ \A op : Count(<<c>>, op) = One("write" = op)
    BY <2>1, CountOne
  <2>3. QED
    BY <2>2 DEF One
<1>6. ASSUME NEW t \in Seq(Numerals)
      PROVE  /\ sent \o t \in Seq(Numerals) /\ writing \o t \in Seq(Numerals)
             /\ Len(writing \o t) = Len(writing) + Len(t)
  BY <1>2, ConcatProperties
<1>7. /\ sent \o <<>> \in Seq(Numerals) /\ writing \o <<>> \in Seq(Numerals)
      /\ Len(writing \o <<>>) = Len(writing)
  BY <1>2, <1>4, <1>6
<1>8. ASSUME up /\ q # <<>>, Head(q) \in Numerals
      PROVE  /\ <<Head(q)>> \in Seq(Numerals) /\ Len(<<Head(q)>>) = 1
             /\ sent \o <<Head(q)>> \in Seq(Numerals) /\ writing \o <<Head(q)>> \in Seq(Numerals)
             /\ Len(writing \o <<Head(q)>>) = Len(writing) + 1
  <2>1. <<Head(q)>> \in Seq(Numerals) /\ Len(<<Head(q)>>) = 1
    BY <1>8
  <2>2. QED
    BY <1>6, <2>1
<1>9. \/ /\ ~(up /\ q # <<>>)
         /\ e.posts = <<>> /\ e.sends = <<>> /\ e.pends = <<>>
      \/ /\ up /\ q # <<>> /\ Head(q) \in Numerals
         /\ e.posts = <<Done("write")>> /\ e.sends = <<Head(q)>> /\ e.pends = <<>>
      \/ /\ up /\ q # <<>> /\ Head(q) \in Numerals
         /\ e.posts = <<Failed("write")>> /\ e.sends = <<>> /\ e.pends = <<>>
      \/ /\ up /\ q # <<>> /\ Head(q) \in Numerals
         /\ e.posts = <<>> /\ e.sends = <<>> /\ e.pends = <<Head(q)>>
         /\ stalls < MaxStalls
  BY WriteCases
<1>10. CASE ~(up /\ q # <<>>) /\ e.posts = <<>> /\ e.sends = <<>> /\ e.pends = <<>>
  <2>1. One(up /\ q # <<>>) = 0
    BY <1>10 DEF One
  <2>2. QED
    BY <1>2, <1>3, <1>4, <1>7, <1>10, <2>1
<1>11. CASE up /\ q # <<>> /\ Head(q) \in Numerals
  <2>1. One(up /\ q # <<>>) = 1
    BY <1>11 DEF One
  <2>2. CASE e.posts = <<Done("write")>> /\ e.sends = <<Head(q)>> /\ e.pends = <<>>
    BY <1>2, <1>3, <1>4, <1>5, <1>7, <1>8, <1>11, <2>1, <2>2
  <2>3. CASE e.posts = <<Failed("write")>> /\ e.sends = <<>> /\ e.pends = <<>>
    BY <1>2, <1>3, <1>4, <1>5, <1>7, <1>11, <2>1, <2>3
  <2>4. CASE e.posts = <<>> /\ e.sends = <<>> /\ e.pends = <<Head(q)>> /\ stalls < MaxStalls
    BY <1>2, <1>3, <1>4, <1>7, <1>8, <1>11, <2>1, <2>4
  <2>5. QED
    BY <1>9, <1>11, <2>2, <2>3, <2>4
<1>12. QED
  BY <1>9, <1>10, <1>11

\* The operations of a kind that the kernel or the timer still holds.
Held(op) == CASE op = "read" -> reading
              [] op = "connect" -> One(socket = "connecting")
              [] op = "wait" -> One(waiting)
              [] op = "write" -> Len(writing)

\* Those that are held, cancelled, or complete with their handler yet to run.
Out(op) == Queued(op) + Held(op)

\* The sums ClientDatabase names, as the balance of each kind of operation.
LEMMA OutByKind == /\ Reads = Out("read") /\ Connects = Out("connect")
                   /\ Waits = Out("wait") /\ WritesOut = Out("write")
  BY DEF Reads, Connects, Waits, WritesOut, Out, Held

OutNatural ==
    \A op \in Operations : /\ Count(ready, op) \in Nat /\ cancelled[op] \in Nat
                           /\ Held(op) \in Nat /\ Out(op) \in Nat

\* These are natural numbers.
LEMMA OutType == TypeOK => OutNatural
<1> SUFFICES ASSUME TypeOK, NEW op \in Operations
             PROVE  /\ Count(ready, op) \in Nat /\ cancelled[op] \in Nat
                    /\ Held(op) \in Nat /\ Out(op) \in Nat
  BY DEF OutNatural
<1>1. Count(ready, op) \in Nat /\ cancelled[op] \in Nat
  BY CountType DEF TypeOK, Completions
<1>2. Held(op) \in Nat
  <2>1. reading \in Nat /\ Len(writing) \in Nat
    BY LenProperties DEF TypeOK
  <2>2. One(socket = "connecting") \in Nat /\ One(waiting) \in Nat
    BY DEF One
  <2>3. QED
    BY <2>1, <2>2 DEF Held, Operations
<1>3. QED
  BY <1>1, <1>2 DEF Out, Queued

\* One completion posted is one operation more whose handler is to run.
LEMMA PostCounts ==
    ASSUME NEW o \in Operations, NEW c \in {Done(o), Failed(o)}
    PROVE  <<c>> \in Seq(Completions) /\ \A op : Count(<<c>>, op) = One(o = op)
<1>1. /\ Done(o) \in Completions /\ Failed(o) \in Completions
      /\ Done(o).op = o /\ Failed(o).op = o
  BY DEF Done, Failed, Completions
<1>2. c \in Completions /\ c.op = o
  BY <1>1
<1>3. QED
  BY <1>2, CountOne

\* Starting a read posts a failed one or leaves one pending.
LEMMA ReadLedger ==
    ASSUME TypeOK, StartRead
    PROVE  /\ ReadPosts \in Seq(Completions) /\ reading' \in Nat
           /\ Count(ReadPosts, "read") \in Nat
           /\ Count(ReadPosts, "read") + reading' = reading + 1
           /\ Count(ReadPosts, "connect") = 0 /\ Count(ReadPosts, "wait") = 0
           /\ Count(ReadPosts, "write") = 0
<1>1. reading \in Nat /\ reading' = reading + One(socket # "closed")
  BY DEF TypeOK, StartRead
<1>2. CASE socket = "closed"
  <2>1. ReadPosts = <<Failed("read")>> /\ One(socket # "closed") = 0
    BY <1>2 DEF ReadPosts, One
  <2>2. /\ <<Failed("read")>> \in Seq(Completions)
        /\ \A op : Count(<<Failed("read")>>, op) = One("read" = op)
    BY PostCounts DEF Operations
  <2>3. QED
    BY <1>1, <2>1, <2>2 DEF One
<1>3. CASE socket # "closed"
  <2>1. ReadPosts = <<>> /\ One(socket # "closed") = 1
    BY <1>3 DEF ReadPosts, One
  <2>2. <<>> \in Seq(Completions) /\ \A op : Count(<<>>, op) = 0
    BY CountEmpty, EmptySeq
  <2>3. QED
    BY <1>1, <2>1, <2>2
<1>4. QED
  BY <1>2, <1>3

\* Posting nothing.
LEMMA EmptyPosts == <<>> \in Seq(Completions) /\ \A op : Count(<<>>, op) = 0
  BY CountEmpty, EmptySeq

\* Queues of completions; named, so that the steps about counts do not see Seq.
CompletionQueues == Seq(Completions)

\* The balance of a handler: its own operation ends, those it posts, starts or
\* cancels are outstanding.
LEMMA HandlerBalance ==
    ASSUME TypeOK, TypeOK', NEW o \in Operations, NEW failed \in BOOLEAN,
           Handle(o, failed), NEW t \in CompletionQueues, Posts(t)
    PROVE  /\ Out(o) >= 1
           /\ \A op \in Operations :
                Out(op)' = (Out(op) - One(o = op)) + Count(t, op)
                             + ((cancelled'[op] + Held(op)') - (cancelled[op] + Held(op)))
<1>1. ASSUME NEW op \in Operations
      PROVE  /\ Count(ready', op) = Count(ready, op) - One(o = op) + Count(t, op)
             /\ Count(ready, op) \in Nat /\ Count(ready, op) >= One(o = op)
             /\ Count(t, op) \in Nat
  BY HandlerCounts, CountType DEF CompletionQueues
<1>2. ASSUME NEW op \in Operations
      PROVE  Out(op)' = (Out(op) - One(o = op)) + Count(t, op)
                          + ((cancelled'[op] + Held(op)') - (cancelled[op] + Held(op)))
  <2>1. Count(ready', op) = Count(ready, op) - One(o = op) + Count(t, op)
    BY <1>1
  <2>2. One(o = op) \in Nat /\ Count(t, op) \in Nat
    BY <1>1 DEF One
  <2>3. Count(ready, op) \in Nat /\ cancelled[op] \in Nat /\ Held(op) \in Nat
    BY OutType DEF OutNatural
  <2>4. OutNatural'
    BY OutType, PTL
  <2>5. cancelled'[op] \in Nat /\ Held(op)' \in Nat
    BY <2>4 DEF OutNatural
  <2>6. /\ Out(op) = Count(ready, op) + cancelled[op] + Held(op)
        /\ Out(op)' = Count(ready', op) + cancelled'[op] + Held(op)'
    BY DEF Out, Queued
  <2>7. QED
    BY <2>1, <2>2, <2>3, <2>5, <2>6
<1>3. Out(o) >= 1
  <2>1. Count(ready, o) \in Nat /\ Count(ready, o) >= One(o = o)
    BY <1>1
  <2>2. cancelled[o] \in Nat /\ Held(o) \in Nat
    BY OutType DEF OutNatural
  <2>3. QED
    BY <2>1, <2>2 DEF Out, Queued, One
<1>4. QED
  BY <1>2, <1>3

\* The balance of the reactor: what it queues was held or cancelled before.
LEMMA ReactorBalance ==
    ASSUME TypeOK, TypeOK', NEW t \in CompletionQueues, Reactor(t)
    PROVE  \A op \in Operations : Out(op)' = (Out(op) + Count(t, op)) + (Held(op)' - Held(op))
<1>1. ASSUME NEW op \in Operations
      PROVE  /\ Count(ready', op) + cancelled'[op] = Queued(op) + Count(t, op)
             /\ Count(t, op) \in Nat
  BY ReactorCounts, CountType DEF CompletionQueues
<1>2. ASSUME NEW op \in Operations
      PROVE  Out(op)' = (Out(op) + Count(t, op)) + (Held(op)' - Held(op))
  <2>1. Count(ready', op) + cancelled'[op] = Queued(op) + Count(t, op)
    BY <1>1
  <2>2. Count(t, op) \in Nat
    BY <1>1
  <2>3. Queued(op) \in Nat /\ Held(op) \in Nat
    BY OutType DEF OutNatural, Queued
  <2>4. OutNatural'
    BY OutType, PTL
  <2>5. Held(op)' \in Nat
    BY <2>4 DEF OutNatural
  <2>6. /\ Out(op) = Queued(op) + Held(op)
        /\ Out(op)' = (Count(ready', op) + cancelled'[op]) + Held(op)'
    BY DEF Out, Queued
  <2>7. QED
    BY <2>1, <2>2, <2>3, <2>5, <2>6
<1>3. QED
  BY <1>2

\* A step ends an operation (one of "none" ends none) and starts others.
Ledger(ends, starts) ==
    \A op \in Operations : Out(op)' = (Out(op) - One(ends = op)) + starts[op]

Starts(r, c, w, x) == [op \in Operations |-> CASE op = "read" -> r [] op = "connect" -> c
                                               [] op = "wait" -> w [] op = "write" -> x]

\* The entry of a handler for one kind of operation.
LEMMA HandlerEntry ==
    ASSUME TypeOK, TypeOK', NEW o \in Operations, NEW failed \in BOOLEAN,
           Handle(o, failed), NEW t \in CompletionQueues, Posts(t),
           NEW op \in Operations, NEW n \in Nat,
           (Count(t, op) + cancelled'[op]) + Held(op)' = (cancelled[op] + Held(op)) + n
    PROVE  Out(op)' = (Out(op) - One(o = op)) + n
<1>1. Out(op)' = (Out(op) - One(o = op)) + Count(t, op)
                   + ((cancelled'[op] + Held(op)') - (cancelled[op] + Held(op)))
  BY HandlerBalance
<1>2. OutNatural'
  BY OutType, PTL
<1>3. /\ cancelled[op] \in Nat /\ Held(op) \in Nat /\ Out(op) \in Nat
      /\ Held(op)' \in Nat /\ cancelled'[op] \in Nat
  BY <1>2, OutType DEF OutNatural
<1>4. One(o = op) \in Nat /\ Count(t, op) \in Nat
  BY CountType DEF One, CompletionQueues
<1>5. QED
  BY <1>1, <1>3, <1>4

\* The entries of a handler: what it posts, cancels and leaves pending.
LEMMA HandlerLedger ==
    ASSUME TypeOK, TypeOK', NEW o \in Operations, NEW failed \in BOOLEAN,
           Handle(o, failed), NEW t \in CompletionQueues, Posts(t),
           NEW r \in Nat, NEW c \in Nat, NEW w \in Nat, NEW x \in Nat,
           (Count(t, "read") + cancelled'["read"]) + reading' = (cancelled["read"] + reading) + r,
           (Count(t, "connect") + cancelled'["connect"]) + One(socket' = "connecting")
             = (cancelled["connect"] + One(socket = "connecting")) + c,
           (Count(t, "wait") + cancelled'["wait"]) + One(waiting')
             = (cancelled["wait"] + One(waiting)) + w,
           (Count(t, "write") + cancelled'["write"]) + Len(writing')
             = (cancelled["write"] + Len(writing)) + x
    PROVE  Out(o) >= 1 /\ Ledger(o, Starts(r, c, w, x))
<1> DEFINE n == Starts(r, c, w, x)
<1>1. Out(o) >= 1
  BY HandlerBalance
<1>2. ASSUME NEW op \in Operations
      PROVE  /\ (Count(t, op) + cancelled'[op]) + Held(op)' = (cancelled[op] + Held(op)) + n[op]
             /\ n[op] \in Nat
  BY DEF Held, Operations, Starts
<1> HIDE DEF n
<1>3. ASSUME NEW op \in Operations
      PROVE  Out(op)' = (Out(op) - One(o = op)) + n[op]
  BY <1>2, HandlerEntry
<1>4. QED
  BY <1>1, <1>3 DEF Ledger, n

\* connect(): one wait ends, one connect is outstanding.
LEMMA ConnectLedger ==
    TypeOK /\ Connect => TypeOK' /\ Out("wait") >= 1 /\ Ledger("wait", Starts(0, 1, 0, 0))
<1> SUFFICES ASSUME TypeOK, Connect
             PROVE  TypeOK' /\ Out("wait") >= 1 /\ Ledger("wait", Starts(0, 1, 0, 0))
  OBVIOUS
<1> DEFINE t == IF socket = "closed" THEN <<>> ELSE <<Failed("connect")>>
<1>1. PICK failed \in BOOLEAN : Handle("wait", failed)
  BY DEF Connect
<1>2. UNCHANGED <<process, updates, connected, open, reading, writing, waiting,
                  cancelled, submitted, sent, disturbed, breaks, stalls>>
  BY DEF Connect
<1>3. Posts(t) /\ socket' \in {"connecting", "open", "dead"}
  BY DEF Connect, TypeOK
<1>4. /\ t \in CompletionQueues
      /\ Count(t, "read") = 0 /\ Count(t, "wait") = 0 /\ Count(t, "write") = 0
      /\ Count(t, "connect") \in {0, 1}
      /\ Count(t, "connect") + One(socket' = "connecting")
           = One(socket = "connecting") + 1
  <2>1. CASE socket = "closed"
    <3>1. t = <<>> /\ socket' = "connecting"
      BY <2>1 DEF Connect
    <3>2. QED
      BY <2>1, <3>1, EmptyPosts DEF One, CompletionQueues
  <2>2. CASE socket # "closed"
    <3>1. t = <<Failed("connect")>> /\ socket' = socket
      BY <2>2 DEF Connect
    <3>2. /\ <<Failed("connect")>> \in Seq(Completions)
          /\ \A op : Count(<<Failed("connect")>>, op) = One("connect" = op)
      BY PostCounts DEF Operations
    <3>3. QED
      BY <3>1, <3>2 DEF One, CompletionQueues
  <2>3. QED
    BY <2>1, <2>2
<1> HIDE DEF t
<1>5. TypeOK'
  <2>1. ready' \in Seq(Completions)
    BY <1>1, <1>3, <1>4, HandlerCounts DEF CompletionQueues, Operations
  <2>2. QED
    BY <1>2, <1>3, <2>1 DEF TypeOK, Completions
<1>6. /\ cancelled["read"] \in Nat /\ reading \in Nat
      /\ cancelled["connect"] \in Nat /\ One(socket = "connecting") \in Nat
      /\ cancelled["wait"] \in Nat /\ One(waiting) \in Nat
      /\ cancelled["write"] \in Nat /\ Len(writing) \in Nat
      /\ One(socket' = "connecting") \in Nat
  BY LenProperties DEF TypeOK, Operations, One
<1>7. /\ (Count(t, "read") + cancelled'["read"]) + reading' = (cancelled["read"] + reading) + 0
      /\ (Count(t, "wait") + cancelled'["wait"]) + One(waiting')
           = (cancelled["wait"] + One(waiting)) + 0
      /\ (Count(t, "write") + cancelled'["write"]) + Len(writing')
           = (cancelled["write"] + Len(writing)) + 0
      /\ (Count(t, "connect") + cancelled'["connect"]) + One(socket' = "connecting")
             = (cancelled["connect"] + One(socket = "connecting")) + 1
  BY <1>2, <1>4, <1>6, SMTT(30)
<1>8. Out("wait") >= 1 /\ Ledger("wait", Starts(0, 1, 0, 0))
  BY <1>1, <1>3, <1>4, <1>5, <1>7, HandlerLedger DEF Operations
<1>9. QED
  BY <1>5, <1>8

\* Where outstanding operations are counted in naturals.
LEMMA AccountType ==
    TypeOK => /\ cancelled["read"] \in Nat /\ reading \in Nat
              /\ cancelled["connect"] \in Nat /\ One(socket = "connecting") \in Nat
              /\ cancelled["wait"] \in Nat /\ One(waiting) \in Nat
              /\ cancelled["write"] \in Nat /\ Len(writing) \in Nat
  BY LenProperties DEF TypeOK, Operations, One

\* What a handler posts keeps the queue of completions one.
LEMMA PostType ==
    ASSUME TypeOK, NEW o \in Operations, NEW failed \in BOOLEAN,
           Handle(o, failed), NEW t \in CompletionQueues, Posts(t)
    PROVE  ready' \in Seq([op : Operations, failed : BOOLEAN])
  BY HandlerCounts DEF CompletionQueues, Completions

\* Posting nothing, as a queue of completions.
LEMMA EmptyQueue == <<>> \in CompletionQueues /\ \A op : Count(<<>>, op) = 0
  BY EmptyPosts DEF CompletionQueues

\* handle_connect without an error: one connect ends, one read is started, and
\* one write if there are updates.
LEMMA HandleConnectOkLedger ==
    TypeOK /\ HandleConnectOk =>
        /\ TypeOK' /\ Out("connect") >= 1
        /\ Ledger("connect", Starts(1, 0, 0, One(updates # <<>>)))
<1> SUFFICES ASSUME TypeOK, HandleConnectOk
             PROVE  /\ TypeOK' /\ Out("connect") >= 1
                    /\ Ledger("connect", Starts(1, 0, 0, One(updates # <<>>)))
  OBVIOUS
<1>1. /\ Handle("connect", FALSE) /\ StartRead /\ connected' = TRUE /\ open' = TRUE
      /\ UNCHANGED <<process, updates, socket, waiting, cancelled, submitted, disturbed,
                     breaks>>
  BY DEF HandleConnectOk
<1>2. PICK e \in WriteFront(TRUE, updates) : Writes(e) /\ Posts(e.posts \o ReadPosts)
  BY DEF HandleConnectOk
<1> DEFINE p == e.posts
           t == p \o ReadPosts
<1>3. updates \in Seq(Numerals)
  BY DEF TypeOK, Numerals
<1>4. /\ p \in Seq(Completions)
      /\ Count(p, "read") = 0 /\ Count(p, "connect") = 0
      /\ Count(p, "wait") = 0 /\ Count(p, "write") \in Nat
      /\ Count(p, "write") + Len(writing') = Len(writing) + One(updates # <<>>)
      /\ sent' \in Seq(Numerals) /\ writing' \in Seq(Numerals)
      /\ stalls' \in 0 .. MaxStalls
  <2>1. One(TRUE /\ updates # <<>>) = One(updates # <<>>)
    OBVIOUS
  <2>2. QED
    BY <1>2, <1>3, <2>1, WriteLedger
<1>5. /\ ReadPosts \in Seq(Completions) /\ reading' \in Nat
      /\ Count(ReadPosts, "read") \in Nat
      /\ Count(ReadPosts, "read") + reading' = reading + 1
      /\ Count(ReadPosts, "connect") = 0 /\ Count(ReadPosts, "wait") = 0
      /\ Count(ReadPosts, "write") = 0
  BY <1>1, ReadLedger
<1>6. Posts(t)
  BY <1>2
<1> HIDE DEF p
<1>7. /\ t \in CompletionQueues
      /\ \A op : Count(t, op) = Count(p, op) + Count(ReadPosts, op)
  BY <1>4, <1>5, CountConcat, ConcatProperties DEF CompletionQueues
<1> HIDE DEF t
<1>8. TypeOK'
  <2>1. ready' \in Seq([op : Operations, failed : BOOLEAN])
    BY <1>1, <1>6, <1>7, PostType DEF Operations
  <2>2. QED
    BY <1>1, <1>4, <1>5, <2>1 DEF TypeOK, Numerals
<1>9. One(updates # <<>>) \in Nat
  BY DEF One
<1>10. cancelled' = cancelled /\ One(socket' = "connecting") = One(socket = "connecting")
       /\ One(waiting') = One(waiting)
  BY <1>1
<1>11. Len(writing') \in Nat
  BY <1>4, LenProperties
<1>12. (Count(t, "read") + cancelled'["read"]) + reading' = (cancelled["read"] + reading) + 1
  <2>1. Count(t, "read") = 0 + Count(ReadPosts, "read")
    BY <1>4, <1>7
  <2>2. /\ Count(ReadPosts, "read") \in Nat /\ reading' \in Nat
        /\ Count(ReadPosts, "read") + reading' = reading + 1
    BY <1>5
  <2>3. cancelled["read"] \in Nat /\ reading \in Nat /\ cancelled'["read"] = cancelled["read"]
    BY <1>10, AccountType
  <2>4. QED
    BY <2>1, <2>2, <2>3
<1>13. /\ (Count(t, "connect") + cancelled'["connect"]) + One(socket' = "connecting")
             = (cancelled["connect"] + One(socket = "connecting")) + 0
       /\ (Count(t, "wait") + cancelled'["wait"]) + One(waiting')
           = (cancelled["wait"] + One(waiting)) + 0
  <2>1. Count(t, "connect") = 0 /\ Count(t, "wait") = 0
    BY <1>4, <1>5, <1>7
  <2>2. /\ cancelled["connect"] \in Nat /\ One(socket = "connecting") \in Nat
        /\ cancelled["wait"] \in Nat /\ One(waiting) \in Nat
    BY AccountType
  <2>3. QED
    BY <1>10, <2>1, <2>2
<1>14. (Count(t, "write") + cancelled'["write"]) + Len(writing')
           = (cancelled["write"] + Len(writing)) + One(updates # <<>>)
  <2>1. Count(t, "write") = Count(p, "write") + 0
    BY <1>4, <1>5, <1>7
  <2>2. /\ Count(p, "write") \in Nat /\ Len(writing') \in Nat
        /\ Count(p, "write") + Len(writing') = Len(writing) + One(updates # <<>>)
    BY <1>4, <1>11
  <2>3. cancelled["write"] \in Nat /\ Len(writing) \in Nat /\ cancelled' = cancelled
    BY <1>10, AccountType
  <2>4. QED
    BY <1>9, <2>1, <2>2, <2>3
<1>15. Out("connect") >= 1 /\ Ledger("connect", Starts(1, 0, 0, One(updates # <<>>)))
  BY <1>1, <1>6, <1>7, <1>8, <1>9, <1>12, <1>13, <1>14, HandlerLedger, ZenonT(30) DEF Operations
<1>16. QED
  BY <1>8, <1>15

\* A handler with an error: its operation ends, what is pending is cancelled but
\* outstanding, and one wait is started.
LEMMA CloseLedger ==
    ASSUME TypeOK, TypeOK', NEW o \in Operations, NEW failed \in BOOLEAN,
           Handle(o, failed), Posts(<<>>), CloseAndReconnect
    PROVE  Out(o) >= 1 /\ Ledger(o, Starts(0, 0, 1, 0))
<1>1. /\ cancelled'["read"] + reading' = cancelled["read"] + reading
      /\ cancelled'["write"] + Len(writing') = cancelled["write"] + Len(writing)
      /\ cancelled'["connect"] + One(socket' = "connecting")
           = cancelled["connect"] + One(socket = "connecting")
      /\ cancelled'["wait"] + One(waiting') = cancelled["wait"] + One(waiting) + 1
  BY CloseCounts
<1>2. /\ cancelled'["read"] \in Nat /\ reading' \in Nat
      /\ cancelled'["connect"] \in Nat /\ One(socket' = "connecting") \in Nat
      /\ cancelled'["wait"] \in Nat /\ One(waiting') \in Nat
      /\ cancelled'["write"] \in Nat /\ Len(writing') \in Nat
  BY LenProperties DEF TypeOK, Operations, One
<1> DEFINE t == <<>>
<1>3. /\ t \in CompletionQueues /\ Posts(t)
      /\ Count(t, "read") = 0 /\ Count(t, "connect") = 0
      /\ Count(t, "wait") = 0 /\ Count(t, "write") = 0
  BY EmptyQueue
<1> HIDE DEF t
<1>4. (Count(t, "read") + cancelled'["read"]) + reading' = (cancelled["read"] + reading) + 0
  <2>1. /\ cancelled'["read"] + reading' = (cancelled["read"] + reading) + 0
        /\ cancelled'["read"] \in Nat /\ reading' \in Nat /\ Count(t, "read") = 0
    BY <1>1, <1>2, <1>3, AccountType
  <2>2. QED
    BY <2>1
<1>5. (Count(t, "connect") + cancelled'["connect"]) + One(socket' = "connecting")
             = (cancelled["connect"] + One(socket = "connecting")) + 0
  <2>1. /\ cancelled'["connect"] + One(socket' = "connecting") = (cancelled["connect"] + One(socket = "connecting")) + 0
        /\ cancelled'["connect"] \in Nat /\ One(socket' = "connecting") \in Nat /\ Count(t, "connect") = 0
    BY <1>1, <1>2, <1>3, AccountType
  <2>2. QED
    BY <2>1
<1>6. (Count(t, "wait") + cancelled'["wait"]) + One(waiting')
           = (cancelled["wait"] + One(waiting)) + 1
  <2>1. /\ cancelled'["wait"] + One(waiting') = (cancelled["wait"] + One(waiting)) + 1
        /\ cancelled'["wait"] \in Nat /\ One(waiting') \in Nat /\ Count(t, "wait") = 0
    BY <1>1, <1>2, <1>3, AccountType
  <2>2. QED
    BY <2>1
<1>7. (Count(t, "write") + cancelled'["write"]) + Len(writing')
           = (cancelled["write"] + Len(writing)) + 0
  <2>1. /\ cancelled'["write"] + Len(writing') = (cancelled["write"] + Len(writing)) + 0
        /\ cancelled'["write"] \in Nat /\ Len(writing') \in Nat /\ Count(t, "write") = 0
    BY <1>1, <1>2, <1>3, AccountType
  <2>2. QED
    BY <2>1
<1>8. QED
  BY <1>3, <1>4, <1>5, <1>6, <1>7, HandlerLedger

\* Closing the socket leaves a state of the declared types.
LEMMA CloseType ==
    ASSUME TypeOK, NEW o \in Operations, NEW failed \in BOOLEAN,
           Handle(o, failed), Posts(<<>>), CloseAndReconnect,
           open' \in BOOLEAN, connected' \in BOOLEAN, disturbed' \in BOOLEAN,
           UNCHANGED <<process, updates, submitted, sent, breaks, stalls>>
    PROVE  TypeOK'
<1>1. ready' \in Seq([op : Operations, failed : BOOLEAN])
  BY EmptyQueue, PostType
<1>2. /\ cancelled' \in [Operations -> Nat]
      /\ socket' = "closed" /\ reading' = 0 /\ writing' = <<>> /\ waiting' = TRUE
  BY CloseCounts
<1>3. <<>> \in Seq(1 .. MaxUpdates)
  BY EmptySeq
<1>4. QED
  BY <1>1, <1>2, <1>3 DEF TypeOK

\* handle_connect with an error: one connect ends, one wait is started.
LEMMA HandleConnectErrorLedger ==
    TypeOK /\ HandleConnectError =>
        TypeOK' /\ Out("connect") >= 1 /\ Ledger("connect", Starts(0, 0, 1, 0))
<1> SUFFICES ASSUME TypeOK, HandleConnectError
             PROVE  TypeOK' /\ Out("connect") >= 1 /\ Ledger("connect", Starts(0, 0, 1, 0))
  OBVIOUS
<1>1. "connect" \in Operations /\ TRUE \in BOOLEAN
  BY DEF Operations
<1>2. /\ Handle("connect", TRUE) /\ CloseAndReconnect /\ Posts(<<>>)
      /\ open' \in BOOLEAN /\ connected' \in BOOLEAN /\ disturbed' \in BOOLEAN
      /\ UNCHANGED <<process, updates, submitted, sent, breaks, stalls>>
  BY DEF HandleConnectError, TypeOK
<1>3. TypeOK'
  BY <1>1, <1>2, CloseType
<1>4. QED
  BY <1>1, <1>2, <1>3, CloseLedger

\* handle_read_ping with an error: one read ends, one wait is started.
LEMMA HandleReadPingErrorLedger ==
    TypeOK /\ HandleReadPingError =>
        TypeOK' /\ Out("read") >= 1 /\ Ledger("read", Starts(0, 0, 1, 0))
<1> SUFFICES ASSUME TypeOK, HandleReadPingError
             PROVE  TypeOK' /\ Out("read") >= 1 /\ Ledger("read", Starts(0, 0, 1, 0))
  OBVIOUS
<1>1. "read" \in Operations /\ TRUE \in BOOLEAN
  BY DEF Operations
<1>2. /\ Handle("read", TRUE) /\ CloseAndReconnect /\ Posts(<<>>)
      /\ open' \in BOOLEAN /\ connected' \in BOOLEAN /\ disturbed' \in BOOLEAN
      /\ UNCHANGED <<process, updates, submitted, sent, breaks, stalls>>
  BY DEF HandleReadPingError, CloseHandles, TypeOK
<1>3. TypeOK'
  BY <1>1, <1>2, CloseType
<1>4. QED
  BY <1>1, <1>2, <1>3, CloseLedger

\* handle_write_update with an error: one write ends, one wait is started.
LEMMA HandleWriteUpdateErrorLedger ==
    TypeOK /\ HandleWriteUpdateError =>
        TypeOK' /\ Out("write") >= 1 /\ Ledger("write", Starts(0, 0, 1, 0))
<1> SUFFICES ASSUME TypeOK, HandleWriteUpdateError
             PROVE  TypeOK' /\ Out("write") >= 1 /\ Ledger("write", Starts(0, 0, 1, 0))
  OBVIOUS
<1>1. "write" \in Operations /\ TRUE \in BOOLEAN
  BY DEF Operations
<1>2. /\ Handle("write", TRUE) /\ CloseAndReconnect /\ Posts(<<>>)
      /\ open' \in BOOLEAN /\ connected' \in BOOLEAN /\ disturbed' \in BOOLEAN
      /\ UNCHANGED <<process, updates, submitted, sent, breaks, stalls>>
  BY DEF HandleWriteUpdateError, CloseHandles, TypeOK
<1>3. TypeOK'
  BY <1>1, <1>2, CloseType
<1>4. QED
  BY <1>1, <1>2, <1>3, CloseLedger

\* handle_read_ping without an error: one read ends, the next is started.
LEMMA HandleReadPingOkLedger ==
    TypeOK /\ HandleReadPingOk =>
        TypeOK' /\ Out("read") >= 1 /\ Ledger("read", Starts(1, 0, 0, 0))
<1> SUFFICES ASSUME TypeOK, HandleReadPingOk
             PROVE  TypeOK' /\ Out("read") >= 1 /\ Ledger("read", Starts(1, 0, 0, 0))
  OBVIOUS
<1>1. /\ Handle("read", FALSE) /\ StartRead /\ Posts(ReadPosts)
      /\ UNCHANGED <<process, updates, connected, open, socket, writing, waiting,
                     cancelled, submitted, sent, disturbed, breaks, stalls>>
  BY DEF HandleReadPingOk
<1>2. /\ ReadPosts \in CompletionQueues /\ reading' \in Nat
      /\ Count(ReadPosts, "read") \in Nat
      /\ Count(ReadPosts, "read") + reading' = reading + 1
      /\ Count(ReadPosts, "connect") = 0 /\ Count(ReadPosts, "wait") = 0
      /\ Count(ReadPosts, "write") = 0
  BY <1>1, ReadLedger DEF CompletionQueues
<1>3. TypeOK'
  <2>1. ready' \in Seq([op : Operations, failed : BOOLEAN])
    BY <1>1, <1>2, PostType DEF Operations
  <2>2. QED
    BY <1>1, <1>2, <2>1 DEF TypeOK
<1>4. cancelled' = cancelled /\ One(socket' = "connecting") = One(socket = "connecting")
       /\ One(waiting') = One(waiting) /\ Len(writing') = Len(writing)
  BY <1>1
<1>5. (Count(ReadPosts, "read") + cancelled'["read"]) + reading'
        = (cancelled["read"] + reading) + 1
  <2>1. cancelled["read"] \in Nat /\ reading \in Nat
    BY AccountType
  <2>2. QED
    BY <1>2, <1>4, <2>1
<1>6. /\ (Count(ReadPosts, "connect") + cancelled'["connect"]) + One(socket' = "connecting")
             = (cancelled["connect"] + One(socket = "connecting")) + 0
      /\ (Count(ReadPosts, "wait") + cancelled'["wait"]) + One(waiting')
           = (cancelled["wait"] + One(waiting)) + 0
  <2>1. /\ cancelled["connect"] \in Nat /\ One(socket = "connecting") \in Nat
        /\ cancelled["wait"] \in Nat /\ One(waiting) \in Nat
    BY AccountType
  <2>2. QED
    BY <1>2, <1>4, <2>1
<1>7. (Count(ReadPosts, "write") + cancelled'["write"]) + Len(writing')
           = (cancelled["write"] + Len(writing)) + 0
  <2>1. cancelled["write"] \in Nat /\ Len(writing) \in Nat
    BY AccountType
  <2>2. QED
    BY <1>2, <1>4, <2>1
<1>8. Out("read") >= 1 /\ Ledger("read", Starts(1, 0, 0, 0))
  BY <1>1, <1>2, <1>3, <1>5, <1>6, <1>7, HandlerLedger DEF Operations
<1>9. QED
  BY <1>3, <1>8

\* handle_write_update without an error: one write ends, the next is started if
\* the link is up and updates are left.
LEMMA HandleWriteUpdateOkLedger ==
    TypeOK /\ HandleWriteUpdateOk =>
        /\ TypeOK' /\ Out("write") >= 1
        /\ Ledger("write", Starts(0, 0, 0, One(connected /\ updates' # <<>>)))
<1> SUFFICES ASSUME TypeOK, HandleWriteUpdateOk
             PROVE  /\ TypeOK' /\ Out("write") >= 1
                    /\ Ledger("write", Starts(0, 0, 0, One(connected /\ updates' # <<>>)))
  OBVIOUS
<1>1. /\ Handle("write", FALSE) /\ updates # <<>> /\ updates' = Tail(updates)
      /\ UNCHANGED <<process, connected, open, socket, reading, waiting, cancelled,
                     submitted, disturbed, breaks>>
  BY DEF HandleWriteUpdateOk
<1>2. PICK e \in WriteFront(connected, updates') : Writes(e) /\ Posts(e.posts)
  BY DEF HandleWriteUpdateOk
<1> DEFINE p == e.posts
<1>3. updates' \in Seq(Numerals) /\ connected \in BOOLEAN
  <2>1. updates \in Seq(Numerals) /\ connected \in BOOLEAN
    BY DEF TypeOK, Numerals
  <2>2. QED
    BY <1>1, <2>1, TailFacts
<1>4. /\ p \in CompletionQueues
      /\ Count(p, "read") = 0 /\ Count(p, "connect") = 0
      /\ Count(p, "wait") = 0 /\ Count(p, "write") \in Nat
      /\ Count(p, "write") + Len(writing') = Len(writing) + One(connected /\ updates' # <<>>)
      /\ sent' \in Seq(Numerals) /\ writing' \in Seq(Numerals)
      /\ stalls' \in 0 .. MaxStalls
  BY <1>2, <1>3, WriteLedger DEF CompletionQueues
<1>5. Posts(p)
  BY <1>2
<1> HIDE DEF p
<1>6. TypeOK'
  <2>1. ready' \in Seq([op : Operations, failed : BOOLEAN])
    BY <1>1, <1>4, <1>5, PostType DEF Operations
  <2>2. QED
    BY <1>1, <1>3, <1>4, <2>1 DEF TypeOK, Numerals
<1>7. One(connected /\ updates' # <<>>) \in Nat
  BY DEF One
<1>8. cancelled' = cancelled /\ One(socket' = "connecting") = One(socket = "connecting")
       /\ One(waiting') = One(waiting) /\ reading' = reading
  BY <1>1
<1>9. Len(writing') \in Nat
  BY <1>4, LenProperties
<1>10. (Count(p, "read") + cancelled'["read"]) + reading' = (cancelled["read"] + reading) + 0
  <2>1. cancelled["read"] \in Nat /\ reading \in Nat
    BY AccountType
  <2>2. QED
    BY <1>4, <1>8, <2>1
<1>11. /\ (Count(p, "connect") + cancelled'["connect"]) + One(socket' = "connecting")
             = (cancelled["connect"] + One(socket = "connecting")) + 0
       /\ (Count(p, "wait") + cancelled'["wait"]) + One(waiting')
           = (cancelled["wait"] + One(waiting)) + 0
  <2>1. /\ cancelled["connect"] \in Nat /\ One(socket = "connecting") \in Nat
        /\ cancelled["wait"] \in Nat /\ One(waiting) \in Nat
    BY AccountType
  <2>2. QED
    BY <1>4, <1>8, <2>1
<1>12. (Count(p, "write") + cancelled'["write"]) + Len(writing')
           = (cancelled["write"] + Len(writing)) + One(connected /\ updates' # <<>>)
  <2>1. cancelled["write"] \in Nat /\ Len(writing) \in Nat
    BY AccountType
  <2>2. /\ Count(p, "write") \in Nat
        /\ Count(p, "write") + Len(writing') = Len(writing) + One(connected /\ updates' # <<>>)
    BY <1>4
  <2>3. QED
    BY <1>7, <1>8, <1>9, <2>1, <2>2, SMTT(30)
<1>13. Out("write") >= 1 /\ Ledger("write", Starts(0, 0, 0, One(connected /\ updates' # <<>>)))
  BY <1>1, <1>4, <1>5, <1>6, <1>7, <1>10, <1>11, <1>12, HandlerLedger, ZenonT(30) DEF Operations
<1>14. QED
  BY <1>6, <1>13

\* write_update: one write is started if the link is up and the queue was empty.
LEMMA WriteUpdateLedger ==
    TypeOK /\ WriteUpdate =>
        /\ TypeOK'
        /\ Ledger("none", Starts(0, 0, 0, One(connected /\ updates = <<>>)))
<1> SUFFICES ASSUME TypeOK, WriteUpdate
             PROVE  /\ TypeOK'
                    /\ Ledger("none", Starts(0, 0, 0, One(connected /\ updates = <<>>)))
  OBVIOUS
<1> DEFINE started == connected /\ updates = <<>>
<1>1. /\ submitted < MaxUpdates /\ submitted' = submitted + 1
      /\ updates' = Append(updates, submitted + 1)
      /\ disturbed' = (disturbed \/ (connected /\ ~open))
      /\ UNCHANGED <<process, connected, open, socket, reading, waiting, cancelled,
                     breaks>>
  BY DEF WriteUpdate
<1>2. PICK e \in WriteFront(connected /\ updates = <<>>, updates') :
        Writes(e) /\ ready' = ready \o e.posts
  BY DEF WriteUpdate
<1> DEFINE p == e.posts
<1>3. updates' \in Seq(Numerals) /\ updates' # <<>> /\ started \in BOOLEAN
      /\ submitted' \in 0 .. MaxUpdates
  <2>1. updates \in Seq(Numerals) /\ submitted + 1 \in Numerals /\ submitted' \in 0 .. MaxUpdates
    BY <1>1, BoundsAssumption DEF TypeOK, Numerals
  <2>2. QED
    BY <1>1, <2>1, AppendFacts
<1>4. /\ p \in CompletionQueues
      /\ Count(p, "read") = 0 /\ Count(p, "connect") = 0
      /\ Count(p, "wait") = 0 /\ Count(p, "write") \in Nat
      /\ Count(p, "write") + Len(writing') = Len(writing) + One(started)
      /\ sent' \in Seq(Numerals) /\ writing' \in Seq(Numerals)
      /\ stalls' \in 0 .. MaxStalls
  <2>1. One(started /\ updates' # <<>>) = One(started)
    BY <1>3
  <2>2. QED
    BY <1>2, <1>3, <2>1, WriteLedger DEF CompletionQueues
<1> HIDE DEF p
<1>5. /\ ready' \in Seq([op : Operations, failed : BOOLEAN])
      /\ \A op : /\ Count(ready', op) = Count(ready, op) + Count(p, op)
                 /\ Count(ready, op) \in Nat
  <2>1. ready \in Seq(Completions) /\ p \in Seq(Completions) /\ ready' = ready \o p
    BY <1>2, <1>4 DEF TypeOK, Completions, CompletionQueues, p
  <2>2. ready \o p \in Seq(Completions)
    BY <2>1, ConcatProperties
  <2>3. \A op : Count(ready \o p, op) = Count(ready, op) + Count(p, op)
    BY <2>1, CountConcat
  <2>4. \A op : Count(ready, op) \in Nat
    BY <2>1, CountType
  <2>5. QED
    BY <2>1, <2>2, <2>3, <2>4 DEF Completions
<1>6. TypeOK'
  <2>1. disturbed' \in BOOLEAN
    BY <1>1
  <2>2. QED
    BY <1>1, <1>3, <1>4, <1>5, <2>1 DEF TypeOK, Numerals
<1> DEFINE n == Starts(0, 0, 0, One(started))
<1> HIDE DEF started
<1>7. ASSUME NEW op \in Operations PROVE Out(op)' = (Out(op) - One("none" = op)) + n[op]
  <2>1. cancelled[op] \in Nat /\ Held(op) \in Nat
    BY OutType DEF OutNatural
  <2>2. Count(ready', op) = Count(ready, op) + Count(p, op) /\ Count(ready, op) \in Nat
    BY <1>5
  <2>3. One("none" = op) = 0
    BY DEF One, Operations
  <2>4. (Count(p, op) + Held(op)') = Held(op) + n[op] /\ n[op] \in Nat
    <3>1. reading \in Nat /\ One(socket = "connecting") \in Nat /\ One(waiting) \in Nat
          /\ Len(writing) \in Nat
      BY AccountType
    <3>2. /\ reading' = reading /\ One(socket' = "connecting") = One(socket = "connecting")
          /\ One(waiting') = One(waiting)
      BY <1>1
    <3>3. One(started) \in Nat
      BY DEF One
    <3>4. QED
      BY <1>4, <3>1, <3>2, <3>3 DEF Held, Starts, Operations
  <2>5. Count(p, op) \in Nat /\ Held(op)' \in Nat
    <3>1. OutNatural'
      BY <1>6, OutType, PTL
    <3>2. QED
      BY <1>4, <3>1, CountType DEF OutNatural, CompletionQueues
  <2>6. Out(op) = (Count(ready, op) + cancelled[op]) + Held(op)
        /\ Out(op)' = (Count(ready', op) + cancelled[op]) + Held(op)'
    BY <1>1 DEF Out, Queued
  <2> HIDE DEF n
  <2>7. Out(op)' = Out(op) + n[op]
    BY <2>1, <2>2, <2>4, <2>5, <2>6, SMTT(30)
  <2>8. Out(op) \in Nat
    BY OutType DEF OutNatural
  <2>9. QED
    BY <2>3, <2>7, <2>8
<1>8. QED
  BY <1>6, <1>7 DEF Ledger, started

\* The reactor: what it queues was held before.
LEMMA ReactorLedger ==
    ASSUME TypeOK, TypeOK', NEW t \in CompletionQueues, Reactor(t),
           Count(t, "read") + reading' = reading,
           Count(t, "connect") + One(socket' = "connecting") = One(socket = "connecting"),
           Count(t, "wait") + One(waiting') = One(waiting),
           Count(t, "write") + Len(writing') = Len(writing)
    PROVE  Ledger("none", Starts(0, 0, 0, 0))
<1>1. ASSUME NEW op \in Operations
      PROVE  Out(op)' = (Out(op) - One("none" = op)) + Starts(0, 0, 0, 0)[op]
  <2>1. Out(op)' = (Out(op) + Count(t, op)) + (Held(op)' - Held(op))
    BY ReactorBalance
  <2>2. Count(t, op) + Held(op)' = Held(op)
    BY DEF Held, Operations
  <2>3. OutNatural'
    BY OutType, PTL
  <2>4. Held(op) \in Nat /\ Out(op) \in Nat /\ Held(op)' \in Nat
    BY <2>3, OutType DEF OutNatural
  <2>5. Count(t, op) \in Nat
    BY CountType DEF CompletionQueues
  <2>6. One("none" = op) = 0 /\ Starts(0, 0, 0, 0)[op] = 0
    BY DEF One, Operations, Starts
  <2>7. Out(op)' = Out(op)
    BY <2>1, <2>2, <2>4, <2>5
  <2>8. QED
    BY <2>4, <2>6, <2>7
<1>2. QED
  BY <1>1 DEF Ledger

\* What the reactor leaves in its queues.
LEMMA ReactorType ==
    ASSUME TypeOK, NEW t \in CompletionQueues, Reactor(t)
    PROVE  /\ ready' \in Seq([op : Operations, failed : BOOLEAN])
           /\ cancelled' \in [Operations -> Nat]
  BY ReactorCounts DEF CompletionQueues, Completions

\* A queue of one completion of operation o.
LEMMA OneCompletion ==
    ASSUME NEW o \in Operations, NEW c \in {Done(o), Failed(o)}
    PROVE  <<c>> \in CompletionQueues /\ \A op : Count(<<c>>, op) = One(o = op)
<1>1. /\ Done(o) \in Completions /\ Failed(o) \in Completions
      /\ Done(o).op = o /\ Failed(o).op = o
  BY DEF Done, Failed, Completions
<1>2. c \in Completions /\ c.op = o
  BY <1>1
<1>3. <<c>> \in Seq(Completions) /\ \A op : Count(<<c>>, op) = One(c.op = op)
  BY <1>2, CountOne
<1>4. QED
  BY <1>2, <1>3 DEF CompletionQueues

Steady == Ledger("none", Starts(0, 0, 0, 0))

\* A pending connect completes; its handler is outstanding.
LEMMA ConnectCompletesLedger == TypeOK /\ ConnectCompletes => TypeOK' /\ Steady
<1> SUFFICES ASSUME TypeOK, ConnectCompletes PROVE TypeOK' /\ Steady
  OBVIOUS
<1>1. PICK c \in {Done("connect"), Failed("connect")} :
         Reactor(<<c>>) /\ socket' \in {"open", "dead"}
  BY DEF ConnectCompletes
<1>2. /\ socket = "connecting"
      /\ UNCHANGED <<process, updates, connected, open, reading, writing, waiting,
                   submitted, sent, disturbed, breaks, stalls>>
  BY DEF ConnectCompletes
<1> DEFINE t == <<c>>
<1>3. t \in CompletionQueues /\ \A op : Count(t, op) = One("connect" = op)
  BY OneCompletion DEF Operations
<1>4. Reactor(t)
  BY <1>1
<1> HIDE DEF t
<1>5. TypeOK'
  <2>1. /\ ready' \in Seq([op : Operations, failed : BOOLEAN])
        /\ cancelled' \in [Operations -> Nat]
    BY <1>3, <1>4, ReactorType
  <2>2. QED
    BY <1>1, <1>2, <2>1 DEF TypeOK
<1>6. /\ One(socket = "connecting") = 1 /\ One(socket' = "connecting") = 0
      /\ Count(t, "connect") = 1
      /\ Count(t, "read") = 0 /\ Count(t, "wait") = 0 /\ Count(t, "write") = 0
  BY <1>1, <1>2, <1>3 DEF One
<1>7. /\ Count(t, "read") + reading' = reading
      /\ Count(t, "connect") + One(socket' = "connecting") = One(socket = "connecting")
      /\ Count(t, "wait") + One(waiting') = One(waiting)
      /\ Count(t, "write") + Len(writing') = Len(writing)
  BY <1>2, <1>6, AccountType
<1>8. QED
  BY <1>3, <1>4, <1>5, <1>7, ReactorLedger DEF Steady

\* A pending read completes; its handler is outstanding.
LEMMA ReadCompletesLedger == TypeOK /\ ReadCompletes => TypeOK' /\ Steady
<1> SUFFICES ASSUME TypeOK, ReadCompletes PROVE TypeOK' /\ Steady
  OBVIOUS
<1>1. PICK c \in {Done("read"), Failed("read")} : Reactor(<<c>>)
  BY DEF ReadCompletes
<1>2. /\ reading > 0 /\ reading' = reading - 1
      /\ UNCHANGED <<process, updates, connected, open, socket, writing, waiting,
                   submitted, sent, disturbed, breaks, stalls>>
  BY DEF ReadCompletes
<1> DEFINE t == <<c>>
<1>3. t \in CompletionQueues /\ \A op : Count(t, op) = One("read" = op)
  BY OneCompletion DEF Operations
<1>4. Reactor(t)
  BY <1>1
<1> HIDE DEF t
<1>5. TypeOK'
  <2>1. /\ ready' \in Seq([op : Operations, failed : BOOLEAN])
        /\ cancelled' \in [Operations -> Nat]
    BY <1>3, <1>4, ReactorType
  <2>2. reading' \in Nat
    BY <1>2 DEF TypeOK
  <2>3. QED
    BY <1>2, <2>1, <2>2 DEF TypeOK
<1>6. /\ Count(t, "read") = 1
      /\ Count(t, "connect") = 0 /\ Count(t, "wait") = 0 /\ Count(t, "write") = 0
  BY <1>3 DEF One
<1>7. /\ Count(t, "read") + reading' = reading
      /\ Count(t, "connect") + One(socket' = "connecting") = One(socket = "connecting")
      /\ Count(t, "wait") + One(waiting') = One(waiting)
      /\ Count(t, "write") + Len(writing') = Len(writing)
  BY <1>2, <1>6, AccountType
<1>8. QED
  BY <1>3, <1>4, <1>5, <1>7, ReactorLedger DEF Steady

\* A pending write completes; its handler is outstanding.
LEMMA WriteCompletesLedger == TypeOK /\ WriteCompletes => TypeOK' /\ Steady
<1> SUFFICES ASSUME TypeOK, WriteCompletes PROVE TypeOK' /\ Steady
  OBVIOUS
<1>1. PICK c \in {Done("write"), Failed("write")} : Reactor(<<c>>)
  BY DEF WriteCompletes
<1>2. /\ writing # <<>> /\ writing' = Tail(writing)
      /\ sent' \in {Append(sent, Head(writing)), sent}
      /\ UNCHANGED <<process, updates, connected, open, socket, reading, waiting,
                   submitted, disturbed, breaks, stalls>>
  BY DEF WriteCompletes
<1> DEFINE t == <<c>>
<1>3. t \in CompletionQueues /\ \A op : Count(t, op) = One("write" = op)
  BY OneCompletion DEF Operations
<1>4. Reactor(t)
  BY <1>1
<1> HIDE DEF t
<1>41. /\ writing' \in Seq(Numerals) /\ Len(writing') = Len(writing) - 1
       /\ Len(writing) \in Nat \ {0} /\ sent' \in Seq(Numerals)
  <2>1. writing \in Seq(Numerals) /\ sent \in Seq(Numerals)
    BY DEF TypeOK, Numerals
  <2>2. /\ Head(writing) \in Numerals /\ writing' \in Seq(Numerals)
        /\ Len(writing') = Len(writing) - 1 /\ Len(writing) \in Nat \ {0}
    BY <1>2, <2>1, TailFacts
  <2>3. sent' \in Seq(Numerals)
    BY <1>2, <2>1, <2>2, AppendFacts, SMTT(30)
  <2>4. QED
    BY <2>2, <2>3
<1>5. TypeOK'
  <2>1. /\ ready' \in Seq([op : Operations, failed : BOOLEAN])
        /\ cancelled' \in [Operations -> Nat]
    BY <1>3, <1>4, ReactorType
  <2>3. QED
    BY <1>2, <1>41, <2>1 DEF TypeOK, Numerals
<1>6. /\ Count(t, "write") = 1
      /\ Count(t, "connect") = 0 /\ Count(t, "wait") = 0 /\ Count(t, "read") = 0
  BY <1>3 DEF One
<1>7. /\ Count(t, "read") + reading' = reading
      /\ Count(t, "connect") + One(socket' = "connecting") = One(socket = "connecting")
      /\ Count(t, "wait") + One(waiting') = One(waiting)
      /\ Count(t, "write") + Len(writing') = Len(writing)
  BY <1>2, <1>41, <1>6, AccountType
<1>8. QED
  BY <1>3, <1>4, <1>5, <1>7, ReactorLedger DEF Steady

\* The pending wait completes; its handler is outstanding.
LEMMA TimerExpiresLedger == TypeOK /\ TimerExpires => TypeOK' /\ Steady
<1> SUFFICES ASSUME TypeOK, TimerExpires PROVE TypeOK' /\ Steady
  OBVIOUS
<1> DEFINE t == <<Done("wait")>>
<1>2. /\ waiting /\ waiting' = FALSE /\ Reactor(t)
      /\ UNCHANGED <<process, updates, connected, open, socket, reading, writing,
                   submitted, sent, disturbed, breaks, stalls>>
  BY DEF TimerExpires
<1>3. t \in CompletionQueues /\ \A op : Count(t, op) = One("wait" = op)
  BY OneCompletion DEF Operations
<1> HIDE DEF t
<1>5. TypeOK'
  <2>1. /\ ready' \in Seq([op : Operations, failed : BOOLEAN])
        /\ cancelled' \in [Operations -> Nat]
    BY <1>2, <1>3, ReactorType
  <2>2. QED
    BY <1>2, <2>1 DEF TypeOK
<1>6. /\ Count(t, "wait") = 1 /\ One(waiting) = 1 /\ One(waiting') = 0
      /\ Count(t, "connect") = 0 /\ Count(t, "read") = 0 /\ Count(t, "write") = 0
  BY <1>2, <1>3 DEF One
<1>7. /\ Count(t, "read") + reading' = reading
      /\ Count(t, "connect") + One(socket' = "connecting") = One(socket = "connecting")
      /\ Count(t, "wait") + One(waiting') = One(waiting)
      /\ Count(t, "write") + Len(writing') = Len(writing)
  <2>1. reading' = reading /\ socket' = socket /\ writing' = writing
    BY <1>2
  <2>2. reading \in Nat /\ One(socket = "connecting") \in Nat /\ Len(writing) \in Nat
    BY AccountType
  <2>3. QED
    BY <1>6, <2>1, <2>2
<1>8. QED
  BY <1>2, <1>3, <1>5, <1>7, ReactorLedger DEF Steady

\* The reactor queues the cancelled operations; they were outstanding before.
LEMMA CancelledCompleteLedger == TypeOK /\ CancelledComplete => TypeOK' /\ Steady
<1> SUFFICES ASSUME TypeOK, CancelledComplete PROVE TypeOK' /\ Steady
  OBVIOUS
<1> DEFINE t == <<>>
<1>2. /\ Reactor(t)
      /\ UNCHANGED <<process, updates, connected, open, socket, reading, writing,
                   waiting, submitted, sent, disturbed, breaks, stalls>>
  BY DEF CancelledComplete
<1>3. t \in CompletionQueues /\ \A op : Count(t, op) = 0
  BY EmptyQueue
<1> HIDE DEF t
<1>5. TypeOK'
  <2>1. /\ ready' \in Seq([op : Operations, failed : BOOLEAN])
        /\ cancelled' \in [Operations -> Nat]
    BY <1>2, <1>3, ReactorType
  <2>2. QED
    BY <1>2, <2>1 DEF TypeOK
<1>7. /\ Count(t, "read") + reading' = reading
      /\ Count(t, "connect") + One(socket' = "connecting") = One(socket = "connecting")
      /\ Count(t, "wait") + One(waiting') = One(waiting)
      /\ Count(t, "write") + Len(writing') = Len(writing)
  <2>1. /\ Count(t, "read") = 0 /\ Count(t, "connect") = 0
        /\ Count(t, "wait") = 0 /\ Count(t, "write") = 0
    BY <1>3
  <2>2. /\ reading' = reading /\ socket' = socket /\ waiting' = waiting
        /\ writing' = writing
    BY <1>2
  <2>3. /\ reading \in Nat /\ One(socket = "connecting") \in Nat /\ One(waiting) \in Nat
        /\ Len(writing) \in Nat
    BY AccountType
  <2>4. /\ Count(t, "read") + reading' = reading
        /\ Count(t, "connect") + One(socket' = "connecting") = One(socket = "connecting")
    BY <2>1, <2>2, <2>3
  <2>5. /\ Count(t, "wait") + One(waiting') = One(waiting)
        /\ Count(t, "write") + Len(writing') = Len(writing)
    BY <2>1, <2>2, <2>3
  <2>6. QED
    BY <2>4, <2>5
<1>8. QED
  BY <1>2, <1>3, <1>5, <1>7, ReactorLedger DEF Steady

\* Steps that start and end no operation.
LEMMA IdleLedger ==
    TypeOK /\ (SetupFails \/ PopFromEmptyQueue \/ Break \/ UNCHANGED vars) => TypeOK' /\ Steady
<1> SUFFICES ASSUME TypeOK, SetupFails \/ PopFromEmptyQueue \/ Break \/ UNCHANGED vars
             PROVE  TypeOK' /\ Steady
  OBVIOUS
<1>1. /\ UNCHANGED <<updates, connected, open, reading, writing, waiting, ready,
                     cancelled, submitted, sent, disturbed, stalls>>
      /\ process' = process \/ process' = "dead" \/ process' = "undefined"
      /\ socket' = socket \/ (socket = "open" /\ socket' = "dead")
      /\ breaks' = breaks \/ (breaks < MaxBreaks /\ breaks' = breaks + 1)
  <2>1. CASE SetupFails
    BY <2>1 DEF SetupFails
  <2>11. CASE PopFromEmptyQueue
    BY <2>11 DEF PopFromEmptyQueue
  <2>2. CASE Break
    BY <2>2 DEF Break
  <2>3. CASE UNCHANGED vars
    BY <2>3 DEF vars
  <2>4. QED
    BY <2>1, <2>11, <2>2, <2>3
<1>2. TypeOK'
  BY <1>1, BoundsAssumption DEF TypeOK
<1>3. One(socket' = "connecting") = One(socket = "connecting")
  BY <1>1 DEF One
<1>4. ASSUME NEW op \in Operations
      PROVE  Out(op)' = (Out(op) - One("none" = op)) + Starts(0, 0, 0, 0)[op]
  <2>1. Out(op)' = Out(op)
    BY <1>1, <1>3 DEF Out, Queued, Held, Operations
  <2>2. One("none" = op) = 0 /\ Starts(0, 0, 0, 0)[op] = 0
    BY DEF One, Operations, Starts
  <2>3. Out(op) \in Nat
    BY OutType DEF OutNatural
  <2>4. QED
    BY <2>1, <2>2, <2>3
<1>5. QED
  BY <1>2, <1>4 DEF Ledger, Steady

\* Every step keeps the types.
LEMMA TypeStep == TypeOK /\ [Next]_vars => TypeOK'
  BY ConnectLedger, HandleConnectOkLedger, HandleConnectErrorLedger, HandleReadPingOkLedger,
     HandleReadPingErrorLedger, HandleWriteUpdateOkLedger, HandleWriteUpdateErrorLedger,
     WriteUpdateLedger, ConnectCompletesLedger, ReadCompletesLedger, WriteCompletesLedger,
     TimerExpiresLedger, CancelledCompleteLedger, IdleLedger DEF Next, RunHandler

\* The constructor leaves a state of the declared types.
LEMMA TypeInit == Init => TypeOK
<1> SUFFICES ASSUME Init PROVE TypeOK
  OBVIOUS
<1>1. <<>> \in Seq(1 .. MaxUpdates) /\ <<>> \in Seq([op : Operations, failed : BOOLEAN])
  BY EmptySeq
<1>2. /\ cancelled \in [Operations -> Nat]
      /\ submitted \in 0 .. MaxUpdates /\ breaks \in 0 .. MaxBreaks
      /\ stalls \in 0 .. MaxStalls
  BY BoundsAssumption DEF Init, NoneCancelled
<1>3. /\ process \in {"running", "dead", "undefined"}
      /\ connected \in BOOLEAN /\ open \in BOOLEAN /\ waiting \in BOOLEAN
      /\ disturbed \in BOOLEAN /\ reading \in Nat
      /\ socket \in {"closed", "connecting", "open", "dead"}
  BY DEF Init
<1>4. updates = <<>> /\ writing = <<>> /\ ready = <<>> /\ sent = <<>>
  BY DEF Init
<1>5. QED
  BY <1>1, <1>2, <1>3, <1>4 DEF TypeOK

\* Every variable of database keeps its type, whatever handlers run in whatever order.
THEOREM AlwaysTypeOK == Spec => []TypeOK
  BY TypeInit, TypeStep, PTL DEF Spec

\* A ledger, kind by kind.
LEMMA LedgerParts ==
    ASSUME NEW e, NEW r, NEW c, NEW w, NEW x, Ledger(e, Starts(r, c, w, x))
    PROVE  /\ Out("read")' = (Out("read") - One(e = "read")) + r
           /\ Out("connect")' = (Out("connect") - One(e = "connect")) + c
           /\ Out("wait")' = (Out("wait") - One(e = "wait")) + w
           /\ Out("write")' = (Out("write") - One(e = "write")) + x
  BY DEF Ledger, Starts, Operations

\* The operations outstanding, kind by kind.
LEMMA OutNaturals ==
    TypeOK => /\ Out("read") \in Nat /\ Out("connect") \in Nat
              /\ Out("wait") \in Nat /\ Out("write") \in Nat
  BY OutType DEF OutNatural, Operations

\* The link always has an operation that carries it on.
Carried == Out("read") + Out("connect") + Out("wait") > 0

\* Until a write fails it has exactly one.
Single ==
    ~disturbed =>
        IF open THEN Out("read") = 1 /\ Out("connect") = 0 /\ Out("wait") = 0
                ELSE Out("read") = 0 /\ Out("connect") + Out("wait") = 1

LinkInv == TypeOK /\ Carried /\ Single

\* After the constructor one connect is outstanding.
LEMMA LinkInit == Init => LinkInv
<1> SUFFICES ASSUME Init PROVE LinkInv
  OBVIOUS
<1>1. TypeOK
  BY TypeInit
<1>2. /\ Count(ready, "read") = 0 /\ Count(ready, "connect") = 0 /\ Count(ready, "wait") = 0
  BY CountEmpty DEF Init
<1>3. /\ cancelled["read"] = 0 /\ cancelled["connect"] = 0 /\ cancelled["wait"] = 0
  BY DEF Init, NoneCancelled, Operations
<1>4. Held("read") = 0 /\ Held("connect") = 1 /\ Held("wait") = 0
  BY DEF Init, Held, One
<1>5. Out("read") = 0 /\ Out("connect") = 1 /\ Out("wait") = 0
  BY <1>2, <1>3, <1>4 DEF Out, Queued
<1>6. ~open
  BY DEF Init
<1>7. QED
  BY <1>1, <1>5, <1>6 DEF LinkInv, Carried, Single

\* Every handler of database, and every step of the network, keeps the link carried.
LEMMA LinkStep == LinkInv /\ [Next]_vars => LinkInv'
<1> SUFFICES ASSUME LinkInv, [Next]_vars PROVE LinkInv'
  OBVIOUS
<1>1. TypeOK /\ Carried /\ Single
  BY DEF LinkInv
<1>2. TypeOK'
  BY <1>1, TypeStep
<1>3. /\ Out("read") \in Nat /\ Out("connect") \in Nat /\ Out("wait") \in Nat
      /\ open \in BOOLEAN /\ disturbed \in BOOLEAN
  BY <1>1, OutNaturals DEF TypeOK
<1>4. /\ One("wait" = "wait") = 1 /\ One("wait" = "read") = 0 /\ One("wait" = "connect") = 0
      /\ One("read" = "wait") = 0 /\ One("read" = "read") = 1 /\ One("read" = "connect") = 0
      /\ One("connect" = "wait") = 0 /\ One("connect" = "read") = 0
      /\ One("connect" = "connect") = 1
      /\ One("write" = "wait") = 0 /\ One("write" = "read") = 0 /\ One("write" = "connect") = 0
      /\ One("none" = "wait") = 0 /\ One("none" = "read") = 0 /\ One("none" = "connect") = 0
  BY DEF One
<1>5. CASE Connect
  <2>1. /\ Out("read")' = Out("read") /\ Out("connect")' = Out("connect") + 1
        /\ Out("wait")' = Out("wait") - 1 /\ Out("wait") >= 1
    BY <1>1, <1>3, <1>4, <1>5, ConnectLedger, LedgerParts
  <2>2. open' = open /\ disturbed' = disturbed
    BY <1>5 DEF Connect
  <2>3. QED
    BY <1>1, <1>2, <1>3, <2>1, <2>2 DEF LinkInv, Carried, Single
<1>6. CASE HandleConnectOk
  <2>1. /\ Out("read")' = Out("read") + 1 /\ Out("connect")' = Out("connect") - 1
        /\ Out("wait")' = Out("wait") /\ Out("connect") >= 1
    BY <1>1, <1>3, <1>4, <1>6, HandleConnectOkLedger, LedgerParts
  <2>2. open' = TRUE /\ disturbed' = disturbed
    BY <1>6 DEF HandleConnectOk
  <2>3. QED
    BY <1>1, <1>2, <1>3, <2>1, <2>2 DEF LinkInv, Carried, Single
<1>7. CASE HandleConnectError
  <2>1. /\ Out("read")' = Out("read") /\ Out("connect")' = Out("connect") - 1
        /\ Out("wait")' = Out("wait") + 1 /\ Out("connect") >= 1
    BY <1>1, <1>3, <1>4, <1>7, HandleConnectErrorLedger, LedgerParts
  <2>2. open' = open /\ disturbed' = disturbed
    BY <1>7 DEF HandleConnectError
  <2>3. QED
    BY <1>1, <1>2, <1>3, <2>1, <2>2 DEF LinkInv, Carried, Single
<1>8. CASE HandleReadPingOk
  <2>1. /\ Out("read")' = Out("read") /\ Out("connect")' = Out("connect")
        /\ Out("wait")' = Out("wait") /\ Out("read") >= 1
    BY <1>1, <1>3, <1>4, <1>8, HandleReadPingOkLedger, LedgerParts
  <2>2. open' = open /\ disturbed' = disturbed
    BY <1>8 DEF HandleReadPingOk
  <2>3. QED
    BY <1>1, <1>2, <1>3, <2>1, <2>2 DEF LinkInv, Carried, Single
<1>9. CASE HandleReadPingError
  <2>1. /\ Out("read")' = Out("read") - 1 /\ Out("connect")' = Out("connect")
        /\ Out("wait")' = Out("wait") + 1 /\ Out("read") >= 1
    BY <1>1, <1>3, <1>4, <1>9, HandleReadPingErrorLedger, LedgerParts
  <2>2. open' = FALSE /\ disturbed' = disturbed
    BY <1>9 DEF HandleReadPingError, CloseHandles
  <2>3. QED
    BY <1>1, <1>2, <1>3, <2>1, <2>2 DEF LinkInv, Carried, Single
<1>10. CASE HandleWriteUpdateOk
  <2>1. /\ Out("read")' = Out("read") /\ Out("connect")' = Out("connect")
        /\ Out("wait")' = Out("wait")
    BY <1>1, <1>3, <1>4, <1>10, HandleWriteUpdateOkLedger, LedgerParts
  <2>2. open' = open /\ disturbed' = disturbed
    BY <1>10 DEF HandleWriteUpdateOk
  <2>3. QED
    BY <1>1, <1>2, <1>3, <2>1, <2>2 DEF LinkInv, Carried, Single
<1>11. CASE HandleWriteUpdateError
  <2>1. /\ Out("read")' = Out("read") /\ Out("connect")' = Out("connect")
        /\ Out("wait")' = Out("wait") + 1
    BY <1>1, <1>3, <1>4, <1>11, HandleWriteUpdateErrorLedger, LedgerParts
  <2>2. disturbed' = TRUE
    BY <1>11 DEF HandleWriteUpdateError
  <2>3. QED
    BY <1>1, <1>2, <1>3, <2>1, <2>2 DEF LinkInv, Carried, Single
<1>12. CASE WriteUpdate
  <2>1. /\ Out("read")' = Out("read") /\ Out("connect")' = Out("connect")
        /\ Out("wait")' = Out("wait")
    BY <1>1, <1>3, <1>4, <1>12, WriteUpdateLedger, LedgerParts
  <2>2. open' = open /\ (~disturbed' => ~disturbed)
    BY <1>12 DEF WriteUpdate
  <2>3. QED
    BY <1>1, <1>2, <1>3, <2>1, <2>2 DEF LinkInv, Carried, Single
<1>13. CASE ConnectCompletes \/ ReadCompletes \/ WriteCompletes \/ TimerExpires
              \/ CancelledComplete \/ SetupFails \/ PopFromEmptyQueue \/ Break \/ UNCHANGED vars
  <2>1. Ledger("none", Starts(0, 0, 0, 0))
    BY <1>1, <1>13, ConnectCompletesLedger, ReadCompletesLedger, WriteCompletesLedger,
       TimerExpiresLedger, CancelledCompleteLedger, IdleLedger DEF Steady
  <2>2. /\ Out("read")' = Out("read") /\ Out("connect")' = Out("connect")
        /\ Out("wait")' = Out("wait")
    BY <1>3, <1>4, <2>1, LedgerParts
  <2>3. open' = open /\ disturbed' = disturbed
    BY <1>13 DEF ConnectCompletes, ReadCompletes, WriteCompletes, TimerExpires,
                 CancelledComplete, SetupFails, PopFromEmptyQueue, Break, vars
  <2>4. QED
    BY <1>1, <1>2, <1>3, <2>2, <2>3 DEF LinkInv, Carried, Single
<1>14. QED
  BY <1>5, <1>6, <1>7, <1>8, <1>9, <1>10, <1>11, <1>12, <1>13 DEF Next, RunHandler

\* The link is carried in every reachable state.
LEMMA LinkAlways == Spec => []LinkInv
  BY LinkInit, LinkStep, PTL DEF Spec

\* Whatever happens to the connection, some operation is outstanding that carries
\* the link on: database.cpp cannot be left with nothing to wait for.
THEOREM AlwaysNeverStuck == Spec => []NeverStuck
<1>1. LinkInv => NeverStuck
  BY OutByKind DEF LinkInv, Carried, NeverStuck
<1>2. QED
  BY <1>1, LinkAlways, PTL

\* Until a write fails, exactly one operation carries the link on.
THEOREM AlwaysOneReconnect == Spec => []OneReconnect
<1>1. LinkInv => OneReconnect
  <2>1. SUFFICES ASSUME LinkInv, ~disturbed
                 PROVE  IF open THEN Reads = 1 /\ Connects + Waits = 0
                                ELSE Reads = 0 /\ Connects + Waits = 1
    BY DEF OneReconnect
  <2>2. TypeOK /\ Single
    BY <2>1 DEF LinkInv
  <2>3. QED
    BY <2>1, <2>2, OutByKind DEF Single, TypeOK
<1>2. QED
  BY <1>1, LinkAlways, PTL

\* The handler of a completed write has yet to run.
Acked == Done("write") \in Range(ready)

\* Cancelled operations have all failed.
LEMMA AbortedFailed == TypeOK => Done("write") \notin Range(Aborted)
<1> SUFFICES ASSUME TypeOK PROVE Done("write") \notin Range(Aborted)
  OBVIOUS
<1> DEFINE r == Times(cancelled.read, Failed("read"))
           w == Times(cancelled.write, Failed("write"))
           c == Times(cancelled.connect, Failed("connect"))
           t == Times(cancelled.wait, Failed("wait"))
<1>1. /\ cancelled.read \in Nat /\ cancelled.write \in Nat
      /\ cancelled.connect \in Nat /\ cancelled.wait \in Nat
  BY DEF TypeOK, Operations
<1>2. /\ Failed("read") \in Completions /\ Failed("write") \in Completions
      /\ Failed("connect") \in Completions /\ Failed("wait") \in Completions
  BY DEF Failed, Completions, Operations
<1>3. /\ r \in Seq(Completions) /\ w \in Seq(Completions)
      /\ c \in Seq(Completions) /\ t \in Seq(Completions)
  BY <1>1, <1>2, CountTimes
<1>4. ASSUME NEW n, NEW x PROVE Range(Times(n, x)) \subseteq {x}
  BY DEF Range, Times
<1>5. /\ Range(r) \subseteq {Failed("read")} /\ Range(w) \subseteq {Failed("write")}
      /\ Range(c) \subseteq {Failed("connect")} /\ Range(t) \subseteq {Failed("wait")}
  BY <1>4
<1> DEFINE rw == r \o w
           rwc == rw \o c
           all == rwc \o t
<1>6. Aborted = all
  BY DEF Aborted
<1> HIDE DEF r, w, c, t
<1>7. rw \in Seq(Completions) /\ Range(rw) = Range(r) \cup Range(w)
  BY <1>3, RangeConcat, ConcatProperties
<1> HIDE DEF rw
<1>8. rwc \in Seq(Completions) /\ Range(rwc) = Range(rw) \cup Range(c)
  BY <1>3, <1>7, RangeConcat, ConcatProperties
<1> HIDE DEF rwc
<1>9. Range(all) = Range(rwc) \cup Range(t)
  BY <1>3, <1>8, RangeConcat
<1>10. /\ Done("write") # Failed("read") /\ Done("write") # Failed("write")
       /\ Done("write") # Failed("connect") /\ Done("write") # Failed("wait")
  BY DEF Done, Failed
<1> HIDE DEF all
<1>11. QED
  BY <1>5, <1>6, <1>7, <1>8, <1>9, <1>10

\* Whether a write is done after the reactor has run.
LEMMA ReactorAcked ==
    ASSUME TypeOK, NEW t \in CompletionQueues, Reactor(t)
    PROVE  Acked' <=> Acked \/ Done("write") \in Range(t)
<1>1. /\ ready \in Seq(Completions) /\ t \in Seq(Completions)
      /\ ready' = (ready \o Aborted) \o t
  BY DEF TypeOK, Completions, CompletionQueues, Reactor
<1>2. Aborted \in Seq(Completions)
  BY AbortedCounts
<1> DEFINE ra == ready \o Aborted
<1>3. ra \in Seq(Completions) /\ Range(ra) = Range(ready) \cup Range(Aborted)
  BY <1>1, <1>2, RangeConcat, ConcatProperties
<1>4. ready' = ra \o t
  BY <1>1
<1> HIDE DEF ra
<1>5. Range(ready') = Range(ra) \cup Range(t)
  BY <1>1, <1>3, <1>4, RangeConcat
<1>6. QED
  BY <1>3, <1>5, AbortedFailed DEF Acked

\* Whether a write is done after a handler has run.
LEMMA HandlerAcked ==
    ASSUME TypeOK, NEW o \in Operations, NEW failed \in BOOLEAN,
           Handle(o, failed), NEW t \in CompletionQueues, Posts(t)
    PROVE  /\ Acked' <=> Done("write") \in Range(Tail(ready)) \cup Range(t)
           /\ Acked <=> Head(ready) = Done("write") \/ Done("write") \in Range(Tail(ready))
           /\ o # "write" => (Acked' <=> Acked \/ Done("write") \in Range(t))
           /\ o = "write" /\ failed => (Acked' <=> Acked \/ Done("write") \in Range(t))
<1>1. /\ ready \in Seq(Completions) /\ ready # <<>> /\ t \in Seq(Completions)
      /\ Head(ready) = [op |-> o, failed |-> failed] /\ ready' = Tail(ready) \o t
  BY DEF TypeOK, Completions, CompletionQueues, Handle, Posts
<1>2. Tail(ready) \in Seq(Completions) /\ Range(ready) = {Head(ready)} \cup Range(Tail(ready))
  BY <1>1, TailFacts, RangeTail
<1> DEFINE tl == Tail(ready)
<1>3. ready' = tl \o t /\ tl \in Seq(Completions)
  BY <1>1, <1>2
<1> HIDE DEF tl
<1>4. Range(ready') = Range(tl) \cup Range(t)
  BY <1>1, <1>3, RangeConcat, ZenonT(30)
<1>5. o # "write" \/ failed => Head(ready) # Done("write")
  BY <1>1 DEF Done
<1>6. QED
  BY <1>2, <1>4, <1>5 DEF Acked, tl

\* How many updates have left the queue: those sent, but not the front of the
\* queue while the handler that discards it has yet to run.
Base == IF Acked THEN Len(sent) - 1 ELSE Len(sent)

InOrder(s, base) == \A i \in DOMAIN s : s[i] = base + i

\* What is sent and what is queued are the updates in the order of submission.
Backlog ==
    /\ InOrder(sent, 0)
    /\ InOrder(updates, Base)
    /\ Len(updates) + Base = submitted

\* An operation on a closed socket has failed.
ClosedIdle == socket = "closed" => writing = <<>>

\* Until a write fails: the writes outstanding are the one of the front of the
\* queue, and what may be outstanding while nothing is open ends with the wait.
Orderly ==
    ~disturbed =>
        /\ process # "undefined"
        /\ open => connected
        /\ Out("write") = IF connected THEN One(updates # <<>>) ELSE 0
        /\ ~open /\ Out("write") # 0 => waiting /\ socket = "closed"
        /\ writing # <<>> => Head(writing) = Head(updates)
        /\ Backlog

QueueInv == LinkInv /\ ClosedIdle /\ Orderly

\* The places where an outstanding write may be.
LEMMA WritePlaces ==
    TypeOK => /\ Count(ready, "write") \in Nat /\ Len(writing) \in Nat /\ Out("write") \in Nat
              /\ cancelled["write"] \in Nat
              /\ Out("write") = Count(ready, "write") + cancelled["write"] + Len(writing)
              /\ writing # <<>> <=> Len(writing) # 0
              /\ Acked => Count(ready, "write") # 0
<1> SUFFICES ASSUME TypeOK
             PROVE  /\ Count(ready, "write") \in Nat /\ Len(writing) \in Nat
                    /\ Out("write") \in Nat
                    /\ cancelled["write"] \in Nat
                    /\ Out("write") = Count(ready, "write") + cancelled["write"] + Len(writing)
                    /\ writing # <<>> <=> Len(writing) # 0
                    /\ Acked => Count(ready, "write") # 0
  OBVIOUS
<1>1. ready \in Seq(Completions) /\ writing \in Seq(Numerals)
  BY DEF TypeOK, Completions, Numerals
<1>2. Count(ready, "write") \in Nat /\ cancelled["write"] \in Nat /\ Out("write") \in Nat
  BY OutType DEF OutNatural, Operations
<1>3. Len(writing) \in Nat /\ (writing # <<>> <=> Len(writing) # 0)
  BY <1>1, EmptySeq, LenProperties
<1>4. Out("write") = Count(ready, "write") + cancelled["write"] + Len(writing)
  BY DEF Out, Queued, Held
<1>5. ASSUME Acked PROVE Count(ready, "write") # 0
  <2>1. PICK k \in DOMAIN ready : ready[k] = Done("write")
    BY <1>5 DEF Acked, Range
  <2>2. ready[k].op = "write"
    BY <2>1 DEF Done
  <2>3. QED
    BY <1>1, <2>1, <2>2, CountType
<1>6. QED
  BY <1>2, <1>3, <1>4, <1>5

\* A step that leaves the updates, what was sent and what is acknowledged alone.
LEMMA BacklogFrame ==
    ASSUME Backlog, UNCHANGED <<sent, updates, submitted>>, Acked' <=> Acked
    PROVE  Backlog'
<1>1. Base' = Base
  BY DEF Base
<1>2. QED
  BY <1>1 DEF Backlog, InOrder

\* A write of the front of queue q, after all before it was sent.
LEMMA WriteBacklog ==
    ASSUME TypeOK, InOrder(sent, 0),
           NEW up \in BOOLEAN, NEW q \in Seq(Numerals), InOrder(q, Len(sent)),
           NEW e \in WriteFront(up, q), sent' = sent \o e.sends, updates' = q,
           Acked' <=> Done("write") \in Range(e.posts),
           Len(q) + Len(sent) = submitted'
    PROVE  Backlog'
<1>1. sent \in Seq(Numerals) /\ Len(sent) \in Nat
  BY LenProperties DEF TypeOK, Numerals
<1>2. \/ /\ ~(up /\ q # <<>>)
         /\ e.posts = <<>> /\ e.sends = <<>>
      \/ /\ up /\ q # <<>> /\ Head(q) \in Numerals
         /\ e.posts = <<Done("write")>> /\ e.sends = <<Head(q)>>
      \/ /\ up /\ q # <<>> /\ Head(q) \in Numerals
         /\ e.posts = <<Failed("write")>> /\ e.sends = <<>>
      \/ /\ up /\ q # <<>> /\ Head(q) \in Numerals
         /\ e.posts = <<>> /\ e.sends = <<>>
  BY WriteCases
<1>3. CASE e.posts = <<Done("write")>> /\ e.sends = <<Head(q)>> /\ q # <<>>
           /\ Head(q) \in Numerals
  <2>1. Acked'
    BY <1>3, RangeSmall
  <2>2. sent' = Append(sent, Head(q))
    BY <1>1, <1>3
  <2>3. Head(q) = Len(sent) + 1
    <3>1. Head(q) = q[1] /\ 1 \in DOMAIN q
      BY <1>3, TailCases
    <3>2. QED
      BY <3>1 DEF InOrder
  <2>4. /\ Len(sent') = Len(sent) + 1 /\ sent' \in Seq(Numerals)
        /\ \A i \in DOMAIN sent' : \/ i \in DOMAIN sent /\ sent'[i] = sent[i]
                                   \/ i = Len(sent) + 1 /\ sent'[i] = Head(q)
    BY <1>1, <1>3, <2>2, AppendCases
  <2>5. DOMAIN sent = 1 .. Len(sent)
    BY <1>1, LenProperties
  <2>6. InOrder(sent', 0)
    <3>1. ASSUME NEW i \in DOMAIN sent' PROVE sent'[i] = 0 + i
      <4>1. CASE i \in DOMAIN sent /\ sent'[i] = sent[i]
        BY <4>1 DEF InOrder
      <4>2. CASE i = Len(sent) + 1 /\ sent'[i] = Head(q)
        BY <1>1, <2>3, <4>2
      <4>3. QED
        BY <2>4, <4>1, <4>2
    <3>2. QED
      BY <3>1 DEF InOrder
  <2>7. Base' = Len(sent)
    BY <1>1, <2>1, <2>4 DEF Base
  <2>8. QED
    BY <2>6, <2>7 DEF Backlog
<1>4. CASE Done("write") \notin Range(e.posts) /\ e.sends = <<>>
  <2>1. ~Acked' /\ sent' = sent
    BY <1>1, <1>4
  <2>2. Base' = Len(sent)
    BY <2>1 DEF Base
  <2>3. QED
    BY <2>1, <2>2 DEF Backlog
<1>5. Done("write") \notin Range(<<>>) /\ Done("write") \notin Range(<<Failed("write")>>)
  BY RangeSmall DEF Done, Failed
<1>6. QED
  BY <1>2, <1>3, <1>4, <1>5

\* The write that is started is the one of the front of the queue.
LEMMA WriteHead ==
    ASSUME TypeOK, NEW up \in BOOLEAN, NEW q \in Seq(Numerals), NEW e \in WriteFront(up, q),
           Writes(e), writing = <<>>
    PROVE  /\ writing' # <<>> => Head(writing') = Head(q) /\ socket \in {"open", "connecting"}
           /\ sent' = sent \o e.sends
<1>1. writing' = <<>> \o e.pends /\ sent' = sent \o e.sends
  BY DEF Writes
<1>2. \/ e.pends = <<>>
      \/ /\ e.pends = <<Head(q)>> /\ Head(q) \in Numerals
         /\ socket \in {"open", "connecting"}
  BY WriteCases
<1>3. CASE e.pends = <<>>
  <2>1. writing' = <<>>
    BY <1>1, <1>3
  <2>2. QED
    BY <1>1, <2>1
<1>4. CASE e.pends = <<Head(q)>> /\ Head(q) \in Numerals /\ socket \in {"open", "connecting"}
  <2>1. writing' = <<Head(q)>>
    BY <1>1, <1>4
  <2>2. QED
    BY <1>1, <1>4, <2>1
<1>5. QED
  BY <1>2, <1>3, <1>4

\* After the constructor nothing was submitted.
LEMMA QueueInit == Init => QueueInv
<1> SUFFICES ASSUME Init PROVE QueueInv
  OBVIOUS
<1>1. LinkInv
  BY LinkInit
<1>2. ClosedIdle
  BY DEF Init, ClosedIdle
<1>3. Out("write") = 0
  <2>1. Count(ready, "write") = 0 /\ cancelled["write"] = 0 /\ Held("write") = 0
    BY CountEmpty, EmptySeq DEF Init, NoneCancelled, Operations, Held
  <2>2. QED
    BY <2>1 DEF Out, Queued
<1>4. Backlog
  <2>1. sent = <<>> /\ updates = <<>> /\ ready = <<>> /\ submitted = 0
    BY DEF Init
  <2>2. Base = 0
    BY <2>1, RangeSmall, EmptySeq DEF Base, Acked
  <2>3. QED
    BY <2>1, <2>2, EmptySeq DEF Backlog, InOrder
<1>5. Orderly
  BY <1>3, <1>4 DEF Init, Orderly
<1>6. QED
  BY <1>1, <1>2, <1>5 DEF QueueInv

\* What the invariant says, with the balance of the outstanding operations.
QueueFacts ==
    /\ TypeOK /\ Single /\ ClosedIdle
    /\ Out("read") \in Nat /\ Out("connect") \in Nat /\ Out("wait") \in Nat
    /\ Out("write") \in Nat /\ open \in BOOLEAN /\ connected \in BOOLEAN
    /\ ~disturbed =>
        /\ process # "undefined"
        /\ open => connected
        /\ Out("write") = IF connected THEN One(updates # <<>>) ELSE 0
        /\ ~open /\ Out("write") # 0 => waiting /\ socket = "closed"
        /\ writing # <<>> => Head(writing) = Head(updates)
        /\ Backlog

\* These facts follow from the invariant.
LEMMA QueueInvFacts == QueueInv => QueueFacts
<1> SUFFICES ASSUME QueueInv PROVE QueueFacts
  OBVIOUS
<1>1. TypeOK /\ Single /\ ClosedIdle /\ Orderly
  BY DEF QueueInv, LinkInv
<1>2. open \in BOOLEAN /\ connected \in BOOLEAN
  BY <1>1 DEF TypeOK
<1>3. QED
  BY <1>1, <1>2, OutNaturals DEF QueueFacts, Orderly

\* Only an operation that is not a write is handled, and nothing but the queue of
\* completions, the socket and the connection changes.
LEMMA ConnectQueue == QueueInv /\ Connect => ClosedIdle' /\ Orderly'
<1> SUFFICES ASSUME QueueInv, Connect PROVE ClosedIdle' /\ Orderly'
  OBVIOUS
<1>1. QueueFacts
  BY QueueInvFacts
<1>2. TypeOK /\ Out("wait") \in Nat /\ Out("connect") \in Nat /\ Out("write") \in Nat
  BY <1>1 DEF QueueFacts
<1>3. /\ UNCHANGED <<process, updates, connected, open, reading, writing, waiting,
                     cancelled, submitted, sent, disturbed, breaks, stalls>>
      /\ socket' # "closed"
  BY DEF Connect
<1>4. Out("wait") >= 1 /\ Out("write")' = Out("write") - One("wait" = "write") + 0
  BY <1>2, ConnectLedger, LedgerParts
<1>5. Out("write")' = Out("write")
  BY <1>2, <1>4 DEF One
<1>6. ClosedIdle'
  BY <1>3 DEF ClosedIdle
<1>7. ASSUME ~disturbed, ~open PROVE ~waiting
  <2>1. Out("wait") = 1
    BY <1>1, <1>2, <1>4, <1>7 DEF QueueFacts, Single
  <2>2. Out("wait") = Count(ready, "wait") + cancelled["wait"] + One(waiting)
    BY DEF Out, Queued, Held
  <2>3. Count(ready, "wait") >= 1
    <3>1. PICK failed \in BOOLEAN : Handle("wait", failed)
      BY DEF Connect
    <3>2. ready \in Seq(Completions) /\ ready # <<>> /\ Head(ready).op = "wait"
      BY <1>2, <3>1 DEF TypeOK, Completions, Handle
    <3>3. Count(ready, "wait") = One(Head(ready).op = "wait") + Count(Tail(ready), "wait")
      BY <3>2, CountTail
    <3>4. Count(Tail(ready), "wait") \in Nat
      BY <3>2, CountTail, CountType
    <3>5. QED
      BY <3>2, <3>3, <3>4 DEF One
  <2>4. Count(ready, "wait") \in Nat /\ cancelled["wait"] \in Nat /\ One(waiting) \in Nat
    BY <1>2, OutType DEF OutNatural, Operations, One
  <2>5. One(waiting) = 0
    BY <2>1, <2>2, <2>3, <2>4
  <2>6. QED
    BY <2>5 DEF One
<1>8. Acked' <=> Acked
  <2> DEFINE t == IF socket = "closed" THEN <<>> ELSE <<Failed("connect")>>
  <2>1. PICK failed \in BOOLEAN : Handle("wait", failed)
    BY DEF Connect
  <2>2. Posts(t)
    BY DEF Connect
  <2>3. t \in CompletionQueues /\ Done("write") \notin Range(t)
    BY EmptyQueue, OneCompletion, RangeSmall DEF Operations, Done, Failed
  <2> HIDE DEF t
  <2>4. QED
    BY <1>2, <2>1, <2>2, <2>3, HandlerAcked DEF Operations
<1>9. ASSUME ~disturbed PROVE Backlog'
  BY <1>1, <1>3, <1>8, <1>9, BacklogFrame DEF QueueFacts
<1>10. Orderly'
  BY <1>1, <1>3, <1>5, <1>7, <1>9 DEF Orderly, QueueFacts
<1>11. QED
  BY <1>6, <1>10

\* A connect is handled only while nothing is open, waits or is written.
LEMMA ConnectHandled ==
    ASSUME QueueInv, Out("connect") >= 1, ~disturbed
    PROVE  ~open /\ ~waiting /\ Out("write") = 0 /\ writing = <<>> /\ ~Acked
<1>1. QueueFacts
  BY QueueInvFacts
<1>2. TypeOK /\ Out("wait") \in Nat /\ Out("connect") \in Nat
  BY <1>1 DEF QueueFacts
<1>3. ~open /\ Out("wait") = 0
  BY <1>1, <1>2 DEF QueueFacts, Single
<1>4. ~waiting
  <2>1. Out("wait") = Count(ready, "wait") + cancelled["wait"] + One(waiting)
    BY DEF Out, Queued, Held
  <2>2. Count(ready, "wait") \in Nat /\ cancelled["wait"] \in Nat /\ One(waiting) \in Nat
    BY <1>2, OutType DEF OutNatural, Operations, One
  <2>3. One(waiting) = 0
    BY <1>3, <2>1, <2>2
  <2>4. QED
    BY <2>3 DEF One
<1>5. Out("write") = 0
  BY <1>1, <1>3, <1>4 DEF QueueFacts
<1>6. Count(ready, "write") = 0 /\ Len(writing) = 0
  BY <1>2, <1>5, WritePlaces
<1>7. QED
  BY <1>2, <1>3, <1>4, <1>5, <1>6, WritePlaces

\* handle_connect without an error writes the front of the queue, if there is one.
LEMMA HandleConnectOkQueue == QueueInv /\ HandleConnectOk => ClosedIdle' /\ Orderly'
<1> SUFFICES ASSUME QueueInv, HandleConnectOk PROVE ClosedIdle' /\ Orderly'
  OBVIOUS
<1>1. QueueFacts
  BY QueueInvFacts
<1>2. TypeOK /\ Out("write") \in Nat
  BY <1>1 DEF QueueFacts
<1>3. /\ UNCHANGED <<process, updates, socket, waiting, cancelled, submitted, disturbed,
                     breaks>>
      /\ connected' = TRUE /\ open' = TRUE /\ StartRead /\ Handle("connect", FALSE)
  BY DEF HandleConnectOk
<1>4. PICK e \in WriteFront(TRUE, updates) : Writes(e) /\ Posts(e.posts \o ReadPosts)
  BY DEF HandleConnectOk
<1>5. updates \in Seq(Numerals)
  BY <1>2 DEF TypeOK, Numerals
<1>6. /\ Out("connect") >= 1
      /\ Out("write")' = Out("write") - One("connect" = "write") + One(updates # <<>>)
  BY <1>2, HandleConnectOkLedger, LedgerParts
<1>7. ClosedIdle'
  <2>1. SUFFICES ASSUME socket = "closed" PROVE writing' = <<>>
    BY <1>3 DEF ClosedIdle
  <2>2. writing = <<>>
    BY <1>1, <2>1 DEF QueueFacts, ClosedIdle
  <2>3. writing' # <<>> => socket \in {"open", "connecting"}
    BY <1>2, <1>4, <1>5, <2>2, WriteHead
  <2>4. QED
    BY <2>1, <2>3
<1>8. ASSUME ~disturbed PROVE Orderly'
  <2>1. ~open /\ ~waiting /\ Out("write") = 0 /\ writing = <<>> /\ ~Acked
    BY <1>6, <1>8, ConnectHandled
  <2>2. One(updates # <<>>) \in Nat /\ One("connect" = "write") = 0
    BY DEF One
  <2>3. Out("write")' = One(updates # <<>>)
    BY <1>6, <2>1, <2>2
  <2>4. /\ writing' # <<>> => Head(writing') = Head(updates)
        /\ sent' = sent \o e.sends
    BY <1>2, <1>4, <1>5, <2>1, WriteHead
  <2>5. Acked' <=> Done("write") \in Range(e.posts)
    <3>1. e.posts \in Seq(Completions)
      BY <1>2, <1>4, <1>5, WriteLedger
    <3>2. ReadPosts \in Seq(Completions)
      BY <1>2, <1>3, ReadLedger
    <3>3. Done("write") \notin Range(ReadPosts)
      BY RangeSmall DEF ReadPosts, Done, Failed
    <3> DEFINE p == e.posts
               t == p \o ReadPosts
    <3>4. t \in CompletionQueues /\ Range(t) = Range(p) \cup Range(ReadPosts)
      <4> HIDE DEF p
      <4>1. p \in Seq(Completions)
        BY <3>1 DEF p
      <4>2. QED
        BY <3>2, <4>1, RangeConcat, ConcatProperties DEF CompletionQueues
    <3>5. Posts(t)
      BY <1>4
    <3> HIDE DEF t
    <3>6. Acked' <=> Acked \/ Done("write") \in Range(t)
      BY <1>2, <1>3, <3>4, <3>5, HandlerAcked DEF Operations
    <3>7. QED
      BY <2>1, <3>3, <3>4, <3>6
  <2>6. Backlog'
    <3>1. Backlog /\ Base = Len(sent)
      BY <1>1, <1>8, <2>1 DEF QueueFacts, Base
    <3>2. /\ InOrder(sent, 0) /\ InOrder(updates, Len(sent))
          /\ Len(updates) + Len(sent) = submitted
      BY <3>1 DEF Backlog
    <3>3. QED
      BY <1>2, <1>3, <1>4, <1>5, <2>4, <2>5, <3>2, WriteBacklog
  <2>7. process' # "undefined"
    BY <1>1, <1>3, <1>8 DEF QueueFacts
  <2>8. QED
    BY <1>3, <2>3, <2>4, <2>6, <2>7 DEF Orderly
<1>9. disturbed => Orderly'
  BY <1>3 DEF Orderly
<1>10. QED
  BY <1>7, <1>8, <1>9

\* Closing the socket and waiting leaves what is queued alone.
LEMMA CloseQueue ==
    ASSUME QueueInv, NEW o \in Operations, Handle(o, TRUE), Posts(<<>>), CloseAndReconnect,
           UNCHANGED <<process, updates, connected, submitted, sent, disturbed>>,
           open' \in {open, FALSE}, Out("write")' = Out("write")
    PROVE  ClosedIdle' /\ Orderly'
<1>1. QueueFacts
  BY QueueInvFacts
<1>2. TypeOK
  BY <1>1 DEF QueueFacts
<1>3. socket' = "closed" /\ writing' = <<>> /\ waiting' = TRUE
  BY DEF CloseAndReconnect
<1>4. Acked' <=> Acked
  <2> DEFINE t == <<>>
  <2>1. t \in CompletionQueues /\ Posts(t) /\ Done("write") \notin Range(t)
    BY EmptyQueue, RangeSmall
  <2> HIDE DEF t
  <2>2. QED
    BY <1>2, <2>1, HandlerAcked
<1>5. ASSUME ~disturbed PROVE Backlog'
  BY <1>1, <1>4, <1>5, BacklogFrame DEF QueueFacts
<1>6. Orderly'
  BY <1>1, <1>3, <1>5 DEF Orderly, QueueFacts
<1>7. QED
  BY <1>3, <1>6 DEF ClosedIdle

\* handle_connect with an error leaves the queue of updates alone.
LEMMA HandleConnectErrorQueue == QueueInv /\ HandleConnectError => ClosedIdle' /\ Orderly'
<1> SUFFICES ASSUME QueueInv, HandleConnectError PROVE ClosedIdle' /\ Orderly'
  OBVIOUS
<1>1. TypeOK /\ Out("write") \in Nat
  BY QueueInvFacts DEF QueueFacts
<1>2. Out("write")' = Out("write") - One("connect" = "write") + 0
  BY <1>1, HandleConnectErrorLedger, LedgerParts
<1>3. Out("write")' = Out("write")
  BY <1>1, <1>2 DEF One
<1>4. /\ Handle("connect", TRUE) /\ CloseAndReconnect /\ Posts(<<>>) /\ open' = open
      /\ UNCHANGED <<process, updates, connected, submitted, sent, disturbed>>
  BY DEF HandleConnectError
<1>5. "connect" \in Operations /\ open' \in {open, FALSE}
  BY <1>4 DEF Operations
<1>6. QED
  BY <1>3, <1>4, <1>5, CloseQueue

\* handle_read_ping with an error leaves the queue of updates alone.
LEMMA HandleReadPingErrorQueue == QueueInv /\ HandleReadPingError => ClosedIdle' /\ Orderly'
<1> SUFFICES ASSUME QueueInv, HandleReadPingError PROVE ClosedIdle' /\ Orderly'
  OBVIOUS
<1>1. TypeOK /\ Out("write") \in Nat
  BY QueueInvFacts DEF QueueFacts
<1>2. Out("write")' = Out("write") - One("read" = "write") + 0
  BY <1>1, HandleReadPingErrorLedger, LedgerParts
<1>3. Out("write")' = Out("write")
  BY <1>1, <1>2 DEF One
<1>4. /\ Handle("read", TRUE) /\ CloseAndReconnect /\ Posts(<<>>) /\ open' = FALSE
      /\ UNCHANGED <<process, updates, connected, submitted, sent, disturbed>>
  BY DEF HandleReadPingError, CloseHandles
<1>5. "read" \in Operations /\ open' \in {open, FALSE}
  BY <1>4 DEF Operations
<1>6. QED
  BY <1>3, <1>4, <1>5, CloseQueue

\* handle_write_update with an error ends the orderly part of the run.
LEMMA HandleWriteUpdateErrorQueue ==
    QueueInv /\ HandleWriteUpdateError => ClosedIdle' /\ Orderly'
  BY DEF HandleWriteUpdateError, CloseAndReconnect, ClosedIdle, Orderly

\* handle_read_ping without an error leaves the queue of updates alone.
LEMMA HandleReadPingOkQueue == QueueInv /\ HandleReadPingOk => ClosedIdle' /\ Orderly'
<1> SUFFICES ASSUME QueueInv, HandleReadPingOk PROVE ClosedIdle' /\ Orderly'
  OBVIOUS
<1>1. QueueFacts
  BY QueueInvFacts
<1>2. TypeOK /\ Out("write") \in Nat
  BY <1>1 DEF QueueFacts
<1>3. Out("write")' = Out("write") - One("read" = "write") + 0
  BY <1>2, HandleReadPingOkLedger, LedgerParts
<1>4. Out("write")' = Out("write")
  BY <1>2, <1>3 DEF One
<1>5. /\ UNCHANGED <<process, updates, connected, open, socket, writing, waiting,
                     cancelled, submitted, sent, disturbed, breaks, stalls>>
      /\ Handle("read", FALSE) /\ StartRead /\ Posts(ReadPosts)
  BY DEF HandleReadPingOk
<1>6. Acked' <=> Acked
  <2>1. ReadPosts \in CompletionQueues
    BY <1>2, <1>5, ReadLedger DEF CompletionQueues
  <2>2. Done("write") \notin Range(ReadPosts)
    BY RangeSmall DEF ReadPosts, Done, Failed
  <2>3. QED
    BY <1>2, <1>5, <2>1, <2>2, HandlerAcked DEF Operations
<1>7. ASSUME ~disturbed PROVE Backlog'
  BY <1>1, <1>5, <1>6, <1>7, BacklogFrame DEF QueueFacts
<1>8. Orderly'
  BY <1>1, <1>4, <1>5, <1>7 DEF Orderly, QueueFacts
<1>9. ClosedIdle'
  BY <1>1, <1>5 DEF ClosedIdle, QueueFacts
<1>10. QED
  BY <1>8, <1>9

\* The handler of a write that is done: it was the only one, of the front.
LEMMA WriteHandled ==
    ASSUME QueueInv, Handle("write", FALSE), ~disturbed
    PROVE  /\ Out("write") = 1 /\ connected /\ updates # <<>>
           /\ writing = <<>> /\ Acked /\ Done("write") \notin Range(Tail(ready))
<1>1. QueueFacts
  BY QueueInvFacts
<1>2. TypeOK /\ connected \in BOOLEAN
  BY <1>1 DEF QueueFacts
<1>3. ready \in Seq(Completions) /\ ready # <<>> /\ Head(ready) = Done("write")
  BY <1>2 DEF TypeOK, Completions, Handle, Done
<1>4. /\ Tail(ready) \in Seq(Completions)
      /\ Count(ready, "write") = One(Head(ready).op = "write") + Count(Tail(ready), "write")
      /\ Count(Tail(ready), "write") \in Nat
  BY <1>3, CountTail, CountType
<1>5. Head(ready).op = "write"
  BY <1>3 DEF Done
<1>6. Count(ready, "write") = 1 + Count(Tail(ready), "write")
  BY <1>4, <1>5 DEF One
<1>7. Out("write") \in {0, 1}
  BY <1>1, <1>2 DEF QueueFacts, One
<1>8. /\ Out("write") = 1 /\ Count(Tail(ready), "write") = 0 /\ Len(writing) = 0
  BY <1>2, <1>4, <1>6, <1>7, WritePlaces
<1>9. connected /\ updates # <<>>
  BY <1>1, <1>8 DEF QueueFacts, One
<1>10. Done("write") \notin Range(Tail(ready))
  <2>1. SUFFICES ASSUME NEW k \in DOMAIN Tail(ready), Tail(ready)[k] = Done("write")
                 PROVE  FALSE
    BY DEF Range
  <2>2. Tail(ready)[k].op = "write"
    BY <2>1 DEF Done
  <2>3. QED
    BY <1>4, <1>8, <2>2, CountType
<1>11. Acked
  BY <1>2, <1>3, RangeTail DEF Acked
<1>12. QED
  BY <1>2, <1>8, <1>9, <1>10, <1>11, WritePlaces

\* handle_write_update without an error discards the update sent, writes the next.
LEMMA HandleWriteUpdateOkQueue == QueueInv /\ HandleWriteUpdateOk => ClosedIdle' /\ Orderly'
<1> SUFFICES ASSUME QueueInv, HandleWriteUpdateOk PROVE ClosedIdle' /\ Orderly'
  OBVIOUS
<1>1. QueueFacts
  BY QueueInvFacts
<1>2. TypeOK /\ Out("write") \in Nat /\ connected \in BOOLEAN
  BY <1>1 DEF QueueFacts
<1>3. /\ Handle("write", FALSE) /\ updates # <<>> /\ updates' = Tail(updates)
      /\ UNCHANGED <<process, connected, open, socket, reading, waiting, cancelled,
                     submitted, disturbed, breaks>>
  BY DEF HandleWriteUpdateOk
<1>4. PICK e \in WriteFront(connected, updates') : Writes(e) /\ Posts(e.posts)
  BY DEF HandleWriteUpdateOk
<1>5. updates \in Seq(Numerals) /\ updates' \in Seq(Numerals)
  <2>1. updates \in Seq(Numerals)
    BY <1>2 DEF TypeOK, Numerals
  <2>2. QED
    BY <1>3, <2>1, TailFacts
<1>6. ClosedIdle'
  <2>1. SUFFICES ASSUME socket = "closed" PROVE writing' = <<>>
    BY <1>3 DEF ClosedIdle
  <2>2. writing = <<>>
    BY <1>1, <2>1 DEF QueueFacts, ClosedIdle
  <2>3. writing' # <<>> => socket \in {"open", "connecting"}
    BY <1>2, <1>4, <1>5, <2>2, WriteHead
  <2>4. QED
    BY <2>1, <2>3
<1>7. ASSUME ~disturbed PROVE Orderly'
  <2>1. /\ Out("write") = 1 /\ connected /\ writing = <<>> /\ Acked
        /\ Done("write") \notin Range(Tail(ready))
    BY <1>3, <1>7, WriteHandled
  <2>2. Out("write")' = One(updates' # <<>>)
    <3>1. Out("write")' = Out("write") - One("write" = "write") + One(connected /\ updates' # <<>>)
      BY <1>2, HandleWriteUpdateOkLedger, LedgerParts
    <3>2. One("write" = "write") = 1 /\ One(connected /\ updates' # <<>>) = One(updates' # <<>>)
      BY <2>1 DEF One
    <3>3. One(updates' # <<>>) \in Nat
      BY DEF One
    <3>4. QED
      BY <2>1, <3>1, <3>2, <3>3
  <2>3. /\ writing' # <<>> => Head(writing') = Head(updates')
        /\ sent' = sent \o e.sends
    BY <1>2, <1>4, <1>5, <2>1, WriteHead
  <2>4. Acked' <=> Done("write") \in Range(e.posts)
    <3>1. e.posts \in CompletionQueues
      BY <1>2, <1>4, <1>5, WriteLedger DEF CompletionQueues
    <3>2. QED
      BY <1>2, <1>3, <1>4, <2>1, <3>1, HandlerAcked DEF Operations
  <2>5. Backlog'
    <3>1. Backlog /\ Base = Len(sent) - 1
      BY <1>1, <1>7, <2>1 DEF QueueFacts, Base
    <3>2. /\ InOrder(sent, 0) /\ InOrder(updates, Len(sent) - 1)
          /\ Len(updates) + (Len(sent) - 1) = submitted
      BY <3>1 DEF Backlog
    <3>3. Len(sent) \in Nat
      BY <1>2, LenProperties DEF TypeOK
    <3>4. /\ Len(updates') = Len(updates) - 1 /\ Len(updates) \in Nat
          /\ \A i \in DOMAIN updates' : /\ i \in Nat /\ i + 1 \in DOMAIN updates
                                        /\ updates'[i] = updates[i + 1]
      BY <1>3, <1>5, TailCases
    <3>5. InOrder(updates', Len(sent))
      <4>1. ASSUME NEW i \in DOMAIN updates' PROVE updates'[i] = Len(sent) + i
        <5>1. updates'[i] = (Len(sent) - 1) + (i + 1) /\ i \in Nat
          BY <3>2, <3>4 DEF InOrder
        <5>2. QED
          BY <3>3, <5>1
      <4>2. QED
        BY <4>1 DEF InOrder
    <3>6. Len(updates') + Len(sent) = submitted'
      BY <1>3, <3>2, <3>3, <3>4
    <3>7. QED
      BY <1>2, <1>4, <1>5, <2>3, <2>4, <3>2, <3>5, <3>6, WriteBacklog
  <2>6. /\ process' # "undefined" /\ connected' = connected /\ (open' => connected')
        /\ ~open' => waiting' /\ socket' = "closed"
    BY <1>1, <1>3, <1>7, <2>1 DEF QueueFacts
  <2>7. QED
    BY <2>1, <2>2, <2>3, <2>5, <2>6 DEF Orderly
<1>8. disturbed => Orderly'
  BY <1>3 DEF Orderly
<1>9. QED
  BY <1>6, <1>7, <1>8

\* pop_front() meets an empty queue only after a write has failed.
LEMMA PopFromEmptyQueueQueue == QueueInv /\ PopFromEmptyQueue => ClosedIdle' /\ Orderly'
<1> SUFFICES ASSUME QueueInv, PopFromEmptyQueue PROVE ClosedIdle' /\ Orderly'
  OBVIOUS
<1>1. QueueFacts
  BY QueueInvFacts
<1>2. disturbed
  BY WriteHandled DEF PopFromEmptyQueue
<1>3. QED
  BY <1>1, <1>2 DEF PopFromEmptyQueue, ClosedIdle, Orderly, QueueFacts

\* write_update queues behind the others, and writes if it is alone and the link is up.
LEMMA WriteUpdateQueue == QueueInv /\ WriteUpdate => ClosedIdle' /\ Orderly'
<1> SUFFICES ASSUME QueueInv, WriteUpdate PROVE ClosedIdle' /\ Orderly'
  OBVIOUS
<1>1. QueueFacts
  BY QueueInvFacts
<1>2. TypeOK /\ Out("write") \in Nat /\ connected \in BOOLEAN
  BY <1>1 DEF QueueFacts
<1> DEFINE started == connected /\ updates = <<>>
<1>3. /\ submitted < MaxUpdates /\ submitted' = submitted + 1
      /\ updates' = Append(updates, submitted + 1)
      /\ disturbed' = (disturbed \/ (connected /\ ~open))
      /\ UNCHANGED <<process, connected, open, socket, reading, waiting, cancelled,
                     breaks>>
  BY DEF WriteUpdate
<1>4. PICK e \in WriteFront(started, updates') : Writes(e) /\ ready' = ready \o e.posts
  BY DEF WriteUpdate
<1>5. /\ updates \in Seq(Numerals) /\ updates' \in Seq(Numerals) /\ updates' # <<>>
      /\ submitted + 1 \in Numerals /\ started \in BOOLEAN
      /\ updates # <<>> => Head(updates') = Head(updates)
      /\ updates = <<>> => Head(updates') = submitted + 1
      /\ Len(updates') = Len(updates) + 1
  <2>1. updates \in Seq(Numerals) /\ submitted + 1 \in Numerals
    BY <1>2, <1>3, BoundsAssumption DEF TypeOK, Numerals
  <2>2. QED
    BY <1>2, <1>3, <2>1, AppendFacts
<1>6. CASE started
  <2>1. ClosedIdle'
    <3>1. SUFFICES ASSUME socket = "closed" PROVE writing' = <<>>
      BY <1>3 DEF ClosedIdle
    <3>2. writing = <<>>
      BY <1>1, <3>1 DEF QueueFacts, ClosedIdle
    <3>3. writing' # <<>> => socket \in {"open", "connecting"}
      BY <1>2, <1>4, <1>5, <3>2, WriteHead
    <3>4. QED
      BY <3>1, <3>3
  <2>2. ASSUME ~disturbed' PROVE Orderly'
    <3>1. ~disturbed /\ connected /\ open /\ updates = <<>>
      BY <1>2, <1>3, <1>6, <2>2
    <3>2. Out("write") = 0
      BY <1>1, <3>1 DEF QueueFacts, One
    <3>3. writing = <<>> /\ ~Acked
      BY <1>2, <3>2, WritePlaces
    <3>4. Out("write")' = One(updates' # <<>>)
      <4>1. Out("write")' = Out("write") - One("none" = "write") + One(connected /\ updates = <<>>)
        BY <1>2, WriteUpdateLedger, LedgerParts
      <4>2. /\ One("none" = "write") = 0 /\ One(connected /\ updates = <<>>) = 1
            /\ One(updates' # <<>>) = 1
        BY <1>5, <3>1 DEF One
      <4>3. QED
        BY <3>2, <4>1, <4>2
    <3>5. /\ writing' # <<>> => Head(writing') = Head(updates')
          /\ sent' = sent \o e.sends
      BY <1>2, <1>4, <1>5, <3>3, WriteHead
    <3>6. Acked' <=> Done("write") \in Range(e.posts)
      <4> DEFINE p == e.posts
      <4>1. p \in Seq(Completions) /\ ready \in Seq(Completions) /\ ready' = ready \o p
        BY <1>2, <1>4, <1>5, WriteLedger DEF TypeOK, Completions
      <4> HIDE DEF p
      <4>2. Range(ready') = Range(ready) \cup Range(p)
        BY <4>1, RangeConcat
      <4>3. QED
        BY <3>3, <4>2 DEF Acked, p
    <3>7. Backlog'
      <4>1. Backlog /\ Base = Len(sent)
        BY <1>1, <3>1, <3>3 DEF QueueFacts, Base
      <4>2. /\ InOrder(sent, 0) /\ Len(updates) + Len(sent) = submitted
        BY <4>1 DEF Backlog
      <4>3. Len(updates) = 0 /\ Len(sent) \in Nat
        BY <1>2, <3>1, EmptySeq, LenProperties DEF TypeOK
      <4>4. updates' = <<submitted + 1>>
        BY <1>3, <1>5, <3>1, Singleton
      <4>5. InOrder(updates', Len(sent))
        <5>1. DOMAIN <<submitted + 1>> = {1} /\ <<submitted + 1>>[1] = submitted + 1
          OBVIOUS
        <5>2. submitted = Len(sent)
          BY <4>2, <4>3
        <5>3. QED
          BY <4>4, <5>1, <5>2 DEF InOrder
      <4>6. Len(updates') + Len(sent) = submitted'
        BY <1>3, <1>5, <4>2, <4>3
      <4>7. QED
        BY <1>2, <1>4, <1>5, <3>5, <3>6, <4>2, <4>5, <4>6, WriteBacklog
    <3>8. process' # "undefined" /\ open' /\ connected'
      BY <1>1, <1>3, <3>1 DEF QueueFacts
    <3>9. QED
      BY <3>4, <3>5, <3>7, <3>8 DEF Orderly
  <2>3. QED
    BY <2>1, <2>2 DEF Orderly
<1>7. CASE ~started
  <2>1. e = NoEffect
    BY <1>4, <1>7 DEF WriteFront
  <2>2. ready' = ready /\ sent' = sent /\ writing' = writing
    <3>1. e.posts = <<>> /\ e.sends = <<>> /\ e.pends = <<>>
      BY <2>1 DEF NoEffect
    <3>2. /\ ready \in Seq(Completions) /\ sent \in Seq(Numerals) /\ writing \in Seq(Numerals)
      BY <1>2 DEF TypeOK, Completions, Numerals
    <3>3. ready' = ready \o <<>> /\ sent' = sent \o <<>> /\ writing' = writing \o <<>>
      BY <1>4, <3>1 DEF Writes
    <3>4. QED
      BY <3>2, <3>3, ConcatEmptySeq
  <2>3. ClosedIdle'
    BY <1>1, <1>3, <2>2 DEF ClosedIdle, QueueFacts
  <2>4. ASSUME ~disturbed' PROVE Orderly'
    <3>1. ~disturbed /\ (connected => open /\ updates # <<>>)
      BY <1>2, <1>3, <1>7, <2>4
    <3>2. Out("write")' = Out("write")
      <4>1. Out("write")' = Out("write") - One("none" = "write") + One(connected /\ updates = <<>>)
        BY <1>2, WriteUpdateLedger, LedgerParts
      <4>2. /\ One("none" = "write") = 0 /\ One(connected /\ updates = <<>>) = 0
        BY <1>7 DEF One
      <4>3. QED
        BY <1>2, <4>1, <4>2
    <3>3. Out("write")' = IF connected' THEN One(updates' # <<>>) ELSE 0
      BY <1>1, <1>3, <1>5, <3>1, <3>2 DEF QueueFacts, One
    <3>4. writing' # <<>> => Head(writing') = Head(updates')
      <4>1. SUFFICES ASSUME writing # <<>> PROVE Head(writing) = Head(updates')
        BY <2>2
      <4>2. Out("write") # 0
        BY <1>2, <4>1, WritePlaces
      <4>3. updates # <<>> /\ Head(writing) = Head(updates)
        BY <1>1, <3>1, <4>1, <4>2 DEF QueueFacts, One
      <4>4. QED
        BY <1>5, <4>3
    <3>5. Backlog'
      <4>1. Backlog
        BY <1>1, <3>1 DEF QueueFacts
      <4>2. Base' = Base
        BY <2>2 DEF Base, Acked
      <4>3. Base \in Int /\ Len(updates) \in Nat
        BY <1>2, LenProperties DEF TypeOK, Base
      <4>4. InOrder(updates', Base)
        <5>1. ASSUME NEW i \in DOMAIN updates' PROVE updates'[i] = Base + i
          <6>1. \/ i \in DOMAIN updates /\ updates'[i] = updates[i]
                \/ i = Len(updates) + 1 /\ updates'[i] = submitted + 1
            BY <1>3, <1>5, AppendCases
          <6>2. Len(updates) + Base = submitted
            BY <4>1 DEF Backlog
          <6>3. CASE i \in DOMAIN updates /\ updates'[i] = updates[i]
            BY <4>1, <6>3 DEF Backlog, InOrder
          <6>4. CASE i = Len(updates) + 1 /\ updates'[i] = submitted + 1
            BY <4>3, <6>2, <6>4
          <6>5. QED
            BY <6>1, <6>3, <6>4
        <5>2. QED
          BY <5>1 DEF InOrder
      <4>5. Len(updates') + Base = submitted'
        <5>1. Len(updates) + Base = submitted
          BY <4>1 DEF Backlog
        <5>2. QED
          BY <1>3, <1>5, <4>3, <5>1
      <4>6. InOrder(sent', 0)
        BY <2>2, <4>1 DEF Backlog
      <4>7. QED
        BY <4>2, <4>4, <4>5, <4>6 DEF Backlog
    <3>6. QED
      BY <1>1, <1>3, <3>1, <3>2, <3>3, <3>4, <3>5 DEF Orderly, QueueFacts
  <2>5. QED
    BY <2>3, <2>4 DEF Orderly
<1>8. QED
  BY <1>5, <1>6, <1>7

\* A step of the reactor that acknowledges no write.
LEMMA ReactorQueue ==
    ASSUME QueueInv, NEW t \in CompletionQueues, Reactor(t), Done("write") \notin Range(t),
           UNCHANGED <<process, updates, connected, open, writing, submitted, sent, disturbed>>,
           Out("write")' = Out("write"), socket' # "closed" \/ socket' = socket,
           ~disturbed /\ ~open /\ Out("write") # 0 => waiting' /\ socket' = "closed"
    PROVE  ClosedIdle' /\ Orderly'
<1>1. QueueFacts
  BY QueueInvFacts
<1>2. TypeOK
  BY <1>1 DEF QueueFacts
<1>3. Acked' <=> Acked
  BY <1>2, ReactorAcked
<1>4. ASSUME ~disturbed PROVE Backlog'
  BY <1>1, <1>3, <1>4, BacklogFrame DEF QueueFacts
<1>5. Orderly'
  BY <1>1, <1>4 DEF Orderly, QueueFacts
<1>6. ClosedIdle'
  BY <1>1 DEF ClosedIdle, QueueFacts
<1>7. QED
  BY <1>5, <1>6

\* A steady ledger leaves the writes outstanding.
LEMMA SteadyWrites == TypeOK /\ Steady => Out("write")' = Out("write")
<1> SUFFICES ASSUME TypeOK, Steady PROVE Out("write")' = Out("write")
  OBVIOUS
<1>1. Out("write")' = Out("write") - One("none" = "write") + 0
  BY LedgerParts DEF Steady
<1>2. Out("write") \in Nat
  BY OutNaturals
<1>3. QED
  BY <1>1, <1>2 DEF One

\* A connect that completes leaves the queue of updates alone.
LEMMA ConnectCompletesQueue == QueueInv /\ ConnectCompletes => ClosedIdle' /\ Orderly'
<1> SUFFICES ASSUME QueueInv, ConnectCompletes PROVE ClosedIdle' /\ Orderly'
  OBVIOUS
<1>1. QueueFacts
  BY QueueInvFacts
<1>2. PICK c \in {Done("connect"), Failed("connect")} :
         Reactor(<<c>>) /\ socket' \in {"open", "dead"}
  BY DEF ConnectCompletes
<1>3. /\ socket = "connecting"
      /\ UNCHANGED <<process, updates, connected, open, writing, submitted, sent, disturbed>>
  BY DEF ConnectCompletes
<1> DEFINE t == <<c>>
<1>4. t \in CompletionQueues
  BY OneCompletion DEF Operations
<1>5. Reactor(t)
  BY <1>2
<1>6. Done("write") \notin Range(t)
  BY RangeSmall DEF Done, Failed
<1> HIDE DEF t
<1>7. Out("write")' = Out("write")
  BY <1>1, ConnectCompletesLedger, SteadyWrites DEF QueueFacts
<1>8. ~disturbed /\ ~open /\ Out("write") # 0 => waiting' /\ socket' = "closed"
  BY <1>1, <1>3 DEF QueueFacts
<1>9. QED
  BY <1>2, <1>3, <1>4, <1>5, <1>6, <1>7, <1>8, ReactorQueue

\* A read that completes leaves the queue of updates alone.
LEMMA ReadCompletesQueue == QueueInv /\ ReadCompletes => ClosedIdle' /\ Orderly'
<1> SUFFICES ASSUME QueueInv, ReadCompletes PROVE ClosedIdle' /\ Orderly'
  OBVIOUS
<1>1. QueueFacts
  BY QueueInvFacts
<1>2. PICK c \in {Done("read"), Failed("read")} : Reactor(<<c>>)
  BY DEF ReadCompletes
<1>3. UNCHANGED <<process, updates, connected, open, socket, writing, waiting, submitted,
                  sent, disturbed>>
  BY DEF ReadCompletes
<1> DEFINE t == <<c>>
<1>4. t \in CompletionQueues
  BY OneCompletion DEF Operations
<1>5. Reactor(t)
  BY <1>2
<1>6. Done("write") \notin Range(t)
  BY RangeSmall DEF Done, Failed
<1> HIDE DEF t
<1>7. Out("write")' = Out("write")
  BY <1>1, ReadCompletesLedger, SteadyWrites DEF QueueFacts
<1>8. ~disturbed /\ ~open /\ Out("write") # 0 => waiting' /\ socket' = "closed"
  BY <1>1, <1>3 DEF QueueFacts
<1>9. QED
  BY <1>3, <1>4, <1>5, <1>6, <1>7, <1>8, ReactorQueue

\* The timer expires after the handlers of cancelled writes have run.
LEMMA TimerExpiresQueue == QueueInv /\ TimerExpires => ClosedIdle' /\ Orderly'
<1> SUFFICES ASSUME QueueInv, TimerExpires PROVE ClosedIdle' /\ Orderly'
  OBVIOUS
<1>1. QueueFacts
  BY QueueInvFacts
<1> DEFINE t == <<Done("wait")>>
<1>2. /\ waiting /\ Reactor(t) /\ ready = <<>> /\ cancelled = NoneCancelled
      /\ UNCHANGED <<process, updates, connected, open, socket, writing, submitted, sent,
                     disturbed>>
  BY DEF TimerExpires
<1>3. t \in CompletionQueues
  BY OneCompletion DEF Operations
<1>4. Done("write") \notin Range(t)
  BY RangeSmall DEF Done
<1> HIDE DEF t
<1>5. Out("write")' = Out("write")
  BY <1>1, TimerExpiresLedger, SteadyWrites DEF QueueFacts
<1>6. ASSUME ~disturbed, ~open, Out("write") # 0 PROVE FALSE
  <2>1. writing = <<>>
    BY <1>1, <1>6 DEF QueueFacts, ClosedIdle
  <2>2. Count(ready, "write") = 0 /\ cancelled["write"] = 0
    BY <1>2, CountEmpty DEF NoneCancelled, Operations
  <2>3. Len(writing) = 0
    BY <2>1, EmptySeq
  <2>4. Out("write") = 0
    BY <1>1, <2>2, <2>3, WritePlaces DEF QueueFacts
  <2>5. QED
    BY <1>6, <2>4
<1>7. QED
  BY <1>2, <1>3, <1>4, <1>5, <1>6, ReactorQueue

\* The completions of cancelled operations have failed.
LEMMA CancelledCompleteQueue == QueueInv /\ CancelledComplete => ClosedIdle' /\ Orderly'
<1> SUFFICES ASSUME QueueInv, CancelledComplete PROVE ClosedIdle' /\ Orderly'
  OBVIOUS
<1>1. QueueFacts
  BY QueueInvFacts
<1> DEFINE t == <<>>
<1>2. /\ Reactor(t)
      /\ UNCHANGED <<process, updates, connected, open, socket, writing, waiting, submitted,
                     sent, disturbed>>
  BY DEF CancelledComplete
<1>3. t \in CompletionQueues /\ Done("write") \notin Range(t)
  BY EmptyQueue, RangeSmall
<1> HIDE DEF t
<1>4. Out("write")' = Out("write")
  BY <1>1, CancelledCompleteLedger, SteadyWrites DEF QueueFacts
<1>5. ~disturbed /\ ~open /\ Out("write") # 0 => waiting' /\ socket' = "closed"
  BY <1>1, <1>2 DEF QueueFacts
<1>6. QED
  BY <1>2, <1>3, <1>4, <1>5, ReactorQueue

\* A pending write completes: it is the one of the front of the queue.
LEMMA WriteCompletesQueue == QueueInv /\ WriteCompletes => ClosedIdle' /\ Orderly'
<1> SUFFICES ASSUME QueueInv, WriteCompletes PROVE ClosedIdle' /\ Orderly'
  OBVIOUS
<1>1. QueueFacts
  BY QueueInvFacts
<1>2. TypeOK /\ connected \in BOOLEAN
  BY <1>1 DEF QueueFacts
<1>3. /\ writing # <<>> /\ writing' = Tail(writing) /\ socket \in {"open", "dead"}
      /\ UNCHANGED <<process, updates, connected, open, socket, reading, waiting,
                     submitted, disturbed>>
  BY DEF WriteCompletes
<1>4. ClosedIdle'
  BY <1>3 DEF ClosedIdle
<1>5. Out("write")' = Out("write")
  BY <1>2, WriteCompletesLedger, SteadyWrites
<1>6. ASSUME ~disturbed PROVE Orderly'
  <2>1. Out("write") \in {0, 1}
    BY <1>1, <1>2, <1>6 DEF One, QueueFacts
  <2>2. Len(writing) = 1 /\ ~Acked
    <3> DEFINE n == Len(writing)
               k == Count(ready, "write")
               c == cancelled["write"]
               o == Out("write")
    <3>1. k \in Nat /\ n \in Nat /\ c \in Nat /\ o = k + c + n /\ n # 0
      BY <1>2, <1>3, WritePlaces
    <3>2. Acked => k # 0
      BY <1>2, WritePlaces
    <3>3. o \in {0, 1}
      BY <2>1
    <3> HIDE DEF n, k, c, o
    <3>4. n = 1 /\ k = 0
      BY <3>1, <3>3
    <3>5. QED
      BY <3>2, <3>4 DEF n
  <2>3. writing' = <<>>
    <3>1. writing \in Seq(Numerals)
      BY <1>2 DEF TypeOK, Numerals
    <3>2. writing' \in Seq(Numerals) /\ Len(writing') = 0
      BY <1>3, <2>2, <3>1, TailFacts
    <3>3. QED
      BY <3>2, EmptySeq
  <2>4. updates # <<>> /\ Head(writing) = Head(updates) /\ Out("write") = 1
    BY <1>1, <1>2, <1>3, <1>6, <2>1, <2>2, WritePlaces DEF One, QueueFacts
  <2>5. /\ Backlog /\ Base = Len(sent)
    BY <1>1, <1>6, <2>2 DEF QueueFacts, Base
  <2>6. /\ sent \in Seq(Numerals) /\ updates \in Seq(Numerals) /\ Len(sent) \in Nat
    BY <1>2, LenProperties DEF TypeOK, Numerals
  <2>7. Head(updates) = Len(sent) + 1 /\ Head(updates) \in Numerals
    <3>1. Head(updates) = updates[1] /\ 1 \in DOMAIN updates /\ updates[1] \in Numerals
      BY <2>4, <2>6, TailCases
    <3>2. QED
      BY <2>5, <3>1 DEF Backlog, InOrder
  <2>8. Backlog'
    <3>1. CASE sent' = Append(sent, Head(writing)) /\ Reactor(<<Done("write")>>)
      <4>1. Acked'
        <5> DEFINE t == <<Done("write")>>
        <5>1. t \in CompletionQueues /\ Done("write") \in Range(t) /\ Reactor(t)
          BY <3>1, OneCompletion, RangeSmall DEF Operations
        <5> HIDE DEF t
        <5>2. QED
          BY <1>2, <5>1, ReactorAcked
      <4>2. sent' = Append(sent, Head(updates))
        BY <2>4, <3>1
      <4>3. /\ Len(sent') = Len(sent) + 1
            /\ \A i \in DOMAIN sent' : \/ i \in DOMAIN sent /\ sent'[i] = sent[i]
                                       \/ i = Len(sent) + 1 /\ sent'[i] = Head(updates)
        BY <2>6, <2>7, <4>2, AppendCases
      <4>4. InOrder(sent', 0)
        <5>1. ASSUME NEW i \in DOMAIN sent' PROVE sent'[i] = 0 + i
          <6>1. CASE i \in DOMAIN sent /\ sent'[i] = sent[i]
            BY <2>5, <6>1 DEF Backlog, InOrder
          <6>2. CASE i = Len(sent) + 1 /\ sent'[i] = Head(updates)
            BY <2>6, <2>7, <6>2
          <6>3. QED
            BY <4>3, <6>1, <6>2
        <5>2. QED
          BY <5>1 DEF InOrder
      <4>5. Base' = Base
        BY <2>5, <2>6, <4>1, <4>3 DEF Base
      <4>6. QED
        BY <1>3, <2>5, <4>4, <4>5 DEF Backlog
    <3>2. CASE sent' = sent /\ Reactor(<<Failed("write")>>)
      <4>1. ~Acked'
        <5> DEFINE t == <<Failed("write")>>
        <5>1. t \in CompletionQueues /\ Reactor(t)
          BY <3>2, OneCompletion DEF Operations
        <5>2. Done("write") \notin Range(t)
          BY RangeSmall DEF Done, Failed
        <5> HIDE DEF t
        <5>3. QED
          BY <1>2, <2>2, <5>1, <5>2, ReactorAcked
      <4>2. Acked' <=> Acked
        BY <2>2, <4>1
      <4>3. QED
        BY <1>3, <2>5, <3>2, <4>2, BacklogFrame
    <3>3. QED
      BY <3>1, <3>2 DEF WriteCompletes
  <2>9. QED
    BY <1>1, <1>3, <1>5, <1>6, <2>3, <2>8 DEF Orderly, QueueFacts
<1>7. disturbed => Orderly'
  BY <1>3 DEF Orderly
<1>8. QED
  BY <1>4, <1>6, <1>7

\* Steps that run no handler and complete no operation.
LEMMA IdleQueue ==
    QueueInv /\ (SetupFails \/ Break \/ UNCHANGED vars) => ClosedIdle' /\ Orderly'
<1> SUFFICES ASSUME QueueInv, SetupFails \/ Break \/ UNCHANGED vars
             PROVE  ClosedIdle' /\ Orderly'
  OBVIOUS
<1>1. QueueFacts
  BY QueueInvFacts
<1>2. /\ UNCHANGED <<updates, connected, open, writing, waiting, ready, submitted, sent,
                     disturbed>>
      /\ process' = process \/ process' = "dead"
      /\ socket' = socket \/ (socket = "open" /\ socket' = "dead")
  <2>1. CASE SetupFails
    BY <2>1 DEF SetupFails
  <2>2. CASE Break
    BY <2>2 DEF Break
  <2>3. CASE UNCHANGED vars
    BY <2>3 DEF vars
  <2>4. QED
    BY <2>1, <2>2, <2>3
<1>3. Out("write")' = Out("write")
  BY <1>1, IdleLedger, SteadyWrites DEF QueueFacts
<1>4. Acked' <=> Acked
  BY <1>2 DEF Acked
<1>5. ASSUME ~disturbed PROVE Backlog'
  BY <1>1, <1>2, <1>4, <1>5, BacklogFrame DEF QueueFacts
<1>6. ClosedIdle'
  BY <1>1, <1>2 DEF ClosedIdle, QueueFacts
<1>7. Orderly'
  BY <1>1, <1>2, <1>3, <1>5 DEF Orderly, QueueFacts
<1>8. QED
  BY <1>6, <1>7

\* Every handler of database, and every step of the network, keeps the invariant.
LEMMA QueueStep == QueueInv /\ [Next]_vars => QueueInv'
<1> SUFFICES ASSUME QueueInv, [Next]_vars PROVE QueueInv'
  OBVIOUS
<1>1. LinkInv'
  BY LinkStep DEF QueueInv
<1>2. ClosedIdle' /\ Orderly'
  BY ConnectQueue, HandleConnectOkQueue, HandleConnectErrorQueue, HandleReadPingOkQueue,
     HandleReadPingErrorQueue, HandleWriteUpdateOkQueue, HandleWriteUpdateErrorQueue,
     PopFromEmptyQueueQueue, WriteUpdateQueue, ConnectCompletesQueue, ReadCompletesQueue,
     WriteCompletesQueue, TimerExpiresQueue, CancelledCompleteQueue, IdleQueue
     DEF Next, RunHandler
<1>3. QED
  BY <1>1, <1>2 DEF QueueInv

\* Until a write fails, database.cpp sends each update once, in the order of
\* submission, and pop_front() discards the update that was sent.
THEOREM AlwaysSentOnce == Spec => []SentOnce
<1>1. QueueInv => SentOnce
  <2>1. SUFFICES ASSUME QueueInv, ~disturbed
                 PROVE  /\ process # "undefined"
                        /\ sent = Numbers(Len(sent))
                        /\ IF Acked THEN updates # <<>> /\ Head(updates) = Len(sent)
                                    ELSE sent \o updates = Numbers(submitted)
    BY DEF SentOnce, Acked
  <2>2. QueueFacts
    BY <2>1, QueueInvFacts
  <2>3. /\ TypeOK /\ process # "undefined" /\ Backlog
        /\ Out("write") = IF connected THEN One(updates # <<>>) ELSE 0
    BY <2>1, <2>2 DEF QueueFacts
  <2>4. /\ sent \in Seq(Numerals) /\ updates \in Seq(Numerals)
        /\ Len(sent) \in Nat /\ DOMAIN sent = 1 .. Len(sent)
        /\ Len(updates) \in Nat /\ DOMAIN updates = 1 .. Len(updates)
    BY <2>3, LenProperties DEF TypeOK, Numerals
  <2>5. \A i \in 1 .. Len(sent) : sent[i] = i
    BY <2>3, <2>4 DEF Backlog, InOrder
  <2>6. sent = Numbers(Len(sent))
    <3>1. sent = [i \in 1 .. Len(sent) |-> sent[i]]
      BY <2>4
    <3>2. QED
      BY <2>5, <3>1 DEF Numbers
  <2>7. ASSUME Acked PROVE updates # <<>> /\ Head(updates) = Len(sent)
    <3>1. updates # <<>>
      BY <2>3, <2>7, WritePlaces DEF One
    <3>2. Head(updates) = updates[1] /\ 1 \in DOMAIN updates
      BY <2>4, <3>1, TailCases
    <3>3. updates[1] = (Len(sent) - 1) + 1
      BY <2>3, <2>7, <3>2 DEF Backlog, InOrder, Base
    <3>4. QED
      BY <2>4, <3>1, <3>2, <3>3
  <2>8. ASSUME ~Acked PROVE sent \o updates = Numbers(submitted)
    <3>1. Len(updates) + Len(sent) = submitted /\ \A i \in DOMAIN updates : updates[i] = Len(sent) + i
      BY <2>3, <2>8 DEF Backlog, InOrder, Base
    <3> DEFINE u == sent \o updates
    <3>2. /\ DOMAIN u = 1 .. Len(sent) + Len(updates) /\ u = [i \in DOMAIN u |-> u[i]]
          /\ \A i \in 1 .. Len(sent) + Len(updates) :
               u[i] = IF i <= Len(sent) THEN sent[i] ELSE updates[i - Len(sent)]
      <4>1. u \in Seq(Numerals) /\ Len(u) = Len(sent) + Len(updates)
        BY <2>4, ConcatProperties
      <4>2. \A i \in 1 .. Len(sent) + Len(updates) :
               u[i] = IF i <= Len(sent) THEN sent[i] ELSE updates[i - Len(sent)]
        BY <2>4, ConcatProperties
      <4> HIDE DEF u
      <4>3. DOMAIN u = 1 .. Len(u) /\ u \in [1 .. Len(u) -> Numerals]
        BY <4>1, LenProperties
      <4>4. u = [i \in DOMAIN u |-> u[i]]
        BY <4>3
      <4>5. QED
        BY <4>1, <4>2, <4>3, <4>4
    <3> HIDE DEF u
    <3>3. DOMAIN u = 1 .. submitted
      BY <2>4, <3>1, <3>2
    <3>4. ASSUME NEW i \in 1 .. submitted PROVE u[i] = i
      <4>1. CASE i <= Len(sent)
        BY <2>4, <2>5, <3>1, <3>2, <4>1
      <4>2. CASE ~(i <= Len(sent))
        <5>1. i - Len(sent) \in DOMAIN updates /\ u[i] = updates[i - Len(sent)]
          BY <2>4, <3>1, <3>2, <4>2
        <5>2. u[i] = Len(sent) + (i - Len(sent))
          BY <3>1, <5>1
        <5>3. QED
          BY <2>4, <3>1, <5>2
      <4>3. QED
        BY <4>1, <4>2
    <3>5. u = Numbers(submitted)
      BY <3>2, <3>3, <3>4 DEF Numbers
    <3>6. QED
      BY <3>5 DEF u
  <2>9. QED
    BY <2>3, <2>6, <2>7, <2>8
<1>2. Spec => []QueueInv
  BY QueueInit, QueueStep, PTL DEF Spec
<1>3. QED
  BY <1>1, <1>2, PTL
====
