---- MODULE SlaveLinkProofs ----
(***************************************************************************)
(* Proofs about SlaveLink, for every number of updates, breaks and exits.  *)
(***************************************************************************)
EXTENDS SlaveLink, SeqLemmas

\* A process that does not run holds no link state.
Quiet ==
    process # "running" =>
        /\ update_queue = <<>>
        /\ connected = FALSE
        /\ socket = "closed"
        /\ waits = 0
        /\ writing = <<>>
        /\ written = <<>>

\* An open socket has a connection that the master may still read.
SocketHasWire == socket \in {"open", "dead"} => wire # <<>>

\* The inductive invariant behind TypeOK and OneOperation.
LinkInv == TypeOK /\ OneOperation /\ Quiet /\ SocketHasWire

\* The constructor of slave establishes the invariant.
LEMMA LinkInvInit == Init => LinkInv
<1> SUFFICES ASSUME Init PROVE LinkInv
  OBVIOUS
<1>1. TypeOK
  <2>1. /\ <<>> \in Seq(Nat) /\ <<>> \in Seq(Seq(Nat))
        /\ <<>> \in Seq([update : Nat, conn : Nat])
    BY EmptySeq
  <2>2. QED
    BY <2>1 DEF Init, TypeOK
<1>2. OneOperation /\ Quiet /\ SocketHasWire
  BY DEF Init, OneOperation, Quiet, SocketHasWire
<1>3. QED
  BY <1>1, <1>2 DEF LinkInv

\* What async_write of the front of a queue hands to asio.
LEMMA AsyncWriteFrontFacts ==
    ASSUME writing \in Seq(Nat), NEW up \in BOOLEAN, NEW q \in Seq(Nat)
    PROVE  /\ AsyncWriteFront(up, q) \in Seq(Nat)
           /\ up /\ q # <<>> /\ writing = <<>>
                => AsyncWriteFront(up, q) = <<Head(q)>>
           /\ ~up \/ q = <<>> => AsyncWriteFront(up, q) = writing
<1>1. q # <<>> => Head(q) \in Nat
  BY TailFacts
<1>2. QED
  BY <1>1, AppendFacts, Singleton DEF AsyncWriteFront

\* Every handler of slave, and every step of the network, keeps the invariant.
LEMMA LinkInvStep == LinkInv /\ [Next]_vars => LinkInv'
<1> SUFFICES ASSUME LinkInv, [Next]_vars PROVE LinkInv'
  OBVIOUS
<1> USE DEF LinkInv
<1>1. CASE Connect
  BY <1>1 DEF Connect, world, TypeOK, OneOperation, Quiet, SocketHasWire
<1>2. CASE HandleConnectOk
  <2>0. /\ ~connected /\ writing = <<>> /\ written = <<>>
        /\ connects = 1 /\ waits = 0
    BY <1>2 DEF HandleConnectOk, TypeOK, OneOperation
  <2>1. wire' \in Seq(Seq(Nat)) /\ wire' # <<>>
    <3>1. <<>> \in Seq(Nat) /\ wire' = Append(wire, <<>>)
      BY <1>2, EmptySeq DEF HandleConnectOk
    <3>2. wire \in Seq(Seq(Nat))
      BY DEF TypeOK
    <3> HIDE DEF LinkInv
    <3>3. QED
      BY <3>1, <3>2, AppendFacts
  <2>2. /\ writing' \in Seq(Nat)
        /\ update_queue # <<>> => writing' = <<Head(update_queue)>>
        /\ update_queue = <<>> => writing' = writing
    BY <1>2, <2>0, AsyncWriteFrontFacts DEF HandleConnectOk, TypeOK
  <2>3. TypeOK'
    <3>1. connected' \in BOOLEAN
      BY <1>2 DEF HandleConnectOk
    <3>2. /\ connects' \in Nat /\ socket' \in {"closed", "connecting", "open", "dead"}
          /\ UNCHANGED <<process, update_queue, waits, written, submitted,
                         delivered, lost, breaks, exits>>
      BY <1>2 DEF HandleConnectOk, TypeOK
    <3>3. QED
      BY <2>1, <2>2, <3>1, <3>2 DEF TypeOK
  <2>4. OneOperation'
    <3>1. connected' /\ connects' = 0
      BY <1>2, <2>0 DEF HandleConnectOk
    <3>2. QED
      BY <1>2, <2>0, <2>2, <3>1 DEF HandleConnectOk, OneOperation
  <2>5. Quiet' /\ SocketHasWire'
    BY <1>2, <2>1 DEF HandleConnectOk, Quiet, SocketHasWire
  <2>6. QED
    BY <2>3, <2>4, <2>5
<1>3. CASE HandleConnectError
  <2>0. /\ ~connected /\ writing = <<>> /\ written = <<>>
        /\ connects = 1 /\ waits = 0
    BY <1>3 DEF HandleConnectError, TypeOK, OneOperation
  <2>1. TypeOK'
    <3>1. connected' \in BOOLEAN
      BY <1>3 DEF HandleConnectError
    <3>2. QED
      BY <1>3, <3>1 DEF HandleConnectError, ReconnectLater, world, TypeOK
  <2>2. OneOperation'
    BY <1>3, <2>0 DEF HandleConnectError, ReconnectLater, world, OneOperation
  <2>3. Quiet' /\ SocketHasWire'
    BY <1>3 DEF HandleConnectError, Quiet, SocketHasWire
  <2>4. QED
    BY <2>1, <2>2, <2>3
<1>4. CASE WriteUpdate
  <2>1. /\ update_queue' \in Seq(Nat) /\ update_queue' # <<>>
        /\ update_queue # <<>> => Head(update_queue') = Head(update_queue)
    <3>1. /\ update_queue \in Seq(Nat) /\ submitted + 1 \in Nat
          /\ update_queue' = Append(update_queue, submitted + 1)
      BY <1>4 DEF WriteUpdate, PushBack, TypeOK
    <3>2. QED
      BY <3>1, AppendFacts
  <2>2. /\ writing' \in Seq(Nat)
        /\ connected /\ update_queue = <<>> /\ writing = <<>>
             => writing' = <<Head(update_queue')>>
        /\ ~connected \/ update_queue # <<>> => writing' = writing
    BY <1>4, <2>1, AsyncWriteFrontFacts DEF WriteUpdate, WriteInProgress, TypeOK
  <2>3. TypeOK'
    BY <1>4, <2>1, <2>2 DEF WriteUpdate, world, TypeOK
  <2>4. OneOperation'
    BY <1>4, <2>1, <2>2 DEF WriteUpdate, world, OneOperation
  <2>5. Quiet' /\ SocketHasWire'
    BY <1>4 DEF WriteUpdate, world, Quiet, SocketHasWire
  <2>6. QED
    BY <2>3, <2>4, <2>5
<1>5. CASE HandleWriteUpdateOk
  <2>1. /\ connected /\ update_queue # <<>>
        /\ writing = <<>> /\ written = <<Head(update_queue)>>
    BY <1>5 DEF HandleWriteUpdateOk, TypeOK, OneOperation
  <2>2. /\ Head(update_queue) \in Nat
        /\ update_queue' \in Seq(Nat)
        /\ written' = <<>>
    BY <1>5, <2>1, TailFacts, Singleton DEF HandleWriteUpdateOk, TypeOK
  <2>3. /\ writing' \in Seq(Nat)
        /\ update_queue' # <<>> => writing' = <<Head(update_queue')>>
        /\ update_queue' = <<>> => writing' = <<>>
    BY <1>5, <2>1, <2>2, AsyncWriteFrontFacts DEF HandleWriteUpdateOk, TypeOK
  <2>4. TypeOK'
    BY <1>5, <2>2, <2>3, EmptySeq DEF HandleWriteUpdateOk, world, TypeOK
  <2>5. OneOperation'
    BY <1>5, <2>1, <2>2, <2>3 DEF HandleWriteUpdateOk, OneOperation
  <2>6. Quiet' /\ SocketHasWire'
    BY <1>5 DEF HandleWriteUpdateOk, world, Quiet, SocketHasWire
  <2>7. QED
    BY <2>4, <2>5, <2>6
<1>6. CASE HandleWriteUpdateError
  <2>1. /\ connected /\ update_queue # <<>>
        /\ written = <<>> /\ writing = <<Head(update_queue)>>
    BY <1>6 DEF HandleWriteUpdateError, TypeOK, OneOperation
  <2>2. writing' = <<>>
    BY <1>6, <2>1, TailFacts, Singleton DEF HandleWriteUpdateError, TypeOK
  <2>3. TypeOK'
    <3>1. connected' \in BOOLEAN
      BY <1>6 DEF HandleWriteUpdateError
    <3>2. QED
      BY <1>6, <2>2, <3>1, EmptySeq DEF HandleWriteUpdateError, ReconnectLater,
         world, TypeOK
  <2>4. OneOperation'
    <3>1. connects = 0 /\ waits = 0
      BY <1>6, <2>1 DEF HandleWriteUpdateError, OneOperation
    <3>2. QED
      BY <1>6, <2>1, <2>2, <3>1 DEF HandleWriteUpdateError, ReconnectLater,
         OneOperation
  <2>5. Quiet' /\ SocketHasWire'
    BY <1>6 DEF HandleWriteUpdateError, Quiet, SocketHasWire
  <2>6. QED
    BY <2>3, <2>4, <2>5
<1>7. CASE KernelSend
  <2>1. /\ connected /\ update_queue # <<>>
        /\ written = <<>> /\ writing = <<Head(update_queue)>>
    BY <1>7 DEF KernelSend, TypeOK, OneOperation
  <2>2. /\ Head(writing) \in Nat
        /\ writing' = <<>> /\ written' = <<Head(update_queue)>>
        /\ written' \in Seq(Nat)
    BY <1>7, <2>1, TailFacts, Singleton DEF KernelSend, TypeOK
  <2>3. wire' \in Seq(Seq(Nat)) /\ wire' # <<>>
    <3>1. CASE socket = "open"
      <4>1. wire \in Seq(Seq(Nat)) /\ wire # <<>>
        BY <3>1 DEF TypeOK, SocketHasWire
      <4>2. Len(wire) \in DOMAIN wire /\ wire[Len(wire)] \in Seq(Nat)
        BY <4>1, LastIndex
      <4>3. Append(wire[Len(wire)], Head(writing)) \in Seq(Nat)
        BY <2>2, <4>2, AppendFacts
      <4>4. wire' = [wire EXCEPT ![Len(wire)]
                       = Append(wire[Len(wire)], Head(writing))]
        BY <1>7, <3>1 DEF KernelSend
      <4>5. QED
        BY <4>1, <4>2, <4>3, <4>4, ExceptFacts
    <3>2. CASE socket = "dead"
      BY <1>7, <3>2 DEF KernelSend, TypeOK, SocketHasWire
    <3>3. QED
      BY <1>7, <3>1, <3>2 DEF KernelSend
  <2>4. lost' \in SUBSET Nat
    BY <1>7, <2>2 DEF KernelSend, TypeOK
  <2>5. TypeOK'
    BY <1>7, <2>2, <2>3, <2>4, EmptySeq DEF KernelSend, TypeOK
  <2>6. OneOperation'
    BY <1>7, <2>1, <2>2 DEF KernelSend, OneOperation
  <2>7. Quiet' /\ SocketHasWire'
    BY <1>7, <2>3 DEF KernelSend, Quiet, SocketHasWire
  <2>8. QED
    BY <2>5, <2>6, <2>7
<1>8. CASE MasterRead
  <2>1. PICK c \in DOMAIN wire :
          /\ wire[c] # <<>>
          /\ delivered' = Append(delivered,
                                 [update |-> Head(wire[c]), conn |-> c])
          /\ wire' = [wire EXCEPT ![c] = Tail(@)]
    BY <1>8 DEF MasterRead
  <2>2. /\ wire[c] \in Seq(Nat) /\ Head(wire[c]) \in Nat
        /\ Tail(wire[c]) \in Seq(Nat) /\ c \in Nat
    <3>1. wire[c] \in Seq(Nat) /\ c \in Nat
      BY DEF TypeOK
    <3>2. QED
      BY <2>1, <3>1, TailFacts
  <2>3. wire' \in Seq(Seq(Nat)) /\ (wire # <<>> => wire' # <<>>)
    BY <2>1, <2>2, ExceptFacts DEF TypeOK
  <2>4. delivered' \in Seq([update : Nat, conn : Nat])
    BY <2>1, <2>2, AppendFacts DEF TypeOK
  <2>5. TypeOK'
    BY <1>8, <2>3, <2>4 DEF MasterRead, link, TypeOK
  <2>6. OneOperation' /\ Quiet' /\ SocketHasWire'
    BY <1>8, <2>3 DEF MasterRead, link, OneOperation, Quiet, SocketHasWire
  <2>7. QED
    BY <2>5, <2>6
<1>9. CASE Break
  <2>1. PICK n \in 0 .. Len(wire[Len(wire)]) : CutWire(Len(wire), n)
    BY <1>9 DEF Break
  <2>2. /\ Len(wire) \in DOMAIN wire /\ wire[Len(wire)] \in Seq(Nat)
        /\ wire # <<>>
    BY <1>9, LastIndex DEF Break, SocketHasWire, TypeOK
  <2>3. /\ SubSeq(wire[Len(wire)], 1, n) \in Seq(Nat)
        /\ SubSeq(wire[Len(wire)], n + 1, Len(wire[Len(wire)])) \in Seq(Nat)
    BY <2>2, CutFacts
  <2>4. wire' \in Seq(Seq(Nat)) /\ wire' # <<>>
    BY <2>1, <2>2, <2>3, ExceptFacts DEF CutWire, TypeOK
  <2>5. lost' \in SUBSET Nat
    BY <2>1, <2>3, RangeType DEF CutWire, TypeOK
  <2>6. TypeOK'
    BY <1>9, <2>4, <2>5 DEF Break, TypeOK
  <2>7. OneOperation' /\ Quiet' /\ SocketHasWire'
    BY <1>9, <2>4 DEF Break, OneOperation, Quiet, SocketHasWire
  <2>8. QED
    BY <2>6, <2>7
<1>10. CASE MasterExit
  <2>1. wire' \in Seq(Seq(Nat)) /\ (wire # <<>> => wire' # <<>>)
    BY <1>10, AllEmpty DEF MasterExit, TypeOK
  <2>2. lost' \in SUBSET Nat
    <3>1. \A c \in DOMAIN wire : Range(wire[c]) \in SUBSET Nat
      BY RangeType DEF TypeOK
    <3>2. QED
      BY <1>10, <3>1 DEF MasterExit, OnWire, TypeOK
  <2>3. TypeOK'
    BY <1>10, <2>1, <2>2 DEF MasterExit, TypeOK
  <2>4. OneOperation' /\ Quiet' /\ SocketHasWire'
    BY <1>10, <2>1 DEF MasterExit, OneOperation, Quiet, SocketHasWire
  <2>5. QED
    BY <2>3, <2>4
<1>11. CASE Crash \/ HandleStop
  <2>1. Unsent \in SUBSET Nat
    BY RangeType DEF Unsent, TypeOK
  <2>2. wire' \in Seq(Seq(Nat)) /\ lost' \in SUBSET Nat
    <3>1. CASE socket = "open"
      <4>1. PICK n \in 0 .. Len(wire[Len(wire)]) :
              /\ wire' = [wire EXCEPT ![Len(wire)] = SubSeq(@, 1, n)]
              /\ lost' = lost \cup Unsent
                           \cup Range(SubSeq(wire[Len(wire)], n + 1,
                                             Len(wire[Len(wire)])))
        BY <1>11, <3>1 DEF Crash, HandleStop, Exit
      <4>2. Len(wire) \in DOMAIN wire /\ wire[Len(wire)] \in Seq(Nat)
        BY <3>1, LastIndex DEF SocketHasWire, TypeOK
      <4>3. /\ SubSeq(wire[Len(wire)], 1, n) \in Seq(Nat)
            /\ SubSeq(wire[Len(wire)], n + 1, Len(wire[Len(wire)])) \in Seq(Nat)
        BY <4>2, CutFacts
      <4>4. wire \in Seq(Seq(Nat)) /\ lost \in SUBSET Nat
        BY DEF TypeOK
      <4>5. wire' \in Seq(Seq(Nat))
        BY <4>1, <4>2, <4>3, <4>4, ExceptFacts
      <4>6. lost' \in SUBSET Nat
        BY <4>1, <4>3, <4>4, <2>1, RangeType
      <4>7. QED
        BY <4>5, <4>6
    <3>2. CASE socket # "open"
      BY <1>11, <3>2, <2>1 DEF Crash, HandleStop, Exit, TypeOK
    <3>3. QED
      BY <3>1, <3>2
  <2>3. TypeOK'
    <3>1. connected' \in BOOLEAN
      BY <1>11 DEF Crash, HandleStop, Exit
    <3>2. /\ process' \in {"crashed", "stopped"} /\ socket' = "closed"
          /\ connects' = 0 /\ waits' = 0 /\ exits' = exits + 1
          /\ UNCHANGED <<submitted, delivered, breaks>>
      BY <1>11 DEF Crash, HandleStop, Exit
    <3>3. /\ update_queue' \in Seq(Nat) /\ writing' \in Seq(Nat)
          /\ written' \in Seq(Nat)
      BY <1>11, EmptySeq DEF Crash, HandleStop, Exit
    <3>4. QED
      BY <2>2, <3>1, <3>2, <3>3 DEF TypeOK
  <2>4. OneOperation' /\ Quiet' /\ SocketHasWire'
    BY <1>11 DEF Crash, HandleStop, Exit, OneOperation, Quiet, SocketHasWire
  <2>5. QED
    BY <2>3, <2>4
<1>12. CASE Restart
  BY <1>12 DEF Restart, world, TypeOK, OneOperation, Quiet, SocketHasWire
<1>13. CASE UNCHANGED vars
  BY <1>13 DEF vars, TypeOK, OneOperation, Quiet, SocketHasWire
<1>14. QED
  BY <1>1, <1>2, <1>3, <1>4, <1>5, <1>6, <1>7, <1>8, <1>9, <1>10, <1>11, <1>12,
     <1>13 DEF Next

\* The slave never runs outside its types, for any number of failures.
THEOREM TypeCorrect == Spec => []TypeOK
<1>1. LinkInv => TypeOK
  BY DEF LinkInv
<1>2. QED
  BY <1>1, LinkInvInit, LinkInvStep, PTL DEF Spec

\* There is always exactly one operation that carries the link on.
THEOREM AlwaysOneOperation == Spec => []OneOperation
<1>1. LinkInv => OneOperation
  BY DEF LinkInv
<1>2. QED
  BY <1>1, LinkInvInit, LinkInvStep, PTL DEF Spec

----------------------------------------------------------------------------
\* What a set of connections carries, and that it carries nothing twice.
Contents(w) == UNION {Range(w[c]) : c \in DOMAIN w}

Others(w, c) == UNION {Range(w[d]) : d \in DOMAIN w \ {c}}

Distinct(w) ==
    /\ \A c \in DOMAIN w : IsInjective(w[c])
    /\ \A c, d \in DOMAIN w : c # d => Range(w[c]) \cap Range(w[d]) = {}

\* Replacing what one connection carries.
LEMMA WireReplace ==
    ASSUME NEW w \in Seq(Seq(Nat)), NEW c \in DOMAIN w, Distinct(w),
           NEW s \in Seq(Nat), IsInjective(s), Range(s) \cap Others(w, c) = {}
    PROVE  /\ Distinct([w EXCEPT ![c] = s])
           /\ Contents([w EXCEPT ![c] = s]) = Others(w, c) \cup Range(s)
<1> DEFINE v == [w EXCEPT ![c] = s]
<1>1. /\ DOMAIN v = DOMAIN w /\ v[c] = s
      /\ \A d \in DOMAIN w \ {c} : v[d] = w[d]
  OBVIOUS
<1> HIDE DEF v
<1>2. \A d \in DOMAIN w \ {c} : Range(w[d]) \subseteq Others(w, c)
  BY DEF Others
<1>3. Distinct(v)
  <2>1. \A d \in DOMAIN v : IsInjective(v[d])
    BY <1>1 DEF Distinct
  <2>2. ASSUME NEW d \in DOMAIN v, NEW e \in DOMAIN v, d # e
        PROVE  Range(v[d]) \cap Range(v[e]) = {}
    <3>1. CASE d = c
      <4>1. v[d] = s /\ v[e] = w[e] /\ Range(w[e]) \subseteq Others(w, c)
        BY <1>1, <1>2, <2>2, <3>1
      <4>2. QED
        BY <4>1
    <3>2. CASE e = c
      <4>1. v[e] = s /\ v[d] = w[d] /\ Range(w[d]) \subseteq Others(w, c)
        BY <1>1, <1>2, <2>2, <3>2
      <4>2. QED
        BY <4>1
    <3>3. CASE d # c /\ e # c
      <4>1. v[d] = w[d] /\ v[e] = w[e] /\ d \in DOMAIN w /\ e \in DOMAIN w
        BY <1>1, <3>3
      <4>2. QED
        BY <2>2, <4>1 DEF Distinct
    <3>4. QED
      BY <3>1, <3>2, <3>3
  <2>3. QED
    BY <2>1, <2>2 DEF Distinct
<1>4. Contents(v) = Others(w, c) \cup Range(s)
  <2>1. ASSUME NEW x \in Contents(v) PROVE x \in Others(w, c) \cup Range(s)
    <3>1. PICK d \in DOMAIN v : x \in Range(v[d])
      BY <2>1 DEF Contents
    <3>2. QED
      BY <1>1, <1>2, <3>1
  <2>2. ASSUME NEW x \in Others(w, c) PROVE x \in Contents(v)
    <3>1. PICK d \in DOMAIN w \ {c} : x \in Range(w[d])
      BY <2>2 DEF Others
    <3>2. QED
      BY <1>1, <3>1 DEF Contents
  <2>3. Range(s) \subseteq Contents(v)
    BY <1>1 DEF Contents
  <2>4. QED
    BY <2>1, <2>2, <2>3
<1>5. QED
  BY <1>3, <1>4 DEF v

\* No other connection carries what connection c carries.
LEMMA WireDisjoint ==
    ASSUME NEW w, NEW c \in DOMAIN w, Distinct(w)
    PROVE  /\ Others(w, c) \cap Range(w[c]) = {}
           /\ Contents(w) = Others(w, c) \cup Range(w[c])
<1>1. ASSUME NEW x \in Others(w, c), x \in Range(w[c]) PROVE FALSE
  <2>1. PICK d \in DOMAIN w \ {c} : x \in Range(w[d])
    BY <1>1 DEF Others
  <2>2. QED
    BY <1>1, <2>1 DEF Distinct
<1>2. Contents(w) = Others(w, c) \cup Range(w[c])
  BY DEF Contents, Others
<1>3. QED
  BY <1>1, <1>2

\* The kernel takes one more update on connection c.
LEMMA WireGrows ==
    ASSUME NEW w \in Seq(Seq(Nat)), NEW c \in DOMAIN w, Distinct(w),
           NEW x \in Nat, x \notin Contents(w)
    PROVE  /\ Distinct([w EXCEPT ![c] = Append(w[c], x)])
           /\ Contents([w EXCEPT ![c] = Append(w[c], x)]) = Contents(w) \cup {x}
<1>1. w[c] \in Seq(Nat) /\ IsInjective(w[c])
  BY DEF Distinct
<1>2. Range(w[c]) \subseteq Contents(w) /\ Others(w, c) \subseteq Contents(w)
  BY DEF Contents, Others
<1>3. /\ Append(w[c], x) \in Seq(Nat) /\ IsInjective(Append(w[c], x))
      /\ Range(Append(w[c], x)) = Range(w[c]) \cup {x}
  BY <1>1, <1>2, AppendFacts, InjectiveAppend, RangeAppend
<1>4. Range(w[c]) \cap Others(w, c) = {}
  BY WireDisjoint
<1>5. Range(Append(w[c], x)) \cap Others(w, c) = {}
  BY <1>2, <1>3, <1>4
<1>6. /\ Distinct([w EXCEPT ![c] = Append(w[c], x)])
      /\ Contents([w EXCEPT ![c] = Append(w[c], x)])
           = Others(w, c) \cup Range(Append(w[c], x))
  BY <1>3, <1>5, WireReplace
<1>7. Contents(w) = Others(w, c) \cup Range(w[c])
  BY WireDisjoint
<1>8. QED
  BY <1>3, <1>6, <1>7

\* The master reads one update from connection c.
LEMMA WireRead ==
    ASSUME NEW w \in Seq(Seq(Nat)), NEW c \in DOMAIN w, Distinct(w), w[c] # <<>>
    PROVE  /\ Distinct([w EXCEPT ![c] = Tail(w[c])])
           /\ Head(w[c]) \in Contents(w)
           /\ Contents([w EXCEPT ![c] = Tail(w[c])]) = Contents(w) \ {Head(w[c])}
<1>1. w[c] \in Seq(Nat) /\ IsInjective(w[c])
  BY DEF Distinct
<1>2. /\ Tail(w[c]) \in Seq(Nat) /\ IsInjective(Tail(w[c]))
      /\ Range(w[c]) = {Head(w[c])} \cup Range(Tail(w[c]))
      /\ Head(w[c]) \notin Range(Tail(w[c]))
  BY <1>1, TailFacts, InjectiveTail, RangeTail
<1>3. Others(w, c) \cap Range(w[c]) = {}
  BY WireDisjoint
<1>4. /\ Distinct([w EXCEPT ![c] = Tail(w[c])])
      /\ Contents([w EXCEPT ![c] = Tail(w[c])])
           = Others(w, c) \cup Range(Tail(w[c]))
  <2>1. Range(Tail(w[c])) \cap Others(w, c) = {}
    BY <1>2, <1>3
  <2>2. QED
    BY <1>2, <2>1, WireReplace
<1>5. Contents(w) = Others(w, c) \cup Range(w[c])
  BY WireDisjoint
<1>6. Head(w[c]) \notin Others(w, c)
  BY <1>2, <1>3
<1>7. QED
  BY <1>2, <1>4, <1>5, <1>6

\* Connection c breaks, or is reset, after n of the updates it carries.
LEMMA WireCut ==
    ASSUME NEW w \in Seq(Seq(Nat)), NEW c \in DOMAIN w, Distinct(w),
           NEW n \in 0 .. Len(w[c])
    PROVE  LET v   == [w EXCEPT ![c] = SubSeq(w[c], 1, n)]
               cut == Range(SubSeq(w[c], n + 1, Len(w[c])))
           IN  /\ Distinct(v)
               /\ cut \subseteq Contents(w)
               /\ Contents(v) = Contents(w) \ cut
<1> DEFINE a == SubSeq(w[c], 1, n)
           b == SubSeq(w[c], n + 1, Len(w[c]))
<1>1. w[c] \in Seq(Nat) /\ IsInjective(w[c])
  BY DEF Distinct
<1>2. a \in Seq(Nat) /\ IsInjective(a) /\ Range(a) \cap Range(b) = {}
  BY <1>1, CutFacts, InjectiveCut
<1>3. Range(w[c]) = Range(a) \cup Range(b)
  BY <1>1, RangeCut
<1> HIDE DEF a, b
<1>4. /\ Others(w, c) \cap Range(w[c]) = {}
      /\ Contents(w) = Others(w, c) \cup Range(w[c])
  BY WireDisjoint
<1>5. Range(a) \cap Others(w, c) = {}
  BY <1>3, <1>4
<1>6. /\ Distinct([w EXCEPT ![c] = a])
      /\ Contents([w EXCEPT ![c] = a]) = Others(w, c) \cup Range(a)
  BY <1>2, <1>5, WireReplace
<1>7. /\ Range(b) \subseteq Contents(w)
      /\ Contents([w EXCEPT ![c] = a]) = Contents(w) \ Range(b)
  BY <1>2, <1>3, <1>4, <1>6
<1>8. QED
  BY <1>6, <1>7 DEF a, b

\* A new connection carries nothing yet.
LEMMA WireOpens ==
    ASSUME NEW w \in Seq(Seq(Nat)), Distinct(w)
    PROVE  /\ Distinct(Append(w, <<>>))
           /\ Contents(Append(w, <<>>)) = Contents(w)
<1> DEFINE v == Append(w, <<>>)
<1>1. <<>> \in Seq(Nat)
  BY EmptySeq
<1>2. /\ v \in Seq(Seq(Nat)) /\ Len(v) = Len(w) + 1
      /\ v[Len(w) + 1] = <<>>
      /\ \A i \in 1 .. Len(w) : v[i] = w[i]
  BY <1>1, AppendProperties
<1>3. /\ Len(w) \in Nat /\ DOMAIN w = 1 .. Len(w)
      /\ DOMAIN v = 1 .. Len(w) + 1
  BY <1>2, LenProperties
<1> HIDE DEF v
<1>4. ASSUME NEW c \in DOMAIN v
      PROVE  (c \in DOMAIN w /\ v[c] = w[c]) \/ v[c] = <<>>
  <2>1. c \in 1 .. Len(w) \/ c = Len(w) + 1
    BY <1>3
  <2>2. QED
    BY <1>2, <1>3, <2>1
<1>5. Range(<<>>) = {} /\ IsInjective(<<>>)
  BY DEF Range, IsInjective
<1>6. Distinct(v)
  BY <1>4, <1>5 DEF Distinct
<1>7. Contents(v) = Contents(w)
  <2>1. Contents(v) \subseteq Contents(w)
    BY <1>4, <1>5 DEF Contents
  <2>2. \A c \in DOMAIN w : c \in DOMAIN v /\ v[c] = w[c]
    BY <1>2, <1>3
  <2>3. Contents(w) \subseteq Contents(v)
    BY <2>2 DEF Contents
  <2>4. QED
    BY <2>1, <2>3
<1>8. QED
  BY <1>6, <1>7 DEF v

\* Nothing is left on any connection when the master process has ended.
LEMMA WireEmpties ==
    ASSUME NEW w
    PROVE  /\ Distinct([c \in DOMAIN w |-> <<>>])
           /\ Contents([c \in DOMAIN w |-> <<>>]) = {}
BY DEF Distinct, Contents, IsInjective, Range

----------------------------------------------------------------------------
\* The queue holds the most recently submitted updates, oldest first.
QueueNumbers ==
    /\ Len(update_queue) <= submitted
    /\ \A k \in 1 .. Len(update_queue) :
         update_queue[k] = submitted - Len(update_queue) + k

\* The inductive invariant behind Accounted.
AccountInv == Accounted /\ QueueNumbers

\* The queue repeats nothing, so popping the front removes it from the queue.
LEMMA QueueDistinct ==
    ASSUME LinkInv, QueueNumbers
    PROVE  /\ Range(update_queue) \subseteq 1 .. submitted
           /\ update_queue # <<>>
                => /\ Head(update_queue) \in Range(update_queue)
                   /\ Range(Tail(update_queue))
                        = Range(update_queue) \ {Head(update_queue)}
<1>1. /\ update_queue \in Seq(Nat) /\ submitted \in Nat
      /\ Len(update_queue) \in Nat
      /\ DOMAIN update_queue = 1 .. Len(update_queue)
  BY LenProperties DEF LinkInv, TypeOK
<1>2. \A k \in DOMAIN update_queue : update_queue[k] \in 1 .. submitted
  BY <1>1 DEF QueueNumbers
<1>3. IsInjective(update_queue)
  BY <1>1 DEF QueueNumbers, IsInjective
<1>4. update_queue # <<>>
        => /\ Range(update_queue) = {Head(update_queue)} \cup Range(Tail(update_queue))
           /\ Head(update_queue) \notin Range(Tail(update_queue))
  BY <1>1, <1>3, RangeTail, InjectiveTail
<1>5. QED
  BY <1>2, <1>4 DEF Range

\* The sequence of delivered updates, seen by what the master processed.
LEMMA DeliveredType ==
    ASSUME LinkInv
    PROVE  DeliveredUpdates \in Seq(Nat)
<1>1. /\ delivered \in Seq([update : Nat, conn : Nat])
      /\ DOMAIN delivered = 1 .. Len(delivered) /\ Len(delivered) \in Nat
      /\ \A k \in 1 .. Len(delivered) : delivered[k] \in [update : Nat, conn : Nat]
  BY LenProperties DEF LinkInv, TypeOK
<1>2. DeliveredUpdates \in [1 .. Len(delivered) -> Nat]
  BY <1>1 DEF DeliveredUpdates
<1>3. DeliveredUpdates \in UNION {[1 .. n -> Nat] : n \in Nat}
  BY <1>1, <1>2, Zenon
<1>4. QED
  BY <1>3, SeqDef, Zenon

\* Processing one more update appends it.
LEMMA DeliveredAppend ==
    ASSUME LinkInv, NEW x \in Nat, NEW c \in Nat,
           delivered' = Append(delivered, [update |-> x, conn |-> c])
    PROVE  DeliveredUpdates' = Append(DeliveredUpdates, x)
<1> DEFINE r == [update |-> x, conn |-> c]
<1>1. delivered \in Seq([update : Nat, conn : Nat]) /\ r \in [update : Nat, conn : Nat]
  BY DEF LinkInv, TypeOK
<1>2. /\ Len(delivered') = Len(delivered) + 1
      /\ delivered' \in Seq([update : Nat, conn : Nat])
      /\ delivered'[Len(delivered) + 1] = r
      /\ \A k \in 1 .. Len(delivered) : delivered'[k] = delivered[k]
  BY <1>1, AppendProperties
<1>3. /\ Len(delivered) \in Nat
      /\ DOMAIN delivered = 1 .. Len(delivered)
      /\ DOMAIN delivered' = 1 .. Len(delivered) + 1
  BY <1>1, <1>2, LenProperties
<1>4. /\ DeliveredUpdates \in Seq(Nat)
      /\ DOMAIN DeliveredUpdates = 1 .. Len(delivered)
      /\ Len(DeliveredUpdates) = Len(delivered)
  <2>1. DeliveredUpdates \in Seq(Nat)
    BY DeliveredType
  <2>2. DOMAIN DeliveredUpdates = 1 .. Len(delivered)
    BY <1>3 DEF DeliveredUpdates
  <2>3. DOMAIN DeliveredUpdates = 1 .. Len(DeliveredUpdates)
        /\ Len(DeliveredUpdates) \in Nat
    BY <2>1, LenProperties
  <2>4. QED
    BY <1>3, <2>1, <2>2, <2>3
<1> DEFINE t == Append(DeliveredUpdates, x)
<1>5. /\ t \in Seq(Nat) /\ Len(t) = Len(delivered) + 1
      /\ t[Len(delivered) + 1] = x
      /\ \A k \in 1 .. Len(delivered) : t[k] = DeliveredUpdates[k]
  BY <1>4, AppendProperties
<1>6. t = [k \in 1 .. Len(delivered) + 1 |-> t[k]]
  <2>1. t \in [1 .. Len(t) -> Nat]
    BY <1>5, LenProperties
  <2>2. QED
    BY <1>5, <2>1
<1>7. DeliveredUpdates' = [k \in 1 .. Len(delivered) + 1 |-> delivered'[k].update]
  BY <1>3 DEF DeliveredUpdates
<1>8. ASSUME NEW k \in 1 .. Len(delivered) + 1 PROVE t[k] = delivered'[k].update
  <2>1. CASE k = Len(delivered) + 1
    BY <1>2, <1>5, <2>1
  <2>2. CASE k \in 1 .. Len(delivered)
    BY <1>2, <1>3, <1>5, <2>2 DEF DeliveredUpdates
  <2>3. k \in 1 .. Len(delivered) \/ k = Len(delivered) + 1
    BY <1>3
  <2>4. QED
    BY <2>1, <2>2, <2>3
<1> HIDE DEF t
<1>9. QED
  BY <1>6, <1>7, <1>8 DEF t

\* The places of the updates form a partition of the submitted ones.
Placed ==
    /\ 1 .. submitted = Unsent \cup Contents(wire) \cup Arrived \cup lost
    /\ Unsent \cap (Contents(wire) \cup Arrived \cup lost) = {}
    /\ Contents(wire) \cap (Arrived \cup lost) = {}
    /\ Arrived \cap lost = {}

LEMMA AccountedForm ==
    Accounted <=> Placed /\ Distinct(wire) /\ IsInjective(DeliveredUpdates)
BY DEF Accounted, Placed, Distinct, Contents, OnWire, UpdateIds

LEMMA AccountInvInit == Init => AccountInv
<1> SUFFICES ASSUME Init PROVE AccountInv
  OBVIOUS
<1>1. /\ Range(<<>>) = {} /\ DOMAIN <<>> = {}
      /\ DeliveredUpdates = [k \in {} |-> delivered[k].update]
  BY DEF Init, Range, DeliveredUpdates
<1>2. /\ Unsent = {} /\ Contents(wire) = {} /\ Arrived = {} /\ lost = {}
  BY <1>1 DEF Init, Unsent, Contents, Arrived, Range
<1>3. Placed
  BY <1>2 DEF Init, Placed
<1>4. Distinct(wire) /\ IsInjective(DeliveredUpdates)
  BY <1>1 DEF Init, Distinct, IsInjective
<1>5. QueueNumbers
  BY EmptySeq DEF Init, QueueNumbers
<1>6. QED
  BY <1>3, <1>4, <1>5, AccountedForm DEF AccountInv

\* Every step moves each update from one place to at most one other.
LEMMA AccountInvStep ==
    ASSUME LinkInv, LinkInv', AccountInv, [Next]_vars
    PROVE  AccountInv'
<1>0. /\ Placed /\ Distinct(wire) /\ IsInjective(DeliveredUpdates)
      /\ QueueNumbers
      /\ wire \in Seq(Seq(Nat)) /\ update_queue \in Seq(Nat)
      /\ writing \in Seq(Nat) /\ written \in Seq(Nat) /\ submitted \in Nat
      /\ Len(update_queue) \in Nat
  BY AccountedForm, LenProperties DEF AccountInv, LinkInv, TypeOK
<1>00. SUFFICES Placed' /\ Distinct(wire') /\ IsInjective(DeliveredUpdates')
                 /\ QueueNumbers'
  BY DEF AccountInv, Accounted, Placed, Distinct, Contents, OnWire, UpdateIds
<1>1. CASE Connect
  <2>1. UNCHANGED <<update_queue, submitted, delivered, lost, wire, written>>
    BY <1>1 DEF Connect, world
  <2>2. QED
    BY <1>0, <2>1 DEF Placed, Unsent, Arrived, DeliveredUpdates, QueueNumbers
<1>2. CASE HandleConnectOk
  <2>1. /\ UNCHANGED <<update_queue, submitted, delivered, lost, written>>
        /\ wire' = Append(wire, <<>>)
    BY <1>2 DEF HandleConnectOk
  <2>2. Distinct(wire') /\ Contents(wire') = Contents(wire)
    BY <1>0, <2>1, WireOpens
  <2>3. QED
    BY <1>0, <2>1, <2>2 DEF Placed, Unsent, Arrived, DeliveredUpdates, QueueNumbers
<1>3. CASE HandleConnectError
  <2>1. UNCHANGED <<update_queue, submitted, delivered, lost, wire, written>>
    BY <1>3 DEF HandleConnectError, world
  <2>2. QED
    BY <1>0, <2>1 DEF Placed, Unsent, Arrived, DeliveredUpdates, QueueNumbers
<1>4. CASE WriteUpdate
  <2>1. /\ UNCHANGED <<delivered, lost, wire, written>>
        /\ submitted' = submitted + 1
        /\ update_queue' = Append(update_queue, submitted + 1)
    BY <1>4 DEF WriteUpdate, world, PushBack
  <2>2. Range(update_queue') = Range(update_queue) \cup {submitted + 1}
    <3>1. update_queue \in Seq(Nat) /\ submitted + 1 \in Nat
      BY <1>0
    <3>2. Range(Append(update_queue, submitted + 1))
            = Range(update_queue) \cup {submitted + 1}
      BY <3>1, RangeAppend
    <3>3. QED
      BY <2>1, <3>2
  <2>3. submitted + 1 \notin Range(written)
    <3>1. \/ written = <<>>
          \/ update_queue # <<>> /\ written = <<Head(update_queue)>>
      BY <1>4 DEF WriteUpdate, LinkInv, TypeOK, OneOperation
    <3>2. CASE written = <<>>
      BY <3>2 DEF Range
    <3>3. CASE update_queue # <<>> /\ written = <<Head(update_queue)>>
      <4>1. Head(update_queue) \in 1 .. submitted
        BY <3>3, QueueDistinct, <1>0
      <4>2. QED
        BY <1>0, <3>3, <4>1 DEF Range
    <3>4. QED
      BY <3>1, <3>2, <3>3
  <2>4. Unsent' = Unsent \cup {submitted + 1}
    BY <2>1, <2>2, <2>3 DEF Unsent
  <2>5. submitted + 1 \notin 1 .. submitted /\ 1 .. submitted + 1 = (1 .. submitted) \cup {submitted + 1}
    BY <1>0
  <2>6. Arrived' = Arrived /\ DeliveredUpdates' = DeliveredUpdates
    BY <2>1 DEF Arrived, DeliveredUpdates
  <2>7. Placed'
    BY <1>0, <2>1, <2>4, <2>5, <2>6 DEF Placed
  <2>8. QueueNumbers'
    <3>1. /\ Len(update_queue') = Len(update_queue) + 1
          /\ update_queue'[Len(update_queue) + 1] = submitted + 1
          /\ \A k \in 1 .. Len(update_queue) : update_queue'[k] = update_queue[k]
      BY <1>0, <2>1, AppendProperties
    <3>2. ASSUME NEW k \in 1 .. Len(update_queue) + 1
          PROVE  update_queue'[k] = submitted + 1 - (Len(update_queue) + 1) + k
      <4>1. CASE k \in 1 .. Len(update_queue)
        <5>1. update_queue[k] = submitted - Len(update_queue) + k
          BY <1>0, <4>1 DEF QueueNumbers
        <5>2. update_queue'[k] = update_queue[k]
          BY <3>1, <4>1
        <5>3. QED
          BY <1>0, <4>1, <5>1, <5>2
      <4>2. CASE k = Len(update_queue) + 1
        BY <1>0, <3>1, <4>2
      <4>3. k \in 1 .. Len(update_queue) \/ k = Len(update_queue) + 1
        <5>1. Len(update_queue) \in Nat
          BY <1>0
        <5>2. QED
          BY <5>1
      <4>4. QED
        BY <4>1, <4>2, <4>3
    <3>3. QED
      BY <1>0, <2>1, <3>1, <3>2 DEF QueueNumbers
  <2>9. QED
    BY <1>0, <2>1, <2>6, <2>7, <2>8
<1>5. CASE HandleWriteUpdateOk
  <2>1. /\ UNCHANGED <<delivered, lost, wire, submitted>>
        /\ update_queue' = Tail(update_queue)
        /\ written' = Tail(written)
        /\ update_queue # <<>> /\ written = <<Head(update_queue)>>
    BY <1>5 DEF HandleWriteUpdateOk, world, LinkInv, TypeOK, OneOperation
  <2>2. Range(written) = {Head(update_queue)} /\ Range(written') = {}
    BY <1>0, <2>1, TailFacts, Singleton DEF Range
  <2>3. Unsent' = Unsent
    BY <1>0, <2>1, <2>2, QueueDistinct DEF Unsent
  <2>4. QueueNumbers'
    <3>1. /\ Len(Tail(update_queue)) = Len(update_queue) - 1
          /\ \A k \in 1 .. Len(update_queue) - 1 :
               Tail(update_queue)[k] = update_queue[k + 1]
      BY <1>0, <2>1
    <3>2. QED
      BY <1>0, <2>1, <3>1 DEF QueueNumbers
  <2>5. QED
    BY <1>0, <2>1, <2>3, <2>4 DEF Placed, Arrived, DeliveredUpdates
<1>6. CASE HandleWriteUpdateError
  <2>1. UNCHANGED <<update_queue, submitted, delivered, lost, wire, written>>
    BY <1>6 DEF HandleWriteUpdateError, world
  <2>2. QED
    BY <1>0, <2>1 DEF Placed, Unsent, Arrived, DeliveredUpdates, QueueNumbers
<1>7. CASE KernelSend
  <2> DEFINE x == Head(writing)
  <2>1. /\ UNCHANGED <<update_queue, submitted, delivered>>
        /\ update_queue # <<>> /\ written = <<>> /\ writing = <<Head(update_queue)>>
        /\ written' = Append(written, x)
    BY <1>7 DEF KernelSend, LinkInv, TypeOK, OneOperation
  <2>2. /\ x = Head(update_queue) /\ x \in Nat
        /\ Range(written) = {} /\ Range(written') = {x}
    BY <1>0, <2>1, TailFacts, Singleton DEF Range
  <2>3. x \in Unsent /\ Unsent' = Unsent \ {x}
    BY <1>0, <2>1, <2>2, QueueDistinct DEF Unsent
  <2>4. Arrived' = Arrived /\ DeliveredUpdates' = DeliveredUpdates
    BY <2>1 DEF Arrived, DeliveredUpdates
  <2>5. QueueNumbers'
    BY <1>0, <2>1 DEF QueueNumbers
  <2>6. CASE socket = "open"
    <3>1. /\ wire' = [wire EXCEPT ![Len(wire)] = Append(wire[Len(wire)], x)]
          /\ lost' = lost
      BY <1>7, <2>6 DEF KernelSend
    <3>2. Len(wire) \in DOMAIN wire
      BY <1>0, <2>6, LastIndex DEF LinkInv, SocketHasWire
    <3>3. x \notin Contents(wire)
      BY <1>0, <2>3 DEF Placed
    <3>4. Distinct(wire') /\ Contents(wire') = Contents(wire) \cup {x}
      BY <1>0, <2>2, <3>1, <3>2, <3>3, WireGrows
    <3>5. Placed'
      <4> HIDE DEF x
      <4>1. /\ submitted' = submitted /\ lost' = lost /\ Arrived' = Arrived
            /\ Unsent' = Unsent \ {x} /\ x \in Unsent
            /\ Contents(wire)' = Contents(wire) \cup {x}
        BY <2>1, <2>3, <2>4, <3>1, <3>4 DEF Contents
      <4>2. QED
        BY <1>0, <4>1 DEF Placed
    <3>6. QED
      BY <1>0, <2>4, <2>5, <3>4, <3>5
  <2>7. CASE socket = "dead"
    <3>1. wire' = wire /\ lost' = lost \cup {x}
      BY <1>7, <2>7 DEF KernelSend
    <3>2. Placed'
      BY <1>0, <2>1, <2>3, <2>4, <3>1 DEF Placed
    <3>3. QED
      BY <1>0, <2>4, <2>5, <3>1, <3>2
  <2>8. QED
    BY <1>7, <2>6, <2>7 DEF KernelSend
<1>8. CASE MasterRead
  <2>1. PICK c \in DOMAIN wire :
          /\ wire[c] # <<>>
          /\ delivered' = Append(delivered,
                                 [update |-> Head(wire[c]), conn |-> c])
          /\ wire' = [wire EXCEPT ![c] = Tail(@)]
    BY <1>8 DEF MasterRead
  <2> DEFINE x == Head(wire[c])
  <2>2. UNCHANGED <<update_queue, submitted, lost, written>>
    BY <1>8 DEF MasterRead, link
  <2>3. c \in Nat /\ wire[c] \in Seq(Nat)
    BY <1>0
  <2>4. x \in Nat
    BY <2>1, <2>3, TailFacts
  <2>5. DeliveredUpdates' = Append(DeliveredUpdates, x)
    BY <2>1, <2>3, <2>4, DeliveredAppend
  <2>6. wire' = [wire EXCEPT ![c] = Tail(wire[c])]
    BY <2>1
  <2>7. /\ Distinct(wire') /\ x \in Contents(wire)
        /\ Contents(wire') = Contents(wire) \ {x}
    BY <1>0, <2>1, <2>6, WireRead
  <2>8. Arrived' = Arrived \cup {x} /\ IsInjective(DeliveredUpdates')
    <3>1. x \notin Range(DeliveredUpdates)
      BY <1>0, <2>7 DEF Placed, Arrived
    <3>2. QED
      BY <1>0, <2>4, <2>5, <3>1, DeliveredType, RangeAppend, InjectiveAppend, SMTT(30) DEF Arrived
  <2>9. Unsent' = Unsent /\ QueueNumbers'
    BY <1>0, <2>2 DEF Unsent, QueueNumbers
  <2>10. Placed'
    BY <1>0, <2>2, <2>7, <2>8, <2>9 DEF Placed
  <2>11. QED
    BY <2>7, <2>8, <2>9, <2>10
<1>9. CASE Break
  <2>1. PICK n \in 0 .. Len(wire[Len(wire)]) : CutWire(Len(wire), n)
    BY <1>9 DEF Break
  <2> DEFINE cut == Range(SubSeq(wire[Len(wire)], n + 1, Len(wire[Len(wire)])))
  <2>2. /\ UNCHANGED <<update_queue, submitted, delivered, written>>
        /\ lost' = lost \cup cut
        /\ wire' = [wire EXCEPT ![Len(wire)] = SubSeq(wire[Len(wire)], 1, n)]
    BY <1>9, <2>1 DEF Break, CutWire
  <2>3. Len(wire) \in DOMAIN wire
    BY <1>0, <1>9, LastIndex DEF Break, LinkInv, SocketHasWire
  <2>4. /\ Distinct(wire') /\ cut \subseteq Contents(wire)
        /\ Contents(wire') = Contents(wire) \ cut
    BY <1>0, <2>2, <2>3, WireCut
  <2> HIDE DEF cut
  <2>5. /\ Arrived' = Arrived /\ DeliveredUpdates' = DeliveredUpdates
        /\ Unsent' = Unsent /\ QueueNumbers'
    BY <1>0, <2>2 DEF Arrived, DeliveredUpdates, Unsent, QueueNumbers
  <2>6. Placed'
    BY <1>0, <2>2, <2>4, <2>5 DEF Placed
  <2>7. QED
    BY <1>0, <2>4, <2>5, <2>6
<1>10. CASE MasterExit
  <2>1. /\ UNCHANGED <<update_queue, submitted, delivered, written>>
        /\ lost' = lost \cup Contents(wire)
        /\ wire' = [c \in DOMAIN wire |-> <<>>]
    BY <1>10 DEF MasterExit, OnWire, Contents
  <2>2. Distinct(wire') /\ Contents(wire') = {}
    BY <2>1, WireEmpties
  <2>3. /\ Arrived' = Arrived /\ DeliveredUpdates' = DeliveredUpdates
        /\ Unsent' = Unsent /\ QueueNumbers'
    BY <1>0, <2>1 DEF Arrived, DeliveredUpdates, Unsent, QueueNumbers
  <2>4. Placed'
    BY <1>0, <2>1, <2>2, <2>3 DEF Placed
  <2>5. QED
    BY <1>0, <2>2, <2>3, <2>4
<1>11. CASE Crash \/ HandleStop
  <2>1. /\ update_queue' = <<>> /\ written' = <<>>
        /\ UNCHANGED <<submitted, delivered>>
    BY <1>11 DEF Crash, HandleStop, Exit
  <2>2. Unsent' = {} /\ QueueNumbers'
    BY <1>0, <2>1, EmptySeq DEF Unsent, Range, QueueNumbers
  <2>3. Arrived' = Arrived /\ DeliveredUpdates' = DeliveredUpdates
    BY <2>1 DEF Arrived, DeliveredUpdates
  <2>4. CASE socket = "open"
    <3>1. PICK n \in 0 .. Len(wire[Len(wire)]) :
            /\ wire' = [wire EXCEPT ![Len(wire)] = SubSeq(@, 1, n)]
            /\ lost' = lost \cup Unsent
                         \cup Range(SubSeq(wire[Len(wire)], n + 1,
                                           Len(wire[Len(wire)])))
      BY <1>11, <2>4 DEF Crash, HandleStop, Exit
    <3> DEFINE cut == Range(SubSeq(wire[Len(wire)], n + 1, Len(wire[Len(wire)])))
    <3>2. /\ lost' = lost \cup Unsent \cup cut
          /\ wire' = [wire EXCEPT ![Len(wire)] = SubSeq(wire[Len(wire)], 1, n)]
      BY <3>1
    <3>3. Len(wire) \in DOMAIN wire
      BY <1>0, <2>4, LastIndex DEF LinkInv, SocketHasWire
    <3>4. /\ Distinct(wire') /\ cut \subseteq Contents(wire)
          /\ Contents(wire') = Contents(wire) \ cut
      BY <1>0, <3>2, <3>3, WireCut
    <3> HIDE DEF cut
    <3>5. Placed'
      BY <1>0, <2>1, <2>2, <2>3, <3>2, <3>4 DEF Placed
    <3>6. QED
      BY <1>0, <2>2, <2>3, <3>4, <3>5
  <2>5. CASE socket # "open"
    <3>1. wire' = wire /\ lost' = lost \cup Unsent
      BY <1>11, <2>5 DEF Crash, HandleStop, Exit
    <3>2. Placed'
      BY <1>0, <2>1, <2>2, <2>3, <3>1 DEF Placed
    <3>3. QED
      BY <1>0, <2>2, <2>3, <3>1, <3>2
  <2>6. QED
    BY <2>4, <2>5
<1>12. CASE Restart
  <2>1. UNCHANGED <<update_queue, submitted, delivered, lost, wire, written>>
    BY <1>12 DEF Restart, world
  <2>2. QED
    BY <1>0, <2>1 DEF Placed, Unsent, Arrived, DeliveredUpdates, QueueNumbers
<1>13. CASE UNCHANGED vars
  <2>1. UNCHANGED <<update_queue, submitted, delivered, lost, wire, written>>
    BY <1>13 DEF vars
  <2>2. QED
    BY <1>0, <2>1 DEF Placed, Unsent, Arrived, DeliveredUpdates, QueueNumbers
<1>14. QED
  BY <1>1, <1>2, <1>3, <1>4, <1>5, <1>6, <1>7, <1>8, <1>9, <1>10, <1>11, <1>12,
     <1>13 DEF Next

\* Every update is in exactly one place, once, for any number of updates,
\* connections that break, and processes that end: write_update, the write
\* handlers and the reconnects neither drop nor repeat one.
THEOREM AlwaysAccounted == Spec => []Accounted
<1>1. Init => LinkInv /\ AccountInv
  BY LinkInvInit, AccountInvInit
<1>2. LinkInv /\ AccountInv /\ [Next]_vars => LinkInv' /\ AccountInv'
  BY LinkInvStep, AccountInvStep
<1>3. AccountInv => Accounted
  BY DEF AccountInv
<1>4. QED
  BY <1>1, <1>2, <1>3, PTL DEF Spec

----------------------------------------------------------------------------
\* The updates that went over connection c: those on their way, and those read.
SentOn(d, w, c) == {d[k].update : k \in {k \in DOMAIN d : d[k].conn = c}} \cup Range(w[c])

\* What came over a connection came in order, what is on its way follows in
\* order, and only connections that were opened delivered something.
InOrder(d, w) ==
    /\ \A k \in DOMAIN d : d[k].conn \in DOMAIN w
    /\ \A i, j \in DOMAIN d :
         i < j /\ d[i].conn = d[j].conn => d[i].update < d[j].update
    /\ \A c \in DOMAIN w : \A i, j \in DOMAIN w[c] : i < j => w[c][i] < w[c][j]
    /\ \A k \in DOMAIN d : \A i \in DOMAIN w[d[k].conn] :
         d[k].update < w[d[k].conn][i]

\* Whatever has no bytes on the open connection yet is newer than what has.
SendsNewer ==
    socket = "open" =>
        \A u \in SentOn(delivered, wire, Len(wire)), v \in Unsent : u < v

\* The inductive invariant behind SessionOrder.
OrderInv == InOrder(delivered, wire) /\ SendsNewer

\* The kernel takes update x, newer than all before it, on connection c.
LEMMA OrderSend ==
    ASSUME NEW d \in Seq([update : Nat, conn : Nat]), NEW w \in Seq(Seq(Nat)),
           NEW c \in DOMAIN w, NEW x \in Nat, InOrder(d, w),
           \A u \in SentOn(d, w, c) : u < x
    PROVE  LET v == [w EXCEPT ![c] = Append(w[c], x)]
           IN  InOrder(d, v) /\ SentOn(d, v, c) \subseteq SentOn(d, w, c) \cup {x}
<1> DEFINE s == Append(w[c], x)
           v == [w EXCEPT ![c] = s]
<1>1. w[c] \in Seq(Nat)
  OBVIOUS
<1>2. /\ \A i \in DOMAIN s : \/ i \in DOMAIN w[c] /\ s[i] = w[c][i]
                             \/ i = Len(w[c]) + 1 /\ s[i] = x
      /\ Len(w[c]) \in Nat /\ DOMAIN w[c] = 1 .. Len(w[c])
      /\ DOMAIN s = 1 .. Len(w[c]) + 1
  BY <1>1, AppendCases
<1>3. \A i \in DOMAIN w[c] : w[c][i] \in Nat
  BY <1>1, LenProperties
<1>4. Range(s) \subseteq Range(w[c]) \cup {x}
  BY <1>2 DEF Range
<1> HIDE DEF s
<1>5. /\ DOMAIN v = DOMAIN w /\ v[c] = s
      /\ \A e \in DOMAIN w \ {c} : v[e] = w[e]
  OBVIOUS
<1> HIDE DEF v
<1>7. \A i \in DOMAIN w[c] : w[c][i] < x
  BY DEF SentOn, Range
<1>8. \A i, j \in DOMAIN s : i < j => s[i] < s[j]
  <2>1. SUFFICES ASSUME NEW i \in DOMAIN s, NEW j \in DOMAIN s, i < j
                 PROVE  s[i] < s[j]
    OBVIOUS
  <2>2. i \in Nat /\ j \in Nat /\ i <= Len(w[c])
    BY <1>2, <2>1
  <2>3. i \in DOMAIN w[c] /\ s[i] = w[c][i]
    BY <1>2, <2>2
  <2>4. CASE j \in DOMAIN w[c] /\ s[j] = w[c][j]
    BY <2>1, <2>3, <2>4 DEF InOrder
  <2>5. CASE s[j] = x
    BY <1>7, <2>3, <2>5
  <2>6. QED
    BY <1>2, <2>4, <2>5
<1>9. ASSUME NEW k \in DOMAIN d, NEW i \in DOMAIN v[d[k].conn]
      PROVE  d[k].update < v[d[k].conn][i]
  <2>1. CASE d[k].conn = c
    <3>1. d[k].update < x
      BY <2>1 DEF SentOn
    <3>2. QED
      BY <1>2, <1>5, <2>1, <3>1 DEF InOrder
  <2>2. CASE d[k].conn # c
    BY <1>5, <2>2 DEF InOrder
  <2>3. QED
    BY <2>1, <2>2
<1>10. InOrder(d, v)
  BY <1>5, <1>8, <1>9 DEF InOrder
<1>11. SentOn(d, v, c) \subseteq SentOn(d, w, c) \cup {x}
  BY <1>4, <1>5 DEF SentOn
<1>12. QED
  BY <1>10, <1>11 DEF v, s

\* The master reads the next update of connection c.
LEMMA OrderRead ==
    ASSUME NEW d \in Seq([update : Nat, conn : Nat]), NEW w \in Seq(Seq(Nat)),
           NEW c \in DOMAIN w, InOrder(d, w), w[c] # <<>>
    PROVE  LET e == Append(d, [update |-> Head(w[c]), conn |-> c])
               v == [w EXCEPT ![c] = Tail(w[c])]
           IN  /\ InOrder(e, v)
               /\ \A b \in DOMAIN w : SentOn(e, v, b) \subseteq SentOn(d, w, b)
<1> DEFINE r == [update |-> Head(w[c]), conn |-> c]
           e == Append(d, r)
           t == Tail(w[c])
           v == [w EXCEPT ![c] = t]
<1>1. w[c] \in Seq(Nat) /\ c \in Nat
  OBVIOUS
<1>2. /\ \A i \in DOMAIN t : /\ i \in Nat \ {0} /\ i + 1 \in DOMAIN w[c]
                             /\ t[i] = w[c][i + 1]
      /\ Head(w[c]) = w[c][1] /\ 1 \in DOMAIN w[c] /\ w[c][1] \in Nat
  BY <1>1, TailCases
<1>3. \A i \in DOMAIN w[c] : w[c][i] \in Nat
  BY <1>1, LenProperties
<1>4. r \in [update : Nat, conn : Nat] /\ r.update = Head(w[c]) /\ r.conn = c
  BY <1>1, <1>2
<1> HIDE DEF r
<1>5. /\ \A k \in DOMAIN e : \/ k \in DOMAIN d /\ e[k] = d[k]
                             \/ k = Len(d) + 1 /\ e[k] = r
      /\ Len(d) \in Nat /\ DOMAIN d = 1 .. Len(d)
      /\ DOMAIN e = 1 .. Len(d) + 1
  <2> DEFINE R == [update : Nat, conn : Nat]
  <2>1. d \in Seq(R) /\ r \in R
    BY <1>4
  <2> HIDE DEF R
  <2>2. QED
    BY <2>1, AppendCases
<1> HIDE DEF e, t
<1>7. /\ DOMAIN v = DOMAIN w /\ v[c] = t
      /\ \A b \in DOMAIN w \ {c} : v[b] = w[b]
  OBVIOUS
<1> HIDE DEF v
<1>10. \A i \in DOMAIN t : Head(w[c]) < t[i]
  BY <1>2 DEF InOrder
<1>11. \A k \in DOMAIN d : d[k].conn = c => d[k].update < Head(w[c])
  BY <1>2, SMTT(30) DEF InOrder
<1>12. \A b \in DOMAIN v : \A i, j \in DOMAIN v[b] : i < j => v[b][i] < v[b][j]
  <2>1. \A i, j \in DOMAIN t : i < j => t[i] < t[j]
    BY <1>2 DEF InOrder
  <2>2. QED
    BY <1>7, <2>1 DEF InOrder
<1>13. \A i, j \in DOMAIN e :
         i < j /\ e[i].conn = e[j].conn => e[i].update < e[j].update
  <2>1. SUFFICES ASSUME NEW i \in DOMAIN e, NEW j \in DOMAIN e, i < j,
                        e[i].conn = e[j].conn
                 PROVE  e[i].update < e[j].update
    OBVIOUS
  <2>2. i \in DOMAIN d /\ e[i] = d[i]
    <3>1. i \in Nat /\ j \in Nat /\ i <= Len(d)
      BY <1>5, <2>1, SMTT(30)
    <3>2. QED
      BY <1>5, <3>1
  <2>3. CASE j \in DOMAIN d /\ e[j] = d[j]
    BY <2>1, <2>2, <2>3 DEF InOrder
  <2>4. CASE e[j] = r
    BY <1>4, <1>11, <2>1, <2>2, <2>4
  <2>5. QED
    BY <1>5, <2>3, <2>4
<1>14. ASSUME NEW k \in DOMAIN e, NEW i \in DOMAIN v[e[k].conn]
       PROVE  e[k].update < v[e[k].conn][i]
  <2>1. CASE e[k] = r
    BY <1>4, <1>7, <1>10, <2>1
  <2>2. CASE k \in DOMAIN d /\ e[k] = d[k] /\ d[k].conn = c
    <3>1. v[e[k].conn] = t /\ i + 1 \in DOMAIN w[d[k].conn]
      BY <1>2, <1>7, <2>2
    <3>2. d[k].update < w[d[k].conn][i + 1]
      BY <3>1, <2>2 DEF InOrder
    <3>3. QED
      BY <1>2, <1>7, <2>2, <3>1, <3>2
  <2>3. CASE k \in DOMAIN d /\ e[k] = d[k] /\ d[k].conn # c
    BY <1>7, <2>3 DEF InOrder
  <2>4. QED
    BY <1>5, <2>1, <2>2, <2>3
<1>15. InOrder(e, v)
  <2>1. \A k \in DOMAIN e : e[k].conn \in DOMAIN v
    BY <1>4, <1>5, <1>7 DEF InOrder
  <2>2. QED
    BY <1>12, <1>13, <1>14, <2>1 DEF InOrder
<1>16. ASSUME NEW b \in DOMAIN w PROVE SentOn(e, v, b) \subseteq SentOn(d, w, b)
  <2>1. SUFFICES ASSUME NEW u \in SentOn(e, v, b) PROVE u \in SentOn(d, w, b)
    OBVIOUS
  <2>2. CASE u \in Range(v[b])
    <3>1. Range(v[b]) \subseteq Range(w[b])
      <4>1. \A i \in DOMAIN v[b] : v[b][i] \in Range(w[b])
        <5>1. CASE b = c
          BY <1>2, <1>7, <5>1 DEF Range
        <5>2. CASE b # c
          BY <1>7, <5>2 DEF Range
        <5>3. QED
          BY <5>1, <5>2
      <4>2. QED
        BY <4>1 DEF Range
    <3>2. QED
      BY <2>2, <3>1 DEF SentOn
  <2>3. CASE \E k \in DOMAIN e : e[k].conn = b /\ u = e[k].update
    <3>1. PICK k \in DOMAIN e : e[k].conn = b /\ u = e[k].update
      BY <2>3
    <3>2. CASE e[k] = r
      <4>1. b = c /\ u = w[c][1]
        BY <1>2, <1>4, <3>1, <3>2
      <4>2. u \in Range(w[b])
        BY <1>2, <4>1 DEF Range
      <4>3. QED
        BY <4>2 DEF SentOn
    <3>3. CASE k \in DOMAIN d /\ e[k] = d[k]
      BY <3>1, <3>3 DEF SentOn
    <3>4. QED
      BY <1>5, <3>2, <3>3
  <2>4. QED
    BY <2>1, <2>2, <2>3 DEF SentOn
<1>17. QED
  BY <1>15, <1>16 DEF e, v, r, t

\* A new connection: nothing went over it.
LEMMA OrderOpen ==
    ASSUME NEW d \in Seq([update : Nat, conn : Nat]), NEW w \in Seq(Seq(Nat)),
           InOrder(d, w)
    PROVE  LET v == Append(w, <<>>)
           IN  InOrder(d, v) /\ SentOn(d, v, Len(v)) = {}
<1> DEFINE v == Append(w, <<>>)
<1>1. <<>> \in Seq(Nat)
  BY EmptySeq
<1>2. /\ \A c \in DOMAIN v : \/ c \in DOMAIN w /\ v[c] = w[c]
                             \/ c = Len(w) + 1 /\ v[c] = <<>>
      /\ \A c \in DOMAIN w : c \in DOMAIN v /\ v[c] = w[c]
      /\ Len(v) = Len(w) + 1 /\ v[Len(w) + 1] = <<>>
      /\ Len(w) \in Nat /\ DOMAIN w = 1 .. Len(w)
  BY <1>1, AppendCases
<1> HIDE DEF v
<1>5. DOMAIN <<>> = {}
  OBVIOUS
<1>7. InOrder(d, v)
  BY <1>2, <1>5 DEF InOrder
<1>8. \A k \in DOMAIN d : d[k].conn # Len(v)
  BY <1>2 DEF InOrder
<1>9. Range(v[Len(v)]) = {}
  BY <1>2, <1>5 DEF Range
<1>10. SentOn(d, v, Len(v)) = {}
  BY <1>8, <1>9 DEF SentOn
<1>11. QED
  BY <1>7, <1>10 DEF v

\* Connections break, or their master ends: each keeps its first updates.
LEMMA OrderCut ==
    ASSUME NEW d, NEW w, NEW v, InOrder(d, w), DOMAIN v = DOMAIN w,
           \A c \in DOMAIN w : \A i \in DOMAIN v[c] :
               i \in DOMAIN w[c] /\ v[c][i] = w[c][i]
    PROVE  InOrder(d, v)
BY DEF InOrder

\* The last connection breaks after n of the updates it carries.
LEMMA CutKeepsOrder ==
    ASSUME NEW d, NEW w \in Seq(Seq(Nat)), w # <<>>, InOrder(d, w),
           NEW n \in 0 .. Len(w[Len(w)])
    PROVE  InOrder(d, [w EXCEPT ![Len(w)] = SubSeq(w[Len(w)], 1, n)])
<1> DEFINE s == w[Len(w)]
           a == SubSeq(s, 1, n)
           v == [w EXCEPT ![Len(w)] = a]
<1>1. s \in Seq(Nat) /\ Len(w) \in DOMAIN w
  BY LastIndex
<1>2. \A i \in DOMAIN a : i \in DOMAIN s /\ a[i] = s[i]
  BY <1>1, PrefixCases
<1> HIDE DEF a
<1>3. /\ DOMAIN v = DOMAIN w /\ v[Len(w)] = a
      /\ \A c \in DOMAIN w : c # Len(w) => v[c] = w[c]
  BY <1>1
<1> HIDE DEF v
<1>4. \A c \in DOMAIN w : \A i \in DOMAIN v[c] :
        i \in DOMAIN w[c] /\ v[c][i] = w[c][i]
  BY <1>2, <1>3
<1>5. InOrder(d, v)
  BY <1>3, <1>4, OrderCut
<1>6. QED
  BY <1>5 DEF v, a

\* Nothing was sent when the slave starts.
LEMMA OrderInvInit == Init => OrderInv
<1>1. DOMAIN <<>> = {}
  OBVIOUS
<1>2. QED
  BY <1>1 DEF Init, OrderInv, InOrder, SendsNewer

\* What was sent had been submitted, and the front of the queue is the oldest
\* of what was not.
LEMMA SentBeforeQueued ==
    ASSUME LinkInv, AccountInv, update_queue # <<>>
    PROVE  /\ \A v \in Unsent : v = Head(update_queue) \/ Head(update_queue) < v
           /\ \A v \in Unsent : v \in 1 .. submitted
<1>1. /\ update_queue \in Seq(Nat) /\ submitted \in Nat
      /\ Len(update_queue) \in Nat \ {0}
      /\ DOMAIN update_queue = 1 .. Len(update_queue)
      /\ Head(update_queue) = update_queue[1] /\ 1 \in DOMAIN update_queue
  BY TailCases DEF LinkInv, TypeOK
<1>2. \A v \in Unsent : \E k \in 1 .. Len(update_queue) : v = update_queue[k]
  BY <1>1 DEF Unsent, Range
<1>3. \A k \in 1 .. Len(update_queue) :
         update_queue[k] = submitted - Len(update_queue) + k
      /\ Len(update_queue) <= submitted
  BY DEF AccountInv, QueueNumbers
<1>4. ASSUME NEW v \in Unsent
      PROVE  /\ v = Head(update_queue) \/ Head(update_queue) < v
             /\ v \in 1 .. submitted
  <2>1. PICK k \in 1 .. Len(update_queue) : v = update_queue[k]
    BY <1>2
  <2>2. QED
    BY <1>1, <1>3, <2>1
<1>5. QED
  BY <1>4

\* What went over the open connection is older than the next update.
LEMMA SentSubmitted ==
    ASSUME LinkInv, AccountInv, socket = "open"
    PROVE  \A u \in SentOn(delivered, wire, Len(wire)) : u < submitted + 1
<1>1. /\ submitted \in Nat /\ wire \in Seq(Seq(Nat)) /\ wire # <<>>
  BY DEF LinkInv, TypeOK, SocketHasWire
<1>2. Len(wire) \in DOMAIN wire
  BY <1>1, LastIndex
<1>3. OnWire \cup Arrived \subseteq 1 .. submitted
  BY DEF AccountInv, Accounted, UpdateIds
<1>4. SentOn(delivered, wire, Len(wire)) \subseteq OnWire \cup Arrived
  <2>1. Range(wire[Len(wire)]) \subseteq OnWire
    BY <1>2 DEF OnWire
  <2>2. \A k \in DOMAIN delivered : delivered[k].update \in Arrived
    <3>1. DOMAIN DeliveredUpdates = DOMAIN delivered
          /\ \A k \in DOMAIN delivered : DeliveredUpdates[k] = delivered[k].update
      BY DEF DeliveredUpdates
    <3>2. QED
      BY <3>1 DEF Arrived, Range
  <2>3. QED
    BY <2>1, <2>2 DEF SentOn
<1>5. QED
  BY <1>1, <1>3, <1>4, SMTT(30)

\* Every step keeps what was sent in order, and what is not sent yet newer.
LEMMA OrderInvStep ==
    ASSUME LinkInv, LinkInv', AccountInv, AccountInv', OrderInv, [Next]_vars
    PROVE  OrderInv'
<1>0. /\ delivered \in Seq([update : Nat, conn : Nat])
      /\ wire \in Seq(Seq(Nat)) /\ submitted \in Nat
      /\ InOrder(delivered, wire) /\ SendsNewer
  BY DEF LinkInv, TypeOK, OrderInv
<1>00. SUFFICES InOrder(delivered', wire') /\ SendsNewer'
  BY DEF OrderInv, InOrder
<1>1. CASE UNCHANGED <<delivered, wire>> /\ Unsent' \subseteq Unsent
           /\ (socket' = "open" => socket = "open")
  BY <1>0, <1>1 DEF SendsNewer
<1>2. CASE Connect \/ HandleConnectError \/ HandleWriteUpdateError \/ Restart
           \/ UNCHANGED vars
  <2>1. /\ UNCHANGED <<delivered, wire, update_queue, written>>
        /\ socket' = "open" => socket = "open"
    BY <1>2 DEF Connect, HandleConnectError, HandleWriteUpdateError, Restart,
       world, vars
  <2>2. QED
    BY <1>1, <2>1 DEF Unsent
<1>3. CASE HandleConnectOk
  <2>1. wire' = Append(wire, <<>>) /\ delivered' = delivered
    BY <1>3 DEF HandleConnectOk
  <2>2. QED
    BY <1>0, <2>1, OrderOpen DEF SendsNewer
<1>4. CASE WriteUpdate
  <2>1. /\ UNCHANGED <<delivered, wire, written, socket>>
        /\ update_queue' = Append(update_queue, submitted + 1)
    BY <1>4 DEF WriteUpdate, world, PushBack
  <2>2. Unsent' \subseteq Unsent \cup {submitted + 1}
    <3>1. update_queue \in Seq(Nat) /\ submitted + 1 \in Nat
      BY <1>0 DEF LinkInv, TypeOK
    <3>2. Range(Append(update_queue, submitted + 1))
            = Range(update_queue) \cup {submitted + 1}
      BY <3>1, RangeAppend
    <3>3. QED
      BY <2>1, <3>2 DEF Unsent
  <2>3. socket = "open" => \A u \in SentOn(delivered, wire, Len(wire)) : u < submitted + 1
    BY SentSubmitted
  <2>4. QED
    BY <1>0, <2>1, <2>2, <2>3 DEF SendsNewer
<1>5. CASE HandleWriteUpdateOk
  <2>1. /\ UNCHANGED <<delivered, wire, socket>>
        /\ update_queue' = Tail(update_queue) /\ written' = Tail(written)
        /\ update_queue # <<>> /\ written = <<Head(update_queue)>>
    BY <1>5 DEF HandleWriteUpdateOk, world, LinkInv, TypeOK, OneOperation
  <2>2. Range(update_queue') \subseteq Range(update_queue) \ Range(written)
    <3>1. Range(Tail(update_queue)) = Range(update_queue) \ {Head(update_queue)}
      BY <2>1, QueueDistinct DEF AccountInv
    <3>2. Range(written) = {Head(update_queue)}
      BY <2>1 DEF Range
    <3>3. QED
      BY <2>1, <3>1, <3>2
  <2>3. QED
    BY <1>1, <2>1, <2>2 DEF Unsent
<1>6. CASE KernelSend
  <2>1. /\ delivered' = delivered /\ update_queue' = update_queue
        /\ socket' = socket /\ update_queue # <<>>
        /\ written = <<>> /\ writing = <<Head(update_queue)>>
        /\ written' = <<Head(update_queue)>>
    BY <1>6 DEF KernelSend, LinkInv, TypeOK, OneOperation
  <2> DEFINE x == Head(update_queue)
  <2>2. Head(writing) = x /\ x \in Range(update_queue) /\ x \in Nat
    BY <1>0, <2>1, QueueDistinct, TailFacts DEF AccountInv, LinkInv, TypeOK
  <2>3. x \in Unsent /\ Unsent' = Unsent \ {x}
    BY <2>1, <2>2 DEF Unsent, Range
  <2>4. CASE socket = "open"
    <3>1. /\ wire' = [wire EXCEPT ![Len(wire)] = Append(wire[Len(wire)], x)]
      BY <1>6, <2>2, <2>4 DEF KernelSend
    <3>2. Len(wire) \in DOMAIN wire
      BY <1>0, <2>4, LastIndex DEF LinkInv, SocketHasWire
    <3>3. \A u \in SentOn(delivered, wire, Len(wire)) : u < x
      BY <1>0, <2>3, <2>4 DEF SendsNewer
    <3> HIDE DEF x
    <3>4. /\ InOrder(delivered, wire')
          /\ SentOn(delivered, wire', Len(wire))
               \subseteq SentOn(delivered, wire, Len(wire)) \cup {x}
      BY <1>0, <2>2, <3>1, <3>2, <3>3, OrderSend
    <3>5. Len(wire') = Len(wire)
      BY <1>0, <3>1, <3>2
    <3>6. \A v \in Unsent' : x < v
      BY <2>1, <2>3, SentBeforeQueued DEF x
    <3>7. \A v \in Unsent' : \A u \in SentOn(delivered, wire, Len(wire)) : u < v
      BY <1>0, <2>3, <2>4 DEF SendsNewer
    <3>8. SendsNewer'
      BY <2>1, <3>4, <3>5, <3>6, <3>7 DEF SendsNewer
    <3>9. QED
      BY <2>1, <3>4, <3>8
  <2>5. CASE socket = "dead"
    <3>1. wire' = wire
      BY <1>6, <2>5 DEF KernelSend
    <3>2. QED
      BY <1>1, <2>1, <2>3, <2>5, <3>1
  <2>6. QED
    BY <1>6, <2>4, <2>5 DEF KernelSend
<1>7. CASE MasterRead
  <2>1. PICK c \in DOMAIN wire :
          /\ wire[c] # <<>>
          /\ delivered' = Append(delivered,
                                 [update |-> Head(wire[c]), conn |-> c])
          /\ wire' = [wire EXCEPT ![c] = Tail(wire[c])]
    BY <1>7 DEF MasterRead
  <2>2. UNCHANGED <<update_queue, written, socket>>
    BY <1>7 DEF MasterRead, link
  <2>3. /\ InOrder(delivered', wire')
        /\ \A b \in DOMAIN wire :
             SentOn(delivered', wire', b) \subseteq SentOn(delivered, wire, b)
    BY <1>0, <2>1, OrderRead
  <2>4. Len(wire') = Len(wire)
    BY <1>0, <2>1
  <2>5. socket = "open" => Len(wire) \in DOMAIN wire
    BY <1>0, LastIndex DEF LinkInv, SocketHasWire
  <2>6. SendsNewer'
    BY <1>0, <2>2, <2>3, <2>4, <2>5 DEF SendsNewer, Unsent
  <2>7. QED
    BY <2>3, <2>6
<1>8. CASE Break
  <2>1. /\ delivered' = delivered /\ socket = "open" /\ socket' = "dead"
        /\ \E n \in 0 .. Len(wire[Len(wire)]) :
             wire' = [wire EXCEPT ![Len(wire)] = SubSeq(wire[Len(wire)], 1, n)]
    BY <1>8 DEF Break, CutWire
  <2>2. wire # <<>>
    BY <2>1 DEF LinkInv, SocketHasWire
  <2>3. InOrder(delivered, wire')
    <3>1. PICK n \in 0 .. Len(wire[Len(wire)]) :
            wire' = [wire EXCEPT ![Len(wire)] = SubSeq(wire[Len(wire)], 1, n)]
      BY <2>1
    <3>2. InOrder(delivered, [wire EXCEPT ![Len(wire)] = SubSeq(wire[Len(wire)], 1, n)])
      BY <1>0, <2>2, CutKeepsOrder
    <3>3. QED
      BY <3>1, <3>2
  <2>4. QED
    BY <2>1, <2>3 DEF SendsNewer
<1>9. CASE MasterExit
  <2>1. /\ delivered' = delivered /\ socket' # "open"
        /\ wire' = [c \in DOMAIN wire |-> <<>>]
    BY <1>9 DEF MasterExit
  <2>2. DOMAIN <<>> = {}
    OBVIOUS
  <2>3. InOrder(delivered, wire')
    BY <1>0, <2>1, <2>2, OrderCut
  <2>4. QED
    BY <2>1, <2>3 DEF SendsNewer
<1>10. CASE Crash \/ HandleStop
  <2>1. /\ delivered' = delivered /\ socket' = "closed"
    BY <1>10 DEF Crash, HandleStop, Exit
  <2>2. CASE wire' = wire
    BY <1>0, <2>1, <2>2 DEF SendsNewer
  <2>3. CASE /\ socket = "open"
             /\ \E n \in 0 .. Len(wire[Len(wire)]) :
                  wire' = [wire EXCEPT ![Len(wire)] = SubSeq(wire[Len(wire)], 1, n)]
    <3>1. wire # <<>>
      BY <2>3 DEF LinkInv, SocketHasWire
    <3>2. InOrder(delivered, wire')
      <4>1. PICK n \in 0 .. Len(wire[Len(wire)]) :
              wire' = [wire EXCEPT ![Len(wire)] = SubSeq(wire[Len(wire)], 1, n)]
        BY <2>3
      <4>2. InOrder(delivered, [wire EXCEPT ![Len(wire)] = SubSeq(wire[Len(wire)], 1, n)])
        BY <1>0, <3>1, CutKeepsOrder
      <4>3. QED
        BY <4>1, <4>2
    <3>3. QED
      BY <2>1, <3>2 DEF SendsNewer
  <2>4. QED
    BY <1>10, <2>2, <2>3 DEF Crash, HandleStop, Exit
<1>11. QED
  BY <1>2, <1>3, <1>4, <1>5, <1>6, <1>7, <1>8, <1>9, <1>10 DEF Next

\* The master processes what travels on one connection in the order in which it
\* was submitted, for any number of updates, breaks and exits: write_update
\* queues at the back, and only the front is ever written.
THEOREM AlwaysSessionOrder == Spec => []SessionOrder
<1>1. Init => LinkInv /\ AccountInv /\ OrderInv
  BY LinkInvInit, AccountInvInit, OrderInvInit
<1>2. LinkInv /\ AccountInv /\ OrderInv /\ [Next]_vars
        => LinkInv' /\ AccountInv' /\ OrderInv'
  BY LinkInvStep, AccountInvStep, OrderInvStep
<1>3. OrderInv => SessionOrder
  BY DEF OrderInv, InOrder, SessionOrder
<1>4. QED
  BY <1>1, <1>2, <1>3, PTL DEF Spec

----------------------------------------------------------------------------
\* The constructor of slave starts the channel with nothing accepted.
LEMMA ChannelInit == Init => Channel!Init
<1> SUFFICES ASSUME Init PROVE Channel!Init
  OBVIOUS
<1>1. DeliveredUpdates = <<>>
  <2>1. DeliveredUpdates = [k \in {} |-> delivered[k].update]
    BY DEF Init, DeliveredUpdates
  <2>2. DOMAIN <<>> = {}
    OBVIOUS
  <2>3. QED
    BY <2>1, <2>2
<1>2. QED
  BY <1>1 DEF Init, Channel!Init

\* What is lost in a step had been accepted and not delivered.
LEMMA ChannelDrops ==
    ASSUME AccountInv, AccountInv', UNCHANGED <<submitted, delivered>>,
           lost \subseteq lost'
    PROVE  Channel!Drop
<1>1. /\ submitted' = submitted /\ DeliveredUpdates' = DeliveredUpdates
      /\ Arrived' = Arrived
  BY DEF DeliveredUpdates, Arrived
<1>2. /\ lost' \subseteq 1 .. submitted
      /\ lost' \cap Range(DeliveredUpdates) = {}
  <2>1. lost' \subseteq 1 .. submitted' /\ Arrived' \cap lost' = {}
    BY DEF AccountInv, Accounted, UpdateIds
  <2>2. QED
    BY <1>1, <2>1 DEF Arrived
<1> DEFINE S == lost' \ lost
<1>3. S \in SUBSET Channel!Waiting
  BY <1>2 DEF Channel!Waiting, Channel!Range, Range
<1>4. lost' = lost \cup S
  OBVIOUS
<1>5. QED
  BY <1>1, <1>3, <1>4 DEF Channel!Drop

\* Every step of the slave, the network and the master is a step of the channel.
LEMMA ChannelStep ==
    ASSUME LinkInv, AccountInv, AccountInv', [Next]_vars
    PROVE  [Channel!Next]_(Channel!channelVars)
<1> USE DEF Channel!Next, Channel!channelVars
<1>1. CASE WriteUpdate
  <2>1. submitted' = submitted + 1 /\ UNCHANGED <<delivered, lost>>
    BY <1>1 DEF WriteUpdate, world
  <2>2. DeliveredUpdates' = DeliveredUpdates
    BY <2>1 DEF DeliveredUpdates
  <2>3. Channel!Accept
    BY <2>1, <2>2 DEF Channel!Accept
  <2>4. QED
    BY <2>3
<1>2. CASE MasterRead
  <2>1. PICK c \in DOMAIN wire :
          /\ wire[c] # <<>>
          /\ delivered' = Append(delivered,
                                 [update |-> Head(wire[c]), conn |-> c])
    BY <1>2 DEF MasterRead
  <2> DEFINE x == Head(wire[c])
  <2>2. UNCHANGED <<submitted, lost>>
    BY <1>2 DEF MasterRead
  <2>3. wire[c] \in Seq(Nat) /\ c \in Nat
    BY DEF LinkInv, TypeOK
  <2>4. x \in Nat /\ x \in Range(wire[c])
    BY <2>1, <2>3, TailFacts, RangeTail
  <2>5. DeliveredUpdates' = Append(DeliveredUpdates, x)
    BY <2>1, <2>4, <2>3, DeliveredAppend
  <2> HIDE DEF x
  <2>6. x \in OnWire
    BY <2>4 DEF OnWire
  <2>7. x \in Channel!Waiting
    BY <2>6 DEF AccountInv, Accounted, UpdateIds, Arrived, Range,
       Channel!Waiting, Channel!Range
  <2>8. Channel!Deliver
    BY <2>2, <2>5, <2>7 DEF Channel!Deliver
  <2>9. QED
    BY <2>8
<1>3. CASE KernelSend \/ Break \/ MasterExit \/ Crash \/ HandleStop
  <2>1. UNCHANGED <<submitted, delivered>> /\ lost \subseteq lost'
    BY <1>3 DEF KernelSend, Break, CutWire, MasterExit, Crash, HandleStop, Exit
  <2>2. QED
    BY <2>1, ChannelDrops
<1>4. CASE \/ Connect \/ HandleConnectOk \/ HandleConnectError \/ Restart
           \/ HandleWriteUpdateOk \/ HandleWriteUpdateError \/ UNCHANGED vars
  <2>1. UNCHANGED <<submitted, delivered, lost>>
    BY <1>4 DEF Connect, HandleConnectOk, HandleConnectError, Restart, world,
       HandleWriteUpdateOk, HandleWriteUpdateError, vars
  <2>2. DeliveredUpdates' = DeliveredUpdates
    BY <2>1 DEF DeliveredUpdates
  <2>3. QED
    BY <2>1, <2>2
<1>5. QED
  BY <1>1, <1>2, <1>3, <1>4 DEF Next

\* The slave implements UpdateChannel: an update that it accepted is delivered at
\* most once, and one that was lost is never delivered afterwards.  What the
\* channel leaves open (when, and in which order) the slave decides.
THEOREM ChannelImplemented == Spec => ImplementsChannel
<1>1. Init => LinkInv /\ AccountInv
  BY LinkInvInit, AccountInvInit
<1>2. LinkInv /\ AccountInv /\ [Next]_vars => LinkInv' /\ AccountInv'
  BY LinkInvStep, AccountInvStep
<1>3. LinkInv /\ AccountInv /\ AccountInv' /\ [Next]_vars
        => [Channel!Next]_(Channel!channelVars)
  BY ChannelStep
<1>4. QED
  BY <1>1, <1>2, <1>3, ChannelInit, PTL DEF Spec, Channel!Spec, ImplementsChannel

----------------------------------------------------------------------------
(* What the channel promises. *)

ChannelInv == submitted \in Nat /\ Channel!AtMostOnce

LEMMA ChannelAppends ==
    ASSUME NEW n \in Nat, NEW s \in Seq(1 .. n), IsInjective(s),
           NEW D, D \subseteq (1 .. n) \ Range(s),
           NEW x \in (1 .. n) \ (Range(s) \cup D)
    PROVE  /\ Append(s, x) \in Seq(1 .. n) /\ IsInjective(Append(s, x))
           /\ D \subseteq (1 .. n) \ Range(Append(s, x))
<1>1. Append(s, x) \in Seq(1 .. n)
  BY AppendProperties
<1>2. IsInjective(Append(s, x)) /\ Range(Append(s, x)) = Range(s) \cup {x}
  BY InjectiveAppend, RangeAppend
<1>3. QED
  BY <1>1, <1>2

LEMMA SameOnChannel ==
    \A s : Channel!Range(s) = Range(s) /\ (Channel!IsInjective(s) <=> IsInjective(s))
BY DEF Channel!Range, Range, Channel!IsInjective, IsInjective

LEMMA ChannelInvInit == Channel!Init => ChannelInv
<1> SUFFICES ASSUME Channel!Init PROVE ChannelInv
  OBVIOUS
<1>1. submitted = 0 /\ DeliveredUpdates = <<>> /\ lost = {}
  BY DEF Channel!Init
<1>2. <<>> \in Seq(1 .. 0) /\ IsInjective(<<>>)
  BY DEF IsInjective
<1>3. QED
  BY <1>1, <1>2, SameOnChannel DEF ChannelInv, Channel!AtMostOnce

LEMMA ChannelInvStep == ChannelInv /\ [Channel!Next]_(Channel!channelVars) => ChannelInv'
<1> SUFFICES ASSUME ChannelInv, [Channel!Next]_(Channel!channelVars) PROVE ChannelInv'
  OBVIOUS
<1>1. /\ submitted \in Nat
      /\ DeliveredUpdates \in Seq(1 .. submitted) /\ IsInjective(DeliveredUpdates)
      /\ lost \subseteq (1 .. submitted) \ Range(DeliveredUpdates)
  BY SameOnChannel DEF ChannelInv, Channel!AtMostOnce
<1>2. CASE Channel!Accept
  <2>1. /\ submitted' = submitted + 1 /\ DeliveredUpdates' = DeliveredUpdates
        /\ lost' = lost
    BY <1>2 DEF Channel!Accept
  <2>2. submitted' \in Nat /\ 1 .. submitted \subseteq 1 .. submitted'
    BY <1>1, <2>1
  <2>3. DeliveredUpdates \in Seq(1 .. submitted')
    BY <1>1, <2>2, SeqWider
  <2>4. QED
    BY <1>1, <2>1, <2>2, <2>3, SameOnChannel DEF ChannelInv, Channel!AtMostOnce
<1>3. CASE Channel!Deliver
  <2>1. PICK x \in Channel!Waiting :
          DeliveredUpdates' = Append(DeliveredUpdates, x)
    BY <1>3 DEF Channel!Deliver
  <2>2. submitted' = submitted /\ lost' = lost
    BY <1>3 DEF Channel!Deliver
  <2>3. x \in (1 .. submitted) \ (Range(DeliveredUpdates) \cup lost)
    BY SameOnChannel DEF Channel!Waiting
  <2>4. /\ DeliveredUpdates' \in Seq(1 .. submitted) /\ IsInjective(DeliveredUpdates')
        /\ lost \subseteq (1 .. submitted) \ Range(DeliveredUpdates')
    BY <1>1, <2>1, <2>3, ChannelAppends
  <2>5. QED
    BY <1>1, <2>2, <2>4, SameOnChannel DEF ChannelInv, Channel!AtMostOnce
<1>4. CASE Channel!Drop
  <2>1. PICK S \in SUBSET Channel!Waiting : lost' = lost \cup S
    BY <1>4 DEF Channel!Drop
  <2>2. submitted' = submitted /\ DeliveredUpdates' = DeliveredUpdates
    BY <1>4 DEF Channel!Drop
  <2>3. S \subseteq (1 .. submitted) \ Range(DeliveredUpdates)
    BY SameOnChannel DEF Channel!Waiting
  <2>4. QED
    BY <1>1, <2>1, <2>2, <2>3, SameOnChannel DEF ChannelInv, Channel!AtMostOnce
<1>5. CASE UNCHANGED Channel!channelVars
  <2>1. submitted' = submitted /\ DeliveredUpdates' = DeliveredUpdates /\ lost' = lost
    BY <1>5 DEF Channel!channelVars
  <2>2. QED
    BY <1>1, <2>1, SameOnChannel DEF ChannelInv, Channel!AtMostOnce
<1>6. QED
  BY <1>2, <1>3, <1>4, <1>5 DEF Channel!Next

\* What the abstract channel allows is what it promises, and so the slave, which
\* implements it, promises the same: an update that its clients submitted is
\* processed by the master at most once, and not at all once it was lost.
THEOREM DeliveredOnce ==
    /\ Channel!Spec => []Channel!AtMostOnce
    /\ Spec => []Channel!AtMostOnce
<1>1. Channel!Spec => []ChannelInv
  BY ChannelInvInit, ChannelInvStep, PTL DEF Channel!Spec
<1>2. ChannelInv => Channel!AtMostOnce
  BY DEF ChannelInv
<1>3. Channel!Spec => []Channel!AtMostOnce
  BY <1>1, <1>2, PTL
<1>4. QED
  BY <1>3, ChannelImplemented, PTL DEF ImplementsChannel

====
