---- MODULE ServiceProofs ----
(***************************************************************************)
(* The service for any number of datagrams, connections, broken links,     *)
(* faults, stops and restarts, in either program.                          *)
(*                                                                         *)
(* First the chains of receives of pyzord-server are counted.  Neither     *)
(* property of theirs is inductive: what is lost from receives reappears   *)
(* in aborted and in ready, and a request that is served after a shutdown  *)
(* is one chain less.  Balance says so.                                    *)
(*                                                                         *)
(* Then the types.  They too need more than they say: that at most one     *)
(* request is queued, and that what waits or is sent has arrived           *)
(* (DatagramInv), and that a connection is a record of its six fields      *)
(* (HttpInv).  Each step of Next changes one part; the last section puts   *)
(* the parts together.                                                     *)
(*                                                                         *)
(* HttpInv also says, in FitsText, what AnswerFits rests on: the parser of *)
(* a connection stands where it would had it read at once what came in     *)
(* pieces, and a status is given with its answer.  By ParserReads the      *)
(* answer is what the text says.                                           *)
(***************************************************************************)
EXTENDS Service, AlgorithmProofs

\* The part of the state that the chains are counted by.
chainVars == <<receives, aborted, ready, shutdown, starts, late>>

Counts ==
    /\ receives \in Nat /\ aborted \in Nat
    /\ ready \in Seq({"received", "failed"})
    /\ starts \in Nat /\ late \in Nat
    /\ shutdown \in BOOLEAN

\* No chain is lost before a shutdown; after it, each has either ended, or has
\* not yet served a request, or is to end with it.
Balance ==
    /\ ~shutdown => late = 0 /\ Chains = starts
    /\ shutdown => late + Chains < starts

ChainInv == Counts /\ Balance

----------------------------------------------------------------------------
LEMMA NoneReady == <<>> \in Seq({"received", "failed"}) /\ Len(<<>>) = 0
OBVIOUS

LEMMA ChainInvInit == Init => ChainInv
<1> SUFFICES ASSUME Init PROVE ChainInv
  OBVIOUS
<1>1. /\ receives = 0 /\ aborted = 0 /\ ready = <<>> /\ shutdown = FALSE
      /\ starts = 0 /\ late = 0
  BY DEF Init, ServerInit
<1>2. Chains = 0
  BY <1>1, NoneReady DEF Chains
<1>3. QED
  BY <1>1, <1>2, NoneReady DEF ChainInv, Counts, Balance

\* A new process has no chains.
LEMMA RestartBalances == ServerRestarts => ChainInv'
<1> SUFFICES ASSUME ServerRestarts PROVE ChainInv'
  OBVIOUS
<1>1. /\ receives' = 0 /\ aborted' = 0 /\ ready' = <<>> /\ shutdown' = FALSE
      /\ starts' = 0 /\ late' = 0
  BY DEF ServerRestarts
<1>2. Chains' = 0
  BY <1>1, NoneReady DEF Chains
<1>3. QED
  BY <1>1, <1>2, NoneReady DEF ChainInv, Counts, Balance

LEMMA OthersBalance == ChainInv /\ UNCHANGED chainVars => ChainInv'
BY DEF chainVars, ChainInv, Counts, Balance, Chains

----------------------------------------------------------------------------
(* What happens to the chains. *)

\* The handler that has taken a completion from ready starts the next receive, on
\* an open socket or a closed one, unless it stops.
LEMMA NextReceive ==
    ASSUME Counts, ready # <<>>, NEW stop \in BOOLEAN, ReceiveNext(stop), UNCHANGED aborted
    PROVE  /\ receives' \in Nat /\ aborted' \in Nat
           /\ ready' \in Seq({"received", "failed"})
           /\ Chains' = IF stop THEN Chains - 1 ELSE Chains
<1> DEFINE t == Tail(ready)
<1>1. /\ t \in Seq({"received", "failed"})
      /\ Len(t) = Len(ready) - 1
      /\ Len(ready) \in Nat \ {0}
  BY TailFacts DEF Counts
<1>2. /\ Append(t, "failed") \in Seq({"received", "failed"})
      /\ Len(Append(t, "failed")) = Len(t) + 1
  BY <1>1, AppendFacts
<1>3. \/ stop /\ receives' = receives /\ ready' = t
      \/ ~stop /\ receives' = receives + 1 /\ ready' = t
      \/ ~stop /\ receives' = receives /\ ready' = Append(t, "failed")
  BY DEF ReceiveNext
<1> HIDE DEF t
<1>4. aborted' = aborted /\ aborted \in Nat /\ receives \in Nat
  BY DEF Counts
<1>5. ready' \in Seq({"received", "failed"}) /\ receives' \in Nat
  BY <1>1, <1>2, <1>3, <1>4
<1>6. receives' + aborted' + Len(ready') =
        IF stop THEN receives + aborted + Len(ready) - 1 ELSE receives + aborted + Len(ready)
  <2>1. CASE stop
    BY <2>1, <1>1, <1>3, <1>4
  <2>2. CASE ~stop /\ receives' = receives + 1 /\ ready' = t
    BY <2>2, <1>1, <1>4
  <2>3. CASE ~stop /\ receives' = receives /\ ready' = Append(t, "failed")
    BY <2>3, <1>1, <1>2, <1>4
  <2>4. QED
    BY <1>3, <2>1, <2>2, <2>3
<1>7. QED
  BY <1>4, <1>5, <1>6 DEF Chains

LEMMA ServeBalances ==
    ASSUME ChainInv, NEW op, NEW admin \in BOOLEAN, Serve(op, admin)
    PROVE  ChainInv'
<1>1. shutdown' \in BOOLEAN /\ (shutdown => shutdown')
  BY DEF Serve, StopsServer, ChainInv, Counts
<1>2. /\ receives' \in Nat /\ aborted' \in Nat
      /\ ready' \in Seq({"received", "failed"})
      /\ Chains' = IF shutdown' THEN Chains - 1 ELSE Chains
  BY <1>1, NextReceive DEF Serve, Handle, ChainInv
<1>3. starts' = starts /\ late' = late + (IF shutdown THEN 1 ELSE 0)
  BY DEF Serve
<1>4. Chains \in Nat
  BY LenProperties DEF Chains, ChainInv, Counts
<1>5. Counts'
  BY <1>1, <1>2, <1>3 DEF ChainInv, Counts
<1>6. Balance'
  BY <1>1, <1>2, <1>3, <1>4 DEF ChainInv, Counts, Balance
<1>7. QED
  BY <1>5, <1>6 DEF ChainInv

\* A handler that serves nothing.
LEMMA NothingServedBalances ==
    ASSUME ChainInv, ready # <<>>, ReceiveNext(shutdown),
           UNCHANGED <<aborted, shutdown, starts, late>>
    PROVE  ChainInv'
<1>1. /\ receives' \in Nat /\ aborted' \in Nat
      /\ ready' \in Seq({"received", "failed"})
      /\ Chains' = IF shutdown THEN Chains - 1 ELSE Chains
  BY NextReceive DEF ChainInv, Counts
<1>2. Chains \in Nat
  BY LenProperties DEF Chains, ChainInv, Counts
<1>3. QED
  BY <1>1, <1>2 DEF ChainInv, Counts, Balance

\* The reactor completes what was cancelled, and a receive that has a datagram.
LEMMA PassBalances == ChainInv /\ Pass => ChainInv'
<1> SUFFICES ASSUME ChainInv, Pass PROVE ChainInv'
  OBVIOUS
<1> DEFINE S == {"received", "failed"}
           f == Failures(aborted)
<1>1. f \in Seq(S) /\ Len(f) = aborted
  BY SeqDef, LenProperties DEF Failures, ChainInv, Counts
<1>2. /\ ready \o f \in Seq(S)
      /\ Len(ready \o f) = Len(ready) + aborted
  BY <1>1, ConcatProperties DEF ChainInv, Counts
<1>3. /\ <<"received">> \in Seq(S) /\ Len(<<"received">>) = 1
  OBVIOUS
<1>4. /\ ready \o f \o <<"received">> \in Seq(S)
      /\ Len(ready \o f \o <<"received">>) = Len(ready) + aborted + 1
  BY <1>2, <1>3, ConcatProperties, LenProperties DEF ChainInv, Counts
<1> HIDE DEF f, S
<1>5. /\ aborted' = 0
      /\ \/ receives' = receives /\ ready' = ready \o f
         \/ /\ receives > 0 /\ receives' = receives - 1
            /\ ready' = ready \o f \o <<"received">>
  BY DEF Pass, Receivable, f
<1>6. UNCHANGED <<shutdown, starts, late>>
  BY DEF Pass
<1>7. receives' \in Nat /\ ready' \in Seq(S) /\ Chains' = Chains
  <2>1. receives \in Nat /\ aborted \in Nat /\ Len(ready) \in Nat
    BY LenProperties DEF ChainInv, Counts
  <2>2. CASE receives' = receives /\ ready' = ready \o f
    BY <2>1, <2>2, <1>2, <1>5 DEF Chains
  <2>3. CASE /\ receives > 0 /\ receives' = receives - 1
             /\ ready' = ready \o f \o <<"received">>
    <3> DEFINE r == ready \o f \o <<"received">>
    <3>1. ready' = r /\ r \in Seq(S) /\ Len(r) = Len(ready) + aborted + 1
      BY <2>3, <1>4
    <3> HIDE DEF r
    <3>2. Len(ready') = Len(ready) + aborted + 1 /\ ready' \in Seq(S)
      BY <3>1
    <3>3. receives > 0 /\ receives' = receives - 1 /\ aborted' = 0
      BY <2>3, <1>5
    <3>4. receives' \in Nat /\ receives' + aborted' + Len(ready') = receives + aborted + Len(ready)
      BY <2>1, <3>2, <3>3
    <3>5. QED
      BY <3>2, <3>4 DEF Chains
  <2>4. QED
    BY <1>5, <2>2, <2>3
<1>8. Counts'
  BY <1>5, <1>6, <1>7 DEF ChainInv, Counts, S
<1>9. QED
  BY <1>6, <1>7, <1>8 DEF ChainInv, Balance

----------------------------------------------------------------------------
LEMMA ServerBalances == ChainInv /\ ServerRuns => ChainInv'
<1> SUFFICES ASSUME ChainInv, ServerRuns PROVE ChainInv'
  OBVIOUS
<1>1. CASE StartListening
  BY <1>1, LenProperties DEF StartListening, ChainInv, Counts, Balance, Chains
<1>2. CASE StartThrows \/ Arrive \/ ServeOffline \/ GetThrows
  BY <1>2, OthersBalance
     DEF StartThrows, Arrive, ServeOffline, GetThrows, network, history, chainVars
<1>3. CASE StopListening
  BY <1>3, LenProperties DEF StopListening, history, ChainInv, Counts, Balance, Chains
<1>4. CASE \E op \in Operations, admin \in BOOLEAN : Serve(op, admin)
  BY <1>4, ServeBalances
<1>5. CASE ReceivedNothing
  BY <1>5, NothingServedBalances DEF ReceivedNothing, Handle, history
<1>6. CASE ReceiveFailed
  BY <1>6, NothingServedBalances DEF ReceiveFailed, Handle, history
<1>7. CASE Pass
  BY <1>7, PassBalances
<1>8. QED
  BY <1>1, <1>2, <1>3, <1>4, <1>5, <1>6, <1>7 DEF ServerRuns, ServerHandler

\* The wrapper, the main thread and pyzord-api leave the chains alone, unless the
\* process ends.
LEMMA ChainInvStep == ChainInv /\ [Next]_allVars => ChainInv'
<1> SUFFICES ASSUME ChainInv, [Next]_allVars PROVE ChainInv'
  OBVIOUS
<1> USE DEF allVars, programVars, serverVars, network, history, chainVars
<1>1. CASE UNCHANGED allVars
  BY <1>1, OthersBalance
<1>2. CASE WrapperStep \/ WrapperFails \/ StartFails
  BY <1>2, OthersBalance DEF WrapperStep, WrapperFails, StartFails
<1>3. CASE Starts \/ BlocksSignals
  BY <1>3, OthersBalance DEF Starts, BlocksSignals
<1>4. CASE Stop
  BY <1>4, OthersBalance DEF Stop, StopServer, StopHttp
<1>5. CASE Exits \/ Aborts \/ IsStopped
  BY <1>5, OthersBalance, RestartBalances DEF Exits, Aborts, IsStopped, MemoryIsLost
<1>6. CASE InServer(ServerRuns)
  BY <1>6, ServerBalances DEF InServer
<1>7. CASE InHttp(HttpRuns)
  BY <1>7, OthersBalance DEF InHttp
<1>8. QED
  BY <1>1, <1>2, <1>3, <1>4, <1>5, <1>6, <1>7 DEF Next, MainStep

LEMMA ChainInvAlways == Spec => []ChainInv
BY ChainInvInit, ChainInvStep, PTL DEF Spec

\* Until it is told to shut down, pyzord-server never loses a chain of receives:
\* each start_listening of the process adds one, and none ends.
THEOREM NeverDeaf == Spec => []OneChainPerStart
<1>1. ChainInv => OneChainPerStart
  BY DEF ChainInv, Balance, OneChainPerStart
<1>2. QED
  BY <1>1, ChainInvAlways, PTL

\* After a shutdown request fewer requests are served than there were starts.
THEOREM ShutdownTakesHold == Spec => []ShutdownDrains
<1>1. ChainInv => ShutdownDrains
  BY LenProperties DEF ChainInv, Counts, Balance, Chains, ShutdownDrains
<1>2. QED
  BY <1>1, ChainInvAlways, PTL

----------------------------------------------------------------------------
(* The types.  That a queued request is still in data_ when its handler runs is *)
(* so because a pass receives at most one datagram, and none while one waits.  *)

ProcessTypes ==
    /\ fate \in {"running", "threw", "undefined"}
    /\ handles \in BOOLEAN
    /\ submitted \in Nat /\ breaks \in 0 .. MaxBreaks /\ faults \in 0 .. MaxFaults

\* At most one request is queued, and it is in data_.
InData ==
    \A i \in DOMAIN ready :
        ready[i] = "received" =>
            /\ data.kind = "request"
            /\ \A j \in DOMAIN ready : ready[j] = "received" => i = j

\* What the server has to do with has arrived.
DatagramInv ==
    /\ socket \in BOOLEAN
    /\ arrived \in 0 .. MaxDatagrams
    /\ kernel \in Seq(1 .. arrived) /\ sends \in Seq(1 .. arrived)
    /\ data.kind = "request" => data.id \in 1 .. arrived
    /\ settled \subseteq 1 .. arrived
    /\ InData

\* A connection that a client has made.
ConnectionOf(phase, text, read, parser, code, hungUp) ==
    [phase |-> phase, text |-> text, read |-> read, parser |-> parser,
     status |-> code, hungUp |-> hungUp]

\* The parser stands where what was read leads it, and the answer is the one to that.
FitsText(phase, text, read, parser, code) ==
    CASE phase = "refusing" -> Reading(SubSeq(text, 1, read)) = "false" /\ code = 400
      [] phase = "answering" -> Reading(SubSeq(text, 1, read)) = "true"
      [] OTHER -> parser = Parse(NewParser, SubSeq(text, 1, read))

IsConnection(k) ==
    /\ k = ConnectionOf(k.phase, k.text, k.read, k.parser, k.status, k.hungUp)
    /\ k.phase \in {"backlog", "reading", "refusing", "answering"}
    /\ k.text \in Texts
    /\ k.read \in 0 .. Len(k.text)
    /\ k.status \in Statuses \cup Stray \cup {0}
    /\ Says(k.parser) = "more"
    /\ FitsText(k.phase, k.text, k.read, k.parser, k.status)

HttpInv ==
    /\ acceptor \in {"armed", "deaf", "closed"}
    /\ connection = [c \in Connections |-> connection[c]]
    /\ \A c \in Connections : connection[c] \in {None, Closed} \/ IsConnection(connection[c])
    /\ managed = {c \in Connections : Open(c)}

ServiceInv == DaemonTypeOK /\ ProcessTypes /\ ChainInv /\ DatagramInv /\ HttpInv

LEMMA ServiceInvIsTyped == ServiceInv => ServiceTypeOK
<1> SUFFICES ASSUME ServiceInv PROVE ServiceTypeOK
  OBVIOUS
<1>1. ServerTypeOK
  <2>1. 1 .. arrived \subseteq 1 .. MaxDatagrams /\ arrived \in Nat
    BY ServerAssumption DEF ServiceInv, DatagramInv
  <2>2. kernel \in Seq(1 .. MaxDatagrams) /\ sends \in Seq(1 .. MaxDatagrams)
    BY <2>1, SeqWider DEF ServiceInv, DatagramInv
  <2>3. "received" \in {ready[i] : i \in DOMAIN ready} => data.kind = "request"
    BY DEF ServiceInv, DatagramInv, InData
  <2>4. QED
    BY <2>1, <2>2, <2>3 DEF ServiceInv, DatagramInv, ChainInv, Counts, ServerTypeOK
<1>2. HttpTypeOK
  BY DEF ServiceInv, HttpInv, IsConnection, HttpTypeOK, Open, Writing
<1>3. QED
  BY <1>1, <1>2 DEF ServiceInv, ProcessTypes, ServiceTypeOK

\* What the wrapper, the main thread and the operator do.
DaemonSteps ==
    \/ Fork \/ ForkFails \/ WritePid \/ Reap \/ Awake \/ Constructed \/ ConstructorThrows
    \/ BlockSignals \/ Signal \/ Join \/ Dies(SIGABRT) \/ Dies(SIGSEGV)
    \/ (/\ main = "stopping" /\ stopped' = TRUE
        /\ UNCHANGED <<program, wrapper, main, status, pidFile, stops>>)

LEMMA DaemonTypes ==
    ASSUME DaemonTypeOK, DaemonSteps \/ UNCHANGED daemonVars
    PROVE  DaemonTypeOK'
<1>1. CASE Fork \/ ForkFails \/ WritePid \/ Reap \/ Awake
  BY <1>1 DEF DaemonTypeOK, Fork, ForkFails, WritePid, Reap, Awake, AfterEnd
<1>2. CASE \/ Constructed \/ ConstructorThrows \/ BlockSignals \/ Join
           \/ Dies(SIGABRT) \/ Dies(SIGSEGV)
  BY <1>2 DEF DaemonTypeOK, Constructed, ConstructorThrows, BlockSignals, Join, Dies, Ends, Threaded
<1>3. CASE Signal
  <2>1. stops' \in 0 .. MaxStops
    BY <1>3, DaemonAssumption DEF DaemonTypeOK, Signal
  <2>2. QED
    BY <1>3, <2>1 DEF DaemonTypeOK, Signal
<1>4. CASE \/ UNCHANGED daemonVars
           \/ (/\ main = "stopping" /\ stopped' = TRUE
               /\ UNCHANGED <<program, wrapper, main, status, pidFile, stops>>)
  BY <1>4 DEF DaemonTypeOK, daemonVars
<1>5. QED
  BY <1>1, <1>2, <1>3, <1>4 DEF DaemonSteps

\* What happens to the database and the thread.
ProcessSteps ==
    /\ \/ handles' = handles /\ breaks' = breaks
       \/ LinkUp \/ LinkDown
       \/ handles' = FALSE /\ breaks' = breaks
    /\ fate' \in {fate, "running", "threw", "undefined"}
    /\ submitted' \in {submitted, submitted + 1, submitted + 0, 0}
    /\ faults' = faults \/ Fault

LEMMA ProcessTypesStep ==
    ASSUME ProcessTypes, ProcessSteps
    PROVE  ProcessTypes'
<1>1. submitted' \in Nat /\ fate' \in {"running", "threw", "undefined"}
  BY DEF ProcessTypes, ProcessSteps
<1>2. handles' \in BOOLEAN /\ breaks' \in 0 .. MaxBreaks
  <2>1. handles \in BOOLEAN /\ breaks \in 0 .. MaxBreaks
    BY DEF ProcessTypes
  <2>2. breaks' = breaks \/ (breaks < MaxBreaks /\ breaks' = breaks + 1)
    BY DEF ProcessSteps, LinkUp, LinkDown
  <2>3. handles' = handles \/ handles' = TRUE \/ handles' = FALSE
    BY DEF ProcessSteps, LinkUp, LinkDown
  <2>4. breaks' \in 0 .. MaxBreaks
    BY <2>1, <2>2, ProcessAssumption
  <2>5. handles' \in BOOLEAN
    BY <2>1, <2>3, Zenon
  <2>6. QED
    BY <2>4, <2>5
<1>3. faults' \in 0 .. MaxFaults
  BY ProcessAssumption DEF ProcessTypes, ProcessSteps, Fault
<1>4. QED
  BY <1>1, <1>2, <1>3 DEF ProcessTypes

----------------------------------------------------------------------------
(* What happens to the datagrams. *)

\* What is queued after ReceiveNext was queued before, one place behind.
LEMMA NextQueued ==
    ASSUME Counts, ready # <<>>, NEW stop, ReceiveNext(stop)
    PROVE  \A i \in DOMAIN ready' :
             ready'[i] = "received" =>
               /\ i \in Nat \ {0} /\ i + 1 \in DOMAIN ready /\ 1 \in DOMAIN ready
               /\ ready[i + 1] = "received" /\ Head(ready) = ready[1]
<1> DEFINE S == {"received", "failed"}
           t == Tail(ready)
<1>1. /\ t \in Seq(S) /\ Head(ready) = ready[1] /\ 1 \in DOMAIN ready
      /\ \A i \in DOMAIN t : i \in Nat \ {0} /\ i + 1 \in DOMAIN ready /\ t[i] = ready[i + 1]
  BY TailCases DEF Counts
<1>2. ready' = t \/ ready' = Append(t, "failed")
  BY DEF ReceiveNext
<1> HIDE DEF t
<1>3. \A i \in DOMAIN Append(t, "failed") :
        (i \in DOMAIN t /\ Append(t, "failed")[i] = t[i]) \/ Append(t, "failed")[i] = "failed"
  BY <1>1, AppendCases
<1>4. QED
  BY <1>1, <1>2, <1>3

\* The handler of a request has taken it from the queue; another one has left it.
LEMMA HandlerData ==
    ASSUME Counts, InData, ready # <<>>, NEW stop, ReceiveNext(stop),
           data' = data \/ Head(ready) = "received"
    PROVE  InData'
<1>1. SUFFICES ASSUME NEW i \in DOMAIN ready', ready'[i] = "received"
               PROVE  /\ data'.kind = "request"
                      /\ \A j \in DOMAIN ready' : ready'[j] = "received" => i = j
  BY DEF InData
<1>2. /\ i \in Nat \ {0} /\ i + 1 \in DOMAIN ready /\ 1 \in DOMAIN ready
      /\ ready[i + 1] = "received" /\ Head(ready) = ready[1]
  BY <1>1, NextQueued
<1>3. i + 1 # 1
  BY <1>2
<1>4. data' = data
  BY <1>2, <1>3 DEF InData
<1>5. data'.kind = "request"
  BY <1>2, <1>4 DEF InData
<1>6. ASSUME NEW j \in DOMAIN ready', ready'[j] = "received" PROVE i = j
  <2>1. j \in Nat \ {0} /\ j + 1 \in DOMAIN ready /\ ready[j + 1] = "received"
    BY <1>6, NextQueued
  <2>2. i + 1 = j + 1
    BY <1>2, <2>1 DEF InData
  <2>3. QED
    BY <1>2, <2>1, <2>2
<1>7. QED
  BY <1>5, <1>6

LEMMA SameDatagrams ==
    ASSUME DatagramInv, UNCHANGED <<arrived, kernel, sends, data, settled, ready>>,
           socket' \in BOOLEAN
    PROVE  DatagramInv'
BY DEF DatagramInv, InData

\* The request that a handler has taken from the queue.
LEMMA RequestTaken ==
    ASSUME Counts, DatagramInv, Handle("received")
    PROVE  data.id \in 1 .. arrived
<1>1. 1 \in DOMAIN ready /\ ready[1] = "received"
  BY TailCases DEF Counts, Handle
<1>2. QED
  BY <1>1 DEF DatagramInv, InData

LEMMA ServeDatagrams ==
    ASSUME Counts, DatagramInv, NEW op, NEW admin, Serve(op, admin)
    PROVE  DatagramInv'
<1>1. data.id \in 1 .. arrived
  BY RequestTaken DEF Serve
<1>2. /\ UNCHANGED <<socket, kernel, arrived>>
      /\ data' = [kind |-> "reply", id |-> data.id, code |-> Code(op, admin)]
      /\ \/ sends' = Append(sends, data.id) /\ settled' = settled
         \/ sends' = sends /\ settled' = settled \cup {data.id}
  BY DEF Serve, Reply
<1>3. InData'
  BY HandlerData DEF Serve, Handle, DatagramInv
<1>4. sends' \in Seq(1 .. arrived)
  BY <1>1, <1>2, AppendFacts, ZenonT(30) DEF DatagramInv
<1>5. settled' \subseteq 1 .. arrived
  BY <1>1, <1>2 DEF DatagramInv
<1>6. data'.kind # "request"
  BY <1>2
<1>7. QED
  BY <1>2, <1>3, <1>4, <1>5, <1>6 DEF DatagramInv

LEMMA NothingServedDatagrams ==
    ASSUME Counts, DatagramInv, ReceivedNothing \/ ReceiveFailed
    PROVE  DatagramInv'
<1>1. InData'
  BY HandlerData DEF ReceivedNothing, ReceiveFailed, Handle, DatagramInv
<1>2. settled' \subseteq 1 .. arrived
  BY RequestTaken DEF ReceivedNothing, ReceiveFailed, DatagramInv
<1>3. UNCHANGED <<socket, kernel, sends, data, arrived>>
  BY DEF ReceivedNothing, ReceiveFailed
<1>4. QED
  BY <1>1, <1>2, <1>3 DEF DatagramInv

LEMMA StopDatagrams ==
    ASSUME DatagramInv, StopListening
    PROVE  DatagramInv'
<1>1. /\ socket' = FALSE /\ kernel' = <<>> /\ sends' = <<>>
      /\ UNCHANGED <<ready, data, arrived>>
      /\ settled' = settled \cup {kernel[i] : i \in DOMAIN kernel}
                       \cup {sends[i] : i \in DOMAIN sends}
  BY DEF StopListening
<1>2. /\ \A i \in DOMAIN kernel : kernel[i] \in 1 .. arrived
      /\ \A i \in DOMAIN sends : sends[i] \in 1 .. arrived
  BY LenProperties DEF DatagramInv
<1>3. settled' \subseteq 1 .. arrived
  BY <1>1, <1>2 DEF DatagramInv
<1>4. <<>> \in Seq(1 .. arrived)
  BY EmptySeq
<1>5. InData'
  BY <1>1 DEF DatagramInv, InData
<1>6. QED
  BY <1>1, <1>3, <1>4, <1>5 DEF DatagramInv

LEMMA ArriveDatagrams ==
    ASSUME DatagramInv, Arrive
    PROVE  DatagramInv'
<1>1. /\ arrived' = arrived + 1 /\ kernel' = Append(kernel, arrived') /\ arrived < MaxDatagrams
      /\ UNCHANGED <<socket, ready, data, sends, settled>>
  BY DEF Arrive
<1>2. /\ arrived' \in 0 .. MaxDatagrams /\ arrived' \in 1 .. arrived'
      /\ 1 .. arrived \subseteq 1 .. arrived'
  BY <1>1, ServerAssumption DEF DatagramInv
<1>3. kernel \in Seq(1 .. arrived') /\ sends \in Seq(1 .. arrived')
  BY <1>2, SeqWider DEF DatagramInv
<1>4. kernel' \in Seq(1 .. arrived') /\ sends' \in Seq(1 .. arrived')
  BY <1>1, <1>2, <1>3, AppendFacts
<1>5. InData'
  BY <1>1 DEF DatagramInv, InData
<1>6. QED
  BY <1>1, <1>2, <1>4, <1>5 DEF DatagramInv

LEMMA PassDatagrams ==
    ASSUME Counts, DatagramInv, Pass
    PROVE  DatagramInv'
<1> DEFINE S == {"received", "failed"}
           f == Failures(aborted)
           q == ready \o f
<1>1. f \in Seq(S) /\ \A i \in DOMAIN f : f[i] = "failed"
  BY SeqDef, LenProperties DEF Failures, Counts
<1>2. /\ q \in Seq(S)
      /\ \A i \in DOMAIN q : q[i] \in {ready[j] : j \in DOMAIN ready} \cup {"failed"}
  BY <1>1, ConcatCases DEF Counts
<1>3. \A i \in DOMAIN q : q[i] # "received"
  BY <1>2 DEF Pass
<1>4. /\ UNCHANGED <<socket, arrived>>
      /\ \/ ready' = q /\ data' = data /\ kernel' = kernel
         \/ /\ kernel # <<>> /\ data' = Request(Head(kernel)) /\ kernel' = Tail(kernel)
            /\ ready' = q \o <<"received">>
      /\ \/ sends # <<>> /\ settled' = settled \cup {Head(sends)} /\ sends' = Tail(sends)
         \/ settled' = settled /\ sends' = sends
  BY DEF Pass, Receivable
<1> HIDE DEF q, f
<1>5. sends' \in Seq(1 .. arrived) /\ settled' \subseteq 1 .. arrived
  BY <1>4, TailFacts DEF DatagramInv
<1>6. CASE ready' = q /\ data' = data /\ kernel' = kernel
  <2>1. InData'
    BY <1>3, <1>6 DEF InData
  <2>2. QED
    BY <1>4, <1>5, <1>6, <2>1 DEF DatagramInv
<1>7. CASE /\ kernel # <<>> /\ data' = Request(Head(kernel)) /\ kernel' = Tail(kernel)
           /\ ready' = q \o <<"received">>
  <2>1. /\ Head(kernel) \in 1 .. arrived /\ kernel' \in Seq(1 .. arrived)
        /\ data'.kind = "request" /\ data'.id = Head(kernel)
    BY <1>7, TailFacts DEF DatagramInv, Request
  <2>2. ready' = Append(q, "received")
    BY <1>2, <1>7
  <2>3. \A i \in DOMAIN ready' : \/ i \in DOMAIN q /\ ready'[i] = q[i]
                                \/ i = Len(q) + 1
    BY <1>2, <2>2, AppendCases
  <2>4. InData'
    BY <1>3, <2>1, <2>3 DEF InData
  <2>5. QED
    BY <1>4, <1>5, <2>1, <2>4 DEF DatagramInv
<1>8. QED
  BY <1>4, <1>6, <1>7

LEMMA ServerDatagrams ==
    ASSUME Counts, DatagramInv, ServerRuns
    PROVE  DatagramInv'
<1>1. CASE StartListening
  BY <1>1, SameDatagrams DEF StartListening
<1>2. CASE StartThrows \/ ServeOffline \/ GetThrows
  BY <1>2, SameDatagrams DEF StartThrows, ServeOffline, GetThrows, network, DatagramInv
<1>3. CASE \E op \in Operations, admin \in BOOLEAN : Serve(op, admin)
  BY <1>3, ServeDatagrams
<1>4. QED
  BY <1>1, <1>2, <1>3, StopDatagrams, NothingServedDatagrams, PassDatagrams, ArriveDatagrams
     DEF ServerRuns, ServerHandler

LEMMA RestartDatagrams ==
    ASSUME DatagramInv, ServerRestarts
    PROVE  DatagramInv'
<1>1. /\ socket' = FALSE /\ ready' = <<>> /\ kernel' = <<>> /\ sends' = <<>>
      /\ data' = Empty /\ settled' = 1 .. arrived /\ arrived' = arrived
  BY DEF ServerRestarts
<1>2. <<>> \in Seq(1 .. arrived)
  BY EmptySeq
<1>3. InData'
  BY <1>1 DEF InData
<1>4. data'.kind # "request"
  BY <1>1 DEF Empty
<1>5. QED
  BY <1>1, <1>2, <1>3, <1>4 DEF DatagramInv

----------------------------------------------------------------------------
(* What happens to the connections. *)

\* A connection that is none, closed or one with a request.
Fits(k) == k \in {None, Closed} \/ IsConnection(k)

InUse(k) == k.phase \in {"reading", "refusing", "answering"}

LEMMA OneConnection ==
    ASSUME HttpInv, NEW c \in Connections, NEW k, Fits(k),
           connection' = [connection EXCEPT ![c] = k],
           managed' = IF InUse(k) THEN managed \cup {c} ELSE managed \ {c},
           acceptor' \in {"armed", "deaf", "closed"}
    PROVE  HttpInv'
<1>1. /\ connection = [d \in Connections |-> connection[d]]
      /\ \A d \in Connections : Fits(connection[d])
      /\ managed = {d \in Connections : InUse(connection[d])}
  BY DEF HttpInv, Fits, InUse, Open, Writing
<1>2. \A d \in Connections : connection'[d] = IF d = c THEN k ELSE connection[d]
  BY <1>1
<1>3. connection' = [d \in Connections |-> connection'[d]]
  BY <1>1
<1>4. \A d \in Connections : Fits(connection'[d])
  BY <1>1, <1>2
<1>5. managed' = {d \in Connections : InUse(connection'[d])}
  BY <1>1, <1>2
<1>6. QED
  BY <1>3, <1>4, <1>5 DEF HttpInv, Fits, InUse, Open, Writing, IsConnection

\* A request that is being read or answered.
LEMMA InPhase ==
    ASSUME HttpInv, NEW c \in Connections,
           connection[c].phase \in {"backlog", "reading", "refusing", "answering"}
    PROVE  /\ IsConnection(connection[c])
           /\ c \in managed <=> connection[c].phase \in {"reading", "refusing", "answering"}
           /\ Len(connection[c].text) \in Nat
<1>1. connection[c] \notin {None, Closed}
  BY DEF None, Closed
<1>2. IsConnection(connection[c])
  BY <1>1 DEF HttpInv
<1>3. c \in managed <=> connection[c].phase \in {"reading", "refusing", "answering"}
  BY DEF HttpInv, Open, Writing
<1>4. connection[c].text \in Seq(Classes)
  BY <1>2, HttpAssumption DEF IsConnection
<1>5. QED
  BY <1>2, <1>3, <1>4, LenProperties

LEMMA FieldTypes ==
    ASSUME NEW k, IsConnection(k)
    PROVE  /\ k = ConnectionOf(k.phase, k.text, k.read, k.parser, k.status, k.hungUp)
           /\ k.text \in Texts /\ k.read \in 0 .. Len(k.text) /\ Says(k.parser) = "more"
           /\ k.status \in Statuses \cup Stray \cup {0}
           /\ FitsText(k.phase, k.text, k.read, k.parser, k.status)
BY DEF IsConnection

\* Setting one field.
SetPhase(k, x) == [k EXCEPT !.phase = x]
SetRead(k, x) == [k EXCEPT !.read = x]
SetParser(k, x) == [k EXCEPT !.parser = x]
SetStatus(k, x) == [k EXCEPT !.status = x]
SetHungUp(k, x) == [k EXCEPT !.hungUp = x]

LEMMA FieldSet ==
    ASSUME NEW a, NEW b, NEW c, NEW d, NEW e, NEW f, NEW x
    PROVE  /\ SetPhase(ConnectionOf(a, b, c, d, e, f), x) = ConnectionOf(x, b, c, d, e, f)
           /\ SetRead(ConnectionOf(a, b, c, d, e, f), x) = ConnectionOf(a, b, x, d, e, f)
           /\ SetParser(ConnectionOf(a, b, c, d, e, f), x) = ConnectionOf(a, b, c, x, e, f)
           /\ SetStatus(ConnectionOf(a, b, c, d, e, f), x) = ConnectionOf(a, b, c, d, x, f)
           /\ SetHungUp(ConnectionOf(a, b, c, d, e, f), x) = ConnectionOf(a, b, c, d, e, x)
<1>1. SetPhase(ConnectionOf(a, b, c, d, e, f), x) = ConnectionOf(x, b, c, d, e, f)
  BY DEF ConnectionOf, SetPhase
<1>2. SetRead(ConnectionOf(a, b, c, d, e, f), x) = ConnectionOf(a, b, x, d, e, f)
  BY DEF ConnectionOf, SetRead
<1>3. SetParser(ConnectionOf(a, b, c, d, e, f), x) = ConnectionOf(a, b, c, x, e, f)
  BY DEF ConnectionOf, SetParser
<1>4. SetStatus(ConnectionOf(a, b, c, d, e, f), x) = ConnectionOf(a, b, c, d, x, f)
  BY DEF ConnectionOf, SetStatus
<1>5. SetHungUp(ConnectionOf(a, b, c, d, e, f), x) = ConnectionOf(a, b, c, d, e, x)
  BY DEF ConnectionOf, SetHungUp
<1>6. QED
  BY <1>1, <1>2, <1>3, <1>4, <1>5

LEMMA NewParserSays == Says(NewParser) = "more"
BY DEF Says, NewParser, Final

LEMMA StoppedConnection ==
    ASSUME HttpInv, NEW c \in Connections, StopConnection(c), acceptor' = acceptor
    PROVE  HttpInv'
<1>1. Fits(Closed) /\ ~InUse(Closed)
  BY DEF Fits, InUse, Closed
<1>2. acceptor' \in {"armed", "deaf", "closed"}
  BY DEF HttpInv
<1>3. QED
  BY <1>1, <1>2, OneConnection DEF StopConnection

LEMMA AcceptedConnection ==
    ASSUME HttpInv, NEW c \in Connections, HandleAccept(c)
    PROVE  HttpInv'
<1> DEFINE k == connection[c]
           n == ConnectionOf("reading", k.text, k.read, k.parser, k.status, k.hungUp)
<1>1. IsConnection(k) /\ k.phase = "backlog"
  BY InPhase DEF HandleAccept
<1>2. Fits(n) /\ n.phase = "reading"
  <2> HIDE DEF k
  <2>1. /\ k.text \in Texts /\ k.read \in 0 .. Len(k.text) /\ Says(k.parser) = "more"
        /\ k.status \in Statuses \cup Stray \cup {0}
        /\ FitsText(k.phase, k.text, k.read, k.parser, k.status)
    BY <1>1, FieldTypes
  <2>2. FitsText("reading", k.text, k.read, k.parser, k.status)
    BY <1>1, <2>1 DEF FitsText
  <2>3. QED
    BY <2>1, <2>2 DEF Fits, IsConnection, ConnectionOf
<1>3. SetPhase(k, "reading") = n
  <2>1. k = ConnectionOf(k.phase, k.text, k.read, k.parser, k.status, k.hungUp)
    BY <1>1 DEF IsConnection
  <2>2. QED
    BY <2>1, FieldSet
<1>4. connection' = [connection EXCEPT ![c] = n]
  <2>1. connection' = [connection EXCEPT ![c] = SetPhase(k, "reading")]
    BY DEF HandleAccept, HttpInv, SetPhase
  <2>2. QED
    BY <1>3, <2>1
<1> HIDE DEF n, k
<1>5. managed' = managed \cup {c} /\ acceptor' \in {"armed", "deaf", "closed"}
  BY DEF HandleAccept, HttpInv
<1>6. QED
  BY <1>2, <1>4, <1>5, OneConnection DEF InUse

LEMMA HungUpConnection ==
    ASSUME HttpInv, NEW c \in Connections, ClientHangsUp(c)
    PROVE  HttpInv'
<1> DEFINE k == connection[c]
           n == ConnectionOf("reading", k.text, k.read, k.parser, k.status, TRUE)
<1>1. IsConnection(k) /\ k.phase = "reading" /\ c \in managed
  BY InPhase DEF ClientHangsUp
<1>2. Fits(n) /\ n.phase = "reading"
  <2> HIDE DEF k
  <2>1. /\ k.text \in Texts /\ k.read \in 0 .. Len(k.text) /\ Says(k.parser) = "more"
        /\ k.status \in Statuses \cup Stray \cup {0}
        /\ FitsText("reading", k.text, k.read, k.parser, k.status)
    BY <1>1, FieldTypes
  <2>2. QED
    BY <2>1 DEF Fits, IsConnection, ConnectionOf
<1>3. SetHungUp(k, TRUE) = n
  <2>1. k = ConnectionOf("reading", k.text, k.read, k.parser, k.status, k.hungUp)
    BY <1>1 DEF IsConnection
  <2> HIDE DEF k
  <2>2. SetHungUp(ConnectionOf("reading", k.text, k.read, k.parser, k.status, k.hungUp), TRUE)
          = n
    <3>1. \A x : SetHungUp(ConnectionOf("reading", k.text, k.read, k.parser, k.status, k.hungUp), x)
                   = ConnectionOf("reading", k.text, k.read, k.parser, k.status, x)
      BY FieldSet
    <3>2. QED
      BY <3>1, Zenon
  <2>3. QED
    BY <2>1, <2>2, Zenon
<1>4. connection' = [connection EXCEPT ![c] = n]
  <2>1. connection' = [connection EXCEPT ![c] = SetHungUp(k, TRUE)]
    BY DEF ClientHangsUp, HttpInv, SetHungUp
  <2>2. QED
    BY <1>3, <2>1
<1> HIDE DEF n, k
<1>5. managed' = managed \cup {c} /\ acceptor' \in {"armed", "deaf", "closed"}
  BY <1>1 DEF ClientHangsUp, HttpInv
<1>6. QED
  BY <1>2, <1>4, <1>5, OneConnection DEF InUse

LEMMA NewConnection ==
    ASSUME HttpInv, NEW c \in Connections, ClientConnects(c)
    PROVE  HttpInv'
<1>1. PICK text \in Texts :
        connection' = [connection EXCEPT
           ![c] = [phase |-> "backlog", text |-> text, read |-> 0, parser |-> NewParser,
                   status |-> 0, hungUp |-> FALSE]]
  BY DEF ClientConnects
<1> DEFINE n == ConnectionOf("backlog", text, 0, NewParser, 0, FALSE)
<1>2. Len(text) \in Nat
  BY HttpAssumption, LenProperties
<1>3. FitsText("backlog", text, 0, NewParser, 0)
  BY HttpAssumption, ParseNothing DEF FitsText
<1>4. Fits(n) /\ ~InUse(n)
  BY <1>2, <1>3, NewParserSays DEF Fits, InUse, IsConnection, ConnectionOf
<1> HIDE DEF n
<1>5. c \notin managed
  <2>1. connection[c].phase = "none"
    BY DEF ClientConnects, None
  <2>2. QED
    BY <2>1 DEF HttpInv, Open, Writing
<1>6. managed' = managed \ {c} /\ acceptor' \in {"armed", "deaf", "closed"}
  BY <1>5 DEF ClientConnects, HttpInv
<1>7. connection' = [connection EXCEPT ![c] = n]
  BY <1>1 DEF n, ConnectionOf
<1>8. QED
  BY <1>4, <1>6, <1>7, OneConnection

\* handle_read goes on reading, or starts the write of an answer.
LEMMA ReadConnection ==
    ASSUME HttpInv, NEW c \in Connections, HandleRead(c)
    PROVE  HttpInv'
<1> DEFINE k == connection[c]
<1>1. IsConnection(k) /\ k.phase = "reading" /\ c \in managed /\ Len(k.text) \in Nat
  BY InPhase DEF HandleRead
<1>2. PICK read \in PieceEnds(k.text) :
        LET piece == SubSeq(k.text, k.read + 1, read)
            parser == Parse(k.parser, piece)
        IN  /\ read > k.read
            /\ \/ ReadOn(c, read, parser)
               \/ Refuse(c, read, parser)
               \/ Answer(c, read, parser)
               \/ AnswerOffline(parser)
               \/ AnswerThrows(parser)
  BY DEF HandleRead
<1> DEFINE parser == Parse(k.parser, SubSeq(k.text, k.read + 1, read))
<1>3. read \in 0 .. Len(k.text)
  BY <1>1, <1>2 DEF PieceEnds
<1>10. /\ parser = Parse(NewParser, SubSeq(k.text, 1, read))
       /\ Says(parser) = Reading(SubSeq(k.text, 1, read))
  <2> HIDE DEF k
  <2>1. k.text \in Seq(Classes) /\ k.read \in 0 .. read
        /\ FitsText(k.phase, k.text, k.read, k.parser, k.status)
    BY <1>1, <1>2, <1>3, FieldTypes, HttpAssumption
  <2>2. k.parser = Parse(NewParser, SubSeq(k.text, 1, k.read))
    BY <1>1, <2>1 DEF FitsText
  <2>3. parser = Parse(NewParser, SubSeq(k.text, 1, read))
    BY <1>3, <2>1, <2>2, ParseOn
  <2>4. SubSeq(k.text, 1, read) \in Seq(Classes)
    BY <1>3, <2>1, Beginning
  <2>5. QED
    BY <2>3, <2>4, ParserReads
<1> HIDE DEF parser
<1>4. CASE ReadOn(c, read, parser)
  <2> DEFINE n == ConnectionOf("reading", k.text, read, parser, k.status, k.hungUp)
  <2>1. Fits(n) /\ n.phase = "reading"
    <3>0. Says(parser) = "more"
      BY <1>4 DEF ReadOn
    <3> HIDE DEF k
    <3>1. k.text \in Texts /\ k.status \in Statuses \cup Stray \cup {0}
      BY <1>1, FieldTypes
    <3>2. FitsText("reading", k.text, read, parser, k.status)
      BY <1>10 DEF FitsText
    <3>3. QED
      BY <1>3, <3>0, <3>1, <3>2 DEF Fits, IsConnection, ConnectionOf
  <2>2. SetParser(SetRead(k, read), parser) = n
    <3>1. k = ConnectionOf("reading", k.text, k.read, k.parser, k.status, k.hungUp)
      BY <1>1 DEF IsConnection
    <3> HIDE DEF k
    <3>2. SetRead(k, read) =
            ConnectionOf("reading", k.text, read, k.parser, k.status, k.hungUp)
      BY <3>1, FieldSet
    <3>3. QED
      BY <3>2, FieldSet
  <2>3. connection' = [connection EXCEPT ![c] = SetParser(SetRead(k, read), parser)]
    BY <1>4 DEF ReadOn, HttpInv, SetParser, SetRead
  <2>4. connection' = [connection EXCEPT ![c] = n]
    BY <2>2, <2>3
  <2> HIDE DEF n, k
  <2>5. managed' = managed \cup {c} /\ acceptor' \in {"armed", "deaf", "closed"}
    BY <1>1, <1>4 DEF ReadOn, HttpInv
  <2>6. QED
    BY <2>1, <2>4, <2>5, OneConnection DEF InUse
<1>5. ASSUME NEW code \in Statuses \cup Stray \cup {0}, NEW phase,
             Write(c, phase, read, code), UNCHANGED <<acceptor, managed>>,
             \/ phase = "refusing" /\ Says(parser) = "false" /\ code = 400
             \/ phase = "answering" /\ Says(parser) = "true"
      PROVE  HttpInv'
  <2> DEFINE n == ConnectionOf(phase, k.text, read, NewParser, code, FALSE)
             m1 == SetPhase(k, phase)
             m2 == SetRead(m1, read)
             m3 == SetStatus(m2, code)
             m4 == SetParser(m3, NewParser)
             m5 == SetHungUp(m4, FALSE)
  <2>1. Fits(n) /\ n.phase \in {"refusing", "answering"}
    <3> HIDE DEF k
    <3>1. k.text \in Texts
      BY <1>1, FieldTypes
    <3>2. FitsText(phase, k.text, read, NewParser, code)
      BY <1>5, <1>10 DEF FitsText
    <3>3. QED
      BY <1>3, <1>5, <3>1, <3>2, NewParserSays DEF Fits, IsConnection, ConnectionOf
  <2>2. m5 = n
    <3>0. k = ConnectionOf(k.phase, k.text, k.read, k.parser, k.status, k.hungUp)
      BY <1>1 DEF IsConnection
    <3> HIDE DEF k
    <3>1. m1 = ConnectionOf(phase, k.text, k.read, k.parser, k.status, k.hungUp)
      BY <3>0, FieldSet
    <3>2. m2 = ConnectionOf(phase, k.text, read, k.parser, k.status, k.hungUp)
      BY <3>1, FieldSet
    <3>3. m3 = ConnectionOf(phase, k.text, read, k.parser, code, k.hungUp)
      BY <3>2, FieldSet
    <3>4. m4 = ConnectionOf(phase, k.text, read, NewParser, code, k.hungUp)
      BY <3>3, FieldSet
    <3>5. SetHungUp(ConnectionOf(phase, k.text, read, NewParser, code, k.hungUp), FALSE)
            = n
      <4>1. \A x : SetHungUp(ConnectionOf(phase, k.text, read, NewParser, code, k.hungUp), x)
                     = ConnectionOf(phase, k.text, read, NewParser, code, x)
        BY FieldSet
      <4>2. QED
        BY <4>1, Zenon
    <3>6. QED
      BY <3>4, <3>5, Zenon
  <2>3. connection' = [connection EXCEPT ![c] = m5]
    BY <1>5 DEF Write, HttpInv, SetPhase, SetRead, SetStatus, SetParser, SetHungUp
  <2>4. connection' = [connection EXCEPT ![c] = n]
    BY <2>2, <2>3
  <2> HIDE DEF n, m5, k
  <2>5. managed' = managed \cup {c} /\ acceptor' \in {"armed", "deaf", "closed"}
    BY <1>1, <1>5 DEF HttpInv
  <2>6. QED
    BY <2>1, <2>4, <2>5, OneConnection DEF InUse
<1>6. CASE Refuse(c, read, parser)
  <2>1. 400 \in Statuses
    BY DEF Statuses
  <2>2. QED
    BY <1>5, <1>6, <2>1 DEF Refuse
<1>7. CASE Answer(c, read, parser)
  <2>1. PICK target \in Targets : \E code \in Status(target) :
                                            Write(c, "answering", read, code)
    BY <1>7 DEF Answer
  <2>2. PICK code \in Status(target) : Write(c, "answering", read, code)
    BY <2>1
  <2>3. Status(target) \subseteq Statuses \cup Stray
    BY <2>1 DEF Targets, Status, Statuses
  <2>4. QED
    BY <1>5, <1>7, <2>2, <2>3 DEF Answer
<1>8. CASE AnswerOffline(parser) \/ AnswerThrows(parser)
  BY <1>8 DEF AnswerOffline, AnswerThrows, httpVars, HttpInv, Open, Writing, IsConnection
<1>9. QED
  BY <1>2, <1>4, <1>6, <1>7, <1>8 DEF parser

LEMMA HttpRestartsTyped ==
    ASSUME HttpRestarts
    PROVE  HttpInv'
<1>1. /\ acceptor' = "closed" /\ managed' = {}
      /\ connection' = [c \in Connections |-> None]
  BY DEF HttpRestarts
<1>2. \A c \in Connections : connection'[c] = None /\ connection'[c].phase = "none"
  BY <1>1 DEF None
<1>3. connection' = [c \in Connections |-> connection'[c]]
  BY <1>1
<1>4. QED
  BY <1>1, <1>2, <1>3 DEF HttpInv, Open, Writing

LEMMA StopHttpTyped ==
    ASSUME HttpInv, HandleStop
    PROVE  HttpInv'
<1>1. /\ acceptor' = "closed" /\ managed' = {}
      /\ connection' = [c \in Connections |-> IF c \in managed THEN Closed ELSE connection[c]]
  BY DEF HandleStop
<1>2. connection' = [c \in Connections |-> connection'[c]]
  BY <1>1
<1>3. ASSUME NEW c \in Connections PROVE Fits(connection'[c]) /\ ~InUse(connection'[c])
  <2>1. CASE c \in managed
    BY <1>1, <2>1 DEF Fits, InUse, Closed
  <2>2. CASE c \notin managed
    <3>1. connection'[c] = connection[c]
      BY <1>1, <2>2
    <3>2. QED
      BY <2>2, <3>1 DEF HttpInv, Open, Writing, Fits, InUse
  <2>3. QED
    BY <2>1, <2>2
<1>4. QED
  BY <1>1, <1>2, <1>3 DEF HttpInv, Open, Writing, Fits, InUse, IsConnection

LEMMA SameHttp ==
    ASSUME HttpInv, UNCHANGED <<connection, managed>>,
           acceptor' \in {"armed", "deaf", "closed"}
    PROVE  HttpInv'
BY DEF HttpInv, Open, Writing, IsConnection

LEMMA HttpTyped ==
    ASSUME HttpInv, HttpRuns
    PROVE  HttpInv'
<1>1. CASE DatabaseOpens \/ DatabaseCloses
  BY <1>1, SameHttp DEF DatabaseOpens, DatabaseCloses, httpVars, HttpInv
<1>2. ASSUME NEW c \in Connections, AcceptFails(c) PROVE HttpInv'
  BY <1>2, SameHttp DEF AcceptFails
<1>3. ASSUME NEW c \in Connections, HttpEnds(c) PROVE HttpInv'
  BY <1>3, StoppedConnection DEF HttpEnds, HandleReadError, HandleWrite
<1>4. QED
  BY <1>1, <1>2, <1>3, AcceptedConnection, ReadConnection, NewConnection, HungUpConnection
     DEF HttpRuns

----------------------------------------------------------------------------
(* The service: which part of the state each step of Next is about. *)

LEMMA SameProcess ==
    ASSUME UNCHANGED processVars
    PROVE  ProcessSteps
<1>1. fate' = fate /\ handles' = handles /\ breaks' = breaks /\ submitted' = submitted
      /\ faults' = faults
  BY DEF processVars, link
<1>2. QED
  BY <1>1 DEF ProcessSteps

LEMMA FaultIsProcessStep ==
    ASSUME Fault, UNCHANGED <<fate, link, submitted>>
    PROVE  ProcessSteps
<1>1. fate' = fate /\ handles' = handles /\ breaks' = breaks /\ submitted' = submitted
  BY DEF link
<1>2. QED
  BY <1>1 DEF ProcessSteps

LEMMA LossIsProcessStep == MemoryIsLost => ProcessSteps
BY DEF MemoryIsLost, ProcessRestarts, ProcessSteps

LEMMA ServerIsProcessStep == ServerRuns => ProcessSteps
<1> SUFFICES ASSUME ServerRuns PROVE ProcessSteps
  OBVIOUS
<1>1. CASE StartListening \/ StopListening
  BY <1>1 DEF StartListening, StopListening, ProcessSteps
<1>2. CASE StartThrows \/ GetThrows
  <2>1. handles' = handles /\ breaks' = breaks /\ submitted' = submitted /\ fate' = "threw" /\ Fault
    BY <1>2 DEF StartThrows, GetThrows, Throws, link
  <2>2. QED
    BY <2>1 DEF ProcessSteps
<1>3. ASSUME NEW op \in Operations, NEW admin \in BOOLEAN, Serve(op, admin) PROVE ProcessSteps
  <2>1. handles' = handles /\ breaks' = breaks /\ fate' = fate /\ faults' = faults
    BY <1>3 DEF Serve, link
  <2>2. submitted' \in {submitted + 1, submitted + 0}
    BY <1>3 DEF Serve
  <2>3. QED
    BY <2>1, <2>2 DEF ProcessSteps
<1>4. CASE ServeOffline
  <2>1. handles' = handles /\ breaks' = breaks /\ submitted' = submitted /\ faults' = faults
        /\ fate' = "undefined"
    BY <1>4 DEF ServeOffline, link
  <2>2. QED
    BY <2>1 DEF ProcessSteps
<1>5. CASE ReceivedNothing \/ ReceiveFailed \/ Pass \/ Arrive
  <2>1. UNCHANGED processVars
    BY <1>5 DEF ReceivedNothing, ReceiveFailed, Pass, Arrive, processVars
  <2>2. QED
    BY <2>1, SameProcess
<1>6. QED
  BY <1>1, <1>2, <1>3, <1>4, <1>5 DEF ServerRuns, ServerHandler

LEMMA ReadIsProcessStep ==
    ASSUME NEW c \in Connections, HandleRead(c)
    PROVE  ProcessSteps
<1>1. PICK read, parser :
        \/ ReadOn(c, read, parser) \/ Refuse(c, read, parser) \/ Answer(c, read, parser)
        \/ AnswerOffline(parser) \/ AnswerThrows(parser)
  BY DEF HandleRead
<1>2. CASE ReadOn(c, read, parser) \/ Refuse(c, read, parser)
  BY <1>2, SameProcess DEF ReadOn, Refuse
<1>3. CASE Answer(c, read, parser)
  <2>1. handles' = handles /\ breaks' = breaks /\ fate' = fate /\ faults' = faults
    BY <1>3 DEF Answer, link
  <2>2. submitted' \in {submitted + 1, submitted + 0}
    BY <1>3 DEF Answer
  <2>3. QED
    BY <2>1, <2>2 DEF ProcessSteps
<1>4. CASE AnswerOffline(parser)
  <2>1. handles' = handles /\ breaks' = breaks /\ submitted' = submitted /\ faults' = faults
        /\ fate' = "undefined"
    BY <1>4 DEF AnswerOffline, link
  <2>2. QED
    BY <2>1 DEF ProcessSteps
<1>5. CASE AnswerThrows(parser)
  <2>1. handles' = handles /\ breaks' = breaks /\ submitted' = submitted /\ fate' = "threw" /\ Fault
    BY <1>5 DEF AnswerThrows, Throws, link
  <2>2. QED
    BY <2>1 DEF ProcessSteps
<1>6. QED
  BY <1>1, <1>2, <1>3, <1>4, <1>5

LEMMA HttpIsProcessStep == HttpRuns => ProcessSteps
<1> SUFFICES ASSUME HttpRuns PROVE ProcessSteps
  OBVIOUS
<1>1. CASE DatabaseOpens \/ DatabaseCloses
  BY <1>1 DEF DatabaseOpens, DatabaseCloses, ProcessSteps
<1>2. ASSUME NEW c \in Connections, AcceptFails(c) PROVE ProcessSteps
  BY <1>2, FaultIsProcessStep DEF AcceptFails
<1>3. ASSUME NEW c \in Connections,
             HandleAccept(c) \/ HttpEnds(c) \/ ClientConnects(c) \/ ClientHangsUp(c)
      PROVE  ProcessSteps
  BY <1>3, SameProcess
     DEF HandleAccept, HttpEnds, HandleReadError, HandleWrite, ClientConnects, ClientHangsUp
<1>4. QED
  BY <1>1, <1>2, <1>3, ReadIsProcessStep DEF HttpRuns

LEMMA ServiceInvInit == Init => ServiceInv
<1> SUFFICES ASSUME Init PROVE ServiceInv
  OBVIOUS
<1>1. DaemonTypeOK
  <2>1. /\ program \in Programs /\ wrapper = "forking" /\ main = "none"
        /\ stopped = FALSE /\ pidFile = FALSE
    BY DEF Init, DaemonInit
  <2>2. stops = 0 /\ 0 \in 0 .. MaxStops
    BY DaemonAssumption DEF Init, DaemonInit
  <2>3. stopped \in BOOLEAN /\ pidFile \in BOOLEAN
    BY <2>1, Zenon
  <2>4. QED
    BY <2>1, <2>2, <2>3 DEF DaemonTypeOK
<1>2. ProcessTypes
  <2>1. fate = "running" /\ submitted = 0 /\ breaks = 0 /\ faults = 0
    BY DEF Init, ProcessInit
  <2>2. handles \in BOOLEAN
    BY Zenon DEF Init, ProcessInit
  <2>3. QED
    BY <2>1, <2>2, ProcessAssumption DEF ProcessTypes
<1>3. DatagramInv
  <2>1. /\ socket = FALSE /\ arrived = 0 /\ kernel = <<>> /\ sends = <<>>
        /\ data = Empty /\ settled = {} /\ ready = <<>>
    BY DEF Init, ServerInit
  <2>2. DOMAIN ready = {} /\ <<>> \in Seq(1 .. arrived)
    BY <2>1
  <2>3. data.kind # "request"
    BY <2>1 DEF Empty
  <2>4. socket \in BOOLEAN
    BY <2>1, Zenon
  <2>5. 0 \in 0 .. MaxDatagrams
    BY ServerAssumption
  <2>6. InData
    BY <2>2 DEF InData
  <2>7. QED
    BY <2>1, <2>2, <2>3, <2>4, <2>5, <2>6 DEF DatagramInv
<1>4. HttpInv
  <2>1. acceptor = "closed" /\ managed = {} /\ connection = [c \in Connections |-> None]
    BY DEF Init, HttpInit
  <2>2. \A c \in Connections : connection[c] = None /\ connection[c].phase = "none"
    BY <2>1 DEF None
  <2>3. connection = [c \in Connections |-> connection[c]]
    BY <2>1
  <2>4. QED
    BY <2>1, <2>2, <2>3 DEF HttpInv, Open, Writing
<1>5. QED
  BY <1>1, <1>2, <1>3, <1>4, ChainInvInit DEF ServiceInv

\* Where a process ends, the next one begins.
LEMMA LossTyped ==
    ASSUME ServiceInv, MemoryIsLost
    PROVE  ProcessTypes' /\ DatagramInv' /\ HttpInv'
BY LossIsProcessStep, ProcessTypesStep, RestartDatagrams, HttpRestartsTyped
   DEF ServiceInv, MemoryIsLost

LEMMA SameServer ==
    ASSUME DatagramInv, UNCHANGED serverVars
    PROVE  DatagramInv'
BY SameDatagrams DEF serverVars, network, DatagramInv

LEMMA StillHttp ==
    ASSUME HttpInv, UNCHANGED httpVars
    PROVE  HttpInv'
BY SameHttp DEF httpVars, HttpInv

LEMMA ServiceInvStep == ServiceInv /\ [Next]_allVars => ServiceInv'
<1> SUFFICES ASSUME ServiceInv, [Next]_allVars PROVE ServiceInv'
  OBVIOUS
<1>0. DaemonTypeOK /\ ProcessTypes /\ Counts /\ DatagramInv /\ HttpInv /\ ChainInv'
  BY ChainInvStep DEF ServiceInv, ChainInv
<1>1. CASE DaemonSteps \/ UNCHANGED daemonVars
  <2>1. DaemonTypeOK'
    BY <1>0, <1>1, DaemonTypes
  <2>2. ASSUME ProcessSteps, UNCHANGED serverVars, HttpInv' PROVE ServiceInv'
    BY <1>0, <2>1, <2>2, ProcessTypesStep, SameServer DEF ServiceInv
  <2>3. CASE UNCHANGED programVars
    BY <1>0, <2>2, <2>3, SameProcess, StillHttp DEF programVars
  <2>4. CASE WrapperFails \/ StartFails
    BY <1>0, <2>2, <2>4, FaultIsProcessStep, StillHttp DEF WrapperFails, StartFails
  <2>5. CASE Starts
    <3>1. HttpInv'
      BY <1>0, <2>5, SameHttp, StillHttp DEF Starts, Listen
    <3>2. QED
      BY <2>2, <2>5, <3>1, SameProcess DEF Starts
  <2>6. CASE Stop
    BY <1>0, <2>2, <2>3, <2>6, SameProcess, StopHttpTyped
       DEF Stop, StopServer, StopHttp, HandleStop
  <2>7. CASE MemoryIsLost
    BY <1>0, <2>1, <2>7, LossTyped DEF ServiceInv
  <2>8. CASE InServer(ServerRuns)
    <3>1. ProcessTypes' /\ DatagramInv' /\ HttpInv'
      BY <1>0, <2>8, ServerIsProcessStep, ProcessTypesStep, ServerDatagrams, StillHttp DEF InServer
    <3>2. QED
      BY <1>0, <2>1, <3>1 DEF ServiceInv
  <2>9. CASE InHttp(HttpRuns)
    BY <1>0, <2>2, <2>9, HttpIsProcessStep, HttpTyped DEF InHttp
  <2>10. QED
    BY <2>3, <2>4, <2>5, <2>6, <2>7, <2>8, <2>9
       DEF Next, MainStep, WrapperStep, BlocksSignals, IsStopped, Exits, Aborts, allVars
<1>2. DaemonSteps \/ UNCHANGED daemonVars
  BY DEF Next, MainStep, WrapperStep, WrapperFails, Starts, BlocksSignals, StartFails, IsStopped,
         Stop, Exits, Aborts, InServer, InHttp, DaemonSteps, allVars
<1>3. QED
  BY <1>1, <1>2

\* In every state of the wrapper, the main thread and the thread of either program:
\* a queued request is still in data_, what is waiting or being sent has arrived,
\* and the connections that connection_manager has are the open ones.
THEOREM AlwaysServiceTypeOK == Spec => []ServiceTypeOK
BY ServiceInvInit, ServiceInvStep, ServiceInvIsTyped, PTL DEF Spec

\* What was read of a text decides what is answered.
LEMMA ServiceInvAnswers == ServiceInv => AnswerFits
<1> SUFFICES ASSUME ServiceInv, NEW c \in Connections, Open(c)
             PROVE  LET k == connection[c]
                    IN  CASE ReadingOf[k.text][k.read] = "more" -> k.phase = "reading"
                          [] ReadingOf[k.text][k.read] = "false" ->
                               k.phase = "refusing" /\ k.status = 400
                          [] OTHER -> k.phase = "answering"
  BY DEF AnswerFits
<1> DEFINE k == connection[c]
           u == SubSeq(k.text, 1, k.read)
<1>1. IsConnection(k) /\ k.phase \in {"reading", "refusing", "answering"}
  BY InPhase DEF ServiceInv, Open, Writing
<1> HIDE DEF k
<1>2. /\ k.text \in Texts /\ k.read \in 0 .. Len(k.text) /\ Says(k.parser) = "more"
      /\ FitsText(k.phase, k.text, k.read, k.parser, k.status)
  BY <1>1, FieldTypes
<1>3. ReadingOf[k.text][k.read] = Reading(u)
  BY <1>2 DEF ReadingOf
<1>4. k.phase = "reading" => Reading(u) = "more"
  <2>1. k.text \in Seq(Classes)
    BY <1>2, HttpAssumption
  <2>2. u \in Seq(Classes)
    BY <1>2, <2>1, Beginning
  <2>3. k.phase = "reading" => k.parser = Parse(NewParser, u)
    BY <1>2 DEF FitsText
  <2>4. QED
    BY <1>2, <2>2, <2>3, ParserReads
<1>5. /\ k.phase = "refusing" => Reading(u) = "false" /\ k.status = 400
      /\ k.phase = "answering" => Reading(u) = "true"
  BY <1>2, Zenon DEF FitsText
<1> HIDE DEF u
<1>6. QED
  BY <1>1, <1>3, <1>4, <1>5 DEF k

\* A connection is answered as soon as what it has sent is a request or cannot
\* become one, and not before: a request is dispatched to its handler, and what
\* cannot become one is refused with 400, for all texts cut into any pieces.
THEOREM AnswersFit == Spec => []AnswerFits
BY ServiceInvInit, ServiceInvStep, ServiceInvAnswers, PTL DEF Spec

----------------------------------------------------------------------------
(* The algorithms. *)

\* The parser answers what a text says, for all requests around any others.
THEOREM AlwaysParserRecognises == Spec => []ParserRecognises
<1>1. ParserRecognises
  BY ServiceAssumption, ParserRecognisesAny DEF ParserRecognises
<1>2. QED
  BY <1>1, PTL

\* A ring counts its window, for any history of any clock.
THEOREM AlwaysRingsCountWindow == Spec => []RingsCountWindow
<1>1. RingsCountWindow
  BY ServiceAssumption, RingCountsWindow DEF RingsCountWindow
<1>2. QED
  BY <1>1, PTL

====
