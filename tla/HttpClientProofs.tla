---- MODULE HttpClientProofs ----
(***************************************************************************)
(* One request of the HTTP client, for every answer, every way to cut it   *)
(* into pieces, and any number of endpoints: the caller hears of its end   *)
(* once, the endpoints are tried each in its turn, and a success hands on  *)
(* what was received.                                                      *)
(*                                                                         *)
(* Inv adds to the properties what the handlers count on: which state has  *)
(* endpoints, and that nothing is in response_ before something was read.  *)
(* Delivery says which part of the answer is in response_ and in data_.    *)
(***************************************************************************)
EXTENDS HttpClient, SeqLemmas

\* The endpoints that were tried are the first ones.
InTurn == Len(tried) <= endpoints /\ \A i \in DOMAIN tried : tried[i] = i

\* Endpoints come from handle_resolve, and a connect is tried on the first.
Resolved ==
    /\ step \in {"idle", "resolving"} => tried = <<>> /\ endpoints = 0
    /\ step = "connecting" => tried # <<>>

ReadBefore == response # <<>> => read > 0

Inv ==
    /\ HttpClientTypeOK /\ OneOutcome
    /\ InTurn /\ Resolved /\ ReadBefore /\ EachEndpointOnce

----------------------------------------------------------------------------
(* The callbacks. *)

Callbacks == {"progress", "success", "failure"}

\* A callback of progress is no end; one of success or failure is the only one.
LEMMA Called ==
    ASSUME calls \in Seq(Callbacks), Ending = {}, NEW c \in Callbacks,
           calls' = Append(calls, c)
    PROVE  /\ calls' \in Seq(Callbacks)
           /\ c = "progress" => Ending' = {}
           /\ c # "progress" => Ending' = {Len(calls')}
           /\ Last(calls') = c
<1>1. /\ calls' \in Seq(Callbacks)
      /\ Len(calls') = Len(calls) + 1 /\ Len(calls) \in Nat
      /\ calls'[Len(calls) + 1] = c
      /\ \A i \in 1 .. Len(calls) : calls'[i] = calls[i]
  BY AppendProperties, LenProperties
<1>2. DOMAIN calls = 1 .. Len(calls) /\ DOMAIN calls' = 1 .. Len(calls) + 1
  BY <1>1, LenProperties
<1>3. \A i \in 1 .. Len(calls) : calls'[i] = "progress"
  BY <1>1, <1>2 DEF Ending
<1>4. Last(calls') = c
  BY <1>1 DEF Last
<1>5. CASE c = "progress"
  BY <1>1, <1>2, <1>3, <1>4, <1>5 DEF Ending
<1>6. CASE c # "progress"
  BY <1>1, <1>2, <1>3, <1>4, <1>6 DEF Ending
<1>7. QED
  BY <1>1, <1>4, <1>5, <1>6

\* failure_callback_ ends a request that has not ended.
LEMMA FailOnce ==
    ASSUME HttpClientTypeOK, OneOutcome, step # "done", Fail
    PROVE  /\ calls' \in Seq(Callbacks) /\ step' = "done"
           /\ Ending' = {Len(calls')} /\ Last(calls') = "failure"
<1>1. calls \in Seq(Callbacks) /\ Ending = {}
  BY DEF HttpClientTypeOK, OneOutcome, Callbacks
<1>2. calls' = Append(calls, "failure") /\ step' = "done"
  BY DEF Fail
<1>3. QED
  BY <1>1, <1>2, Called DEF Callbacks

----------------------------------------------------------------------------
(* What the header loop takes from response_ and leaves in it. *)

\* The first blank line, where there is one.
LEMMA FirstBlank ==
    ASSUME NEW lines \in Seq(Lines), NEW k \in DOMAIN lines, lines[k] = "blank"
    PROVE  /\ Blank(lines) \in DOMAIN lines
           /\ lines[Blank(lines)] = "blank"
           /\ \A j \in 1 .. Blank(lines) - 1 : lines[j] # "blank"
<1> DEFINE T == {i \in DOMAIN lines : lines[i] = "blank"}
<1>1. Len(lines) \in Nat /\ DOMAIN lines = 1 .. Len(lines)
  BY LenProperties
<1>2. T \subseteq Nat /\ T # {}
  BY <1>1
<1>3. PICK n \in T : \A m \in T : n <= m
  BY <1>2, Least
<1>4. \A j \in 1 .. n - 1 : lines[j] # "blank"
  <2> SUFFICES ASSUME NEW j \in 1 .. n - 1, lines[j] = "blank" PROVE FALSE
    OBVIOUS
  <2>1. n \in 1 .. Len(lines) /\ j \in Nat /\ j < n /\ j \in 1 .. Len(lines)
    BY <1>1, <1>3
  <2>2. j \in T
    BY <2>1, <1>1
  <2>3. QED
    BY <1>3, <2>1, <2>2
<1>5. n \in DOMAIN lines /\ lines[n] = "blank"
  BY <1>3
<1> HIDE DEF T
<1>6. QED
  BY <1>4, <1>5 DEF Blank

LEMMA HeadersAndRest ==
    ASSUME NEW lines \in Seq(Lines), Delimited(lines)
    PROVE  /\ Headers(lines) \in Seq(Lines)
           /\ Content(lines) \in Seq(Lines)
<1>1. Len(lines) \in Nat /\ DOMAIN lines = 1 .. Len(lines)
  BY LenProperties
<1>2. PICK k \in 2 .. Len(lines) : lines[k] = "blank"
  BY DEF Delimited
<1>3. Blank(lines) \in 1 .. Len(lines)
  BY <1>1, <1>2, FirstBlank
<1>4. Blank(lines) - 1 \in 0 .. Len(lines) /\ Blank(lines) \in 0 .. Len(lines)
  BY <1>1, <1>3
<1>5. QED
  BY <1>4, CutFacts DEF Headers, Content, Rest

----------------------------------------------------------------------------
LEMMA InvInit == Init => Inv
<1> SUFFICES ASSUME Init PROVE Inv
  OBVIOUS
<1>1. /\ class = "none" /\ step = "idle" /\ endpoints = 0 /\ tried = <<>>
      /\ answer \in Answers /\ read = 0 /\ stream = "open"
      /\ response = <<>> /\ data = <<>> /\ length = FALSE /\ calls = <<>>
  BY DEF Init
<1>2. /\ <<>> \in Seq(1 .. MaxEndpoints) /\ <<>> \in Seq(Lines) /\ <<>> \in Seq(Callbacks)
      /\ DOMAIN <<>> = {} /\ Len(<<>>) = 0
  OBVIOUS
<1>3. answer \in Seq(Lines) /\ Len(answer) \in Nat /\ MaxEndpoints \in Nat
  BY <1>1, HttpClientAssumption, LenProperties
<1>4. HttpClientTypeOK
  <2>1. 0 \in 0 .. MaxEndpoints /\ 0 \in 0 .. Len(answer)
    BY <1>3
  <2>2. /\ tried \in Seq(1 .. MaxEndpoints) /\ response \in Seq(Lines) /\ data \in Seq(Lines)
        /\ calls \in Seq({"progress", "success", "failure"})
    BY <1>1, <1>2 DEF Callbacks
  <2>3. QED
    BY <1>1, <2>1, <2>2, Zenon DEF HttpClientTypeOK
<1>5. OneOutcome
  BY <1>1, <1>2 DEF OneOutcome, Ending
<1>6. InTurn /\ Resolved /\ ReadBefore
  BY <1>1, <1>2 DEF InTurn, Resolved, ReadBefore
<1>7. EachEndpointOnce
  BY <1>1, <1>2 DEF EachEndpointOnce, Failed
<1>8. QED
  BY <1>4, <1>5, <1>6, <1>7 DEF Inv

\* The properties that a step keeps which calls nothing and fails nothing.
LEMMA QuietStep ==
    ASSUME Inv, step # "done", step' # "done", UNCHANGED <<calls, connectVars>>,
           HttpClientTypeOK', ReadBefore',
           step' \notin {"idle", "resolving", "connecting"}
    PROVE  Inv'
<1>1. OneOutcome'
  BY DEF Inv, OneOutcome, Ending
<1>2. InTurn' /\ Resolved'
  BY DEF Inv, InTurn, Resolved, connectVars
<1>3. EachEndpointOnce'
  BY DEF Inv, EachEndpointOnce, Failed, connectVars
<1>4. QED
  BY <1>1, <1>2, <1>3 DEF Inv

\* A handler that fails the request after something was read, or after the peer
\* has gone.
LEMMA FailingStep ==
    ASSUME Inv, step # "done", Fail, UNCHANGED <<connectVars, class, peerVars, data, length>>,
           response' \in Seq(Lines), response' # <<>> => read > 0,
           read > 0 \/ stream # "open" \/ Len(tried) = endpoints
    PROVE  Inv'
<1>1. /\ calls' \in Seq(Callbacks) /\ step' = "done"
      /\ Ending' = {Len(calls')} /\ Last(calls') = "failure"
  BY FailOnce DEF Inv
<1>2. HttpClientTypeOK'
  BY <1>1 DEF Inv, HttpClientTypeOK, connectVars, peerVars, Over, Callbacks
<1>3. OneOutcome'
  BY <1>1 DEF OneOutcome
<1>4. InTurn' /\ Resolved' /\ ReadBefore'
  BY <1>1 DEF Inv, InTurn, Resolved, ReadBefore, connectVars, peerVars
<1>5. EachEndpointOnce'
  BY <1>1 DEF Inv, InTurn, EachEndpointOnce, connectVars, peerVars
<1>6. QED
  BY <1>2, <1>3, <1>4, <1>5 DEF Inv

\* A handler that has read something and reports progress.
LEMMA ProgressStep ==
    ASSUME Inv, step # "done", calls' = Append(calls, "progress"), step' = "content",
           response' = <<>>, data' \in Seq(Lines), length' \in BOOLEAN,
           UNCHANGED <<class, connectVars, peerVars>>
    PROVE  Inv'
<1>1. calls' \in Seq(Callbacks) /\ Ending' = {}
  <2>1. calls \in Seq(Callbacks) /\ Ending = {} /\ "progress" \in Callbacks
    BY DEF Inv, HttpClientTypeOK, OneOutcome, Callbacks
  <2>2. QED
    BY <2>1, Called
<1>2. <<>> \in Seq(Lines)
  OBVIOUS
<1>3. HttpClientTypeOK'
  BY <1>1, <1>2 DEF Inv, HttpClientTypeOK, connectVars, peerVars, Reading, Callbacks
<1>4. OneOutcome'
  BY <1>1 DEF OneOutcome
<1>5. InTurn' /\ Resolved' /\ ReadBefore'
  BY DEF Inv, InTurn, Resolved, ReadBefore, connectVars
<1>6. EachEndpointOnce'
  BY DEF Inv, EachEndpointOnce, Failed, connectVars
<1>7. QED
  BY <1>3, <1>4, <1>5, <1>6 DEF Inv

\* A connect is started on the first endpoint.
LEMMA ResolveStep == Inv /\ HandleResolve => Inv'
<1> SUFFICES ASSUME Inv, HandleResolve PROVE Inv'
  OBVIOUS
<1>1. step = "resolving" /\ tried = <<>> /\ endpoints = 0 /\ Ending = {}
  BY DEF HandleResolve, Inv, Resolved, OneOutcome
<1>2. CASE Fail /\ UNCHANGED connectVars
  <2>1. Len(<<>>) = 0
    OBVIOUS
  <2>2. QED
    BY <1>1, <1>2, <2>1, FailingStep
       DEF HandleResolve, Inv, HttpClientTypeOK, ReadBefore, peerVars, contentVars
<1>3. CASE /\ endpoints' \in 1 .. MaxEndpoints /\ tried' = <<1>> /\ step' = "connecting"
           /\ UNCHANGED calls
  <2>1. MaxEndpoints \in Nat \ {0}
    BY HttpClientAssumption
  <2>2. /\ <<1>> \in Seq(1 .. MaxEndpoints) /\ Len(<<1>>) = 1 /\ <<1>> # <<>>
        /\ DOMAIN <<1>> = {1} /\ <<1>>[1] = 1
    BY <2>1
  <2>3. UNCHANGED <<class, answer, read, stream, response, data, length>>
    BY DEF HandleResolve, peerVars, contentVars
  <2>4. HttpClientTypeOK'
    BY <1>3, <2>1, <2>2, <2>3 DEF Inv, HttpClientTypeOK
  <2>5. OneOutcome'
    BY <1>1, <1>3 DEF OneOutcome, Ending
  <2>6. InTurn' /\ Resolved'
    BY <1>3, <2>1, <2>2 DEF InTurn, Resolved
  <2>7. ReadBefore'
    BY <2>3 DEF Inv, ReadBefore
  <2>8. EachEndpointOnce'
    BY <1>3, <2>2 DEF EachEndpointOnce, Failed
  <2>9. QED
    BY <2>4, <2>5, <2>6, <2>7, <2>8 DEF Inv
<1>4. QED
  BY <1>2, <1>3 DEF HandleResolve

\* The next endpoint is tried, or there is none.
LEMMA ConnectFailsStep == Inv /\ ConnectFails => Inv'
<1> SUFFICES ASSUME Inv, ConnectFails PROVE Inv'
  OBVIOUS
<1>1. /\ step = "connecting" /\ tried \in Seq(1 .. MaxEndpoints) /\ tried # <<>>
      /\ endpoints \in Nat /\ endpoints <= MaxEndpoints /\ MaxEndpoints \in Nat
  BY HttpClientAssumption DEF ConnectFails, Inv, HttpClientTypeOK, Resolved
<1>2. /\ Len(tried) \in Nat \ {0} /\ DOMAIN tried = 1 .. Len(tried)
      /\ Last(tried) = Len(tried) /\ Len(tried) <= endpoints
  <2>1. Len(tried) \in Nat \ {0} /\ DOMAIN tried = 1 .. Len(tried)
    BY <1>1, EmptySeq, LenProperties
  <2>2. Len(tried) <= endpoints /\ \A i \in DOMAIN tried : tried[i] = i
    BY DEF Inv, InTurn
  <2>3. QED
    BY <2>1, <2>2 DEF Last
<1>3. CASE HasNext
  <2> DEFINE n == Len(tried) + 1
  <2>1. n \in 1 .. MaxEndpoints /\ n <= endpoints /\ n = Len(tried) + 1
    BY <1>1, <1>2, <1>3 DEF HasNext
  <2> HIDE DEF n
  <2>2. /\ tried' = Append(tried, n)
        /\ UNCHANGED <<class, step, endpoints, answer, read, stream, response, data, length, calls>>
    BY <1>2, <1>3, <2>1 DEF ConnectFails, peerVars, contentVars
  <2>3. /\ tried' \in Seq(1 .. MaxEndpoints) /\ Len(tried') = n /\ tried' # <<>>
        /\ tried'[n] = n /\ \A i \in 1 .. Len(tried) : tried'[i] = tried[i]
        /\ DOMAIN tried' = 1 .. n
    <3>1. tried' = Append(tried, n) /\ n \in 1 .. MaxEndpoints /\ tried \in Seq(1 .. MaxEndpoints)
      BY <1>1, <2>1, <2>2
    <3>2. /\ tried' \in Seq(1 .. MaxEndpoints) /\ Len(tried') = Len(tried) + 1 /\ tried' # <<>>
          /\ tried'[Len(tried) + 1] = n /\ \A i \in 1 .. Len(tried) : tried'[i] = tried[i]
      BY <3>1, AppendProperties, AppendFacts
    <3>3. DOMAIN tried' = 1 .. Len(tried')
      BY <3>2, LenProperties
    <3>4. QED
      BY <2>1, <3>2, <3>3
  <2>4. HttpClientTypeOK' /\ OneOutcome' /\ ReadBefore'
    <3>1. tried' \in Seq(1 .. MaxEndpoints)
      BY <2>3
    <3>2. HttpClientTypeOK'
      BY <2>2, <3>1 DEF Inv, HttpClientTypeOK
    <3>3. QED
      BY <2>2, <3>2 DEF Inv, OneOutcome, Ending, ReadBefore
  <2>5. \A i \in DOMAIN tried' : tried'[i] = i
    <3>1. \A i \in 1 .. Len(tried) : tried[i] = i
      BY <1>2 DEF Inv, InTurn
    <3>2. n = Len(tried) + 1 /\ Len(tried) \in Nat
      BY <1>2, <2>1
    <3>3. QED
      BY <2>3, <3>1, <3>2
  <2>6. InTurn' /\ Resolved'
    BY <1>1, <2>1, <2>2, <2>3, <2>5 DEF InTurn, Resolved
  <2>7. EachEndpointOnce'
    BY <1>1, <2>2, <2>5 DEF EachEndpointOnce, Failed
  <2>8. QED
    BY <2>4, <2>6, <2>7 DEF Inv
<1>4. CASE ~HasNext
  <2>1. Len(tried) = endpoints
    <3>1. HasNext <=> Len(tried) < endpoints
      BY <1>2 DEF HasNext
    <3>2. Len(tried) \in Nat /\ endpoints \in Nat /\ Len(tried) <= endpoints
      BY <1>1, <1>2
    <3>3. QED
      BY <1>4, <3>1, <3>2
  <2>2. /\ Fail /\ UNCHANGED <<connectVars, class, peerVars, data, length>>
        /\ response' = response
    BY <1>4, Zenon DEF ConnectFails, connectVars, contentVars
  <2>3. response \in Seq(Lines) /\ (response # <<>> => read > 0)
    BY DEF Inv, HttpClientTypeOK, ReadBefore
  <2>4. response' \in Seq(Lines) /\ (response' # <<>> => read > 0) /\ step # "done"
    BY <1>1, <2>2, <2>3
  <2>5. QED
    BY <2>1, <2>2, <2>4, FailingStep
<1>5. QED
  BY <1>3, <1>4

LEMMA StartStep ==
    ASSUME Inv, NEW operation \in Operations, NEW scheme \in {"http", "https"},
           Start(operation, scheme)
    PROVE  Inv'
<1>1. /\ step = "idle" /\ step' \in {"threw", "resolving"} /\ class' \in {"client", "sclient"}
      /\ UNCHANGED <<endpoints, tried, answer, read, stream, response, data, length, calls>>
  BY DEF Start, ClassOf, connectVars, peerVars, contentVars
<1>2. HttpClientTypeOK'
  BY <1>1 DEF Inv, HttpClientTypeOK, Over
<1>3. OneOutcome' /\ ReadBefore' /\ EachEndpointOnce'
  BY <1>1 DEF Inv, OneOutcome, Ending, ReadBefore, EachEndpointOnce, Failed
<1>4. InTurn' /\ Resolved'
  BY <1>1 DEF Inv, InTurn, Resolved
<1>5. QED
  BY <1>2, <1>3, <1>4 DEF Inv

\* success_callback_, at the end of file.
LEMMA EofStep == Inv /\ HandleEof => Inv'
<1> SUFFICES ASSUME Inv, HandleEof PROVE Inv'
  OBVIOUS
<1>1. /\ step = "content" /\ stream = "closed" /\ step' = "done"
      /\ calls' = Append(calls, "success")
      /\ UNCHANGED <<class, endpoints, tried, answer, read, stream, response, data, length>>
  BY DEF HandleEof, connectVars, peerVars, contentVars
<1>2. calls' \in Seq(Callbacks) /\ Ending' = {Len(calls')} /\ Last(calls') = "success"
  <2>1. calls \in Seq(Callbacks) /\ Ending = {} /\ "success" \in Callbacks
    BY <1>1 DEF Inv, HttpClientTypeOK, OneOutcome, Callbacks
  <2>2. QED
    BY <1>1, <2>1, Called
<1>3. HttpClientTypeOK'
  BY <1>1, <1>2 DEF Inv, HttpClientTypeOK, Over, Callbacks
<1>4. OneOutcome' /\ ReadBefore'
  BY <1>1, <1>2 DEF Inv, OneOutcome, ReadBefore
<1>5. InTurn' /\ Resolved'
  BY <1>1 DEF Inv, InTurn, Resolved
<1>6. EachEndpointOnce'
  BY <1>1 DEF Inv, EachEndpointOnce
<1>7. QED
  BY <1>3, <1>4, <1>5, <1>6 DEF Inv

\* More of the answer is in response_.
LEMMA ReceiveStep == Inv /\ Receive => Inv'
<1> SUFFICES ASSUME Inv, Receive PROVE Inv'
  OBVIOUS
<1>1. PICK upto \in read + 1 .. Len(answer) :
         read' = upto /\ response' = response \o SubSeq(answer, read + 1, upto)
  BY DEF Receive
<1>2. /\ answer \in Seq(Lines) /\ Len(answer) \in Nat /\ read \in Nat /\ response \in Seq(Lines)
  BY HttpClientAssumption, LenProperties DEF Inv, HttpClientTypeOK
<1>3. read + 1 \in 1 .. Len(answer) + 1 /\ upto \in read .. Len(answer) /\ upto \in 0 .. Len(answer)
      /\ upto > 0
  BY <1>2
<1>4. SubSeq(answer, read + 1, upto) \in Seq(Lines)
  BY <1>2, <1>3, SubSeqProperties
<1>5. response' \in Seq(Lines)
  BY <1>1, <1>2, <1>4, ConcatProperties
<1>6. /\ step \in Reading /\ step' = step /\ read' \in 0 .. Len(answer) /\ read' > 0
      /\ UNCHANGED <<class, endpoints, tried, answer, stream, data, length, calls>>
  BY <1>1, <1>3 DEF Receive, connectVars
<1>7. HttpClientTypeOK' /\ ReadBefore'
  BY <1>5, <1>6 DEF Inv, HttpClientTypeOK, ReadBefore
<1>8. QED
  BY <1>6, <1>7, QuietStep DEF Reading, connectVars

LEMMA InvStep == Inv /\ [Next]_vars => Inv'
<1> SUFFICES ASSUME Inv, [Next]_vars PROVE Inv'
  OBVIOUS
<1> USE DEF connectVars, peerVars, contentVars
<1>1. CASE UNCHANGED vars
  BY <1>1 DEF vars, Inv, HttpClientTypeOK, OneOutcome, Ending, InTurn, Resolved,
              ReadBefore, EachEndpointOnce, Failed
<1>2. CASE \E operation \in Operations, scheme \in {"http", "https"} : Start(operation, scheme)
  BY <1>2, StartStep
<1>3. CASE HandleResolve \/ ConnectFails
  BY <1>3, ResolveStep, ConnectFailsStep
<1>4. CASE Connected \/ SecurelyConnected \/ HandshakeSucceeds
  <2>1. /\ step \in {"connecting", "handshaking"} /\ step' \in {"handshaking", "writing"}
        /\ step' = "handshaking" => class = "sclient"
        /\ UNCHANGED <<class, endpoints, tried, answer, read, stream, response, data, length, calls>>
    BY <1>4 DEF Connected, SecurelyConnected, HandshakeSucceeds
  <2>2. HttpClientTypeOK' /\ ReadBefore'
    BY <2>1 DEF Inv, HttpClientTypeOK, ReadBefore
  <2>3. QED
    BY <2>1, <2>2, QuietStep
<1>5. CASE HandshakeFails
  <2>1. /\ step # "done" /\ Fail /\ stream # "open"
        /\ UNCHANGED <<connectVars, class, peerVars, data, length, response>>
    BY <1>5 DEF HandshakeFails
  <2>2. response' \in Seq(Lines) /\ (response' # <<>> => read > 0)
    BY <2>1 DEF Inv, HttpClientTypeOK, ReadBefore
  <2>3. QED
    BY <2>1, <2>2, FailingStep
<1>6. CASE HandleWriteRequest
  <2>1. /\ step = "writing"
        /\ UNCHANGED <<class, endpoints, tried, answer, read, stream, response, data, length>>
    BY <1>6 DEF HandleWriteRequest
  <2>2. response' \in Seq(Lines) /\ (response' # <<>> => read > 0)
    BY <2>1 DEF Inv, HttpClientTypeOK, ReadBefore
  <2>3. CASE step' = "statusLine" /\ UNCHANGED calls
    <3>1. HttpClientTypeOK' /\ ReadBefore'
      BY <2>1, <2>3 DEF Inv, HttpClientTypeOK, ReadBefore, Reading
    <3>2. QED
      BY <2>1, <2>3, <3>1, QuietStep
  <2>4. CASE stream = "reset" /\ Fail
    BY <2>1, <2>2, <2>4, FailingStep
  <2>5. QED
    BY <1>6, <2>3, <2>4 DEF HandleWriteRequest
<1>7. CASE HandleReadStatusLine
  <2>1. /\ step = "statusLine" /\ response # <<>> /\ response' = Tail(response)
        /\ UNCHANGED <<class, endpoints, tried, answer, read, stream, data, length>>
    BY <1>7 DEF HandleReadStatusLine, Satisfied
  <2>2. response' \in Seq(Lines) /\ read > 0
    BY <2>1, TailFacts DEF Inv, HttpClientTypeOK, ReadBefore
  <2>3. CASE step' = "headers" /\ UNCHANGED calls
    <3>1. HttpClientTypeOK' /\ ReadBefore'
      BY <2>1, <2>2, <2>3 DEF Inv, HttpClientTypeOK, ReadBefore, Reading
    <3>2. QED
      BY <2>1, <2>3, <3>1, QuietStep
  <2>4. CASE Fail
    BY <2>1, <2>2, <2>4, FailingStep
  <2>5. QED
    BY <1>7, <2>3, <2>4 DEF HandleReadStatusLine
<1>8. CASE HandleReadHeaders
  <2>1. Content(response) \in Seq(Lines)
    BY <1>8, HeadersAndRest DEF HandleReadHeaders, Satisfied, Inv, HttpClientTypeOK
  <2>2. /\ step # "done" /\ calls' = Append(calls, "progress") /\ step' = "content"
        /\ response' = <<>> /\ data' \in Seq(Lines)
        /\ UNCHANGED <<class, connectVars, peerVars>>
    BY <1>8, <2>1 DEF HandleReadHeaders
  <2>3. length' \in BOOLEAN
    BY <1>8 DEF HandleReadHeaders, Contains
  <2>4. QED
    BY <2>2, <2>3, ProgressStep
<1>9. CASE LengthThrows
  <2>1. /\ step = "headers" /\ step' = "threw"
        /\ UNCHANGED <<class, endpoints, tried, answer, read, stream, response, data, length, calls>>
    BY <1>9 DEF LengthThrows
  <2>2. HttpClientTypeOK' /\ ReadBefore'
    BY <2>1 DEF Inv, HttpClientTypeOK, ReadBefore, Over
  <2>3. QED
    BY <2>1, <2>2, QuietStep
<1>10. CASE HandleReadContent
  <2>1. /\ step = "content" /\ step' = "content" /\ calls' = Append(calls, "progress")
        /\ response' = <<>> /\ data' = data \o response /\ length' = length
        /\ UNCHANGED <<class, connectVars, peerVars>>
    BY <1>10 DEF HandleReadContent
  <2>2. data' \in Seq(Lines) /\ length' \in BOOLEAN
    BY <2>1, ConcatProperties DEF Inv, HttpClientTypeOK
  <2>3. QED
    BY <2>1, <2>2, ProgressStep
<1>11. CASE HandleEof \/ Receive
  BY <1>11, EofStep, ReceiveStep
<1>12. CASE ReadFails
  <2>1. /\ step # "done" /\ Fail /\ stream # "open"
        /\ UNCHANGED <<connectVars, class, peerVars, data, length, response>>
    BY <1>12 DEF ReadFails, Reading
  <2>2. response' \in Seq(Lines) /\ (response' # <<>> => read > 0)
    BY <2>1 DEF Inv, HttpClientTypeOK, ReadBefore
  <2>3. QED
    BY <2>1, <2>2, FailingStep
<1>13. CASE PeerEnds
  <2>1. /\ step \in {"handshaking", "writing", "statusLine", "headers", "content"} /\ step' = step
        /\ stream' \in {"closed", "reset"}
        /\ UNCHANGED <<class, endpoints, tried, answer, read, response, data, length, calls>>
    BY <1>13 DEF PeerEnds, Reading
  <2>2. HttpClientTypeOK' /\ ReadBefore'
    BY <2>1 DEF Inv, HttpClientTypeOK, ReadBefore
  <2>3. QED
    BY <2>1, <2>2, QuietStep
<1>14. QED
  BY <1>1, <1>2, <1>3, <1>4, <1>5, <1>6, <1>7, <1>8, <1>9, <1>10, <1>11, <1>12, <1>13
     DEF Next, Handler

LEMMA InvAlways == Spec => []Inv
BY InvInit, InvStep, PTL DEF Spec

\* The variables of a request stay in their types, whatever the peer answers and
\* wherever the connection is lost.
THEOREM TypeCorrect == Spec => []HttpClientTypeOK
<1>1. Inv => HttpClientTypeOK
  BY DEF Inv
<1>2. QED
  BY <1>1, InvAlways, PTL

\* For any answer of the peer, in any pieces: every request has at most one end,
\* and the caller hears of it last.
THEOREM ToldOnce == Spec => []OneOutcome
<1>1. Inv => OneOutcome
  BY DEF Inv
<1>2. QED
  BY <1>1, InvAlways, PTL

\* For any number of endpoints: the handlers of connect try them in their order,
\* and give up only after the last.
THEOREM TriedInTurn == Spec => []EachEndpointOnce
<1>1. Inv => EachEndpointOnce
  BY DEF Inv
<1>2. QED
  BY <1>1, InvAlways, PTL

----------------------------------------------------------------------------
(* What is delivered.  Inv says nothing of the lines themselves; Delivery says *)
(* where in the answer each state has its lines from.                          *)

\* The first blank line of the answer, which has been read.
EndsHeaders(b) ==
    /\ b \in 1 .. read
    /\ answer[b] = "blank"
    /\ \A j \in 1 .. b - 1 : answer[j] # "blank"

Delivery ==
    /\ step \in {"idle", "resolving", "connecting", "handshaking", "writing"} =>
          read = 0 /\ response = <<>>
    /\ step = "statusLine" => response = SubSeq(answer, 1, read)
    /\ step = "headers" =>
          read > 0 /\ answer[1] = "status" /\ response = SubSeq(answer, 2, read)
    /\ step = "content" =>
          \E b \in 1 .. read : EndsHeaders(b) /\ data \o response = SubSeq(answer, b + 1, read)
    /\ Succeeded =>
          \E b \in 1 .. read : EndsHeaders(b) /\ data = SubSeq(answer, b + 1, read)

\* What is left of the end of a sequence without its first lines.
LEMMA EndOfEnd ==
    ASSUME NEW s \in Seq(Lines), NEW r \in 0 .. Len(s), NEW a \in 1 .. r + 1,
           NEW m \in 1 .. r - a + 2
    PROVE  /\ SubSeq(s, a, r) \in Seq(Lines)
           /\ Len(SubSeq(s, a, r)) = r - a + 1
           /\ \A i \in 1 .. r - a + 1 : SubSeq(s, a, r)[i] = s[a + i - 1]
           /\ SubSeq(SubSeq(s, a, r), m, Len(SubSeq(s, a, r))) = SubSeq(s, a + m - 1, r)
<1> DEFINE t == SubSeq(s, a, r)
<1>1. Len(s) \in Nat /\ r \in Nat /\ a \in Nat \ {0} /\ a <= r + 1 /\ r <= Len(s)
  BY LenProperties
<1>2. \A i \in a .. r : s[i] \in Lines
  BY <1>1, ElementOfSeq
<1>3. t \in Seq(Lines) /\ \A i \in 1 .. r - a + 1 : t[i] = s[a + i - 1]
  BY <1>1, <1>2, SubSeqProperties
<1>4. Len(t) = IF a <= r THEN r - a + 1 ELSE 0
  BY <1>1, <1>2, SubSeqProperties
<1>5. Len(t) = r - a + 1
  BY <1>1, <1>4
<1>6. m \in Nat \ {0} /\ m <= r - a + 2
  BY <1>1
<1>7. SubSeq(t, m, Len(t)) = SubSeq(s, a + m - 1, r)
  <2>1. CASE m = r - a + 2
    <3>1. Len(t) < m /\ r < a + m - 1 /\ a + m - 1 \in Int /\ m \in Int /\ Len(t) \in Int /\ r \in Int
      BY <1>1, <1>5, <1>6, <2>1
    <3> HIDE DEF t
    <3>2. SubSeq(t, m, Len(t)) = <<>> /\ SubSeq(s, a + m - 1, r) = <<>>
      BY <3>1, SubSeqEmpty
    <3>3. QED
      BY <3>2
  <2>2. CASE m <= r - a + 1
    <3>1. /\ a \in 1 .. Len(s) /\ r \in 1 .. Len(s) /\ m \in 1 .. r - a + 1
          /\ r - a + 1 \in 1 .. r - a + 1
      BY <1>1, <1>6, <2>2
    <3>2. SubSeq(SubSeq(s, a, r), m, r - a + 1) = SubSeq(s, a + m - 1, a + (r - a + 1) - 1)
      BY <1>3, <3>1, SubSeqOfSubSeq
    <3>3. a + (r - a + 1) - 1 = r
      BY <1>1
    <3>4. QED
      BY <1>5, <3>2, <3>3
  <2>3. QED
    BY <1>1, <1>6, <2>1, <2>2
<1>8. QED
  BY <1>3, <1>5, <1>7

\* The first blank line of what was received is the first of the answer.
LEMMA RestOfReceived ==
    ASSUME Inv, NEW b \in 1 .. read, EndsHeaders(b)
    PROVE  Rest(Received) = SubSeq(answer, b + 1, read)
<1>1. answer \in Seq(Lines) /\ read \in 0 .. Len(answer) /\ Len(answer) \in Nat /\ read \in Nat
  BY HttpClientAssumption, LenProperties DEF Inv, HttpClientTypeOK
<1>2. /\ 1 \in 1 .. read + 1 /\ b + 1 \in 1 .. read - 1 + 2
  BY <1>1
<1>3. /\ Received \in Seq(Lines) /\ Len(Received) = read - 1 + 1
      /\ \A i \in 1 .. read - 1 + 1 : Received[i] = answer[1 + i - 1]
      /\ SubSeq(Received, b + 1, Len(Received)) = SubSeq(answer, 1 + (b + 1) - 1, read)
  BY <1>1, <1>2, EndOfEnd DEF Received
<1>4. DOMAIN Received = 1 .. read /\ \A i \in 1 .. read : Received[i] = answer[i]
  BY <1>1, <1>3, LenProperties
<1>5. b \in DOMAIN Received /\ Received[b] = "blank"
  BY <1>4 DEF EndsHeaders
<1>6. /\ Blank(Received) \in DOMAIN Received /\ Received[Blank(Received)] = "blank"
      /\ \A j \in 1 .. Blank(Received) - 1 : Received[j] # "blank"
  BY <1>3, <1>5, FirstBlank
<1>7. Blank(Received) = b
  <2> DEFINE c == Blank(Received)
  <2>1. c \in 1 .. read /\ answer[c] = "blank" /\ \A j \in 1 .. c - 1 : answer[j] # "blank"
    BY <1>1, <1>4, <1>6
  <2> HIDE DEF c
  <2>2. ~(c < b) /\ ~(b < c)
    BY <1>1, <2>1 DEF EndsHeaders
  <2>3. c = b
    BY <1>1, <2>1, <2>2
  <2>4. QED
    BY <2>3 DEF c
<1>8. 1 + (b + 1) - 1 = b + 1
  BY <1>1
<1>9. QED
  BY <1>3, <1>7, <1>8 DEF Rest

LEMMA DeliveryDelivers == Inv /\ Delivery => Delivered
BY RestOfReceived DEF Delivery, Delivered

LEMMA DeliveryInit == Init => Delivery
BY DEF Init, Delivery, Succeeded

\* What the invariant says of the types of the answer and of what was read.
LEMMA AnswerTypes ==
    ASSUME Inv
    PROVE  /\ answer \in Seq(Lines) /\ Len(answer) \in Nat
           /\ read \in 0 .. Len(answer) /\ read \in Nat
           /\ response \in Seq(Lines) /\ data \in Seq(Lines)
BY HttpClientAssumption, LenProperties DEF Inv, HttpClientTypeOK

\* A failure promises nothing.
LEMMA FailDelivery ==
    ASSUME Inv, step # "done", Fail
    PROVE  Delivery'
<1>1. step' = "done" /\ Last(calls') = "failure"
  BY FailOnce DEF Inv
<1>2. QED
  BY <1>1 DEF Delivery, Succeeded

\* The status line is the first line of the answer.
LEMMA StatusLineDelivery == Inv /\ Delivery /\ HandleReadStatusLine => Delivery'
<1> SUFFICES ASSUME Inv, Delivery, HandleReadStatusLine PROVE Delivery'
  OBVIOUS
<1>1. /\ step = "statusLine" /\ response # <<>> /\ response' = Tail(response)
      /\ UNCHANGED <<answer, read>>
  BY DEF HandleReadStatusLine, Satisfied, peerVars
<1>2. CASE Fail
  BY <1>1, <1>2, FailDelivery
<1>3. CASE Head(response) = "status" /\ step' = "headers"
  <2>1. response = SubSeq(answer, 1, read)
    BY <1>1 DEF Delivery
  <2>2. 1 \in Int /\ 0 \in Int /\ 0 < 1
    OBVIOUS
  <2>3. read # 0
    BY <1>1, <2>1, <2>2, SubSeqEmpty
  <2>4. 1 \in 1 .. Len(answer) /\ read \in 1 .. Len(answer) /\ 1 + 1 = 2
    BY <2>3, AnswerTypes
  <2>5. Head(response) = answer[1] /\ Tail(response) = SubSeq(answer, 1 + 1, read)
    BY <2>1, <2>4, AnswerTypes, HeadTailOfSubSeq
  <2>6. read' > 0 /\ answer'[1] = "status" /\ response' = SubSeq(answer', 2, read')
    BY <1>1, <1>3, <2>4, <2>5
  <2>7. QED
    BY <1>3, <2>6 DEF Delivery, Succeeded
<1>4. QED
  BY <1>2, <1>3 DEF HandleReadStatusLine

\* What is left of response_ after the headers is what follows the blank line.
LEMMA HeadersDelivery == Inv /\ Delivery /\ HandleReadHeaders => Delivery'
<1> SUFFICES ASSUME Inv, Delivery, HandleReadHeaders PROVE Delivery'
  OBVIOUS
<1>1. /\ step = "headers" /\ Delimited(response) /\ response' = <<>> /\ step' = "content"
      /\ data' = Rest(response) /\ UNCHANGED <<answer, read>>
  BY DEF HandleReadHeaders, Satisfied, Content, peerVars
<1>2. read > 0 /\ answer[1] = "status" /\ response = SubSeq(answer, 2, read)
  BY <1>1 DEF Delivery
<1>3. /\ answer \in Seq(Lines) /\ read \in 0 .. Len(answer) /\ read \in Nat
      /\ 2 \in 1 .. read + 1 /\ 1 \in 1 .. read - 2 + 2
  BY <1>2, AnswerTypes
<1>4. /\ response \in Seq(Lines) /\ Len(response) = read - 2 + 1
      /\ \A i \in 1 .. read - 2 + 1 : response[i] = answer[2 + i - 1]
  BY <1>2, <1>3, EndOfEnd
<1>5. /\ DOMAIN response = 1 .. read - 1
      /\ \A i \in 1 .. read - 1 : response[i] = answer[i + 1]
  <2>1. DOMAIN response = 1 .. Len(response) /\ Len(response) = read - 1
    BY <1>3, <1>4, LenProperties
  <2>2. ASSUME NEW i \in 1 .. read - 1 PROVE response[i] = answer[i + 1]
    <3>1. i \in 1 .. read - 2 + 1 /\ 2 + i - 1 = i + 1
      BY <1>3
    <3>2. response[i] = answer[2 + i - 1]
      BY <1>4, <3>1
    <3>3. QED
      BY <3>1, <3>2
  <2>3. QED
    BY <2>1, <2>2
<1> DEFINE c == Blank(response)
<1>6. /\ c \in DOMAIN response /\ response[c] = "blank"
      /\ \A j \in 1 .. c - 1 : response[j] # "blank"
  <2>1. PICK k \in 2 .. Len(response) : response[k] = "blank"
    BY <1>1 DEF Delimited
  <2>2. k \in DOMAIN response
    BY <1>4, <2>1, LenProperties
  <2>3. QED
    BY <1>4, <2>1, <2>2, FirstBlank
<1>7. data' = SubSeq(response, c + 1, Len(response))
  BY <1>1 DEF Rest
<1> HIDE DEF c
<1>8. c \in 1 .. read - 1 /\ c + 1 \in 1 .. read /\ c + 1 \in 1 .. read - 2 + 2
  BY <1>3, <1>5, <1>6
<1>9. data' = SubSeq(answer, 2 + (c + 1) - 1, read)
  BY <1>2, <1>3, <1>7, <1>8, EndOfEnd
<1>10. answer[c + 1] = "blank" /\ \A j \in 1 .. c + 1 - 1 : answer[j] # "blank"
  <2>1. answer[c + 1] = "blank"
    BY <1>5, <1>6, <1>8
  <2>2. ASSUME NEW j \in 1 .. c + 1 - 1 PROVE answer[j] # "blank"
    <3>1. CASE j = 1
      BY <1>2, <3>1
    <3>2. CASE j # 1
      <4>1. j - 1 \in 1 .. c - 1 /\ j - 1 \in 1 .. read - 1 /\ (j - 1) + 1 = j
        BY <1>3, <1>8, <3>2
      <4>2. response[j - 1] # "blank" /\ response[j - 1] = answer[(j - 1) + 1]
        BY <1>5, <1>6, <4>1
      <4>3. QED
        BY <4>1, <4>2
    <3>3. QED
      BY <3>1, <3>2
  <2>3. QED
    BY <2>1, <2>2
<1>11. data' \o <<>> = data'
  <2>1. data' \in Seq(Lines)
    <3>1. Content(response) \in Seq(Lines)
      BY <1>1, <1>4, HeadersAndRest
    <3>2. QED
      BY <1>1, <3>1 DEF Content
  <2>2. QED
    BY <2>1, ConcatEmptySeq
<1>12. 2 + (c + 1) - 1 = c + 1 + 1
  BY <1>3, <1>8
<1>13. \E b \in 1 .. read : EndsHeaders(b) /\ data' = SubSeq(answer, b + 1, read)
  <2>1. c + 1 \in 1 .. read /\ data' = SubSeq(answer, c + 1 + 1, read)
    BY <1>8, <1>9, <1>12
  <2>2. EndsHeaders(c + 1)
    BY <1>8, <1>10 DEF EndsHeaders
  <2>3. QED
    BY <2>1, <2>2
<1>14. PICK b \in 1 .. read : EndsHeaders(b) /\ data' = SubSeq(answer, b + 1, read)
  BY <1>13
<1>15. b \in 1 .. read' /\ EndsHeaders(b)' /\ data' \o response' = SubSeq(answer', b + 1, read')
  BY <1>1, <1>11, <1>14 DEF EndsHeaders
<1>16. QED
  BY <1>1, <1>15 DEF Delivery, Succeeded

LEMMA Appended ==
    ASSUME NEW S, NEW s \in Seq(S), NEW t \in Seq(S), NEW u \in Seq(S)
    PROVE  s \o (t \o u) = (s \o t) \o u
OBVIOUS

\* What comes after the headers is appended to what is there.
LEMMA ReceiveDelivery == Inv /\ Delivery /\ Receive => Delivery'
<1> SUFFICES ASSUME Inv, Delivery, Receive PROVE Delivery'
  OBVIOUS
<1>1. PICK upto \in read + 1 .. Len(answer) :
         read' = upto /\ response' = response \o SubSeq(answer, read + 1, upto)
  BY DEF Receive
<1>2. step \in Reading /\ UNCHANGED <<step, answer, data, calls>>
  BY DEF Receive
<1>3. /\ answer \in Seq(Lines) /\ Len(answer) \in Nat /\ read \in 0 .. Len(answer) /\ read \in Nat
      /\ response \in Seq(Lines) /\ data \in Seq(Lines)
      /\ upto \in read .. Len(answer) /\ upto \in Nat /\ upto > read
  BY <1>1, AnswerTypes
\* From wherever the lines are that have been read, they go on.
<1>4. ASSUME NEW a \in 1 .. read + 1
      PROVE  SubSeq(answer, a, read) \o SubSeq(answer, read + 1, upto) = SubSeq(answer, a, upto)
  <2>1. a \in 1 .. Len(answer) + 1 /\ read \in a - 1 .. Len(answer) /\ upto \in read .. Len(answer)
    BY <1>3
  <2>2. QED
    BY <1>3, <2>1, ConcatAdjacentSubSeq
<1>5. CASE step = "statusLine"
  <2>1. response = SubSeq(answer, 1, read) /\ 1 \in 1 .. read + 1
    BY <1>3, <1>5 DEF Delivery
  <2>2. response' = SubSeq(answer', 1, read')
    BY <1>1, <1>2, <1>4, <2>1
  <2>3. QED
    BY <1>2, <1>5, <2>2 DEF Delivery, Succeeded
<1>6. CASE step = "headers"
  <2>1. response = SubSeq(answer, 2, read) /\ 2 \in 1 .. read + 1 /\ answer[1] = "status"
    BY <1>3, <1>6 DEF Delivery
  <2>2. response' = SubSeq(answer', 2, read') /\ read' > 0 /\ answer'[1] = "status"
    BY <1>1, <1>2, <1>3, <1>4, <2>1
  <2>3. QED
    BY <1>2, <1>6, <2>2 DEF Delivery, Succeeded
<1>7. CASE step = "content"
  <2>1. PICK b \in 1 .. read : EndsHeaders(b) /\ data \o response = SubSeq(answer, b + 1, read)
    BY <1>7 DEF Delivery
  <2> DEFINE more == SubSeq(answer, read + 1, upto)
  <2>2. more \in Seq(Lines)
    <3>1. read + 1 \in Int /\ upto \in Int /\ \A i \in read + 1 .. upto : answer[i] \in Lines
      BY <1>3, ElementOfSeq
    <3>2. QED
      BY <3>1, SubSeqProperties
  <2>3. data \o (response \o more) = (data \o response) \o more
    <3> HIDE DEF more
    <3>1. data \in Seq(Lines) /\ response \in Seq(Lines)
      BY <1>3
    <3>2. QED
      BY ONLY <2>2, <3>1, Appended, SMTT(30)
  <2>4. SubSeq(answer, b + 1, read) \o more = SubSeq(answer, b + 1, upto)
    <3>1. b + 1 \in 1 .. read + 1
      BY <1>3
    <3>2. QED
      BY <1>4, <3>1
  <2>5. response' = response \o more
    BY <1>1
  <2> HIDE DEF more
  <2>6. data' \o response' = SubSeq(answer', b + 1, read')
    BY <1>1, <1>2, <2>1, <2>3, <2>4, <2>5
  <2>7. b \in 1 .. read' /\ EndsHeaders(b)'
    BY <1>1, <1>2, <1>3, <2>1 DEF EndsHeaders
  <2>8. QED
    BY <1>2, <1>7, <2>6, <2>7 DEF Delivery, Succeeded
<1>8. QED
  BY <1>2, <1>5, <1>6, <1>7 DEF Reading

LEMMA ContentDelivery == Inv /\ Delivery /\ HandleReadContent => Delivery'
<1> SUFFICES ASSUME Inv, Delivery, HandleReadContent PROVE Delivery'
  OBVIOUS
<1>1. /\ step = "content" /\ step' = "content" /\ response' = <<>> /\ data' = data \o response
      /\ UNCHANGED <<answer, read>>
  BY DEF HandleReadContent, peerVars
<1>2. PICK b \in 1 .. read : EndsHeaders(b) /\ data \o response = SubSeq(answer, b + 1, read)
  BY <1>1 DEF Delivery
<1>3. (data \o response) \o <<>> = data \o response
  BY AnswerTypes, ConcatProperties, ConcatEmptySeq
<1>4. b \in 1 .. read' /\ EndsHeaders(b)' /\ data' \o response' = SubSeq(answer', b + 1, read')
  BY <1>1, <1>2, <1>3 DEF EndsHeaders
<1>5. QED
  BY <1>1, <1>4 DEF Delivery, Succeeded

\* Nothing is left in response_ at the end of file.
LEMMA EofDelivery == Inv /\ Delivery /\ HandleEof => Delivery'
<1> SUFFICES ASSUME Inv, Delivery, HandleEof PROVE Delivery'
  OBVIOUS
<1>1. /\ step = "content" /\ response = <<>> /\ step' = "done" /\ data' = data
      /\ UNCHANGED <<answer, read>>
  BY DEF HandleEof, Satisfied, peerVars, contentVars
<1>2. PICK b \in 1 .. read : EndsHeaders(b) /\ data \o response = SubSeq(answer, b + 1, read)
  BY <1>1 DEF Delivery
<1>3. data \o response = data
  BY <1>1, AnswerTypes, ConcatEmptySeq
<1>4. b \in 1 .. read' /\ EndsHeaders(b)' /\ data' = SubSeq(answer', b + 1, read')
  BY <1>1, <1>2, <1>3 DEF EndsHeaders
<1>5. QED
  BY <1>1, <1>4 DEF Delivery

LEMMA DeliveryStep == Inv /\ Delivery /\ [Next]_vars => Delivery'
<1> SUFFICES ASSUME Inv, Delivery, [Next]_vars PROVE Delivery'
  OBVIOUS
<1> USE DEF connectVars, peerVars, contentVars
<1>1. CASE UNCHANGED vars
  BY <1>1 DEF vars, Delivery, EndsHeaders, Succeeded
<1>2. CASE \E operation \in Operations, scheme \in {"http", "https"} : Start(operation, scheme)
  <2>1. /\ step = "idle" /\ step' \in {"threw", "resolving"} /\ UNCHANGED <<answer, read, response>>
    BY <1>2 DEF Start
  <2>2. QED
    BY <2>1 DEF Delivery, Succeeded
<1>3. CASE Connected \/ SecurelyConnected \/ HandshakeSucceeds
  <2>1. /\ step \in {"connecting", "handshaking"} /\ step' \in {"handshaking", "writing"}
        /\ UNCHANGED <<answer, read, response>>
    BY <1>3 DEF Connected, SecurelyConnected, HandshakeSucceeds
  <2>2. QED
    BY <2>1 DEF Delivery, Succeeded
<1>4. CASE HandleResolve \/ ConnectFails
  <2>1. /\ step \in {"resolving", "connecting"}
        /\ Fail \/ step' = "connecting"
        /\ UNCHANGED <<answer, read, response>>
    BY <1>4 DEF HandleResolve, ConnectFails
  <2>2. QED
    BY <2>1, FailDelivery DEF Delivery, Succeeded
<1>5. CASE HandshakeFails \/ ReadFails
  <2>1. step # "done" /\ Fail
    BY <1>5 DEF HandshakeFails, ReadFails, Reading
  <2>2. QED
    BY <2>1, FailDelivery
<1>6. CASE HandleWriteRequest
  <2>1. /\ step = "writing"
        /\ Fail \/ step' = "statusLine"
        /\ UNCHANGED <<answer, read, response>>
    BY <1>6 DEF HandleWriteRequest
  <2>2. CASE step' = "statusLine"
    <3>1. read = 0 /\ response = <<>>
      BY <2>1 DEF Delivery
    <3>2. read \in Int /\ 1 \in Int /\ read < 1
      BY <3>1
    <3>3. SubSeq(answer, 1, read) = <<>>
      BY <3>2, SubSeqEmpty
    <3>4. response' = SubSeq(answer', 1, read')
      BY <2>1, <3>1, <3>3
    <3>5. QED
      BY <2>2, <3>4 DEF Delivery, Succeeded
  <2>3. QED
    BY <2>1, <2>2, FailDelivery
<1>7. CASE HandleReadStatusLine
  BY <1>7, StatusLineDelivery
<1>8. CASE HandleReadHeaders
  BY <1>8, HeadersDelivery
<1>9. CASE LengthThrows
  BY <1>9 DEF LengthThrows, Delivery, Succeeded
<1>10. CASE HandleReadContent
  BY <1>10, ContentDelivery
<1>11. CASE HandleEof
  BY <1>11, EofDelivery
<1>12. CASE Receive
  BY <1>12, ReceiveDelivery
<1>13. CASE PeerEnds
  <2>1. /\ step # "done" /\ step' = step /\ UNCHANGED <<answer, read, response, data>>
    BY <1>13 DEF PeerEnds, Reading
  <2>2. QED
    BY <2>1 DEF Delivery, EndsHeaders, Succeeded
<1>14. QED
  BY <1>1, <1>2, <1>3, <1>4, <1>5, <1>6, <1>7, <1>8, <1>9, <1>10, <1>11, <1>12, <1>13
     DEF Next, Handler

\* For any answer, cut into any pieces: what a success hands on is all that was
\* received after the first blank line, in its order.
THEOREM DeliversAll == Spec => []Delivered
<1>1. Inv /\ Delivery /\ [Next]_vars => Inv' /\ Delivery'
  BY InvStep, DeliveryStep
<1>2. Init => Inv /\ Delivery
  BY InvInit, DeliveryInit
<1>3. QED
  BY <1>1, <1>2, DeliveryDelivers, PTL DEF Spec

----------------------------------------------------------------------------
(* What is not understood: a failure is none of the client's making. *)

\* A well-formed answer that came whole, and its end.
CameWhole == read = Len(answer) /\ stream = "closed" /\ WellFormed(answer)

LEMMA FailUnderstood ==
    ASSUME UNCHANGED peerVars, ~CameWhole
    PROVE  Understood'
BY DEF Understood, CameWhole, WellFormed, peerVars

\* Nothing but a handler that fails makes a failure.
LEMMA NoFailUnderstood ==
    ASSUME step' # "done"
    PROVE  Understood'
BY DEF Understood, Failed

\* Before the status line is read, nothing came.
LEMMA NothingCame ==
    ASSUME Inv, read = 0
    PROVE  ~CameWhole
BY AnswerTypes DEF CameWhole, WellFormed

LEMMA StatusLineUnderstood == Inv /\ Delivery /\ HandleReadStatusLine => Understood'
<1> SUFFICES ASSUME Inv, Delivery, HandleReadStatusLine PROVE Understood'
  OBVIOUS
<1>1. /\ step = "statusLine" /\ response # <<>> /\ UNCHANGED peerVars
      /\ response = SubSeq(answer, 1, read)
  BY DEF HandleReadStatusLine, Satisfied, Delivery
<1>2. CASE Head(response) = "status" /\ step' = "headers"
  BY <1>2, NoFailUnderstood
<1>3. CASE Head(response) # "status"
  <2>1. read # 0
    <3>1. 0 \in Int /\ 1 \in Int /\ 0 < 1
      OBVIOUS
    <3>2. QED
      BY <1>1, <3>1, SubSeqEmpty
  <2>2. 1 \in 1 .. Len(answer) /\ read \in 1 .. Len(answer)
    BY <2>1, AnswerTypes
  <2>3. Head(response) = answer[1]
    BY <1>1, <2>2, AnswerTypes, HeadTailOfSubSeq
  <2>4. ~CameWhole
    BY <1>3, <2>3 DEF CameWhole, WellFormed
  <2>5. QED
    BY <1>1, <2>4, FailUnderstood
<1>4. QED
  BY <1>2, <1>3 DEF HandleReadStatusLine

LEMMA ReadFailsUnderstood == Inv /\ Delivery /\ ReadFails => Understood'
<1> SUFFICES ASSUME Inv, Delivery, ReadFails PROVE Understood'
  OBVIOUS
<1>1. /\ step \in Reading /\ ~Satisfied(step, response) /\ UNCHANGED peerVars
      /\ stream = "reset" \/ (stream = "closed" /\ step # "content")
  BY DEF ReadFails
<1>2. CASE stream = "reset"
  <2>1. ~CameWhole
    BY <1>2 DEF CameWhole
  <2>2. QED
    BY <1>1, <2>1, FailUnderstood
<1>3. CASE step = "statusLine"
  <2>1. response = <<>> /\ response = SubSeq(answer, 1, read)
    BY <1>1, <1>3 DEF Satisfied, Delivery
  <2>2. 1 \in 1 .. read + 1 /\ 1 \in 1 .. read - 1 + 2
    BY AnswerTypes
  <2>3. Len(SubSeq(answer, 1, read)) = read - 1 + 1
    BY <2>2, AnswerTypes, EndOfEnd
  <2>4. Len(<<>>) = 0
    OBVIOUS
  <2>5. read = 0
    BY <2>1, <2>3, <2>4, AnswerTypes
  <2>6. QED
    BY <1>1, <2>5, NothingCame, FailUnderstood
<1>4. CASE step = "headers"
  <2>1. read > 0 /\ response = SubSeq(answer, 2, read) /\ ~Delimited(response)
    BY <1>1, <1>4 DEF Satisfied, Delivery
  <2>2. 2 \in 1 .. read + 1 /\ 1 \in 1 .. read - 2 + 2
    BY <2>1, AnswerTypes
  <2>3. /\ Len(response) = read - 2 + 1
        /\ \A i \in 1 .. read - 2 + 1 : response[i] = answer[2 + i - 1]
    BY <2>1, <2>2, AnswerTypes, EndOfEnd
  <2>4. ASSUME read = Len(answer), NEW i \in DOMAIN answer, answer[i] = "blank",
               answer[1] = "status", answer[2] # "blank"
        PROVE  FALSE
    <3>1. i \in 1 .. read /\ i # 1 /\ i # 2
      BY <2>4, AnswerTypes, LenProperties
    <3>2. /\ i - 1 \in 2 .. Len(response) /\ i - 1 \in 1 .. read - 2 + 1
          /\ 2 + (i - 1) - 1 = i
      BY <2>1, <2>3, <3>1, AnswerTypes
    <3>3. response[i - 1] = "blank"
      BY <2>3, <2>4, <3>2
    <3>4. QED
      BY <2>1, <3>2, <3>3 DEF Delimited
  <2>5. ~CameWhole
    BY <2>4 DEF CameWhole, WellFormed
  <2>6. QED
    BY <1>1, <2>5, FailUnderstood
<1>5. QED
  BY <1>1, <1>2, <1>3, <1>4 DEF Reading

LEMMA UnderstoodStep == Inv /\ Delivery /\ Understood /\ [Next]_vars => Understood'
<1> SUFFICES ASSUME Inv, Delivery, Understood, [Next]_vars PROVE Understood'
  OBVIOUS
<1> USE DEF connectVars, peerVars, contentVars
<1>1. CASE UNCHANGED vars
  BY <1>1 DEF vars, Understood, Failed, WellFormed
<1>2. CASE \/ \E operation \in Operations, scheme \in {"http", "https"} : Start(operation, scheme)
           \/ Connected \/ SecurelyConnected \/ HandshakeSucceeds
           \/ HandleReadHeaders \/ LengthThrows \/ HandleReadContent
           \/ Receive \/ PeerEnds
  <2>1. step' # "done"
    BY <1>2 DEF Start, Connected, SecurelyConnected, HandshakeSucceeds, HandleReadHeaders,
                LengthThrows, HandleReadContent, Receive, PeerEnds, Reading
  <2>2. QED
    BY <2>1, NoFailUnderstood
<1>3. CASE HandleResolve \/ ConnectFails \/ HandshakeFails \/ HandleWriteRequest
  <2>1. read = 0 /\ UNCHANGED peerVars
    BY <1>3 DEF Delivery, HandleResolve, ConnectFails, HandshakeFails, HandleWriteRequest
  <2>2. QED
    BY <2>1, NothingCame, FailUnderstood
<1>4. CASE HandleReadStatusLine
  BY <1>4, StatusLineUnderstood
<1>5. CASE HandleEof
  <2>1. Last(calls') = "success"
    <3>1. calls \in Seq(Callbacks) /\ Ending = {} /\ "success" \in Callbacks
      BY <1>5 DEF HandleEof, Inv, HttpClientTypeOK, OneOutcome, Callbacks
    <3>2. QED
      BY <1>5, <3>1, Called DEF HandleEof
  <2>2. QED
    BY <2>1 DEF Understood, Failed
<1>6. CASE ReadFails
  BY <1>6, ReadFailsUnderstood
<1>7. QED
  BY <1>1, <1>2, <1>3, <1>4, <1>5, <1>6 DEF Next, Handler

\* For any answer: a well-formed one that came whole, and has a header, is not
\* reported as a failure.
THEOREM AlwaysUnderstood == Spec => []Understood
<1>1. Init => Inv /\ Delivery /\ Understood
  <2>1. Init => Understood
    BY DEF Init, Understood, Failed
  <2>2. QED
    BY <2>1, InvInit, DeliveryInit
<1>2. Inv /\ Delivery /\ Understood /\ [Next]_vars => Inv' /\ Delivery' /\ Understood'
  BY InvStep, DeliveryStep, UnderstoodStep
<1>3. QED
  BY <1>1, <1>2, PTL DEF Spec

====
