---- MODULE HttpClient ----
(***************************************************************************)
(* The HTTP client of common/wget.cpp: one request, made by http::get,     *)
(* head, post or propget, of http::client (plain) or http::sclient (TLS).  *)
(* The two classes have the same handlers but for the handshake.  Every    *)
(* handler starts the next operation or calls the callback that ends the   *)
(* request; nothing times out.                                             *)
(*                                                                         *)
(* The answer of a peer is a sequence of lines.  asio's read_until (which  *)
(* is external) completes when what it has read holds the delimiter, and   *)
(* may have read on beyond it.                                             *)
(***************************************************************************)
EXTENDS Integers, SequencesExt

CONSTANTS
    MaxEndpoints,  \* bound on the addresses that a host name resolves to
    Answers        \* what the peers may have to say: sequences of Lines

\* "status" and "refused": a status line that does, or does not, parse.  "length"
\* and "noLength": a Content-Length that is, or is not, a number; "blank": CR LF.
Lines == {"status", "refused", "header", "length", "noLength", "blank", "text"}

ASSUME HttpClientAssumption ==
    /\ MaxEndpoints \in Nat \ {0}
    /\ \A a \in Answers : a \in Seq(Lines)

VARIABLES
    class,      \* which class the request is of, or "none"
    step,       \* the pending operation, or how the request has ended
    endpoints,  \* number of endpoints that the name has resolved to
    tried,      \* the endpoints that connects were tried on
    answer,     \* what the peer has to say, if nothing stops it
    read,       \* number of lines of it that have been read
    stream,     \* the peer's end: "open", "closed" or "reset"
    response,   \* response_, the lines that are not yet consumed
    data,       \* data_
    length,     \* content_length_ has been set
    calls       \* history: the callbacks that were called

peerVars == <<answer, read, stream>>

connectVars == <<endpoints, tried>>

contentVars == <<response, data, length>>

vars == <<class, step, connectVars, peerVars, contentVars, calls>>

Operations == {"get", "head", "post", "propget"}

\* What has ended: by a callback, or by an exception out of a constructor or a
\* handler.
Over == {"done", "threw"}

Reading == {"statusLine", "headers", "content"}

----------------------------------------------------------------------------
(* What the handlers do with response_. *)

\* Position of the first blank line.
Blank(lines) == CHOOSE i \in DOMAIN lines :
    lines[i] = "blank" /\ \A j \in 1 .. i - 1 : lines[j] # "blank"

\* What the header loop consumes, and what it leaves.
Headers(lines) == SubSeq(lines, 1, Blank(lines) - 1)
Rest(lines) == SubSeq(lines, Blank(lines) + 1, Len(lines))

\* mutant of Content: drops what was read along with the headers.
ContentLeftBehind(lines) == <<>>

\* "Write whatever content we already have to output".
Content(lines) == Rest(lines)

\* mutant of Delimited: looks for it at the end of what was read.
DelimitedAtEnd(lines) == Len(lines) > 1 /\ Last(lines) = "blank"

\* CR LF CR LF: a blank line after another line.
Delimited(lines) == \E i \in 2 .. Len(lines) : lines[i] = "blank"

\* The condition that async_read_until and async_read complete on.
Satisfied(operation, lines) ==
    IF operation = "headers" THEN Delimited(lines) ELSE lines # <<>>

----------------------------------------------------------------------------
Init ==
    /\ class = "none"
    /\ step = "idle"
    /\ endpoints = 0 /\ tried = <<>>
    /\ answer \in Answers /\ read = 0 /\ stream = "open"
    /\ response = <<>> /\ data = <<>> /\ length = FALSE
    /\ calls = <<>>

\* get and propget choose by the scheme; head and post do not.
ClassOf(operation, scheme) ==
    IF scheme = "http" \/ operation \in {"head", "post"} THEN "client" ELSE "sclient"

\* start: the request is written, and the name looked up.
Start(operation, scheme) ==
    /\ step = "idle"
    /\ class' = ClassOf(operation, scheme)
    /\ step' = IF class' = "client" /\ scheme = "https" THEN "threw" ELSE "resolving"
    /\ UNCHANGED <<connectVars, peerVars, contentVars, calls>>

\* mutant of Fail: the handler goes on.
FailAndGoOn ==
    /\ calls' = Append(calls, "failure")
    /\ step' = IF step = "statusLine" THEN "headers" ELSE "done"

\* failure_callback_, after which the client is released.
Fail ==
    /\ calls' = Append(calls, "failure")
    /\ step' = "done"

HandleResolve ==
    /\ step = "resolving"
    /\ \/ /\ endpoints' \in 1 .. MaxEndpoints
          /\ tried' = <<1>>
          /\ step' = "connecting"
          /\ UNCHANGED calls
       \/ Fail /\ UNCHANGED connectVars
    /\ UNCHANGED <<class, peerVars, contentVars>>

\* client::handle_connect and sclient::handle_connect, without an error.
Connected ==
    /\ step = "connecting"
    /\ step' = "writing"
    /\ class = "client"
    /\ UNCHANGED <<class, connectVars, peerVars, contentVars, calls>>

SecurelyConnected ==
    /\ step = "connecting"
    /\ step' = "handshaking"
    /\ class = "sclient"
    /\ UNCHANGED <<class, connectVars, peerVars, contentVars, calls>>

\* mutant of HasNext: gives up after the first.
HasNoNext == FALSE

HasNext == Last(tried) < endpoints

\* handle_connect with an error.
ConnectFails ==
    /\ step = "connecting"
    /\ IF HasNext
         THEN tried' = Append(tried, Last(tried) + 1) /\ UNCHANGED <<step, calls>>
         ELSE Fail /\ UNCHANGED tried
    /\ UNCHANGED <<class, endpoints, peerVars, contentVars>>

\* handle_handshake; no other endpoint is tried when it fails.
HandshakeSucceeds ==
    /\ step = "handshaking"
    /\ stream = "open"
    /\ step' = "writing"
    /\ UNCHANGED <<class, connectVars, peerVars, contentVars, calls>>

HandshakeFails ==
    /\ step = "handshaking"
    /\ stream # "open"
    /\ Fail
    /\ UNCHANGED <<class, connectVars, peerVars, contentVars>>

HandleWriteRequest ==
    /\ step = "writing"
    /\ \/ step' = "statusLine" /\ UNCHANGED calls
       \/ stream = "reset" /\ Fail
    /\ UNCHANGED <<class, connectVars, peerVars, contentVars>>

----------------------------------------------------------------------------
\* handle_read_status_line
HandleReadStatusLine ==
    /\ step = "statusLine"
    /\ Satisfied(step, response)
    /\ response' = Tail(response)
    /\ IF Head(response) = "status"
         THEN step' = "headers" /\ UNCHANGED calls
         ELSE Fail
    /\ UNCHANGED <<class, connectVars, peerVars, data, length>>

\* handle_read_headers
HandleReadHeaders ==
    /\ step = "headers"
    /\ Satisfied(step, response)
    /\ ~Contains(Headers(response), "noLength")
    /\ length' = (length \/ Contains(Headers(response), "length"))
    /\ data' = Content(response)
    /\ response' = <<>>
    /\ calls' = Append(calls, "progress")
    /\ step' = "content"
    /\ UNCHANGED <<class, connectVars, peerVars>>

\* lexical_cast throws, through io_service::run.
LengthThrows ==
    /\ step = "headers"
    /\ Satisfied(step, response)
    /\ Contains(Headers(response), "noLength")
    /\ step' = "threw"
    /\ UNCHANGED <<class, connectVars, peerVars, contentVars, calls>>

\* handle_read_content without an error.
HandleReadContent ==
    /\ step = "content"
    /\ Satisfied(step, response)
    /\ data' = data \o response
    /\ response' = <<>>
    /\ calls' = Append(calls, "progress")
    /\ UNCHANGED <<class, step, connectVars, peerVars, length>>

\* handle_read_content at the end of file, wherever that is.
HandleEof ==
    /\ step = "content"
    /\ ~Satisfied(step, response)
    /\ stream = "closed"
    /\ calls' = Append(calls, "success")
    /\ step' = "done"
    /\ UNCHANGED <<class, connectVars, peerVars, contentVars>>

\* mutant of ReadFails: waits for the status line for ever.
ReadFailsLater ==
    /\ step \in {"headers", "content"}
    /\ ~Satisfied(step, response)
    /\ stream = "reset" \/ (stream = "closed" /\ step # "content")
    /\ Fail
    /\ UNCHANGED <<class, connectVars, peerVars, contentVars>>

\* The three read handlers with another error, or an end of file that is early.
ReadFails ==
    /\ step \in Reading
    /\ ~Satisfied(step, response)
    /\ stream = "reset" \/ (stream = "closed" /\ step # "content")
    /\ Fail
    /\ UNCHANGED <<class, connectVars, peerVars, contentVars>>

----------------------------------------------------------------------------
(* External: the peer, and the pieces its answer comes in. *)

Receive ==
    /\ step \in Reading
    /\ ~Satisfied(step, response)
    /\ stream = "open"
    /\ \E upto \in read + 1 .. Len(answer) :
         /\ read' = upto
         /\ response' = response \o SubSeq(answer, read + 1, upto)
    /\ UNCHANGED <<class, step, connectVars, answer, stream, data, length, calls>>

\* The peer closes, after its answer or before, or the connection is lost.
PeerEnds ==
    /\ step \in {"handshaking", "writing"} \cup Reading
    /\ stream = "open"
    /\ stream' \in {"closed", "reset"}
    /\ UNCHANGED <<class, step, connectVars, answer, read, contentVars, calls>>

----------------------------------------------------------------------------
Handler ==
    \/ HandleResolve \/ Connected \/ SecurelyConnected \/ ConnectFails
    \/ HandshakeFails \/ HandleWriteRequest
    \/ HandleReadStatusLine \/ HandleReadHeaders \/ LengthThrows
    \/ HandleReadContent \/ HandleEof \/ ReadFails

Next ==
    \/ \E operation \in Operations, scheme \in {"http", "https"} : Start(operation, scheme)
    \/ Handler
    \/ HandshakeSucceeds \/ Receive \/ PeerEnds

Spec == Init /\ [][Next]_vars

\* The io_service runs and connects end; the peer does what it likes.
FairSpec == Spec /\ WF_vars(Handler)

----------------------------------------------------------------------------
HttpClientTypeOK ==
    /\ class \in {"none", "client", "sclient"}
    /\ step \in {"idle", "resolving", "connecting", "handshaking", "writing"}
               \cup Reading \cup Over
    /\ endpoints \in 0 .. MaxEndpoints
    /\ tried \in Seq(1 .. MaxEndpoints)
    /\ answer \in Answers /\ read \in 0 .. Len(answer)
    /\ stream \in {"open", "closed", "reset"}
    /\ response \in Seq(Lines) /\ data \in Seq(Lines)
    /\ length \in BOOLEAN
    /\ calls \in Seq({"progress", "success", "failure"})
    /\ step = "handshaking" => class = "sclient"

Ending == {i \in DOMAIN calls : calls[i] # "progress"}

\* The caller hears of the end of its request exactly once, and of nothing after
\* that; bohuno-pyzord counts on it to start its next download.
OneOutcome ==
    /\ step = "done" => Ending = {Len(calls)}
    /\ step # "done" => Ending = {}

Succeeded == step = "done" /\ Last(calls) = "success"
Failed == step = "done" /\ Last(calls) = "failure"

Received == SubSeq(answer, 1, read)

\* What is handed on is what came after the headers, all of it and in order,
\* however it was cut into pieces; it is cut short only where the stream was.
Delivered == Succeeded => data = Rest(Received)

\* A well-formed answer that came whole, from a peer that then closed, is no
\* failure: provided it has a header, for the blank line right after the status
\* line is not recognised.
WellFormed(a) ==
    /\ Len(a) > 2 /\ a[1] = "status" /\ a[2] # "blank"
    /\ \E i \in DOMAIN a : a[i] = "blank"

Understood ==
    Failed /\ read = Len(answer) /\ stream = "closed" => ~WellFormed(answer)

\* The endpoints are tried one after another, none twice; and the failure to
\* connect is reported only when every one of them was tried.
EachEndpointOnce ==
    /\ \A i \in DOMAIN tried : tried[i] = i
    /\ Failed /\ stream = "open" /\ read = 0 => Len(tried) = endpoints

\* Once the peer has closed, or the connection is lost, the request ends; before
\* it has answered it ends whatever the endpoints do, unless the peer is silent.
Ends ==
    /\ stream # "open" ~> step \in Over
    /\ step \in {"resolving", "connecting"} ~>
           step \in Over \cup {"handshaking"} \cup Reading

====
