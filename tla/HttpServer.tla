---- MODULE HttpServer ----
(***************************************************************************)
(* http::server::server, connection and connection_manager                 *)
(* (common/httpd.cpp) with pyzord-api's request handler                    *)
(* (pyzor/pyzord-api.cpp).  A connection carries one request, which comes  *)
(* in pieces; it is answered when the parser has decided, and closed when  *)
(* the answer is written.  Nothing times out.                              *)
(***************************************************************************)
EXTENDS Process, RequestParser

CONSTANTS
    Connections,  \* the connections that clients make to one process
    Texts,        \* what clients send: sequences of classes of characters
    Cuts,         \* the positions in a text at which a piece may end before its end
    Stray         \* what the memory of a new connection may hold as its status

ASSUME HttpAssumption ==
    /\ \A t \in Texts : t \in Seq(Classes)
    /\ Cuts \subseteq Nat
    /\ Stray \subseteq Nat

VARIABLES
    acceptor,    \* "armed"; "deaf": open, with no accept pending; or "closed"
    connection,  \* the connections, as records
    managed      \* connection_manager::connections_

httpVars == <<acceptor, connection, managed>>

None == [phase |-> "none"]
Closed == [phase |-> "closed"]

\* What a request asks for.  "update" is Report, Whitelist or Delete; "get" is Get
\* of a digest, and "noDigest" of a hash that is none.
Targets == {"elsewhere", "unparsable", "errors", "get", "noDigest", "update"}

\* status_strings::to_buffer
Statuses == {200, 201, 202, 204, 300, 301, 302, 304, 400, 401, 403, 404, 500, 501, 502, 503}

\* What handle_request leaves in rep.status.  handle_get does not set it, and
\* connection::reply_ starts with what was in its memory: that of a connection that
\* was refused before, for one, is still 400.
Status(target) ==
    CASE target = "elsewhere" -> {404}
      [] target = "unparsable" -> {500}
      [] target \in {"errors", "update"} -> {200}
      [] target \in {"get", "noDigest"} -> Stray

----------------------------------------------------------------------------
\* server::server and stop, and the end of the process, which closes all.
HttpInit ==
    /\ acceptor = "closed"
    /\ connection = [c \in Connections |-> None]
    /\ managed = {}

HttpRestarts ==
    /\ acceptor' = "closed"
    /\ connection' = [c \in Connections |-> None]
    /\ managed' = {}

\* The constructor, up to async_accept.
Listen ==
    /\ acceptor' = "armed"
    /\ UNCHANGED <<connection, managed>>

\* The signals of the database have no slots here.
DatabaseOpens == LinkUp /\ UNCHANGED <<fate, submitted, faults, httpVars>>

DatabaseCloses == LinkDown /\ UNCHANGED <<fate, submitted, faults, httpVars>>

\* connection_manager::start
HandleAccept(c) ==
    /\ acceptor = "armed"
    /\ connection[c].phase = "backlog"
    /\ managed' = managed \cup {c}
    /\ connection' = [connection EXCEPT ![c].phase = "reading"]
    /\ UNCHANGED <<processVars, acceptor>>

\* handle_accept with an error (no descriptor is left): no accept is started.
AcceptFails(c) ==
    /\ acceptor = "armed"
    /\ connection[c].phase = "backlog"
    /\ Fault
    /\ acceptor' = "deaf"
    /\ UNCHANGED <<fate, link, submitted, connection, managed>>

\* mutant of StopConnection: keeps it in connections_.
StopUnmanaged(c) ==
    /\ managed' = managed
    /\ connection' = [connection EXCEPT ![c] = Closed]

\* connection_manager::stop
StopConnection(c) ==
    /\ managed' = managed \ {c}
    /\ connection' = [connection EXCEPT ![c] = Closed]

\* An answer is being written: that of bad_request, or that of handle_request.
Writing(c) == connection[c].phase \in {"refusing", "answering"}

\* The write of an answer is started; the parser is not used again, and whether
\* the client is there makes no difference any more.
Write(c, phase, read, status) ==
    connection' = [connection EXCEPT ![c].phase = phase, ![c].read = read,
                                     ![c].status = status, ![c].parser = NewParser,
                                     ![c].hungUp = FALSE]

\* handle_read: the request is not complete.
ReadOn(c, read, parser) ==
    /\ Says(parser) = "more"
    /\ connection' = [connection EXCEPT ![c].read = read, ![c].parser = parser]
    /\ UNCHANGED <<processVars, acceptor, managed>>

\* handle_read: bad_request.
Refuse(c, read, parser) ==
    /\ Says(parser) = "false"
    /\ Write(c, "refusing", read, 400)
    /\ UNCHANGED <<processVars, acceptor, managed>>

\* handle_read: handle_request answers.
Answer(c, read, parser) ==
    /\ Says(parser) = "true"
    /\ \E target \in Targets :
         /\ target = "get" => handles
         /\ \E status \in Status(target) : Write(c, "answering", read, status)
         /\ submitted' = submitted + (IF target = "update" THEN 1 ELSE 0)
    /\ UNCHANGED <<fate, link, faults, acceptor, managed>>

\* A Get while the database is closed: through db_ == NULL.
AnswerOffline(parser) ==
    /\ Says(parser) = "true"
    /\ ~handles
    /\ fate' = "undefined"
    /\ UNCHANGED <<link, submitted, faults, httpVars>>

\* database::get throws.
AnswerThrows(parser) ==
    /\ Says(parser) = "true"
    /\ handles
    /\ Throws
    /\ UNCHANGED <<link, submitted, httpVars>>

\* Where a piece may end.
PieceEnds(text) == (Cuts \cap 1 .. Len(text)) \cup {Len(text)}

\* handle_read with what came.
HandleRead(c) ==
    /\ connection[c].phase = "reading"
    /\ \E read \in PieceEnds(connection[c].text) :
         LET piece == SubSeq(connection[c].text, connection[c].read + 1, read)
             parser == Parse(connection[c].parser, piece)
          IN /\ read > connection[c].read
             /\ \/ ReadOn(c, read, parser)
                \/ Refuse(c, read, parser)
                \/ Answer(c, read, parser)
                \/ AnswerOffline(parser)
                \/ AnswerThrows(parser)

\* mutant of HandleReadError: does not stop the connection.
IgnoreReadError(c) ==
    /\ connection[c].phase = "reading"
    /\ connection[c].hungUp
    /\ UNCHANGED <<processVars, httpVars>>

\* handle_read with an error: the client is gone.
HandleReadError(c) ==
    /\ connection[c].phase = "reading"
    /\ connection[c].hungUp
    /\ StopConnection(c)
    /\ UNCHANGED <<processVars, acceptor>>

\* handle_write, with an error or without.
HandleWrite(c) ==
    /\ Writing(c)
    /\ StopConnection(c)
    /\ UNCHANGED <<processVars, acceptor>>

\* handle_stop, but for io_service::stop.
HandleStop ==
    /\ acceptor' = "closed"
    /\ connection' = [c \in Connections |-> IF c \in managed THEN Closed ELSE connection[c]]
    /\ managed' = {}
    /\ UNCHANGED processVars

----------------------------------------------------------------------------
(* External: the clients. *)

ClientConnects(c) ==
    /\ acceptor # "closed"
    /\ connection[c] = None
    /\ \E text \in Texts :
         connection' = [connection EXCEPT
           ![c] = [phase |-> "backlog", text |-> text, read |-> 0, parser |-> NewParser,
                   status |-> 0, hungUp |-> FALSE]]
    /\ UNCHANGED <<processVars, acceptor, managed>>

ClientHangsUp(c) ==
    /\ connection[c].phase = "reading"
    /\ ~connection[c].hungUp
    /\ connection' = [connection EXCEPT ![c].hungUp = TRUE]
    /\ UNCHANGED <<processVars, acceptor, managed>>

----------------------------------------------------------------------------
\* The handlers that end a connection.
HttpEnds(c) == HandleReadError(c) \/ HandleWrite(c)

HttpRuns ==
    \/ DatabaseOpens \/ DatabaseCloses
    \/ \E c \in Connections :
         \/ HandleAccept(c) \/ AcceptFails(c)
         \/ HandleRead(c) \/ HttpEnds(c)
         \/ ClientConnects(c) \/ ClientHangsUp(c)

Open(c) == connection[c].phase = "reading" \/ Writing(c)

HttpTypeOK ==
    /\ acceptor \in {"armed", "deaf", "closed"}
    /\ \A c \in Connections :
         \/ connection[c] \in {None, Closed}
         \/ /\ connection[c].phase = "backlog" \/ Open(c)
            /\ connection[c].text \in Texts
            /\ connection[c].read \in 0 .. Len(connection[c].text)
            /\ connection[c].status \in Statuses \cup Stray \cup {0}
            /\ Says(connection[c].parser) = "more"
    /\ managed = {c \in Connections : Open(c)}

\* What a text says up to each of its characters.
ReadingOf == [t \in Texts |-> [n \in 0 .. Len(t) |-> Reading(SubSeq(t, 1, n))]]

\* A connection is answered as soon as what it has sent is a request or cannot
\* become one, and not before, in whatever pieces it came; a request is dispatched
\* to the handlers, and what is no request is refused with 400.
AnswerFits ==
    \A c \in Connections :
        LET k == connection[c]
         IN Open(c) => CASE ReadingOf[k.text][k.read] = "more" -> k.phase = "reading"
                         [] ReadingOf[k.text][k.read] = "false" ->
                              k.phase = "refusing" /\ k.status = 400
                         [] OTHER -> k.phase = "answering"

\* The client has hung up, or has been answered.
IsOver(c) == Writing(c) \/ (Open(c) /\ connection[c].hungUp)

\* The connections of clients that have been answered or hang up are closed: none
\* keeps its descriptor, and again and again, none is left.
Released == []<>(\A c \in Connections : ~IsOver(c))

====
