---- MODULE RequestParser ----
(***************************************************************************)
(* http::server::request_parser (common/httpd.cpp): the machine that reads *)
(* a request one character at a time, in pieces of any size.  A text is a  *)
(* sequence of classes of characters: "char" is a character that nothing   *)
(* singles out, "ctl" a control character other than tab, CR and LF,       *)
(* "tspecial" one of ( ) < > etc. that is not a class of its own, "high"   *)
(* a byte from 128 on, which is negative as a char.                        *)
(***************************************************************************)
EXTENDS Integers, SequencesExt

Classes == {"char", "H", "T", "P", "digit", ".", "/", ":", "tspecial", "sp", "tab",
            "CR", "LF", "ctl", "high"}

Ctl == {"ctl", "tab", "CR", "LF"}
Tspecial == {"tspecial", "/", ":", "sp", "tab"}
Digit == {"digit"}
Token == Classes \ (Ctl \cup Tspecial \cup {"high"})
Printable == Classes \ Ctl

\* The moves of a state: where it goes, and on what.
Go(from, on, to) == {<<from, c, to>> : c \in on}

\* The states of the request line; the method is followed by uri, not uri_start.
RequestLine ==
    Go("method_start", Token, "method")
      \cup Go("method", Token, "method")
      \cup Go("method", {"sp"}, "uri")
      \cup Go("uri", Printable \ {"sp"}, "uri")
      \cup Go("uri", {"sp"}, "http_version_h")

Version ==
    Go("http_version_h", {"H"}, "http_version_t_1")
      \cup Go("http_version_t_1", {"T"}, "http_version_t_2")
      \cup Go("http_version_t_2", {"T"}, "http_version_p")
      \cup Go("http_version_p", {"P"}, "http_version_slash")
      \cup Go("http_version_slash", {"/"}, "http_version_major_start")
      \cup Go("http_version_major_start", Digit, "http_version_major")
      \cup Go("http_version_major", Digit, "http_version_major")
      \cup Go("http_version_major", {"."}, "http_version_minor_start")
      \cup Go("http_version_minor_start", Digit, "http_version_minor")
      \cup Go("http_version_minor", Digit, "http_version_minor")
      \cup Go("http_version_minor", {"CR"}, "expecting_newline_1")
      \cup Go("expecting_newline_1", {"LF"}, "header_line_start")

\* A line that starts with a blank goes on with the header before it.
HeaderName ==
    Go("header_line_start", {"CR"}, "expecting_newline_3")
      \cup Go("header_line_start", {"sp", "tab"}, "header_lws")
      \cup Go("header_line_start", Token, "header_name")
      \cup Go("header_name", Token, "header_name")
      \cup Go("header_name", {":"}, "space_before_header_value")

HeaderValue ==
    Go("header_lws", {"sp", "tab"}, "header_lws")
      \cup Go("header_lws", Printable \ {"sp"}, "header_value")
      \cup Go("space_before_header_value", {"sp"}, "header_value")
      \cup Go("header_value", Printable, "header_value")
      \cup Go("header_lws", {"CR"}, "expecting_newline_2")
      \cup Go("header_value", {"CR"}, "expecting_newline_2")
      \cup Go("expecting_newline_2", {"LF"}, "header_line_start")
      \cup Go("expecting_newline_3", {"LF"}, "true")

Moves == RequestLine \cup Version \cup HeaderName \cup HeaderValue

States == {m[1] : m \in Moves}

\* A parser: its state, with the answers "true" and "false", and whether the
\* request has a header.
NewParser == [state |-> "method_start", headers |-> FALSE]

Final == {"true", "false"}

\* mutant of Allowed: a continuation without a header before it.
AllowedAnyway(parser, c) == TRUE

Allowed(parser, c) ==
    parser.state = "header_line_start" /\ c \in {"sp", "tab"} => parser.headers

Parsers == [state : States \cup Final, headers : BOOLEAN]

\* request_parser::consume
Consume ==
    [parser \in Parsers |-> [c \in Classes |->
       IF parser.state \in Final THEN parser
       ELSE LET ways == {m \in Moves : m[1] = parser.state /\ m[2] = c}
                to == (CHOOSE m \in ways : TRUE)[3]
             IN IF ways = {} \/ ~Allowed(parser, c)
                  THEN [parser EXCEPT !.state = "false"]
                  ELSE [state |-> to,
                        headers |-> parser.headers \/ to = "header_name"]]]

Consumes(parser, c) == Consume[parser][c]

\* mutant of Parse: starts anew with every piece.
ParseAnew(parser, text) == FoldLeft(Consumes, NewParser, text)

\* request_parser::parse: what follows an answer is not looked at.
Parse(parser, text) == FoldLeft(Consumes, parser, text)

----------------------------------------------------------------------------
(* What a request is, by its lines. *)

CRLF == <<"CR", "LF">>

\* The lines of a text: what is between one CRLF and the next.
LineEnds(text) == {0} \cup {i \in DOMAIN text : i > 1 /\ SubSeq(text, i - 1, i) = CRLF}

Lines(text) ==
    LET ends == LineEnds(text)
        Follows(p) == p[1] < p[2] /\ \A k \in ends : ~(p[1] < k /\ k < p[2])
     IN {<<p[1], SubSeq(text, p[1] + 1, p[2] - 2)>> : p \in {q \in ends \X ends : Follows(q)}}

Over(line, classes) == \A i \in DOMAIN line : line[i] \in classes

\* Method, uri (which may be empty) and version.
IsRequestLine(line) ==
    LET blanks == {i \in DOMAIN line : line[i] = "sp"}
        dots == {i \in DOMAIN line : line[i] = "."}
     IN \E i \in blanks, j \in blanks, k \in dots :
          /\ 1 < i /\ i < j /\ j + 6 < k /\ k < Len(line)
          /\ Over(SubSeq(line, 1, i - 1), Token)
          /\ Over(SubSeq(line, i + 1, j - 1), Printable \ {"sp"})
          /\ SubSeq(line, j + 1, j + 5) = <<"H", "T", "T", "P", "/">>
          /\ Over(SubSeq(line, j + 6, k - 1), Digit)
          /\ Over(SubSeq(line, k + 1, Len(line)), Digit)

IsHeader(line) ==
    \E i \in DOMAIN line :
       /\ 1 < i /\ i < Len(line)
       /\ line[i] = ":" /\ line[i + 1] = "sp"
       /\ Over(SubSeq(line, 1, i - 1), Token)
       /\ Over(SubSeq(line, i + 2, Len(line)), Printable)

IsContinuation(line) ==
    \E i \in DOMAIN line :
       /\ Over(SubSeq(line, 1, i), {"sp", "tab"})
       /\ Over(SubSeq(line, i + 1, Len(line)), Printable)

\* A request line, headers that may go on over several lines, an empty line.
IsRequest(text) ==
    /\ IsSuffix(CRLF \o CRLF, text)
    /\ LET lines == Lines(text)
           first == CHOOSE l \in lines : l[1] = 0
           IsSecond(l) == l[1] = Len(first[2]) + 2
        IN /\ IsRequestLine(first[2])
           /\ \A l \in lines \ {first} :
                IF l[2] = <<>> THEN l[1] = Len(text) - 2
                ELSE IsHeader(l[2]) \/ (IsContinuation(l[2]) /\ ~IsSecond(l))

\* The shortest ways to end what has begun.
Completions ==
    LET request == <<"char", "sp", "sp", "H", "T", "T", "P", "/", "digit", ".", "digit",
                     "CR", "LF", "CR", "LF">>
        header == <<":", "sp", "CR", "LF", "CR", "LF">>
     IN {SubSeq(request, i, Len(request)) : i \in DOMAIN request}
          \cup {SubSeq(header, i, Len(header)) : i \in DOMAIN header}

\* "true": the text starts with a request; "more": it can become one.
Reading(text) ==
    IF \E i \in DOMAIN text : IsRequest(SubSeq(text, 1, i)) THEN "true"
    ELSE IF \E end \in Completions : IsRequest(text \o end) THEN "more"
    ELSE "false"

Says(parser) == IF parser.state \in Final THEN parser.state ELSE "more"

\* The texts that differ from one in at most one place, and what they begin with.
Near(text) ==
    LET edits == {text}
                   \cup {ReplaceAt(text, i, c) : i \in DOMAIN text, c \in Classes}
                   \cup {InsertAt(text, i, c) : i \in DOMAIN text, c \in Classes}
                   \cup {RemoveAt(text, i) : i \in DOMAIN text}
     IN edits \cup {SubSeq(text, 1, i) : i \in DOMAIN text}

\* The machine accepts requests, and refuses at the character from which on
\* nothing can make one.
Recognises(texts) ==
    \A text \in UNION {Near(t) : t \in texts} :
        Says(Parse(NewParser, text)) = Reading(text)

====
