---- MODULE AlgorithmProofs ----
(***************************************************************************)
(* The two algorithms of the services that compute over sequences, proved  *)
(* for sequences of any length: request_parser reads what a request is     *)
(* (ParserReads), and a ring of statistics counts its window               *)
(* (RingCountsWindow).                                                     *)
(*                                                                         *)
(* The parser.  A run is the sequence of the parsers between the           *)
(* characters of a text; Parse gives the last of one (ParseRuns).  One     *)
(* direction: what a parser has read so far is told by its state           *)
(* (HasRead), so that it is done only at the end of a request              *)
(* (OnlyRequests).  The other: along the lines of a request the place in   *)
(* the line tells the state (On), so that it is done there (Accepted).     *)
(* That it refuses no earlier than it must is that from every state one    *)
(* of the Completions leads to the end (Viable).                           *)
(*                                                                         *)
(* The ring.  Each bucket holds the events of the window whose second has  *)
(* its slot (RingHas), and no two seconds of a window share one            *)
(* (SlotsApart).  The buckets that advance() clears are those of the       *)
(* seconds that leave the window (Leaves), and the sum over the buckets is *)
(* the number of the events because they are disjoint (RingCounts).        *)
(*                                                                         *)
(* Every induction is over a set of numbers (EveryNumber), and every fold  *)
(* is shown to have the value that its recursion says (FoldExists).        *)
(***************************************************************************)
EXTENDS RequestParser, Statistics, SeqLemmas

----------------------------------------------------------------------------
(* What a parser does with one character. *)

\* request_parser::consume, for a parser and a class of character.
LEMMA ConsumesIs ==
    ASSUME NEW p \in Parsers, NEW c \in Classes
    PROVE  Consumes(p, c) =
             IF p.state \in Final THEN p
             ELSE LET ways == {m \in Moves : m[1] = p.state /\ m[2] = c}
                      to == (CHOOSE m \in ways : TRUE)[3]
                  IN  IF ways = {} \/ ~Allowed(p, c)
                        THEN [p EXCEPT !.state = "false"]
                        ELSE [state |-> to, headers |-> p.headers \/ to = "header_name"]
  BY Zenon DEF Consumes, Consume

\* Go, as a set of moves.
LEMMA GoFacts ==
    ASSUME NEW from, NEW on, NEW to
    PROVE  \A m : m \in Go(from, on, to) <=> \E c \in on : m = <<from, c, to>>
  BY DEF Go

\* A move of a group goes from its state, on its classes, to its target.
LEMMA InGo ==
    ASSUME NEW from, NEW on, NEW to, NEW f, NEW c, NEW g
    PROVE  <<f, c, g>> \in Go(from, on, to) <=> f = from /\ c \in on /\ g = to
  BY DEF Go

\* A move is a triple.
LEMMA MoveIs == \A m \in Moves : m = <<m[1], m[2], m[3]>>
<1>1. \A from, on, to : \A m \in Go(from, on, to) : m = <<m[1], m[2], m[3]>>
  BY DEF Go
<1>2. QED
  BY <1>1 DEF Moves, RequestLine, Version, HeaderName, HeaderValue

\* The moves, state by state.
LEMMA MovesAre ==
    ASSUME NEW f, NEW c, NEW to
    PROVE  <<f, c, to>> \in Moves <=>
             \/ f = "method_start" /\ c \in Token /\ to = "method"
             \/ f = "method" /\ c \in Token /\ to = "method"
             \/ f = "method" /\ c = "sp" /\ to = "uri"
             \/ f = "uri" /\ c \in Printable \ {"sp"} /\ to = "uri"
             \/ f = "uri" /\ c = "sp" /\ to = "http_version_h"
             \/ f = "http_version_h" /\ c = "H" /\ to = "http_version_t_1"
             \/ f = "http_version_t_1" /\ c = "T" /\ to = "http_version_t_2"
             \/ f = "http_version_t_2" /\ c = "T" /\ to = "http_version_p"
             \/ f = "http_version_p" /\ c = "P" /\ to = "http_version_slash"
             \/ f = "http_version_slash" /\ c = "/" /\ to = "http_version_major_start"
             \/ f = "http_version_major_start" /\ c \in Digit /\ to = "http_version_major"
             \/ f = "http_version_major" /\ c \in Digit /\ to = "http_version_major"
             \/ f = "http_version_major" /\ c = "." /\ to = "http_version_minor_start"
             \/ f = "http_version_minor_start" /\ c \in Digit /\ to = "http_version_minor"
             \/ f = "http_version_minor" /\ c \in Digit /\ to = "http_version_minor"
             \/ f = "http_version_minor" /\ c = "CR" /\ to = "expecting_newline_1"
             \/ f = "expecting_newline_1" /\ c = "LF" /\ to = "header_line_start"
             \/ f = "header_line_start" /\ c = "CR" /\ to = "expecting_newline_3"
             \/ f = "header_line_start" /\ c \in {"sp", "tab"} /\ to = "header_lws"
             \/ f = "header_line_start" /\ c \in Token /\ to = "header_name"
             \/ f = "header_name" /\ c \in Token /\ to = "header_name"
             \/ f = "header_name" /\ c = ":" /\ to = "space_before_header_value"
             \/ f = "header_lws" /\ c \in {"sp", "tab"} /\ to = "header_lws"
             \/ f = "header_lws" /\ c \in Printable \ {"sp"} /\ to = "header_value"
             \/ f = "space_before_header_value" /\ c = "sp" /\ to = "header_value"
             \/ f = "header_value" /\ c \in Printable /\ to = "header_value"
             \/ f = "header_lws" /\ c = "CR" /\ to = "expecting_newline_2"
             \/ f = "header_value" /\ c = "CR" /\ to = "expecting_newline_2"
             \/ f = "expecting_newline_2" /\ c = "LF" /\ to = "header_line_start"
             \/ f = "expecting_newline_3" /\ c = "LF" /\ to = "true"
<1>1. \A from, on, g : <<f, c, to>> \in Go(from, on, g) <=> f = from /\ c \in on /\ to = g
  BY InGo
<1>2. <<f, c, to>> \in RequestLine <=>
        \/ f = "method_start" /\ c \in Token /\ to = "method"
        \/ f = "method" /\ c \in Token /\ to = "method"
        \/ f = "method" /\ c = "sp" /\ to = "uri"
        \/ f = "uri" /\ c \in Printable \ {"sp"} /\ to = "uri"
        \/ f = "uri" /\ c = "sp" /\ to = "http_version_h"
  BY <1>1, SMT DEF RequestLine
<1>3. <<f, c, to>> \in Version <=>
        \/ f = "http_version_h" /\ c = "H" /\ to = "http_version_t_1"
        \/ f = "http_version_t_1" /\ c = "T" /\ to = "http_version_t_2"
        \/ f = "http_version_t_2" /\ c = "T" /\ to = "http_version_p"
        \/ f = "http_version_p" /\ c = "P" /\ to = "http_version_slash"
        \/ f = "http_version_slash" /\ c = "/" /\ to = "http_version_major_start"
        \/ f = "http_version_major_start" /\ c \in Digit /\ to = "http_version_major"
        \/ f = "http_version_major" /\ c \in Digit /\ to = "http_version_major"
        \/ f = "http_version_major" /\ c = "." /\ to = "http_version_minor_start"
        \/ f = "http_version_minor_start" /\ c \in Digit /\ to = "http_version_minor"
        \/ f = "http_version_minor" /\ c \in Digit /\ to = "http_version_minor"
        \/ f = "http_version_minor" /\ c = "CR" /\ to = "expecting_newline_1"
        \/ f = "expecting_newline_1" /\ c = "LF" /\ to = "header_line_start"
  BY <1>1, SMT DEF Version
<1>4. <<f, c, to>> \in HeaderName <=>
        \/ f = "header_line_start" /\ c = "CR" /\ to = "expecting_newline_3"
        \/ f = "header_line_start" /\ c \in {"sp", "tab"} /\ to = "header_lws"
        \/ f = "header_line_start" /\ c \in Token /\ to = "header_name"
        \/ f = "header_name" /\ c \in Token /\ to = "header_name"
        \/ f = "header_name" /\ c = ":" /\ to = "space_before_header_value"
  BY <1>1, SMT DEF HeaderName
<1>5. <<f, c, to>> \in HeaderValue <=>
        \/ f = "header_lws" /\ c \in {"sp", "tab"} /\ to = "header_lws"
        \/ f = "header_lws" /\ c \in Printable \ {"sp"} /\ to = "header_value"
        \/ f = "space_before_header_value" /\ c = "sp" /\ to = "header_value"
        \/ f = "header_value" /\ c \in Printable /\ to = "header_value"
        \/ f = "header_lws" /\ c = "CR" /\ to = "expecting_newline_2"
        \/ f = "header_value" /\ c = "CR" /\ to = "expecting_newline_2"
        \/ f = "expecting_newline_2" /\ c = "LF" /\ to = "header_line_start"
        \/ f = "expecting_newline_3" /\ c = "LF" /\ to = "true"
  BY <1>1, SMT DEF HeaderValue
<1>6. QED
  BY <1>2, <1>3, <1>4, <1>5, Zenon DEF Moves

\* The groups of classes are classes, and which of them overlap.
LEMMA ClassFacts ==
    /\ Token = {"char", "H", "T", "P", "digit", "."}
    /\ Printable = {"char", "H", "T", "P", "digit", ".", "/", ":", "tspecial", "sp", "high"}
    /\ Digit = {"digit"}
  BY DEF Token, Printable, Digit, Classes, Ctl, Tspecial

\* No two moves of a state on one class.
LEMMA MovesDiffer ==
    ASSUME NEW f, NEW c, NEW a, NEW b, <<f, c, a>> \in Moves, <<f, c, b>> \in Moves
    PROVE  a = b
  BY MovesAre, ClassFacts

\* A state has at most one move on a class: the way that CHOOSE takes.
LEMMA WaysFacts ==
    ASSUME NEW f, NEW c
    PROVE  LET ways == {m \in Moves : m[1] = f /\ m[2] = c}
               to == (CHOOSE m \in ways : TRUE)[3]
           IN  /\ ways = {} <=> \A g : <<f, c, g>> \notin Moves
               /\ \A g : <<f, c, g>> \in Moves => to = g
<1> DEFINE ways == {m \in Moves : m[1] = f /\ m[2] = c}
           m0 == CHOOSE m \in ways : TRUE
<1>1. \A g : <<f, c, g>> \in Moves => <<f, c, g>> \in ways
  OBVIOUS
<1>2. \A m \in ways : m = <<f, c, m[3]>> /\ <<f, c, m[3]>> \in Moves
  <2> TAKE m \in ways
  <2>1. m \in Moves /\ m[1] = f /\ m[2] = c
    OBVIOUS
  <2>2. m = <<m[1], m[2], m[3]>>
    BY <2>1, MoveIs
  <2>3. QED
    BY <2>1, <2>2
<1> HIDE DEF ways
<1>3. ways = {} <=> \A g : <<f, c, g>> \notin Moves
  BY <1>1, <1>2
<1>4. ways # {} => m0 \in ways
  OBVIOUS
<1> HIDE DEF m0
<1>5. \A g : <<f, c, g>> \in Moves => m0[3] = g
  <2> TAKE g
  <2> HAVE <<f, c, g>> \in Moves
  <2>1. ways # {}
    BY <1>3
  <2>2. <<f, c, m0[3]>> \in Moves
    BY <1>2, <1>4, <2>1
  <2>3. QED
    BY <2>2, MovesDiffer
<1>6. QED
  BY <1>3, <1>5 DEF ways, m0

\* A parser with a move on the class that is allowed makes it.
LEMMA Moving ==
    ASSUME NEW p \in Parsers, NEW c \in Classes, p.state \notin Final,
           NEW to, <<p.state, c, to>> \in Moves, Allowed(p, c)
    PROVE  Consumes(p, c) = [state |-> to, headers |-> p.headers \/ to = "header_name"]
<1> DEFINE ways == {m \in Moves : m[1] = p.state /\ m[2] = c}
           t == (CHOOSE m \in ways : TRUE)[3]
<1>1. Consumes(p, c) = IF ways = {} \/ ~Allowed(p, c)
                         THEN [p EXCEPT !.state = "false"]
                         ELSE [state |-> t, headers |-> p.headers \/ t = "header_name"]
  BY ConsumesIs, Zenon
<1>2. ways # {} /\ t = to
  BY WaysFacts, Zenon
<1>3. QED
  BY <1>1, <1>2, Zenon

\* A parser without one refuses.
LEMMA Refusing ==
    ASSUME NEW p \in Parsers, NEW c \in Classes, p.state \notin Final,
           (\A to : <<p.state, c, to>> \notin Moves) \/ ~Allowed(p, c)
    PROVE  Consumes(p, c) = [p EXCEPT !.state = "false"]
<1> DEFINE ways == {m \in Moves : m[1] = p.state /\ m[2] = c}
           t == (CHOOSE m \in ways : TRUE)[3]
<1>1. Consumes(p, c) = IF ways = {} \/ ~Allowed(p, c)
                         THEN [p EXCEPT !.state = "false"]
                         ELSE [state |-> t, headers |-> p.headers \/ t = "header_name"]
  BY ConsumesIs, Zenon
<1>2. (\A to : <<p.state, c, to>> \notin Moves) => ways = {}
  BY WaysFacts, Zenon
<1>3. QED
  BY <1>1, <1>2, Zenon

\* A parser that has answered stays as it is.
LEMMA Decided ==
    ASSUME NEW p \in Parsers, NEW c \in Classes, p.state \in Final
    PROVE  Consumes(p, c) = p
  BY ConsumesIs, Zenon

\* The parser has seen a header.
Headed(p) == p.headers = TRUE

\* The fields of a parser.
LEMMA ParserFacts ==
    ASSUME NEW p \in Parsers
    PROVE  /\ p = [state |-> p.state, headers |-> p.headers]
           /\ p.state \in States \cup Final
           /\ p.headers \in BOOLEAN
  BY DEF Parsers

\* The states, one by one.
LEMMA StatesAre ==
    States = {"method_start", "method", "uri", "http_version_h", "http_version_t_1",
              "http_version_t_2", "http_version_p", "http_version_slash",
              "http_version_major_start", "http_version_major", "http_version_minor_start",
              "http_version_minor", "expecting_newline_1", "header_line_start",
              "header_lws", "header_name", "space_before_header_value", "header_value",
              "expecting_newline_2", "expecting_newline_3"}
<1> DEFINE All == {"method_start", "method", "uri", "http_version_h", "http_version_t_1",
              "http_version_t_2", "http_version_p", "http_version_slash",
              "http_version_major_start", "http_version_major", "http_version_minor_start",
              "http_version_minor", "expecting_newline_1", "header_line_start",
              "header_lws", "header_name", "space_before_header_value", "header_value",
              "expecting_newline_2", "expecting_newline_3"}
<1>1. \A f, c, to : <<f, c, to>> \in Moves => f \in States
  <2> TAKE f, c, to
  <2>1. <<f, c, to>> \in Moves => <<f, c, to>>[1] \in {m[1] : m \in Moves}
    BY Zenon
  <2>2. <<f, c, to>>[1] = f
    OBVIOUS
  <2>3. QED
    BY <2>1, <2>2 DEF States
<1>2. \A f \in States : \E c, to : <<f, c, to>> \in Moves
  <2> TAKE f \in States
  <2>1. PICK m \in Moves : f = m[1]
    BY Zenon DEF States
  <2>2. m = <<f, m[2], m[3]>>
    BY <2>1, MoveIs
  <2>3. QED
    BY <2>2, Zenon
<1>3. States \subseteq All
  BY <1>2, MovesAre
<1>4. All \subseteq States
  <2>1. "char" \in Token /\ "char" \in Printable /\ "digit" \in Digit
    BY ClassFacts
  <2>2. /\ <<"method_start", "char", "method">> \in Moves
        /\ <<"method", "char", "method">> \in Moves
        /\ <<"uri", "sp", "http_version_h">> \in Moves
        /\ <<"http_version_h", "H", "http_version_t_1">> \in Moves
        /\ <<"http_version_t_1", "T", "http_version_t_2">> \in Moves
        /\ <<"http_version_t_2", "T", "http_version_p">> \in Moves
        /\ <<"http_version_p", "P", "http_version_slash">> \in Moves
        /\ <<"http_version_slash", "/", "http_version_major_start">> \in Moves
        /\ <<"http_version_major_start", "digit", "http_version_major">> \in Moves
        /\ <<"http_version_major", "digit", "http_version_major">> \in Moves
    BY <2>1, MovesAre
  <2>3. /\ <<"http_version_minor_start", "digit", "http_version_minor">> \in Moves
        /\ <<"http_version_minor", "digit", "http_version_minor">> \in Moves
        /\ <<"expecting_newline_1", "LF", "header_line_start">> \in Moves
        /\ <<"header_line_start", "CR", "expecting_newline_3">> \in Moves
        /\ <<"header_lws", "CR", "expecting_newline_2">> \in Moves
        /\ <<"header_name", "char", "header_name">> \in Moves
        /\ <<"space_before_header_value", "sp", "header_value">> \in Moves
        /\ <<"header_value", "CR", "expecting_newline_2">> \in Moves
        /\ <<"expecting_newline_2", "LF", "header_line_start">> \in Moves
        /\ <<"expecting_newline_3", "LF", "true">> \in Moves
    BY <2>1, MovesAre
  <2>4. QED
    BY <1>1, <2>2, <2>3
<1>5. QED
  BY <1>1, <1>3, <1>4

\* What a parser does with a character.
LEMMA Steps ==
    ASSUME NEW p \in Parsers, NEW c \in Classes, p.state \notin Final
    PROVE  LET q == Consumes(p, c)
               mayBe == p.state = "header_line_start" /\ c \in {"sp", "tab"} => Headed(p)
           IN  /\ q \in Parsers
               /\ q.state # "false" =>
                    /\ <<p.state, c, q.state>> \in Moves
                    /\ mayBe
                    /\ Headed(q) <=> Headed(p) \/ q.state = "header_name"
               /\ \A to : <<p.state, c, to>> \in Moves /\ mayBe =>
                    q.state = to /\ (Headed(q) <=> Headed(p) \/ to = "header_name")
<1> DEFINE q == Consumes(p, c)
           mayBe == p.state = "header_line_start" /\ c \in {"sp", "tab"} => Headed(p)
<1>1. p.headers \in BOOLEAN /\ p = [state |-> p.state, headers |-> p.headers]
      /\ p.state \in States \cup Final
  BY ParserFacts
<1>2. Allowed(p, c) <=> mayBe
  BY <1>1, Zenon DEF Allowed, Headed
<1> HIDE DEF q, mayBe
<1>3. ASSUME NEW to, <<p.state, c, to>> \in Moves, mayBe
      PROVE  /\ q.state = to
             /\ Headed(q) <=> Headed(p) \/ to = "header_name"
             /\ q \in Parsers
             /\ to # "false"
  <2>1. q = [state |-> to, headers |-> p.headers \/ to = "header_name"]
    BY <1>2, <1>3, Moving, Zenon DEF q
  <2>2. to \in States \cup {"true"}
    BY <1>3, MovesAre, StatesAre
  <2>3. (p.headers \/ to = "header_name") \in BOOLEAN
    BY <1>1, Zenon
  <2>4. q \in Parsers
    BY <2>1, <2>2, <2>3 DEF Parsers, Final
  <2>5. q.state = to /\ q.headers = (p.headers \/ to = "header_name")
    BY <2>1
  <2>6. to # "false"
    BY <2>2, StatesAre
  <2>7. Headed(q) <=> Headed(p) \/ to = "header_name"
    BY <1>1, <2>5, Zenon DEF Headed
  <2>8. QED
    BY <2>4, <2>5, <2>6, <2>7
<1>4. ASSUME (\A to : <<p.state, c, to>> \notin Moves) \/ ~mayBe
      PROVE  q \in Parsers /\ q.state = "false"
  <2>1. q = [p EXCEPT !.state = "false"]
    BY <1>2, <1>4, Refusing, Zenon DEF q
  <2>2. QED
    BY <1>1, <2>1 DEF Parsers, Final
<1>5. q \in Parsers
  BY <1>3, <1>4
<1>6. q.state # "false" =>
                    /\ <<p.state, c, q.state>> \in Moves
                    /\ mayBe
                    /\ Headed(q) <=> Headed(p) \/ q.state = "header_name"
  BY <1>3, <1>4
<1>7. QED
  BY <1>3, <1>5, <1>6 DEF q, mayBe

\* A parser that reads a character is a parser.
LEMMA ConsumesTyped ==
    ASSUME NEW p \in Parsers, NEW c \in Classes
    PROVE  Consumes(p, c) \in Parsers
  BY Steps, Decided

\* The greatest number up to n is n.
LEMMA MaxFacts ==
    /\ \A n \in Nat : \A T \in SUBSET (1 .. n) : T # {} => Max(T) \in T
    /\ \A n \in Nat \ {0} : Max(1 .. n) = n /\ (1 .. n) \ {Max(1 .. n)} = 1 .. n - 1
<1>1. ASSUME NEW n \in Nat, NEW T \in SUBSET (1 .. n), T # {} 
      PROVE  Max(T) \in T /\ \A x \in T : Max(T) >= x
  <2>1. T \subseteq Nat /\ \A x \in T : x <= n
    BY <1>1
  <2>2. PICK m \in T : \A x \in T : x <= m
    BY <1>1, <2>1, Greatest
  <2>3. \A x \in T : m >= x
    BY <2>1, <2>2
  <2>4. QED
    BY <2>3 DEF Max
<1>2. ASSUME NEW n \in Nat \ {0} PROVE Max(1 .. n) = n
  <2>1. 1 .. n # {} /\ n \in 1 .. n
    OBVIOUS
  <2>2. Max(1 .. n) \in 1 .. n /\ \A x \in 1 .. n : Max(1 .. n) >= x
    BY <1>1, <2>1
  <2>3. QED
    BY <2>1, <2>2
<1>3. \A n \in Nat \ {0} : (1 .. n) \ {n} = 1 .. n - 1
  OBVIOUS
<1>4. QED
  BY <1>1, <1>2, <1>3

\* r has the parser after each number of characters of t, from p on.
IsRun(r, p, t) ==
    /\ r \in [0 .. Len(t) -> Parsers]
    /\ r[0] = p
    /\ \A i \in 1 .. Len(t) : r[i] = Consumes(r[i - 1], t[i])

\* There is a run over every text, and Parse gives the last parser of it.
LEMMA ParseRuns ==
    ASSUME NEW p \in Parsers, NEW t \in Seq(Classes)
    PROVE  \E r : IsRun(r, p, t) /\ r[Len(t)] = Parse(p, t)
<1> DEFINE n == Len(t)
           Body(g, s) == IF s = {} THEN p ELSE Consumes(g[s \ {Max(s)}], t[Max(s)])
           G == CHOOSE g : g = [s \in SUBSET (1 .. n) |-> Body(g, s)]
<1>1. n \in Nat /\ DOMAIN t = 1 .. n /\ \A i \in 1 .. n : t[i] \in Classes
  BY LenProperties
<1>2. Parse(p, t) = G[1 .. n]
  <2>1. Parse(p, t) =
          (CHOOSE g : g = [s \in SUBSET DOMAIN t |->
                             IF s = {} THEN p ELSE Consumes(g[s \ {Max(s)}], t[Max(s)])])[DOMAIN t]
    BY Zenon DEF Parse, FoldLeft, MapThenFoldSet
  <2>2. QED
    BY <1>1, <2>1, Zenon
<1>3. \E g : g = [s \in SUBSET (1 .. n) |-> Body(g, s)]
  <2> DEFINE S == 1 .. n
             C == [s \in SUBSET S |-> Max(s)]
             F == [v \in Parsers |-> [i \in S |-> Consumes(v, t[i])]]
  <2>1. IsFiniteSet(S)
    BY <1>1, FS_Interval
  <2>2. \A s \in SUBSET S : s # {} => C[s] \in s
    BY <1>1, MaxFacts
  <2>3. \A v \in Parsers, i \in S : F[v][i] = Consumes(v, t[i])
    OBVIOUS
  <2>4. \A v \in Parsers, i \in S : F[v][i] \in Parsers
    BY <1>1, <2>3, ConsumesTyped
  <2>5. \A s \in SUBSET S : C[s] = Max(s)
    OBVIOUS
  <2> HIDE DEF S, C, F
  <2>6. PICK g \in [SUBSET S -> Parsers] : IsFold(g, S, C, p, F)
    BY <2>1, <2>2, <2>4, FoldExists
  <2>7. ASSUME NEW s \in SUBSET S PROVE g[s] = Body(g, s)
    <3>1. g[s] = IF s = {} THEN p ELSE F[g[s \ {C[s]}]][C[s]]
      BY <2>6 DEF IsFold
    <3>2. CASE s = {}
      BY <3>1, <3>2
    <3>3. CASE s # {}
      <4>1. C[s] \in S /\ s \ {C[s]} \in SUBSET S
        BY <2>2, <3>3
      <4>2. g[s \ {C[s]}] \in Parsers
        BY <2>6, <4>1
      <4>3. g[s] = Consumes(g[s \ {C[s]}], t[C[s]])
        BY <2>3, <3>1, <3>3, <4>1, <4>2
      <4>4. QED
        BY <2>5, <3>3, <4>3
    <3>4. QED
      BY <3>2, <3>3
  <2> HIDE DEF Body
  <2>8. g = [s \in SUBSET S |-> Body(g, s)]
    BY <2>6, <2>7
  <2>9. QED
    BY <2>8 DEF S
<1>4. G = [s \in SUBSET (1 .. n) |-> Body(G, s)]
  BY <1>3, Zenon
<1> HIDE DEF G, n
<1> DEFINE r == [i \in 0 .. n |-> G[1 .. i]]
<1>5. r[0] = p
  <2>1. 1 .. 0 = {} /\ {} \in SUBSET (1 .. n) /\ 0 \in 0 .. n
    BY <1>1
  <2>2. G[{}] = p
    BY <1>4, <2>1
  <2>3. QED
    BY <2>1, <2>2
<1>6. ASSUME NEW i \in 1 .. n PROVE r[i] = Consumes(r[i - 1], t[i])
  <2>1. /\ i \in Nat \ {0} /\ i \in 0 .. n /\ i - 1 \in 0 .. n
        /\ 1 .. i \in SUBSET (1 .. n) /\ 1 .. i # {}
    BY <1>1
  <2>2. G[1 .. i] = Consumes(G[(1 .. i) \ {Max(1 .. i)}], t[Max(1 .. i)])
    BY <1>4, <2>1
  <2>3. Max(1 .. i) = i /\ (1 .. i) \ {Max(1 .. i)} = 1 .. i - 1
    BY <2>1, MaxFacts
  <2>4. QED
    BY <2>1, <2>2, <2>3
<1>7. r[n] = G[1 .. n]
  BY <1>1
<1>8. \A i \in 0 .. n : r[i] \in Parsers
  <2> DEFINE T == {i \in Nat : i <= n => r[i] \in Parsers}
  <2>1. 0 \in T
    BY <1>5
  <2>2. ASSUME NEW i \in Nat, i \in T PROVE i + 1 \in T
    <3>1. CASE i + 1 <= n
      <4>1. i + 1 \in 1 .. n /\ (i + 1) - 1 = i /\ r[i] \in Parsers
        BY <1>1, <2>2, <3>1
      <4> HIDE DEF r
      <4>2. r[i + 1] = Consumes(r[i], t[i + 1]) /\ t[i + 1] \in Classes
        BY <1>1, <1>6, <4>1
      <4>3. r[i + 1] \in Parsers
        BY <4>1, <4>2, ConsumesTyped
      <4>4. QED
        BY <4>3
    <3>2. CASE ~(i + 1 <= n)
      <4> HIDE DEF r
      <4>1. QED
        BY <3>2
    <3>3. QED
      BY <3>1, <3>2
  <2>3. Nat \subseteq T
    <3> HIDE DEF T
    <3>1. QED
      BY <2>1, <2>2, EveryNumber
  <2> HIDE DEF T, r
  <2>4. \A i \in 0 .. n : i \in Nat /\ i <= n
    BY <1>1
  <2>5. \A i \in 0 .. n : i \in T
    BY <2>3, <2>4
  <2>6. QED
    BY <2>4, <2>5 DEF T
<1>9. r \in [0 .. n -> Parsers]
  BY <1>8
<1> HIDE DEF r
<1>10. IsRun(r, p, t)
  BY <1>5, <1>6, <1>9 DEF IsRun, n
<1>11. QED
  BY <1>2, <1>7, <1>10 DEF n

----------------------------------------------------------------------------
(* What a parser has read of its line, by its state. *)

\* The characters from a to b are of S.
Within(t, a, b, S) == \A x \in a .. b : t[x] \in S

\* The method and a blank at i, and the uri up to e.
UriTo(t, i, e) ==
    /\ i \in Nat /\ 1 < i /\ i <= e /\ t[i] = "sp"
    /\ Within(t, 1, i - 1, Token)
    /\ Within(t, i + 1, e, Printable \ {"sp"})

\* The blank after the uri, at j, and what comes before the digits of the version.
HttpAt(t, i, j) ==
    /\ j \in Nat /\ UriTo(t, i, j - 1) /\ t[j] = "sp"
    /\ t[j + 1] = "H" /\ t[j + 2] = "T" /\ t[j + 3] = "T" /\ t[j + 4] = "P" /\ t[j + 5] = "/"

\* The first digits of the version, up to e.
MajorTo(t, i, j, e) == HttpAt(t, i, j) /\ Within(t, j + 6, e, Digit)

\* A request line up to e, but for the end of it.
LineTo(t, i, j, k, e) ==
    /\ MajorTo(t, i, j, k - 1)
    /\ k \in Nat /\ j + 6 < k /\ k < e /\ t[k] = "."
    /\ Within(t, k + 1, e, Digit)

\* A header that starts after s and has its colon at i, up to e.
HeaderTo(t, s, i, e) ==
    /\ i \in Nat /\ s + 1 < i /\ i < e /\ t[i] = ":" /\ t[i + 1] = "sp"
    /\ Within(t, s + 1, i - 1, Token)
    /\ Within(t, i + 2, e, Printable)

\* What a continuation starts with.
Blanks == {"sp", "tab"}

\* A continuation that starts after s and has blanks up to i, up to e.
ContinuationTo(t, s, i, e) ==
    /\ i \in Nat /\ s < i /\ i <= e
    /\ Within(t, s + 1, i, Blanks)
    /\ Within(t, i + 1, e, Printable)

\* There is a line between the first and the one that starts after s.
NotSecond(t, s) == \E k \in LineEnds(t) : 0 < k /\ k < s

\* A header line up to e.
FieldTo(t, s, e) ==
    \/ \E i \in Nat : HeaderTo(t, s, i, e)
    \/ (\E i \in Nat : ContinuationTo(t, s, i, e)) /\ NotSecond(t, s)

\* What a parser has seen of the first line, by its state.
SeenFirst(t, n, p) ==
    /\ ~Headed(p)
    /\ p.state = "method_start" => n = 0
    /\ p.state = "method" => 0 < n /\ Within(t, 1, n, Token)
    /\ p.state = "uri" => \E i \in Nat : UriTo(t, i, n)
    /\ p.state = "http_version_h" => \E i \in Nat : UriTo(t, i, n - 1) /\ t[n] = "sp"
    /\ p.state = "http_version_t_1" =>
         \E i \in Nat : UriTo(t, i, n - 2) /\ t[n - 1] = "sp" /\ t[n] = "H"
    /\ p.state = "http_version_t_2" =>
         \E i \in Nat : UriTo(t, i, n - 3) /\ t[n - 2] = "sp" /\ t[n - 1] = "H" /\ t[n] = "T"
    /\ p.state = "http_version_p" =>
         \E i \in Nat : /\ UriTo(t, i, n - 4) /\ t[n - 3] = "sp" /\ t[n - 2] = "H"
                        /\ t[n - 1] = "T" /\ t[n] = "T"
    /\ p.state = "http_version_slash" =>
         \E i \in Nat : /\ UriTo(t, i, n - 5) /\ t[n - 4] = "sp" /\ t[n - 3] = "H"
                        /\ t[n - 2] = "T" /\ t[n - 1] = "T" /\ t[n] = "P"
    /\ p.state = "http_version_major_start" =>
         \E i, j \in Nat : HttpAt(t, i, j) /\ n = j + 5
    /\ p.state = "http_version_major" =>
         \E i, j \in Nat : MajorTo(t, i, j, n) /\ j + 5 < n
    /\ p.state = "http_version_minor_start" =>
         \E i, j \in Nat : MajorTo(t, i, j, n - 1) /\ j + 6 < n /\ t[n] = "."
    /\ p.state = "http_version_minor" => \E i, j, k \in Nat : LineTo(t, i, j, k, n)
    /\ p.state = "expecting_newline_1" =>
         (\E i, j, k \in Nat : LineTo(t, i, j, k, n - 1)) /\ t[n] = "CR"

\* What a parser has seen of the line that starts after s.
SeenField(t, s, n, p) ==
    /\ p.state \notin {"header_line_start", "expecting_newline_3"} => Headed(p)
    /\ p.state = "header_line_start" => n = s /\ (Headed(p) <=> NotSecond(t, s))
    /\ p.state = "expecting_newline_3" => n = s + 1 /\ t[n] = "CR"
    /\ p.state = "header_lws" => s < n /\ Within(t, s + 1, n, Blanks) /\ NotSecond(t, s)
    /\ p.state = "header_name" => s < n /\ Within(t, s + 1, n, Token)
    /\ p.state = "space_before_header_value" =>
         s + 1 < n /\ Within(t, s + 1, n - 1, Token) /\ t[n] = ":"
    /\ p.state = "header_value" => FieldTo(t, s, n)
    /\ p.state = "expecting_newline_2" => FieldTo(t, s, n - 1) /\ t[n] = "CR"

\* The states within the request line.
FirstLine == {"method_start", "method", "uri", "http_version_h", "http_version_t_1",
              "http_version_t_2", "http_version_p", "http_version_slash",
              "http_version_major_start", "http_version_major", "http_version_minor_start",
              "http_version_minor", "expecting_newline_1"}

\* What a parser has seen of its line, the first or a later one.
Seen(t, s, n, p) ==
    IF s = 0 THEN p.state \in FirstLine /\ SeenFirst(t, n, p)
    ELSE p.state \in States \ FirstLine /\ SeenField(t, s, n, p)

\* The moves within the first line.
LEMMA FirstSeen ==
    ASSUME NEW t, NEW n \in Nat, NEW p, NEW q, NEW c, c = t[n + 1],
           p.state \in FirstLine, SeenFirst(t, n, p),
           <<p.state, c, q.state>> \in Moves, q.state # "header_line_start",
           Headed(q) <=> Headed(p) \/ q.state = "header_name"
    PROVE  q.state \in FirstLine /\ SeenFirst(t, n + 1, q) /\ c # "LF"
<1> USE DEF FirstLine
<1>1. q.state # "header_name" /\ ~Headed(q)
  BY MovesAre DEF SeenFirst
<1>2. CASE p.state = "method_start"
  <2>1. c \in Token /\ q.state = "method" /\ n = 0
    BY <1>2, MovesAre DEF SeenFirst
  <2>2. QED
    BY <1>1, <2>1, ClassFacts DEF SeenFirst, Within
<1>3. CASE p.state = "method"
  <2>1. 0 < n /\ Within(t, 1, n, Token)
    BY <1>3 DEF SeenFirst
  <2>2. CASE c \in Token /\ q.state = "method"
    <3>1. Within(t, 1, n + 1, Token)
      BY <2>1, <2>2 DEF Within
    <3>2. QED
      BY <1>1, <2>2, <3>1, ClassFacts DEF SeenFirst
  <2>3. CASE c = "sp" /\ q.state = "uri"
    <3>1. UriTo(t, n + 1, n + 1)
      BY <2>1, <2>3 DEF UriTo, Within
    <3>2. QED
      BY <1>1, <2>3, <3>1 DEF SeenFirst
  <2>4. QED
    BY <1>3, <2>2, <2>3, MovesAre
<1>4. CASE p.state = "uri"
  <2>1. PICK i \in Nat : UriTo(t, i, n)
    BY <1>4 DEF SeenFirst
  <2>2. CASE c \in Printable \ {"sp"} /\ q.state = "uri"
    <3>1. UriTo(t, i, n + 1)
      BY <2>1, <2>2 DEF UriTo, Within
    <3>2. QED
      BY <1>1, <2>2, <3>1, ClassFacts DEF SeenFirst
  <2>3. CASE c = "sp" /\ q.state = "http_version_h"
    <3>1. UriTo(t, i, (n + 1) - 1)
      BY <2>1
    <3>2. QED
      BY <1>1, <2>3, <3>1 DEF SeenFirst
  <2>4. QED
    BY <1>4, <2>2, <2>3, MovesAre
<1>5. CASE p.state = "http_version_h"
  <2>1. c = "H" /\ q.state = "http_version_t_1"
    BY <1>5, MovesAre
  <2>2. PICK i \in Nat : UriTo(t, i, n - 1) /\ t[n] = "sp"
    BY <1>5 DEF SeenFirst
  <2>3. n - 1 = (n + 1) - 2 /\ n = (n + 1) - 1
    OBVIOUS
  <2>4. QED
    BY <1>1, <2>1, <2>2, <2>3 DEF SeenFirst
<1>6. CASE p.state = "http_version_t_1"
  <2>1. c = "T" /\ q.state = "http_version_t_2"
    BY <1>6, MovesAre
  <2>2. PICK i \in Nat : UriTo(t, i, n - 2) /\ t[n - 1] = "sp" /\ t[n] = "H"
    BY <1>6 DEF SeenFirst
  <2>3. n - 2 = (n + 1) - 3 /\ n - 1 = (n + 1) - 2 /\ n = (n + 1) - 1
    OBVIOUS
  <2>4. QED
    BY <1>1, <2>1, <2>2, <2>3 DEF SeenFirst
<1>7. CASE p.state = "http_version_t_2"
  <2>1. c = "T" /\ q.state = "http_version_p"
    BY <1>7, MovesAre
  <2>2. PICK i \in Nat : UriTo(t, i, n - 3) /\ t[n - 2] = "sp" /\ t[n - 1] = "H" /\ t[n] = "T"
    BY <1>7 DEF SeenFirst
  <2>3. n - 3 = (n + 1) - 4 /\ n - 2 = (n + 1) - 3 /\ n - 1 = (n + 1) - 2 /\ n = (n + 1) - 1
    OBVIOUS
  <2>4. QED
    BY <1>1, <2>1, <2>2, <2>3 DEF SeenFirst
<1>8. CASE p.state = "http_version_p"
  <2>1. c = "P" /\ q.state = "http_version_slash"
    BY <1>8, MovesAre
  <2>2. PICK i \in Nat : /\ UriTo(t, i, n - 4) /\ t[n - 3] = "sp" /\ t[n - 2] = "H"
                         /\ t[n - 1] = "T" /\ t[n] = "T"
    BY <1>8 DEF SeenFirst
  <2>3. /\ n - 4 = (n + 1) - 5 /\ n - 3 = (n + 1) - 4 /\ n - 2 = (n + 1) - 3
        /\ n - 1 = (n + 1) - 2 /\ n = (n + 1) - 1
    OBVIOUS
  <2>4. QED
    BY <1>1, <2>1, <2>2, <2>3 DEF SeenFirst
<1>9. CASE p.state = "http_version_slash"
  <2>1. c = "/" /\ q.state = "http_version_major_start"
    BY <1>9, MovesAre
  <2>2. PICK i \in Nat : /\ UriTo(t, i, n - 5) /\ t[n - 4] = "sp" /\ t[n - 3] = "H"
                         /\ t[n - 2] = "T" /\ t[n - 1] = "T" /\ t[n] = "P"
    BY <1>9 DEF SeenFirst
  <2> DEFINE j == n - 4
  <2>3. /\ j \in Nat /\ j - 1 = n - 5 /\ j + 1 = n - 3 /\ j + 2 = n - 2
        /\ j + 3 = n - 1 /\ j + 4 = n /\ j + 5 = n + 1
    BY <2>2 DEF UriTo
  <2>4. HttpAt(t, i, j)
    BY <2>1, <2>2, <2>3 DEF HttpAt
  <2> HIDE DEF j
  <2>5. QED
    BY <1>1, <2>1, <2>3, <2>4 DEF SeenFirst
<1>10. CASE p.state = "http_version_major_start"
  <2>1. c \in Digit /\ q.state = "http_version_major"
    BY <1>10, MovesAre
  <2>2. PICK i \in Nat, j \in Nat : HttpAt(t, i, j) /\ n = j + 5
    BY <1>10 DEF SeenFirst
  <2>3. MajorTo(t, i, j, n + 1)
    BY <2>1, <2>2 DEF MajorTo, Within
  <2>4. QED
    BY <1>1, <2>1, <2>2, <2>3, ClassFacts DEF SeenFirst
<1>11. CASE p.state = "http_version_major"
  <2>1. PICK i \in Nat, j \in Nat : MajorTo(t, i, j, n) /\ j + 5 < n
    BY <1>11 DEF SeenFirst
  <2>2. CASE c \in Digit /\ q.state = "http_version_major"
    <3>1. MajorTo(t, i, j, n + 1)
      BY <2>1, <2>2 DEF MajorTo, Within
    <3>2. QED
      BY <1>1, <2>1, <2>2, <3>1, ClassFacts DEF SeenFirst
  <2>3. CASE c = "." /\ q.state = "http_version_minor_start"
    <3>1. MajorTo(t, i, j, (n + 1) - 1) /\ j + 6 < n + 1
      BY <2>1
    <3>2. QED
      BY <1>1, <2>3, <3>1 DEF SeenFirst
  <2>4. QED
    BY <1>11, <2>2, <2>3, MovesAre
<1>12. CASE p.state = "http_version_minor_start"
  <2>1. c \in Digit /\ q.state = "http_version_minor"
    BY <1>12, MovesAre
  <2>2. PICK i \in Nat, j \in Nat : MajorTo(t, i, j, n - 1) /\ j + 6 < n /\ t[n] = "."
    BY <1>12 DEF SeenFirst
  <2>3. LineTo(t, i, j, n, n + 1)
    BY <2>1, <2>2 DEF LineTo, Within
  <2>4. QED
    BY <1>1, <2>1, <2>2, <2>3, ClassFacts DEF SeenFirst
<1>13. CASE p.state = "http_version_minor"
  <2>1. PICK i \in Nat, j \in Nat, k \in Nat : LineTo(t, i, j, k, n)
    BY <1>13 DEF SeenFirst
  <2>2. CASE c \in Digit /\ q.state = "http_version_minor"
    <3>1. LineTo(t, i, j, k, n + 1)
      BY <2>1, <2>2 DEF LineTo, Within
    <3>2. QED
      BY <1>1, <2>1, <2>2, <3>1, ClassFacts DEF SeenFirst
  <2>3. CASE c = "CR" /\ q.state = "expecting_newline_1"
    <3>1. LineTo(t, i, j, k, (n + 1) - 1)
      BY <2>1
    <3>2. QED
      BY <1>1, <2>3, <3>1 DEF SeenFirst
  <2>4. QED
    BY <1>13, <2>2, <2>3, MovesAre
<1>14. CASE p.state = "expecting_newline_1"
  BY <1>14, MovesAre
<1>15. QED
  BY <1>2, <1>3, <1>4, <1>5, <1>6, <1>7, <1>8, <1>9, <1>10, <1>11, <1>12, <1>13, <1>14

\* The moves within a later line.
LEMMA FieldSeen ==
    ASSUME NEW t, NEW s \in Nat, 0 < s, NEW n \in Nat, s <= n, NEW p, NEW q, NEW c, c = t[n + 1],
           p.state \in States \ FirstLine, SeenField(t, s, n, p),
           <<p.state, c, q.state>> \in Moves, q.state \notin {"header_line_start", "true"},
           p.state = "header_line_start" /\ c \in {"sp", "tab"} => Headed(p),
           Headed(q) <=> Headed(p) \/ q.state = "header_name"
    PROVE  q.state \in States \ FirstLine /\ SeenField(t, s, n + 1, q) /\ c # "LF"
<1> USE DEF FirstLine
<1>1. CASE p.state = "header_line_start"
  <2>1. n = s /\ (Headed(p) <=> NotSecond(t, s))
    BY <1>1 DEF SeenField
  <2>2. CASE c = "CR" /\ q.state = "expecting_newline_3"
    BY <2>1, <2>2, StatesAre DEF SeenField
  <2>3. CASE c \in Blanks /\ q.state = "header_lws"
    <3>1. NotSecond(t, s) /\ Headed(q)
      BY <1>1, <2>1, <2>3 DEF Blanks
    <3>2. Within(t, s + 1, n + 1, Blanks) /\ s < n + 1
      BY <2>1, <2>3 DEF Within
    <3>3. QED
      BY <2>3, <3>1, <3>2, StatesAre DEF SeenField, Blanks
  <2>4. CASE c \in Token /\ q.state = "header_name"
    <3>1. Within(t, s + 1, n + 1, Token) /\ s < n + 1
      BY <2>1, <2>4 DEF Within
    <3>2. QED
      BY <2>4, <3>1, StatesAre, ClassFacts DEF SeenField
  <2>5. QED
    BY <1>1, <2>2, <2>3, <2>4, MovesAre DEF Blanks
<1>2. CASE p.state = "header_name"
  <2>1. s < n /\ Within(t, s + 1, n, Token) /\ Headed(q)
    BY <1>2 DEF SeenField
  <2>2. CASE c \in Token /\ q.state = "header_name"
    <3>1. Within(t, s + 1, n + 1, Token) /\ s < n + 1
      BY <2>1, <2>2 DEF Within
    <3>2. QED
      BY <2>1, <2>2, <3>1, StatesAre, ClassFacts DEF SeenField
  <2>3. CASE c = ":" /\ q.state = "space_before_header_value"
    <3>1. Within(t, s + 1, (n + 1) - 1, Token) /\ s + 1 < n + 1
      BY <2>1
    <3>2. QED
      BY <2>1, <2>3, <3>1, StatesAre DEF SeenField
  <2>4. QED
    BY <1>2, <2>2, <2>3, MovesAre
<1>3. CASE p.state = "space_before_header_value"
  <2>1. c = "sp" /\ q.state = "header_value"
    BY <1>3, MovesAre
  <2>2. s + 1 < n /\ Within(t, s + 1, n - 1, Token) /\ t[n] = ":" /\ Headed(q)
    BY <1>3 DEF SeenField
  <2>3. HeaderTo(t, s, n, n + 1)
    BY <2>1, <2>2 DEF HeaderTo, Within
  <2>4. FieldTo(t, s, n + 1)
    BY <2>3 DEF FieldTo
  <2>5. QED
    BY <2>1, <2>2, <2>4, StatesAre DEF SeenField
<1>4. CASE p.state = "header_lws"
  <2>1. s < n /\ Within(t, s + 1, n, Blanks) /\ NotSecond(t, s) /\ Headed(q)
    BY <1>4 DEF SeenField
  <2>2. CASE c \in Blanks /\ q.state = "header_lws"
    <3>1. Within(t, s + 1, n + 1, Blanks) /\ s < n + 1
      BY <2>1, <2>2 DEF Within
    <3>2. QED
      BY <2>1, <2>2, <3>1, StatesAre DEF SeenField, Blanks
  <2>3. CASE c \in Printable /\ q.state = "header_value"
    <3>1. ContinuationTo(t, s, n, n + 1)
      BY <2>1, <2>3 DEF ContinuationTo, Within
    <3>2. FieldTo(t, s, n + 1)
      BY <2>1, <3>1 DEF FieldTo
    <3>3. QED
      BY <2>1, <2>3, <3>2, StatesAre, ClassFacts DEF SeenField
  <2>4. CASE c = "CR" /\ q.state = "expecting_newline_2"
    <3>1. ContinuationTo(t, s, n, (n + 1) - 1)
      BY <2>1 DEF ContinuationTo, Within
    <3>2. FieldTo(t, s, (n + 1) - 1)
      BY <2>1, <3>1 DEF FieldTo
    <3>3. QED
      BY <2>1, <2>4, <3>2, StatesAre DEF SeenField
  <2>5. QED
    BY <1>4, <2>2, <2>3, <2>4, MovesAre DEF Blanks
<1>5. CASE p.state = "header_value"
  <2>1. FieldTo(t, s, n) /\ Headed(q)
    BY <1>5 DEF SeenField
  <2>2. CASE c \in Printable /\ q.state = "header_value"
    <3>1. \A i \in Nat : HeaderTo(t, s, i, n) => HeaderTo(t, s, i, n + 1)
      BY <2>2 DEF HeaderTo, Within
    <3>2. \A i \in Nat : ContinuationTo(t, s, i, n) => ContinuationTo(t, s, i, n + 1)
      BY <2>2 DEF ContinuationTo, Within
    <3>3. FieldTo(t, s, n + 1)
      BY <2>1, <3>1, <3>2 DEF FieldTo
    <3>4. QED
      BY <2>1, <2>2, <3>3, StatesAre, ClassFacts DEF SeenField
  <2>3. CASE c = "CR" /\ q.state = "expecting_newline_2"
    <3>1. FieldTo(t, s, (n + 1) - 1)
      BY <2>1
    <3>2. QED
      BY <2>1, <2>3, <3>1, StatesAre DEF SeenField
  <2>4. QED
    BY <1>5, <2>2, <2>3, MovesAre
<1>6. p.state \in {"expecting_newline_2", "expecting_newline_3"} =>
        q.state \in {"header_line_start", "true"}
  BY MovesAre
<1>7. QED
  BY <1>1, <1>2, <1>3, <1>4, <1>5, <1>6, StatesAre

\* The ends of lines, by their two characters.
LEMMA EndsAre ==
    ASSUME NEW t \in Seq(Classes)
    PROVE  \A k : k \in LineEnds(t) <=>
             k = 0 \/ (k \in 2 .. Len(t) /\ t[k - 1] = "CR" /\ t[k] = "LF")
<1>1. Len(t) \in Nat /\ DOMAIN t = 1 .. Len(t)
  BY LenProperties
<1>2. ASSUME NEW k \in 2 .. Len(t)
      PROVE  SubSeq(t, k - 1, k) = <<"CR", "LF">> <=> t[k - 1] = "CR" /\ t[k] = "LF"
  <2> DEFINE u == SubSeq(t, k - 1, k)
  <2>1. /\ u \in Seq(Classes) /\ Len(u) = 2
        /\ u[1] = t[k - 1] /\ u[2] = t[k]
    BY <1>1, SubSeqProperties
  <2> HIDE DEF u
  <2>2. u = <<u[1], u[2]>>
    BY <2>1
  <2>3. QED
    BY <2>1, <2>2 DEF u
<1>3. \A k : k \in DOMAIN t /\ k > 1 <=> k \in 2 .. Len(t)
  BY <1>1
<1>4. QED
  BY <1>2, <1>3 DEF LineEnds, CRLF

----------------------------------------------------------------------------
(* What it has read of the text: whole lines, and a part of one. *)

\* One end of a line, and the next.
Follow(t, a, b) ==
    /\ a \in LineEnds(t) /\ b \in LineEnds(t) /\ a < b
    /\ \A k \in LineEnds(t) : ~(a < k /\ k < b)

\* The line between two ends is one of a request.
LineOK(t, a, b) ==
    IF a = 0 THEN \E i, j, k \in Nat : LineTo(t, i, j, k, b - 2) ELSE FieldTo(t, a, b - 2)

\* s is where the line of n starts.
IsStart(t, s, n) ==
    s \in LineEnds(t) /\ s <= n /\ \A k \in LineEnds(t) : k <= n => k <= s

\* p has read t up to n.
HasRead(t, s, n, p) ==
    /\ IsStart(t, s, n)
    /\ Seen(t, s, n, p)
    /\ \A a, b \in Nat : Follow(t, a, b) /\ b <= s => LineOK(t, a, b)

\* One more character of the text: what was read so far is told by the state still.
LEMMA StepRead ==
    ASSUME NEW t \in Seq(Classes), NEW n \in Nat, n < Len(t), NEW p \in Parsers,
           p.state \notin Final, NEW s, HasRead(t, s, n, p),
           NEW q, q = Consumes(p, t[n + 1]), q.state \notin Final
    PROVE  \E z : HasRead(t, z, n + 1, q)
<1> DEFINE c == t[n + 1]
<1>1. Len(t) \in Nat /\ n + 1 \in 1 .. Len(t) /\ c \in Classes
  <2>1. Len(t) \in Nat /\ \A i \in 1 .. Len(t) : t[i] \in Classes
    BY LenProperties
  <2>2. QED
    BY <2>1
<1>2. \A k : k \in LineEnds(t) <=> k = 0 \/ (k \in 2 .. Len(t) /\ t[k - 1] = "CR" /\ t[k] = "LF")
  BY EndsAre
<1>3. LineEnds(t) \subseteq Nat
  BY <1>1, <1>2
<1>4. /\ IsStart(t, s, n) /\ Seen(t, s, n, p) /\ s \in Nat /\ s <= n
      /\ \A a, b \in Nat : Follow(t, a, b) /\ b <= s => LineOK(t, a, b)
  BY <1>3 DEF HasRead, IsStart
<1> HIDE DEF c
<1>5. /\ q \in Parsers
      /\ <<p.state, c, q.state>> \in Moves
      /\ p.state = "header_line_start" /\ c \in {"sp", "tab"} => Headed(p)
      /\ Headed(q) <=> Headed(p) \/ q.state = "header_name"
  <2>1. q.state # "false"
    BY DEF Final
  <2>2. QED
    BY <1>1, <2>1, Steps DEF c
<1>6. CASE q.state # "header_line_start"
  <2>1. Seen(t, s, n + 1, q) /\ c # "LF"
    <3>1. CASE s = 0
      BY <1>4, <1>5, <1>6, <3>1, FirstSeen DEF Seen, c
    <3>2. CASE s # 0
      <4>1. 0 < s /\ q.state \notin {"header_line_start", "true"}
        BY <1>4, <1>6, <3>2 DEF Final
      <4>2. QED
        BY <1>4, <1>5, <3>2, <4>1, FieldSeen DEF Seen, c
    <3>3. QED
      BY <3>1, <3>2
  <2>2. n + 1 \notin LineEnds(t)
    BY <1>1, <1>2, <2>1 DEF c
  <2>3. \A k \in LineEnds(t) : k <= n + 1 => k <= n
    BY <1>3, <2>2
  <2>4. IsStart(t, s, n + 1)
    BY <1>3, <1>4, <2>3 DEF IsStart
  <2>5. HasRead(t, s, n + 1, q)
    BY <1>4, <2>1, <2>4 DEF HasRead
  <2>6. QED
    BY <2>5
<1>7. CASE q.state = "header_line_start"
  <2>1. c = "LF" /\ p.state \in {"expecting_newline_1", "expecting_newline_2"}
    BY <1>5, <1>7, MovesAre
  <2>3. t[n] = "CR" /\ LineOK(t, s, n + 1) /\ 0 < n /\ (Headed(q) <=> s # 0)
    <3>0. n - 1 = (n + 1) - 2 
      OBVIOUS
    <3>1. CASE s = 0
      <4>1. p.state = "expecting_newline_1" /\ SeenFirst(t, n, p)
        BY <1>4, <2>1, <3>1 DEF Seen, FirstLine
      <4>2. (\E i, j, k \in Nat : LineTo(t, i, j, k, n - 1)) /\ t[n] = "CR" /\ ~Headed(p)
        BY <4>1 DEF SeenFirst
      <4>3. ~Headed(q)
        BY <1>5, <1>7, <4>2
      <4>4. n - 1 > 0
        BY <4>2 DEF LineTo
      <4>5. QED
        BY <3>0, <3>1, <4>2, <4>3, <4>4 DEF LineOK
    <3>2. CASE s # 0
      <4>1. p.state = "expecting_newline_2" /\ SeenField(t, s, n, p)
        BY <1>4, <2>1, <3>2 DEF Seen, FirstLine
      <4>2. FieldTo(t, s, n - 1) /\ t[n] = "CR" /\ Headed(p)
        BY <4>1 DEF SeenField
      <4>3. 0 < n
        BY <1>4, <3>2
      <4>4. QED
        BY <1>5, <3>0, <3>2, <4>2, <4>3 DEF LineOK
    <3>3. QED
      BY <3>1, <3>2
  <2>4. n + 1 \in LineEnds(t)
    BY <1>1, <1>2, <2>1, <2>3 DEF c
  <2>5. IsStart(t, n + 1, n + 1)
    BY <2>4 DEF IsStart
  <2>6. \A k \in LineEnds(t) : ~(s < k /\ k < n + 1)
    BY <1>3, <1>4 DEF IsStart
  <2>7. NotSecond(t, n + 1) <=> s # 0
    <3>1. s # 0 => s \in LineEnds(t) /\ 0 < s /\ s < n + 1
      BY <1>4 DEF IsStart
    <3>2. s = 0 => \A k \in LineEnds(t) : ~(0 < k /\ k < n + 1)
      BY <2>6
    <3>3. QED
      BY <3>1, <3>2 DEF NotSecond
  <2>8. Seen(t, n + 1, n + 1, q)
    <3>1. SeenField(t, n + 1, n + 1, q)
      BY <1>7, <2>3, <2>7 DEF SeenField
    <3>2. n + 1 # 0
      OBVIOUS
    <3>3. QED
      BY <1>7, <3>1, <3>2, StatesAre DEF Seen, FirstLine
  <2>9. ASSUME NEW a \in Nat, NEW b \in Nat, Follow(t, a, b), b <= n + 1 PROVE LineOK(t, a, b)
    <3>1. CASE b <= s
      BY <1>4, <2>9, <3>1
    <3>2. CASE b > s
      <4>1. a \in LineEnds(t) /\ b \in LineEnds(t) /\ a < b
        BY <2>9 DEF Follow
      <4>2. b = n + 1
        BY <1>4, <2>6, <2>9, <3>2, <4>1
      <4>3. a <= s
        BY <1>4, <2>6, <4>1, <4>2
      <4>4. ~(a < s)
        BY <1>4, <2>9, <3>2 DEF Follow, IsStart
      <4>5. a = s
        BY <1>4, <4>3, <4>4
      <4>6. QED
        BY <2>3, <4>2, <4>5
    <3>3. QED
      BY <1>4, <3>1, <3>2
  <2>10. HasRead(t, n + 1, n + 1, q)
    BY <2>5, <2>8, <2>9 DEF HasRead
  <2>11. QED
    BY <2>10
<1>8. QED
  BY <1>6, <1>7

\* A request, by the places of its characters.
Complete(t) ==
    /\ Len(t) >= 4 /\ Len(t) \in LineEnds(t) /\ Len(t) - 2 \in LineEnds(t)
    /\ \A a, b \in Nat : Follow(t, a, b) /\ a # Len(t) - 2 => LineOK(t, a, b)

\* A parser that is done has read a request.
LEMMA EndRead ==
    ASSUME NEW t \in Seq(Classes), NEW n \in Nat, n + 1 = Len(t), NEW p \in Parsers,
           p.state \notin Final, NEW s, HasRead(t, s, n, p),
           Consumes(p, t[n + 1]).state = "true"
    PROVE  Complete(t)
<1> DEFINE c == t[n + 1]
           q == Consumes(p, c)
<1>1. Len(t) \in Nat /\ n + 1 \in 1 .. Len(t) /\ c \in Classes
  <2>1. Len(t) \in Nat /\ \A i \in 1 .. Len(t) : t[i] \in Classes
    BY LenProperties
  <2>2. QED
    BY <2>1
<1>2. \A k : k \in LineEnds(t) <=> k = 0 \/ (k \in 2 .. Len(t) /\ t[k - 1] = "CR" /\ t[k] = "LF")
  BY EndsAre
<1>3. LineEnds(t) \subseteq Nat /\ \A k \in LineEnds(t) : k <= n + 1
  BY <1>1, <1>2
<1>4. /\ IsStart(t, s, n) /\ Seen(t, s, n, p) /\ s \in Nat /\ s <= n
      /\ \A a, b \in Nat : Follow(t, a, b) /\ b <= s => LineOK(t, a, b)
  BY <1>3 DEF HasRead, IsStart
<1>5. <<p.state, c, q.state>> \in Moves
  <2> HIDE DEF c
  <2>1. QED
    BY <1>1, Steps DEF c
<1> HIDE DEF c, q
<1>6. c = "LF" /\ p.state = "expecting_newline_3"
  <2>1. q.state = "true"
    BY DEF q, c
  <2>2. QED
    BY <1>5, <2>1, MovesAre
<1>7. s # 0 /\ n = s + 1 /\ t[n] = "CR"
  BY <1>4, <1>6 DEF Seen, SeenField, FirstLine
<1>8. n + 1 \in LineEnds(t) /\ s \in LineEnds(t) /\ s >= 2 /\ s = (n + 1) - 2
  BY <1>1, <1>2, <1>4, <1>6, <1>7 DEF c, IsStart
<1>9. ASSUME NEW a \in Nat, NEW b \in Nat, Follow(t, a, b), a # s PROVE LineOK(t, a, b)
  <2>1. a \in LineEnds(t) /\ b \in LineEnds(t) /\ a < b /\ ~(a < s /\ s < b)
    BY <1>8, <1>9 DEF Follow
  <2>2. \A k \in LineEnds(t) : k <= s \/ k = n + 1
    BY <1>3, <1>4 DEF IsStart
  <2>3. a <= s
    BY <1>3, <2>1, <2>2
  <2>4. b <= s
    BY <1>4, <1>9, <2>1, <2>3
  <2>5. QED
    BY <1>4, <1>9, <2>4
<1>10. QED
  BY <1>8, <1>9 DEF Complete

----------------------------------------------------------------------------
(* What its state is within a line, by the place in it. *)

\* A move, as a step of the parser.
LEMMA MoveTo ==
    ASSUME NEW p \in Parsers, NEW c \in Classes, NEW to, <<p.state, c, to>> \in Moves,
           p.state = "header_line_start" /\ c \in {"sp", "tab"} => Headed(p)
    PROVE  LET q == Consumes(p, c)
           IN  q.state = to /\ (Headed(q) <=> Headed(p) \/ to = "header_name")
<1>1. p.state \notin Final
  BY MovesAre DEF Final
<1>2. QED
  BY <1>1, Steps

\* The moves within the first line, one by one.
FirstTable(p, c, q) ==
    /\ p.state = "method_start" /\ c \in Token =>
         q.state = "method"
    /\ p.state = "method" /\ c \in Token =>
         q.state = "method"
    /\ p.state = "method" /\ c = "sp" =>
         q.state = "uri"
    /\ p.state = "uri" /\ c \in Printable \ {"sp"} =>
         q.state = "uri"
    /\ p.state = "uri" /\ c = "sp" =>
         q.state = "http_version_h"
    /\ p.state = "http_version_h" /\ c = "H" =>
         q.state = "http_version_t_1"
    /\ p.state = "http_version_t_1" /\ c = "T" =>
         q.state = "http_version_t_2"
    /\ p.state = "http_version_t_2" /\ c = "T" =>
         q.state = "http_version_p"
    /\ p.state = "http_version_p" /\ c = "P" =>
         q.state = "http_version_slash"
    /\ p.state = "http_version_slash" /\ c = "/" =>
         q.state = "http_version_major_start"
    /\ p.state = "http_version_major_start" /\ c \in Digit =>
         q.state = "http_version_major"
    /\ p.state = "http_version_major" /\ c \in Digit =>
         q.state = "http_version_major"
    /\ p.state = "http_version_major" /\ c = "." =>
         q.state = "http_version_minor_start"
    /\ p.state = "http_version_minor_start" /\ c \in Digit =>
         q.state = "http_version_minor"
    /\ p.state = "http_version_minor" /\ c \in Digit =>
         q.state = "http_version_minor"
    /\ p.state = "http_version_minor" /\ c = "CR" =>
         q.state = "expecting_newline_1"
    /\ p.state = "expecting_newline_1" /\ c = "LF" =>
         q.state = "header_line_start"

\* A parser in the first line moves as the table says.
LEMMA FirstMoves ==
    ASSUME NEW p \in Parsers, NEW c \in Classes, NEW q, q = Consumes(p, c)
    PROVE  FirstTable(p, c, q)
<1>1. ASSUME p.state = "method_start", c \in Token
      PROVE  q.state = "method"
  <2>1. <<p.state, c, "method">> \in Moves
    BY <1>1, MovesAre
  <2>2. QED
    BY <1>1, <2>1, MoveTo
<1>2. ASSUME p.state = "method", c \in Token
      PROVE  q.state = "method"
  <2>1. <<p.state, c, "method">> \in Moves
    BY <1>2, MovesAre
  <2>2. QED
    BY <1>2, <2>1, MoveTo
<1>3. ASSUME p.state = "method", c = "sp"
      PROVE  q.state = "uri"
  <2>1. <<p.state, c, "uri">> \in Moves
    BY <1>3, MovesAre
  <2>2. QED
    BY <1>3, <2>1, MoveTo
<1>4. ASSUME p.state = "uri", c \in Printable \ {"sp"}
      PROVE  q.state = "uri"
  <2>1. <<p.state, c, "uri">> \in Moves
    BY <1>4, MovesAre
  <2>2. QED
    BY <1>4, <2>1, MoveTo
<1>5. ASSUME p.state = "uri", c = "sp"
      PROVE  q.state = "http_version_h"
  <2>1. <<p.state, c, "http_version_h">> \in Moves
    BY <1>5, MovesAre
  <2>2. QED
    BY <1>5, <2>1, MoveTo
<1>6. ASSUME p.state = "http_version_h", c = "H"
      PROVE  q.state = "http_version_t_1"
  <2>1. <<p.state, c, "http_version_t_1">> \in Moves
    BY <1>6, MovesAre
  <2>2. QED
    BY <1>6, <2>1, MoveTo
<1>7. ASSUME p.state = "http_version_t_1", c = "T"
      PROVE  q.state = "http_version_t_2"
  <2>1. <<p.state, c, "http_version_t_2">> \in Moves
    BY <1>7, MovesAre
  <2>2. QED
    BY <1>7, <2>1, MoveTo
<1>8. ASSUME p.state = "http_version_t_2", c = "T"
      PROVE  q.state = "http_version_p"
  <2>1. <<p.state, c, "http_version_p">> \in Moves
    BY <1>8, MovesAre
  <2>2. QED
    BY <1>8, <2>1, MoveTo
<1>9. ASSUME p.state = "http_version_p", c = "P"
      PROVE  q.state = "http_version_slash"
  <2>1. <<p.state, c, "http_version_slash">> \in Moves
    BY <1>9, MovesAre
  <2>2. QED
    BY <1>9, <2>1, MoveTo
<1>10. ASSUME p.state = "http_version_slash", c = "/"
      PROVE  q.state = "http_version_major_start"
  <2>1. <<p.state, c, "http_version_major_start">> \in Moves
    BY <1>10, MovesAre
  <2>2. QED
    BY <1>10, <2>1, MoveTo
<1>11. ASSUME p.state = "http_version_major_start", c \in Digit
      PROVE  q.state = "http_version_major"
  <2>1. <<p.state, c, "http_version_major">> \in Moves
    BY <1>11, MovesAre
  <2>2. QED
    BY <1>11, <2>1, MoveTo
<1>12. ASSUME p.state = "http_version_major", c \in Digit
      PROVE  q.state = "http_version_major"
  <2>1. <<p.state, c, "http_version_major">> \in Moves
    BY <1>12, MovesAre
  <2>2. QED
    BY <1>12, <2>1, MoveTo
<1>13. ASSUME p.state = "http_version_major", c = "."
      PROVE  q.state = "http_version_minor_start"
  <2>1. <<p.state, c, "http_version_minor_start">> \in Moves
    BY <1>13, MovesAre
  <2>2. QED
    BY <1>13, <2>1, MoveTo
<1>14. ASSUME p.state = "http_version_minor_start", c \in Digit
      PROVE  q.state = "http_version_minor"
  <2>1. <<p.state, c, "http_version_minor">> \in Moves
    BY <1>14, MovesAre
  <2>2. QED
    BY <1>14, <2>1, MoveTo
<1>15. ASSUME p.state = "http_version_minor", c \in Digit
      PROVE  q.state = "http_version_minor"
  <2>1. <<p.state, c, "http_version_minor">> \in Moves
    BY <1>15, MovesAre
  <2>2. QED
    BY <1>15, <2>1, MoveTo
<1>16. ASSUME p.state = "http_version_minor", c = "CR"
      PROVE  q.state = "expecting_newline_1"
  <2>1. <<p.state, c, "expecting_newline_1">> \in Moves
    BY <1>16, MovesAre
  <2>2. QED
    BY <1>16, <2>1, MoveTo
<1>17. ASSUME p.state = "expecting_newline_1", c = "LF"
      PROVE  q.state = "header_line_start"
  <2>1. <<p.state, c, "header_line_start">> \in Moves
    BY <1>17, MovesAre
  <2>2. QED
    BY <1>17, <2>1, MoveTo
<1>18. QED
  BY <1>1, <1>2, <1>3, <1>4, <1>5, <1>6, <1>7, <1>8, <1>9, <1>10, <1>11, <1>12, <1>13,
    <1>14, <1>15, <1>16, <1>17 DEF FirstTable

\* The moves within a later line, one by one.
FieldTable(p, c, q) ==
    /\ p.state = "header_line_start" /\ c = "CR" =>
         q.state = "expecting_newline_3"
    /\ p.state = "header_line_start" /\ c \in {"sp", "tab"} /\ Headed(p) =>
         q.state = "header_lws" /\ (Headed(q) <=> Headed(p))
    /\ p.state = "header_line_start" /\ c \in Token =>
         q.state = "header_name" /\ Headed(q)
    /\ p.state = "header_name" /\ c \in Token =>
         q.state = "header_name" /\ Headed(q)
    /\ p.state = "header_name" /\ c = ":" =>
         q.state = "space_before_header_value" /\ (Headed(q) <=> Headed(p))
    /\ p.state = "header_lws" /\ c \in {"sp", "tab"} =>
         q.state = "header_lws" /\ (Headed(q) <=> Headed(p))
    /\ p.state = "header_lws" /\ c \in Printable \ {"sp"} =>
         q.state = "header_value" /\ (Headed(q) <=> Headed(p))
    /\ p.state = "space_before_header_value" /\ c = "sp" =>
         q.state = "header_value" /\ (Headed(q) <=> Headed(p))
    /\ p.state = "header_value" /\ c \in Printable =>
         q.state = "header_value" /\ (Headed(q) <=> Headed(p))
    /\ p.state = "header_lws" /\ c = "CR" =>
         q.state = "expecting_newline_2" /\ (Headed(q) <=> Headed(p))
    /\ p.state = "header_value" /\ c = "CR" =>
         q.state = "expecting_newline_2" /\ (Headed(q) <=> Headed(p))
    /\ p.state = "expecting_newline_2" /\ c = "LF" =>
         q.state = "header_line_start" /\ (Headed(q) <=> Headed(p))
    /\ p.state = "expecting_newline_3" /\ c = "LF" =>
         q.state = "true"

\* A parser in a later line moves as the table says.
LEMMA FieldMoves ==
    ASSUME NEW p \in Parsers, NEW c \in Classes, NEW q, q = Consumes(p, c)
    PROVE  FieldTable(p, c, q)
<1>1. ASSUME p.state = "header_line_start", c = "CR"
      PROVE  q.state = "expecting_newline_3"
  <2>1. <<p.state, c, "expecting_newline_3">> \in Moves
    BY <1>1, MovesAre
  <2>2. QED
    BY <1>1, <2>1, MoveTo, ClassFacts
<1>2. ASSUME p.state = "header_line_start", c \in {"sp", "tab"}, Headed(p)
      PROVE  q.state = "header_lws" /\ (Headed(q) <=> Headed(p))
  <2>1. <<p.state, c, "header_lws">> \in Moves
    BY <1>2, MovesAre
  <2>2. QED
    BY <1>2, <2>1, MoveTo, ClassFacts
<1>3. ASSUME p.state = "header_line_start", c \in Token
      PROVE  q.state = "header_name" /\ Headed(q)
  <2>1. <<p.state, c, "header_name">> \in Moves
    BY <1>3, MovesAre
  <2>2. QED
    BY <1>3, <2>1, MoveTo, ClassFacts
<1>4. ASSUME p.state = "header_name", c \in Token
      PROVE  q.state = "header_name" /\ Headed(q)
  <2>1. <<p.state, c, "header_name">> \in Moves
    BY <1>4, MovesAre
  <2>2. QED
    BY <1>4, <2>1, MoveTo
<1>5. ASSUME p.state = "header_name", c = ":"
      PROVE  q.state = "space_before_header_value" /\ (Headed(q) <=> Headed(p))
  <2>1. <<p.state, c, "space_before_header_value">> \in Moves
    BY <1>5, MovesAre
  <2>2. QED
    BY <1>5, <2>1, MoveTo
<1>6. ASSUME p.state = "header_lws", c \in {"sp", "tab"}
      PROVE  q.state = "header_lws" /\ (Headed(q) <=> Headed(p))
  <2>1. <<p.state, c, "header_lws">> \in Moves
    BY <1>6, MovesAre
  <2>2. QED
    BY <1>6, <2>1, MoveTo
<1>7. ASSUME p.state = "header_lws", c \in Printable \ {"sp"}
      PROVE  q.state = "header_value" /\ (Headed(q) <=> Headed(p))
  <2>1. <<p.state, c, "header_value">> \in Moves
    BY <1>7, MovesAre
  <2>2. QED
    BY <1>7, <2>1, MoveTo
<1>8. ASSUME p.state = "space_before_header_value", c = "sp"
      PROVE  q.state = "header_value" /\ (Headed(q) <=> Headed(p))
  <2>1. <<p.state, c, "header_value">> \in Moves
    BY <1>8, MovesAre
  <2>2. QED
    BY <1>8, <2>1, MoveTo
<1>9. ASSUME p.state = "header_value", c \in Printable
      PROVE  q.state = "header_value" /\ (Headed(q) <=> Headed(p))
  <2>1. <<p.state, c, "header_value">> \in Moves
    BY <1>9, MovesAre
  <2>2. QED
    BY <1>9, <2>1, MoveTo
<1>10. ASSUME p.state = "header_lws", c = "CR"
      PROVE  q.state = "expecting_newline_2" /\ (Headed(q) <=> Headed(p))
  <2>1. <<p.state, c, "expecting_newline_2">> \in Moves
    BY <1>10, MovesAre
  <2>2. QED
    BY <1>10, <2>1, MoveTo
<1>11. ASSUME p.state = "header_value", c = "CR"
      PROVE  q.state = "expecting_newline_2" /\ (Headed(q) <=> Headed(p))
  <2>1. <<p.state, c, "expecting_newline_2">> \in Moves
    BY <1>11, MovesAre
  <2>2. QED
    BY <1>11, <2>1, MoveTo
<1>12. ASSUME p.state = "expecting_newline_2", c = "LF"
      PROVE  q.state = "header_line_start" /\ (Headed(q) <=> Headed(p))
  <2>1. <<p.state, c, "header_line_start">> \in Moves
    BY <1>12, MovesAre
  <2>2. QED
    BY <1>12, <2>1, MoveTo
<1>13. ASSUME p.state = "expecting_newline_3", c = "LF"
      PROVE  q.state = "true"
  <2>1. <<p.state, c, "true">> \in Moves
    BY <1>13, MovesAre
  <2>2. QED
    BY <1>13, <2>1, MoveTo
<1>14. QED
  BY <1>1, <1>2, <1>3, <1>4, <1>5, <1>6, <1>7, <1>8, <1>9, <1>10, <1>11, <1>12, <1>13 DEF FieldTable

\* Where the parser is after n characters of a request line that ends before b.
OnLine(i, j, k, b, n, p) ==
    /\ n = 0 => p.state = "method_start"
    /\ 0 < n /\ n < i => p.state = "method"
    /\ i <= n /\ n < j => p.state = "uri"
    /\ n = j => p.state = "http_version_h"
    /\ n = j + 1 => p.state = "http_version_t_1"
    /\ n = j + 2 => p.state = "http_version_t_2"
    /\ n = j + 3 => p.state = "http_version_p"
    /\ n = j + 4 => p.state = "http_version_slash"
    /\ n = j + 5 => p.state = "http_version_major_start"
    /\ j + 5 < n /\ n < k => p.state = "http_version_major"
    /\ n = k => p.state = "http_version_minor_start"
    /\ k < n /\ n < b - 1 => p.state = "http_version_minor"
    /\ n = b - 1 => p.state = "expecting_newline_1"

\* One more character of a request line.
LEMMA StepLine ==
    ASSUME NEW t, NEW b \in Nat, NEW n \in Nat, n < b, NEW i \in Nat, NEW j \in Nat, NEW k \in Nat,
           LineTo(t, i, j, k, b - 2), t[b - 1] = "CR", t[b] = "LF",
           NEW p \in Parsers, NEW c \in Classes, c = t[n + 1], OnLine(i, j, k, b, n, p),
           NEW q, q = Consumes(p, c)
    PROVE  /\ n < b - 1 => OnLine(i, j, k, b, n + 1, q)
           /\ n = b - 1 => q.state = "header_line_start"
<1>1. /\ 1 < i /\ i < j /\ j + 6 < k /\ k < b - 2
      /\ t[i] = "sp" /\ t[j] = "sp" /\ t[k] = "."
      /\ t[j + 1] = "H" /\ t[j + 2] = "T" /\ t[j + 3] = "T" /\ t[j + 4] = "P" /\ t[j + 5] = "/"
  BY DEF LineTo, MajorTo, HttpAt, UriTo
<1>2. /\ \A x \in 1 .. i - 1 : t[x] \in Token
      /\ \A x \in i + 1 .. j - 1 : t[x] \in Printable \ {"sp"}
      /\ \A x \in j + 6 .. k - 1 : t[x] \in Digit
      /\ \A x \in k + 1 .. b - 2 : t[x] \in Digit
  BY DEF LineTo, MajorTo, HttpAt, UriTo, Within
<1>3. FirstTable(p, c, q)
  BY FirstMoves
<1>4. CASE n = 0
  <2>1. p.state = "method_start" /\ c \in Token
    BY <1>1, <1>2, <1>4 DEF OnLine
  <2>2. q.state = "method"
    BY <1>3, <2>1 DEF FirstTable
  <2>3. QED
    BY <1>1, <1>4, <2>2 DEF OnLine
<1>5. CASE 0 < n /\ n < i
  <2>1. p.state = "method"
    BY <1>5 DEF OnLine
  <2>2. n + 1 < i => c \in Token
    BY <1>2, <1>5
  <2>3. n + 1 < i => q.state = "method"
    BY <1>3, <2>1, <2>2 DEF FirstTable
  <2>4. n + 1 = i => q.state = "uri"
    BY <1>3, <1>1, <2>1 DEF FirstTable
  <2>5. QED
    BY <1>1, <1>5, <2>3, <2>4 DEF OnLine
<1>6. CASE i <= n /\ n < j
  <2>1. p.state = "uri"
    BY <1>6 DEF OnLine
  <2>2. n + 1 < j => c \in Printable \ {"sp"}
    BY <1>2, <1>6
  <2>3. n + 1 < j => q.state = "uri"
    BY <1>3, <2>1, <2>2 DEF FirstTable
  <2>4. n + 1 = j => q.state = "http_version_h"
    BY <1>3, <1>1, <2>1 DEF FirstTable
  <2>5. QED
    BY <1>1, <1>6, <2>3, <2>4 DEF OnLine
<1>7. CASE j <= n /\ n < j + 5
  <2>1. n = j => p.state = "http_version_h" /\ c = "H" /\ q.state = "http_version_t_1"
    BY <1>3, <1>1 DEF OnLine, FirstTable
  <2>2. n = j + 1 => p.state = "http_version_t_1" /\ c = "T" /\ q.state = "http_version_t_2"
    BY <1>3, <1>1 DEF OnLine, FirstTable
  <2>3. n = j + 2 => p.state = "http_version_t_2" /\ c = "T" /\ q.state = "http_version_p"
    BY <1>3, <1>1 DEF OnLine, FirstTable
  <2>4. n = j + 3 => p.state = "http_version_p" /\ c = "P" /\ q.state = "http_version_slash"
    BY <1>3, <1>1 DEF OnLine, FirstTable
  <2>5. n = j + 4 => p.state = "http_version_slash" /\ c = "/" /\ q.state = "http_version_major_start"
    BY <1>3, <1>1 DEF OnLine, FirstTable
  <2>6. QED
    BY <1>1, <1>7, <2>1, <2>2, <2>3, <2>4, <2>5 DEF OnLine
<1>8. CASE j + 5 <= n /\ n < k
  <2>1. n = j + 5 => p.state = "http_version_major_start" /\ c \in Digit
    BY <1>1, <1>2 DEF OnLine
  <2>2. j + 5 < n => p.state = "http_version_major"
    BY <1>8 DEF OnLine
  <2>3. n + 1 < k => c \in Digit
    BY <1>2, <1>8
  <2>4. n + 1 < k => q.state = "http_version_major"
    BY <1>3, <1>8, <2>1, <2>2, <2>3 DEF FirstTable
  <2>5. n + 1 = k => q.state = "http_version_minor_start"
    BY <1>3, <1>1, <2>2 DEF FirstTable
  <2>6. QED
    BY <1>1, <1>8, <2>4, <2>5 DEF OnLine
<1>9. CASE k <= n /\ n < b - 1
  <2>1. n = k => p.state = "http_version_minor_start"
    BY DEF OnLine
  <2>2. k < n => p.state = "http_version_minor"
    BY <1>9 DEF OnLine
  <2>3. n + 1 < b - 1 => c \in Digit
    BY <1>2, <1>9
  <2>4. n + 1 < b - 1 => q.state = "http_version_minor"
    BY <1>3, <1>9, <2>1, <2>2, <2>3 DEF FirstTable
  <2>5. n + 1 = b - 1 => k < n /\ c = "CR"
    BY <1>1
  <2>6. n + 1 = b - 1 => q.state = "expecting_newline_1"
    BY <1>3, <2>2, <2>5 DEF FirstTable
  <2>7. QED
    BY <1>1, <1>9, <2>4, <2>6 DEF OnLine
<1>10. CASE n = b - 1
  <2>1. p.state = "expecting_newline_1" /\ c = "LF"
    BY <1>10 DEF OnLine
  <2>2. QED
    BY <1>3, <1>10, <2>1 DEF FirstTable
<1>11. QED
  BY <1>1, <1>4, <1>5, <1>6, <1>7, <1>8, <1>9, <1>10

\* Where it is after the characters from a + 1 to n of a header that ends before b.
OnHeader(a, i, b, n, p) ==
    /\ n = a => p.state = "header_line_start"
    /\ a < n => Headed(p)
    /\ a < n /\ n < i => p.state = "header_name"
    /\ n = i => p.state = "space_before_header_value"
    /\ i < n /\ n < b - 1 => p.state = "header_value"
    /\ n = b - 1 => p.state = "expecting_newline_2"

\* One more character of a header.
LEMMA StepHeader ==
    ASSUME NEW t, NEW a \in Nat, NEW b \in Nat, NEW n \in Nat, a <= n, n < b, NEW i \in Nat,
           HeaderTo(t, a, i, b - 2), t[b - 1] = "CR", t[b] = "LF",
           NEW p \in Parsers, NEW c \in Classes, c = t[n + 1], OnHeader(a, i, b, n, p),
           NEW q, q = Consumes(p, c)
    PROVE  /\ n < b - 1 => OnHeader(a, i, b, n + 1, q)
           /\ n = b - 1 => q.state = "header_line_start" /\ Headed(q)
<1>1. a + 1 < i /\ i < b - 2 /\ t[i] = ":" /\ t[i + 1] = "sp"
  BY DEF HeaderTo
<1>2. /\ \A x \in a + 1 .. i - 1 : t[x] \in Token
      /\ \A x \in i + 2 .. b - 2 : t[x] \in Printable
  BY DEF HeaderTo, Within
<1>3. FieldTable(p, c, q)
  BY FieldMoves
<1>4. CASE n = a
  <2>1. p.state = "header_line_start" /\ c \in Token
    BY <1>1, <1>2, <1>4 DEF OnHeader
  <2>2. q.state = "header_name" /\ Headed(q)
    BY <1>3, <2>1, ClassFacts DEF FieldTable
  <2>3. QED
    BY <1>1, <1>4, <2>2 DEF OnHeader
<1>5. CASE a < n /\ n < i
  <2>1. p.state = "header_name" /\ Headed(p)
    BY <1>5 DEF OnHeader
  <2>2. n + 1 < i => c \in Token
    BY <1>2, <1>5
  <2>3. n + 1 < i => q.state = "header_name" /\ Headed(q)
    BY <1>3, <2>1, <2>2 DEF FieldTable
  <2>4. n + 1 = i => q.state = "space_before_header_value" /\ Headed(q)
    BY <1>3, <1>1, <2>1 DEF FieldTable
  <2>5. QED
    BY <1>1, <1>5, <2>3, <2>4 DEF OnHeader
<1>6. CASE n = i
  <2>1. p.state = "space_before_header_value" /\ c = "sp" /\ Headed(p)
    BY <1>1, <1>6 DEF OnHeader
  <2>2. q.state = "header_value" /\ Headed(q)
    BY <1>3, <2>1 DEF FieldTable
  <2>3. QED
    BY <1>1, <1>6, <2>2 DEF OnHeader
<1>7. CASE i < n /\ n < b - 1
  <2>1. p.state = "header_value" /\ Headed(p)
    BY <1>1, <1>7 DEF OnHeader
  <2>2. n + 1 < b - 1 => c \in Printable
    BY <1>2, <1>7
  <2>3. n + 1 < b - 1 => q.state = "header_value" /\ Headed(q)
    BY <1>3, <2>1, <2>2 DEF FieldTable
  <2>4. n + 1 = b - 1 => q.state = "expecting_newline_2" /\ Headed(q)
    BY <1>3, <2>1 DEF FieldTable
  <2>5. QED
    BY <1>1, <1>7, <2>3, <2>4 DEF OnHeader
<1>8. CASE n = b - 1
  <2>1. p.state = "expecting_newline_2" /\ Headed(p) /\ c = "LF"
    BY <1>1, <1>8 DEF OnHeader
  <2>2. QED
    BY <1>3, <1>8, <2>1 DEF FieldTable
<1>9. QED
  BY <1>1, <1>4, <1>5, <1>6, <1>7, <1>8

\* The same for a line that goes on with the header before it.
OnContinuation(a, i, b, n, p) ==
    /\ Headed(p)
    /\ n = a => p.state = "header_line_start"
    /\ a < n /\ n <= i => p.state = "header_lws"
    /\ i < n /\ n < b - 1 => p.state \in {"header_lws", "header_value"}
    /\ n = b - 1 => p.state = "expecting_newline_2"

\* One more character of a continuation.
LEMMA StepContinuation ==
    ASSUME NEW t, NEW a \in Nat, NEW b \in Nat, NEW n \in Nat, a <= n, n < b, NEW i \in Nat,
           ContinuationTo(t, a, i, b - 2), t[b - 1] = "CR", t[b] = "LF",
           NEW p \in Parsers, NEW c \in Classes, c = t[n + 1], OnContinuation(a, i, b, n, p),
           NEW q, q = Consumes(p, c)
    PROVE  /\ n < b - 1 => OnContinuation(a, i, b, n + 1, q)
           /\ n = b - 1 => q.state = "header_line_start" /\ Headed(q)
<1>1. a < i /\ i <= b - 2 /\ Headed(p)
  BY DEF ContinuationTo, OnContinuation
<1>2. /\ \A x \in a + 1 .. i : t[x] \in Blanks
      /\ \A x \in i + 1 .. b - 2 : t[x] \in Printable
  BY DEF ContinuationTo, Within
<1>3. FieldTable(p, c, q)
  BY FieldMoves
<1>4. CASE n < i
  <2>1. p.state \in {"header_line_start", "header_lws"} /\ c \in Blanks
    BY <1>2, <1>4 DEF OnContinuation
  <2>2. q.state = "header_lws" /\ Headed(q)
    BY <1>3, <1>1, <2>1 DEF Blanks, FieldTable
  <2>3. QED
    BY <1>1, <1>4, <2>2 DEF OnContinuation
<1>5. CASE i <= n /\ n < b - 1
  <2>1. p.state \in {"header_lws", "header_value"}
    BY <1>1, <1>5 DEF OnContinuation
  <2>2. n + 1 < b - 1 => c \in Printable
    BY <1>2, <1>5
  <2>3. n + 1 < b - 1 => q.state \in {"header_lws", "header_value"} /\ Headed(q)
    BY <1>3, <1>1, <2>1, <2>2 DEF Blanks, FieldTable
  <2>4. n + 1 = b - 1 => q.state = "expecting_newline_2" /\ Headed(q)
    BY <1>3, <1>1, <2>1 DEF FieldTable
  <2>5. QED
    BY <1>1, <1>5, <2>3, <2>4 DEF OnContinuation
<1>6. CASE n = b - 1
  <2>1. p.state = "expecting_newline_2" /\ c = "LF"
    BY <1>6 DEF OnContinuation
  <2>2. QED
    BY <1>3, <1>1, <1>6, <2>1 DEF FieldTable
<1>7. QED
  BY <1>1, <1>4, <1>5, <1>6

----------------------------------------------------------------------------
(* What its state is within a request. *)

\* Where a parser is after n characters of t, in the line between the ends a and b.
On(t, a, b, n, p) ==
    /\ a = 0 => \A i, j, k \in Nat : LineTo(t, i, j, k, b - 2) => OnLine(i, j, k, b, n, p)
    /\ a # 0 /\ n = a => p.state = "header_line_start" /\ (NotSecond(t, a) => Headed(p))
    /\ a # 0 /\ a # Len(t) - 2 =>
         /\ \A i \in Nat : HeaderTo(t, a, i, b - 2) => OnHeader(a, i, b, n, p)
         /\ NotSecond(t, a) =>
              \A i \in Nat : ContinuationTo(t, a, i, b - 2) => OnContinuation(a, i, b, n, p)
    /\ a = Len(t) - 2 /\ n = a + 1 => p.state = "expecting_newline_3"

\* A new parser is at the start of the first line.
LEMMA StartOn ==
    ASSUME NEW t, NEW a \in Nat, NEW b \in Nat, a < b, a # 0, NEW p,
           p.state = "header_line_start", NotSecond(t, a) => Headed(p)
    PROVE  On(t, a, b, a, p)
<1>1. ASSUME NEW i \in Nat, HeaderTo(t, a, i, b - 2) PROVE OnHeader(a, i, b, a, p)
  BY <1>1 DEF HeaderTo, OnHeader
<1>2. ASSUME NotSecond(t, a), NEW i \in Nat, ContinuationTo(t, a, i, b - 2)
      PROVE  OnContinuation(a, i, b, a, p)
  BY <1>2 DEF ContinuationTo, OnContinuation
<1>3. QED
  BY <1>1, <1>2 DEF On

\* The end before a place, and the one after it.
LEMMA AroundIs ==
    ASSUME NEW t \in Seq(Classes), Complete(t), NEW n \in Nat, n < Len(t)
    PROVE  \E a, b \in Nat : Follow(t, a, b) /\ a <= n /\ n < b /\ b <= Len(t)
<1>1. Len(t) \in Nat /\ Len(t) \in LineEnds(t)
  BY LenProperties DEF Complete
<1>2. LineEnds(t) \subseteq Nat /\ 0 \in LineEnds(t) /\ \A k \in LineEnds(t) : k <= Len(t)
  BY <1>1, EndsAre
<1> DEFINE B == {k \in LineEnds(t) : k <= n}
           A == {k \in LineEnds(t) : k > n}
<1>3. PICK a \in B : \A k \in B : k <= a
  <2>1. B \subseteq Nat /\ B # {} /\ \A k \in B : k <= n
    BY <1>2
  <2> HIDE DEF B
  <2>2. QED
    BY <2>1, Greatest
<1>4. PICK b \in A : \A k \in A : b <= k
  <2>1. A \subseteq Nat /\ A # {}
    BY <1>1, <1>2
  <2> HIDE DEF A
  <2>2. QED
    BY <2>1, Least
<1>5. \A k \in LineEnds(t) : ~(a < k /\ k < b)
  BY <1>2, <1>3, <1>4
<1>6. a \in Nat /\ b \in Nat /\ a <= n /\ n < b /\ b <= Len(t)
  BY <1>2, <1>3, <1>4
<1>7. Follow(t, a, b)
  BY <1>3, <1>4, <1>5, <1>6 DEF Follow
<1>8. QED
  BY <1>6, <1>7

\* The last line, which is empty.
LEMMA LastLine ==
    ASSUME NEW t \in Seq(Classes), Complete(t)
    PROVE  /\ Len(t) \in Nat /\ Len(t) >= 4
           /\ t[Len(t) - 1] = "CR" /\ t[Len(t)] = "LF"
           /\ Follow(t, Len(t) - 2, Len(t))
           /\ \A a, b \in Nat : Follow(t, a, b) =>
                /\ b <= Len(t) /\ a < b /\ t[b - 1] = "CR" /\ t[b] = "LF"
                /\ a = Len(t) - 2 => b = Len(t)
                /\ a # Len(t) - 2 => LineOK(t, a, b)
<1>1. Len(t) \in Nat /\ Len(t) >= 4 /\ Len(t) \in LineEnds(t) /\ Len(t) - 2 \in LineEnds(t)
  BY LenProperties DEF Complete
<1>2. \A k : k \in LineEnds(t) <=> k = 0 \/ (k \in 2 .. Len(t) /\ t[k - 1] = "CR" /\ t[k] = "LF")
  BY EndsAre
<1>3. t[Len(t) - 1] = "CR" /\ t[Len(t)] = "LF"
  BY <1>1, <1>2
<1>4. Len(t) - 1 \notin LineEnds(t)
  BY <1>1, <1>2, <1>3
<1>5. \A k \in LineEnds(t) : k \in Nat /\ k <= Len(t) /\ ~(Len(t) - 2 < k /\ k < Len(t))
  BY <1>1, <1>2, <1>4
<1>6. Follow(t, Len(t) - 2, Len(t))
  BY <1>1, <1>5 DEF Follow
<1>7. ASSUME NEW a \in Nat, NEW b \in Nat, Follow(t, a, b)
      PROVE  /\ b <= Len(t) /\ a < b /\ t[b - 1] = "CR" /\ t[b] = "LF"
             /\ a = Len(t) - 2 => b = Len(t)
             /\ a # Len(t) - 2 => LineOK(t, a, b)
  <2>1. a < b /\ b \in LineEnds(t)
    BY <1>7 DEF Follow
  <2>2. b # 0
    BY <2>1
  <2>3. b <= Len(t) /\ t[b - 1] = "CR" /\ t[b] = "LF"
    BY <1>2, <1>5, <2>1, <2>2
  <2>4. a = Len(t) - 2 => b = Len(t)
    BY <1>1, <1>5, <2>1, <2>3
  <2>5. a # Len(t) - 2 => LineOK(t, a, b)
    BY <1>7 DEF Complete
  <2>6. QED
    BY <2>1, <2>3, <2>4, <2>5
<1>8. QED
  BY <1>1, <1>3, <1>6, <1>7

\* One more character of the same line.
LEMMA StepOn ==
    ASSUME NEW t \in Seq(Classes), Complete(t), NEW a \in Nat, NEW b \in Nat, Follow(t, a, b),
           NEW n \in Nat, a <= n, n + 1 < b, NEW p \in Parsers, NEW c \in Classes, c = t[n + 1],
           On(t, a, b, n, p), NEW q, q = Consumes(p, c)
    PROVE  On(t, a, b, n + 1, q)
<1>1. /\ b <= Len(t) /\ t[b - 1] = "CR" /\ t[b] = "LF" /\ Len(t) \in Nat
      /\ a = Len(t) - 2 => b = Len(t)
      /\ t[Len(t) - 1] = "CR"
  BY LastLine
<1>2. n < b /\ n < b - 1
  OBVIOUS
<1>3. ASSUME a = 0, NEW i \in Nat, NEW j \in Nat, NEW k \in Nat, LineTo(t, i, j, k, b - 2)
      PROVE  OnLine(i, j, k, b, n + 1, q)
  <2>1. OnLine(i, j, k, b, n, p)
    BY <1>3 DEF On
  <2>2. QED
    BY <1>1, <1>2, <1>3, <2>1, StepLine
<1>4. ASSUME a # 0, a # Len(t) - 2, NEW i \in Nat, HeaderTo(t, a, i, b - 2)
      PROVE  OnHeader(a, i, b, n + 1, q)
  <2>1. OnHeader(a, i, b, n, p)
    BY <1>4 DEF On
  <2>2. QED
    BY <1>1, <1>2, <1>4, <2>1, StepHeader
<1>5. ASSUME a # 0, a # Len(t) - 2, NotSecond(t, a), NEW i \in Nat, ContinuationTo(t, a, i, b - 2)
      PROVE  OnContinuation(a, i, b, n + 1, q)
  <2>1. OnContinuation(a, i, b, n, p)
    BY <1>5 DEF On
  <2>2. QED
    BY <1>1, <1>2, <1>5, <2>1, StepContinuation
<1>6. ASSUME a = Len(t) - 2, n + 1 = a + 1 PROVE q.state = "expecting_newline_3"
  <2>1. n = a /\ a # 0 /\ c = "CR"
    <3>1. Len(t) >= 4
      BY DEF Complete
    <3>2. QED
      BY <1>1, <1>6, <3>1
  <2>2. p.state = "header_line_start"
    BY <2>1 DEF On
  <2>3. FieldTable(p, c, q)
    BY FieldMoves
  <2>4. QED
    BY <2>1, <2>2, <2>3 DEF FieldTable
<1>7. n + 1 # a
  OBVIOUS
<1>8. QED
  BY <1>3, <1>4, <1>5, <1>6, <1>7 DEF On

\* The last character of a line that is not the last one.
LEMMA LineEndsOn ==
    ASSUME NEW t \in Seq(Classes), Complete(t), NEW a \in Nat, NEW b \in Nat, Follow(t, a, b),
           a # Len(t) - 2, NEW n \in Nat, n + 1 = b, NEW p \in Parsers, NEW c \in Classes, c = t[n + 1],
           On(t, a, b, n, p), NEW q, q = Consumes(p, c)
    PROVE  q.state = "header_line_start" /\ (a # 0 => Headed(q))
<1>1. /\ b <= Len(t) /\ t[b - 1] = "CR" /\ t[b] = "LF" /\ Len(t) \in Nat
      /\ a < b /\ LineOK(t, a, b)
  BY LastLine
<1>2. n < b /\ n = b - 1 /\ a <= n
  BY <1>1
<1>3. CASE a = 0
  <2>1. PICK i \in Nat, j \in Nat, k \in Nat : LineTo(t, i, j, k, b - 2)
    BY <1>1, <1>3 DEF LineOK
  <2>2. OnLine(i, j, k, b, n, p)
    BY <1>3, <2>1 DEF On
  <2>3. QED
    BY <1>1, <1>2, <1>3, <2>1, <2>2, StepLine, SMTT(30)
<1>4. CASE a # 0
  <2>1. FieldTo(t, a, b - 2)
    BY <1>1, <1>4 DEF LineOK
  <2>2. CASE \E i \in Nat : HeaderTo(t, a, i, b - 2)
    <3>1. PICK i \in Nat : HeaderTo(t, a, i, b - 2)
      BY <2>2
    <3>2. OnHeader(a, i, b, n, p)
      BY <1>4, <3>1 DEF On
    <3>3. QED
      BY <1>1, <1>2, <3>1, <3>2, StepHeader
  <2>3. CASE (\E i \in Nat : ContinuationTo(t, a, i, b - 2)) /\ NotSecond(t, a)
    <3>1. PICK i \in Nat : ContinuationTo(t, a, i, b - 2)
      BY <2>3
    <3>2. OnContinuation(a, i, b, n, p)
      BY <1>4, <2>3, <3>1 DEF On
    <3>3. QED
      BY <1>1, <1>2, <3>1, <3>2, StepContinuation
  <2>4. QED
    BY <2>1, <2>2, <2>3 DEF FieldTo
<1>5. QED
  BY <1>3, <1>4

\* Within a request nothing is decided.
LEMMA OnUndecided ==
    ASSUME NEW t \in Seq(Classes), Complete(t), NEW a \in Nat, NEW b \in Nat, Follow(t, a, b),
           NEW n \in Nat, a <= n, n < b, NEW p, On(t, a, b, n, p)
    PROVE  p.state \notin Final
<1>1. /\ b <= Len(t) /\ Len(t) \in Nat
      /\ a = Len(t) - 2 => b = Len(t)
      /\ a # Len(t) - 2 => LineOK(t, a, b)
      /\ Len(t) >= 4
  BY LastLine
<1>2. CASE a = Len(t) - 2
  <2>1. n = a \/ n = a + 1
    BY <1>1, <1>2
  <2>2. a # 0
    BY <1>1, <1>2
  <2>3. p.state \in {"header_line_start", "expecting_newline_3"}
    BY <1>2, <2>1, <2>2 DEF On
  <2>4. QED
    BY <2>3 DEF Final
<1>3. CASE a = 0
  <2>0. LineOK(t, a, b)
    <3> DEFINE N == Len(t)
    <3>1. N \in Nat /\ N >= 4 /\ (a # N - 2 => LineOK(t, a, b))
      BY <1>1
    <3> HIDE DEF N
    <3>2. a # N - 2
      BY <1>3, <3>1
    <3>3. QED
      BY <3>1, <3>2
  <2>1. PICK i \in Nat, j \in Nat, k \in Nat : LineTo(t, i, j, k, b - 2)
    BY <1>3, <2>0 DEF LineOK
  <2>2. OnLine(i, j, k, b, n, p)
    BY <1>3, <2>1 DEF On
  <2>3. 1 < i /\ i < j /\ j + 6 < k /\ k < b - 2
    BY <2>1 DEF LineTo, MajorTo, HttpAt, UriTo
  <2>4. QED
    BY <2>2, <2>3 DEF OnLine, Final
<1>4. CASE a # 0 /\ a # Len(t) - 2
  <2>1. FieldTo(t, a, b - 2)
    BY <1>1, <1>4 DEF LineOK
  <2>2. CASE \E i \in Nat : HeaderTo(t, a, i, b - 2)
    <3>1. PICK i \in Nat : HeaderTo(t, a, i, b - 2)
      BY <2>2
    <3>2. OnHeader(a, i, b, n, p) /\ a < i
      BY <1>4, <3>1 DEF On, HeaderTo
    <3>3. QED
      BY <3>2 DEF OnHeader, Final
  <2>3. CASE (\E i \in Nat : ContinuationTo(t, a, i, b - 2)) /\ NotSecond(t, a)
    <3>1. PICK i \in Nat : ContinuationTo(t, a, i, b - 2)
      BY <2>3
    <3>2. OnContinuation(a, i, b, n, p)
      BY <1>4, <2>3, <3>1 DEF On
    <3>3. QED
      BY <3>2 DEF OnContinuation, Final
  <2>4. QED
    BY <2>1, <2>2, <2>3 DEF FieldTo
<1>5. QED
  BY <1>2, <1>3, <1>4

\* A new parser is done at the end of every request, and not before.
LEMMA Accepted ==
    ASSUME NEW t \in Seq(Classes), Complete(t), NEW r, IsRun(r, NewParser, t)
    PROVE  /\ r[Len(t)].state = "true"
           /\ \A n \in Nat : n < Len(t) => r[n].state \notin Final
<1> DEFINE N == Len(t)
           At(n) == \A a, b \in Nat : Follow(t, a, b) /\ a <= n /\ n < b => On(t, a, b, n, r[n])
           T == {n \in Nat : n < N => At(n)}
<1>1. /\ N \in Nat /\ N >= 4 /\ t[N - 1] = "CR" /\ t[N] = "LF" /\ Follow(t, N - 2, N)
      /\ \A a, b \in Nat : Follow(t, a, b) =>
            /\ b <= N /\ a < b /\ t[b - 1] = "CR" /\ t[b] = "LF"
            /\ a = N - 2 => b = N
            /\ a # N - 2 => LineOK(t, a, b)
  BY LastLine
<1>2. /\ r[0] = NewParser /\ \A n \in 0 .. N : r[n] \in Parsers
      /\ \A n \in 1 .. N : r[n] = Consumes(r[n - 1], t[n])
  BY DEF IsRun
<1>3. \A n \in 1 .. N : t[n] \in Classes
  BY LenProperties
<1> HIDE DEF N
<1>4. 0 \in T
  <2>1. ASSUME NEW b \in Nat, NEW i \in Nat, NEW j \in Nat, NEW k \in Nat, LineTo(t, i, j, k, b - 2)
        PROVE  OnLine(i, j, k, b, 0, NewParser)
    <3>1. 1 < i /\ i < j /\ j + 6 < k /\ k < b - 2
      BY <2>1 DEF LineTo, MajorTo, HttpAt, UriTo
    <3>2. NewParser.state = "method_start"
      BY DEF NewParser
    <3>3. QED
      BY <3>1, <3>2 DEF OnLine
  <2>2. ASSUME NEW a \in Nat, NEW b \in Nat, Follow(t, a, b), a <= 0 PROVE On(t, a, b, 0, r[0])
    <3>1. a = 0 /\ a # N - 2
      BY <1>1, <2>2
    <3>2. QED
      BY <1>2, <2>1, <3>1 DEF On, N
  <2>3. QED
    BY <2>2
<1>5. ASSUME NEW n \in Nat, n \in T PROVE n + 1 \in T
  <2> SUFFICES ASSUME n + 1 < N, NEW a \in Nat, NEW b \in Nat, Follow(t, a, b), a <= n + 1, n + 1 < b
               PROVE  On(t, a, b, n + 1, r[n + 1])
    OBVIOUS
  <2>1. /\ n + 1 \in 1 .. N /\ n \in 0 .. N /\ (n + 1) - 1 = n /\ n < N
    BY <1>1
  <2>2. /\ r[n] \in Parsers /\ r[n + 1] = Consumes(r[n], t[n + 1]) /\ t[n + 1] \in Classes
        /\ At(n)
    BY <1>2, <1>3, <1>5, <2>1
  <2>3. CASE a <= n
    <3>1. On(t, a, b, n, r[n])
      BY <2>2, <2>3
    <3>2. QED
      BY <2>2, <2>3, <3>1, StepOn
  <2>4. CASE a = n + 1
    <3>1. PICK y \in Nat, z \in Nat : Follow(t, y, z) /\ y <= n /\ n < z
      BY <2>1, AroundIs DEF N
    <3>2. z = n + 1 /\ a \in LineEnds(t) /\ b <= N
      <4>1. ~(y < a /\ a < z) /\ a \in LineEnds(t) /\ b <= N
        BY <1>1, <3>1 DEF Follow
      <4>2. QED
        BY <2>4, <3>1, <4>1
    <3>3. y # N - 2
      <4>1. y = N - 2 => z = N
        BY <1>1, <3>1
      <4>2. QED
        BY <1>1, <2>1, <3>2, <4>1
    <3>4. On(t, y, z, n, r[n])
      BY <2>2, <3>1
    <3>5. r[n + 1].state = "header_line_start" /\ (y # 0 => Headed(r[n + 1]))
      BY <2>2, <3>1, <3>2, <3>3, <3>4, LineEndsOn DEF N
    <3>6. NotSecond(t, a) => y # 0
      BY <2>4, <3>1, <3>2 DEF Follow, NotSecond
    <3>7. a < b /\ a # 0
      BY <2>4
    <3>8. On(t, a, b, a, r[n + 1])
      BY <3>5, <3>6, <3>7, StartOn
    <3>9. QED
      BY <2>4, <3>8
  <2>5. QED
    BY <2>3, <2>4
<1>6. Nat \subseteq T
  <2> HIDE DEF T
  <2>1. QED
    BY <1>4, <1>5, EveryNumber
<1>7. ASSUME NEW n \in Nat, n < N PROVE r[n].state \notin Final
  <2>1. At(n)
    BY <1>6, <1>7
  <2>2. PICK a \in Nat, b \in Nat : Follow(t, a, b) /\ a <= n /\ n < b
    BY <1>7, AroundIs DEF N
  <2>3. QED
    BY <2>1, <2>2, OnUndecided
<1>8. r[N].state = "true"
  <2>1. /\ N - 1 \in Nat /\ N - 2 \in Nat /\ N - 1 < N /\ N - 2 <= N - 1 /\ N - 1 = (N - 2) + 1
        /\ N \in 1 .. N /\ N - 1 \in 0 .. N
    BY <1>1
  <2>2. At(N - 1)
    BY <1>6, <2>1
  <2>3. On(t, N - 2, N, N - 1, r[N - 1])
    BY <1>1, <2>1, <2>2
  <2>4. r[N - 1].state = "expecting_newline_3"
    BY <2>1, <2>3 DEF On, N
  <2>5. r[N] = Consumes(r[N - 1], "LF") /\ r[N - 1] \in Parsers /\ "LF" \in Classes
    BY <1>1, <1>2, <1>3, <2>1
  <2>6. FieldTable(r[N - 1], "LF", r[N])
    BY <2>5, FieldMoves
  <2>7. QED
    BY <2>4, <2>6 DEF FieldTable
<1>9. QED
  BY <1>7, <1>8 DEF N

----------------------------------------------------------------------------
(* A parser is done only at the end of a request. *)

\* The parser of a new connection.
LEMMA NewParserFacts ==
    /\ NewParser \in Parsers /\ NewParser.state = "method_start"
    /\ NewParser.state \notin Final /\ ~Headed(NewParser)
<1>1. NewParser \in Parsers /\ NewParser.state = "method_start"
  BY StatesAre DEF NewParser, Parsers
<1>2. ~Headed(NewParser)
  BY DEF NewParser, Headed
<1>3. QED
  BY <1>1, <1>2 DEF Final

\* A new parser that is done at the end of a text has read a request.
LEMMA OnlyRequests ==
    ASSUME NEW t \in Seq(Classes), NEW r, IsRun(r, NewParser, t),
           r[Len(t)].state = "true", \A n \in Nat : n < Len(t) => r[n].state \notin Final
    PROVE  Complete(t)
<1> DEFINE N == Len(t)
           T == {n \in Nat : n < N => \E s : HasRead(t, s, n, r[n])}
<1>1. /\ N \in Nat /\ r[0] = NewParser /\ \A n \in 0 .. N : r[n] \in Parsers
      /\ \A n \in 1 .. N : r[n] = Consumes(r[n - 1], t[n])
  BY LenProperties DEF IsRun
<1>2. \A n \in Nat : n < N => r[n].state \notin Final
  OBVIOUS
<1> HIDE DEF N
<1>3. 0 \in T
  <2>1. LineEnds(t) \subseteq Nat /\ 0 \in LineEnds(t)
    BY <1>1, EndsAre DEF N
  <2>2. IsStart(t, 0, 0)
    BY <2>1 DEF IsStart
  <2>3. Seen(t, 0, 0, NewParser)
    BY NewParserFacts DEF Seen, SeenFirst, FirstLine
  <2>4. \A a, b \in Nat : ~(Follow(t, a, b) /\ b <= 0)
    BY DEF Follow
  <2>5. HasRead(t, 0, 0, r[0])
    BY <1>1, <2>2, <2>3, <2>4 DEF HasRead
  <2>6. QED
    BY <2>5
<1>4. ASSUME NEW n \in Nat, n \in T PROVE n + 1 \in T
  <2> SUFFICES ASSUME n + 1 < N PROVE \E s : HasRead(t, s, n + 1, r[n + 1])
    OBVIOUS
  <2>1. n < N /\ n \in 0 .. N /\ n + 1 \in 1 .. N /\ (n + 1) - 1 = n
    BY <1>1
  <2>2. PICK s : HasRead(t, s, n, r[n])
    BY <1>4, <2>1
  <2>3. r[n] \in Parsers /\ r[n].state \notin Final /\ r[n + 1].state \notin Final
        /\ r[n + 1] = Consumes(r[n], t[n + 1])
    BY <1>1, <1>2, <2>1
  <2>4. QED
    BY <2>1, <2>2, <2>3, StepRead DEF N
<1>5. Nat \subseteq T
  <2> HIDE DEF T
  <2>1. QED
    BY <1>3, <1>4, EveryNumber
<1>6. N # 0
  BY <1>1, NewParserFacts DEF N, Final
<1> DEFINE n == N - 1
<1>7. n \in Nat /\ n < N /\ n + 1 = N /\ n \in 0 .. N /\ N \in 1 .. N
  BY <1>1, <1>6
<1> HIDE DEF n
<1>8. PICK s : HasRead(t, s, n, r[n])
  BY <1>5, <1>7
<1>9. r[n] \in Parsers /\ r[n].state \notin Final /\ Consumes(r[n], t[n + 1]).state = "true"
  <2>1. r[N] = Consumes(r[N - 1], t[N]) /\ N - 1 = n
    BY <1>1, <1>7
  <2>2. QED
    BY <1>1, <1>2, <1>7, <2>1 DEF N
<1>10. QED
  BY <1>7, <1>8, <1>9, EndRead DEF N

----------------------------------------------------------------------------
(* IsRequest, by the places of its characters. *)

\* A part of a text, and a part of it.
LEMMA PartIs ==
    ASSUME NEW t \in Seq(Classes), NEW s \in Nat, NEW e \in Nat, s <= e, e <= Len(t)
    PROVE  LET l == SubSeq(t, s + 1, e)
           IN  /\ l \in Seq(Classes) /\ Len(l) = e - s /\ DOMAIN l = 1 .. e - s
               /\ \A x \in 1 .. e - s : l[x] = t[s + x]
               /\ l = <<>> <=> s = e
<1> DEFINE l == SubSeq(t, s + 1, e)
<1>1. Len(t) \in Nat
  BY LenProperties
<1>2. /\ l \in Seq(Classes) /\ Len(l) = e - s /\ DOMAIN l = 1 .. e - s
      /\ \A x \in 1 .. e - s : l[x] = t[s + x]
  BY <1>1, SubSeqProperties
<1>3. l = <<>> <=> s = e
  BY <1>2, EmptySeq
<1>4. QED
  BY <1>2, <1>3

\* Over, of a part of a text, by the places in the text.
LEMMA OverPart ==
    ASSUME NEW t \in Seq(Classes), NEW s \in Nat, NEW e \in Nat, s <= e, e <= Len(t),
           NEW l, l = SubSeq(t, s + 1, e), NEW x \in Nat \ {0}, NEW y \in Nat, y <= e - s, NEW S
    PROVE  Over(SubSeq(l, x, y), S) <=> Within(t, s + x, s + y, S)
<1>1. /\ l \in Seq(Classes) /\ Len(l) = e - s
      /\ \A z \in 1 .. e - s : l[z] = t[s + z]
  BY PartIs
<1>2. CASE x <= y
  <2> DEFINE m == SubSeq(l, x, y)
  <2>1. DOMAIN m = 1 .. (y - x) + 1 /\ \A z \in 1 .. (y - x) + 1 : m[z] = l[x + z - 1]
    BY <1>1, <1>2, SubSeqProperties
  <2> HIDE DEF m
  <2>2. \A z \in 1 .. (y - x) + 1 : m[z] = t[s + x + z - 1] /\ s + x + z - 1 \in s + x .. s + y
    BY <1>1, <1>2, <2>1
  <2>3. \A w \in s + x .. s + y : w - (s + x) + 1 \in 1 .. (y - x) + 1 /\ m[w - (s + x) + 1] = t[w]
    <3> TAKE w \in s + x .. s + y
    <3> DEFINE z == w - (s + x) + 1
    <3>1. z \in 1 .. (y - x) + 1 /\ s + x + z - 1 = w
      BY <1>2
    <3> HIDE DEF z
    <3>2. m[z] = t[s + x + z - 1]
      BY <2>2, <3>1
    <3>3. QED
      BY <3>1, <3>2 DEF z
  <2>4. Over(m, S) <=> \A z \in 1 .. (y - x) + 1 : m[z] \in S
    BY <2>1 DEF Over
  <2>5. Over(m, S) <=> Within(t, s + x, s + y, S)
    BY <2>2, <2>3, <2>4 DEF Within
  <2>6. QED
    BY <2>5 DEF m
<1>3. CASE ~(x <= y)
  <2>1. SubSeq(l, x, y) = <<>>
    BY <1>1, <1>3, SubSeqProperties
  <2>2. s + x .. s + y = {}
    BY <1>3
  <2>3. Over(<<>>, S)
    BY DEF Over
  <2>4. Within(t, s + x, s + y, S)
    BY <2>2 DEF Within
  <2>5. QED
    BY <2>1, <2>3, <2>4
<1>4. QED
  BY <1>2, <1>3

\* IsHeader, by the places in the text.
LEMMA HeaderPart ==
    ASSUME NEW t \in Seq(Classes), NEW s \in Nat, NEW e \in Nat, s <= e, e <= Len(t)
    PROVE  IsHeader(SubSeq(t, s + 1, e)) <=> \E i \in Nat : HeaderTo(t, s, i, e)
<1> DEFINE l == SubSeq(t, s + 1, e)
<1>1. /\ Len(l) = e - s /\ DOMAIN l = 1 .. e - s
      /\ \A x \in 1 .. e - s : l[x] = t[s + x]
  <2>1. /\ SubSeq(t, s + 1, e) \in Seq(Classes) /\ Len(SubSeq(t, s + 1, e)) = e - s
        /\ DOMAIN SubSeq(t, s + 1, e) = 1 .. e - s
        /\ \A x \in 1 .. e - s : SubSeq(t, s + 1, e)[x] = t[s + x]
    BY PartIs
  <2>2. QED
    BY <2>1, Zenon
<1>2. \A S : \A x \in Nat \ {0} : \A y \in Nat :
        y <= e - s => (Over(SubSeq(l, x, y), S) <=> Within(t, s + x, s + y, S))
  BY OverPart, ZenonT(30)
<1> HIDE DEF l
<1>3. ASSUME NEW i \in 1 .. e - s, 1 < i, i < e - s
      PROVE  /\ l[i] = ":" /\ l[i + 1] = "sp" /\ Over(SubSeq(l, 1, i - 1), Token)
             /\ Over(SubSeq(l, i + 2, e - s), Printable)
             <=> HeaderTo(t, s, s + i, e)
  <2>1. l[i] = t[s + i] /\ l[i + 1] = t[s + i + 1]
    BY <1>1, <1>3
  <2>2. Over(SubSeq(l, 1, i - 1), Token) <=> Within(t, s + 1, s + (i - 1), Token)
    BY <1>2, <1>3
  <2>3. Over(SubSeq(l, i + 2, e - s), Printable) <=> Within(t, s + (i + 2), s + (e - s), Printable)
    BY <1>2, <1>3
  <2>4. /\ s + (i - 1) = (s + i) - 1 /\ s + (i + 2) = (s + i) + 2 /\ s + (e - s) = e
        /\ s + i \in Nat /\ s + 1 < s + i /\ s + i < e
    BY <1>3
  <2>5. QED
    BY <2>1, <2>2, <2>3, <2>4 DEF HeaderTo
<1>4. IsHeader(l) <=> \E i \in 1 .. e - s : 1 < i /\ i < e - s /\ HeaderTo(t, s, s + i, e)
  BY <1>1, <1>3 DEF IsHeader
<1>5. ASSUME NEW i \in Nat, HeaderTo(t, s, i, e)
      PROVE  i - s \in 1 .. e - s /\ 1 < i - s /\ i - s < e - s /\ HeaderTo(t, s, s + (i - s), e)
  <2>1. s + 1 < i /\ i < e /\ s + (i - s) = i
    BY <1>5 DEF HeaderTo
  <2>2. QED
    BY <1>5, <2>1
<1>6. \A i \in 1 .. e - s : s + i \in Nat
  OBVIOUS
<1>7. QED
  BY <1>4, <1>5, <1>6 DEF l

\* IsContinuation, by the places in the text.
LEMMA ContinuationPart ==
    ASSUME NEW t \in Seq(Classes), NEW s \in Nat, NEW e \in Nat, s <= e, e <= Len(t)
    PROVE  IsContinuation(SubSeq(t, s + 1, e)) <=> \E i \in Nat : ContinuationTo(t, s, i, e)
<1> DEFINE l == SubSeq(t, s + 1, e)
<1>1. Len(l) = e - s /\ DOMAIN l = 1 .. e - s
  BY PartIs
<1>2. \A S : \A x \in Nat \ {0} : \A y \in Nat :
        y <= e - s => (Over(SubSeq(l, x, y), S) <=> Within(t, s + x, s + y, S))
  BY OverPart, ZenonT(30)
<1> HIDE DEF l
<1>3. ASSUME NEW i \in 1 .. e - s
      PROVE  /\ Over(SubSeq(l, 1, i), {"sp", "tab"})
             /\ Over(SubSeq(l, i + 1, e - s), Printable)
             <=> ContinuationTo(t, s, s + i, e)
  <2>1. Over(SubSeq(l, 1, i), {"sp", "tab"}) <=> Within(t, s + 1, s + i, Blanks)
    BY <1>2, <1>3 DEF Blanks
  <2>2. Over(SubSeq(l, i + 1, e - s), Printable) <=> Within(t, s + (i + 1), s + (e - s), Printable)
    BY <1>2, <1>3
  <2>3. s + (i + 1) = (s + i) + 1 /\ s + (e - s) = e /\ s + i \in Nat /\ s < s + i /\ s + i <= e
    BY <1>3
  <2>4. QED
    BY <2>1, <2>2, <2>3 DEF ContinuationTo
<1>4. IsContinuation(l) <=> \E i \in 1 .. e - s : ContinuationTo(t, s, s + i, e)
  BY <1>1, <1>3 DEF IsContinuation
<1>5. ASSUME NEW i \in Nat, ContinuationTo(t, s, i, e)
      PROVE  i - s \in 1 .. e - s /\ ContinuationTo(t, s, s + (i - s), e)
  <2>1. s < i /\ i <= e /\ s + (i - s) = i
    BY <1>5 DEF ContinuationTo
  <2>2. QED
    BY <1>5, <2>1
<1>6. \A i \in 1 .. e - s : s + i \in Nat
  OBVIOUS
<1>7. QED
  BY <1>4, <1>5, <1>6 DEF l

\* IsRequestLine, by the places in the text.
LEMMA LinePart ==
    ASSUME NEW t \in Seq(Classes), NEW e \in Nat, e <= Len(t)
    PROVE  IsRequestLine(SubSeq(t, 1, e)) <=> \E i, j, k \in Nat : LineTo(t, i, j, k, e)
<1> DEFINE l == SubSeq(t, 1, e)
           Is(i, j, k) == /\ 1 < i /\ i < j /\ j + 6 < k /\ k < e
                          /\ l[i] = "sp" /\ l[j] = "sp" /\ l[k] = "."
                          /\ Over(SubSeq(l, 1, i - 1), Token)
                          /\ Over(SubSeq(l, i + 1, j - 1), Printable \ {"sp"})
                          /\ SubSeq(l, j + 1, j + 5) = <<"H", "T", "T", "P", "/">>
                          /\ Over(SubSeq(l, j + 6, k - 1), Digit)
                          /\ Over(SubSeq(l, k + 1, e), Digit)
<1>0. l = SubSeq(t, 0 + 1, e) /\ e - 0 = e
  OBVIOUS
<1>1. /\ l \in Seq(Classes) /\ Len(l) = e /\ DOMAIN l = 1 .. e
      /\ \A x \in 1 .. e : l[x] = t[x]
  <2>1. /\ SubSeq(t, 0 + 1, e) \in Seq(Classes) /\ Len(SubSeq(t, 0 + 1, e)) = e - 0
        /\ DOMAIN SubSeq(t, 0 + 1, e) = 1 .. e - 0
        /\ \A x \in 1 .. e - 0 : SubSeq(t, 0 + 1, e)[x] = t[0 + x]
    BY PartIs
  <2>2. \A x \in 1 .. e : 0 + x = x
    OBVIOUS
  <2> HIDE DEF l
  <2>3. QED
    BY <1>0, <2>1, <2>2
<1>2. \A S : \A x \in Nat \ {0} : \A y \in Nat :
        y <= e => (Over(SubSeq(l, x, y), S) <=> Within(t, x, y, S))
  <2>1. \A S : \A x \in Nat \ {0} : \A y \in Nat :
        y <= e - 0 => (Over(SubSeq(SubSeq(t, 0 + 1, e), x, y), S) <=> Within(t, 0 + x, 0 + y, S))
    <3>1. 0 \in Nat /\ 0 <= e
      OBVIOUS
    <3>2. QED
      BY <3>1, OverPart, ZenonT(30)
  <2>2. \A x \in Nat : 0 + x = x
    OBVIOUS
  <2> HIDE DEF l
  <2>3. QED
    BY <1>0, <2>1, <2>2
<1> HIDE DEF l
<1>3. ASSUME NEW j \in Nat \ {0}, j + 5 <= e
      PROVE  SubSeq(l, j + 1, j + 5) = <<"H", "T", "T", "P", "/">> <=>
               /\ t[j + 1] = "H" /\ t[j + 2] = "T" /\ t[j + 3] = "T"
               /\ t[j + 4] = "P" /\ t[j + 5] = "/"
  <2> DEFINE u == SubSeq(l, j + 1, j + 5)
  <2>1. /\ u \in Seq(Classes) /\ Len(u) = 5
        /\ \A x \in 1 .. 5 : u[x] = l[j + x]
    <3>1. \A x \in j + 1 .. j + 5 : l[x] \in Classes
      <4>1. \A x \in 1 .. e : l[x] \in Classes
        BY <1>1, LenProperties
      <4>2. QED
        BY <1>3, <4>1
    <3>2. u \in Seq(Classes) /\ Len(u) = 5 /\ \A x \in 1 .. 5 : u[x] = l[j + 1 + x - 1]
      BY <3>1, SubSeqProperties
    <3>3. \A x \in 1 .. 5 : j + 1 + x - 1 = j + x
      OBVIOUS
    <3> HIDE DEF u
    <3>4. QED
      BY <3>2, <3>3
  <2> HIDE DEF u
  <2>2. /\ u[1] = t[j + 1] /\ u[2] = t[j + 2] /\ u[3] = t[j + 3] /\ u[4] = t[j + 4]
        /\ u[5] = t[j + 5]
    BY <1>1, <1>3, <2>1
  <2>3. u = <<u[1], u[2], u[3], u[4], u[5]>>
    BY <2>1
  <2>4. QED
    BY <2>2, <2>3 DEF u
<1>4. ASSUME NEW i \in Nat, NEW j \in Nat, NEW k \in Nat, 1 < i, i < j, j + 6 < k, k < e
      PROVE  Is(i, j, k) <=> LineTo(t, i, j, k, e)
  <2>1. l[i] = t[i] /\ l[j] = t[j] /\ l[k] = t[k]
    BY <1>1, <1>4
  <2>2. Over(SubSeq(l, 1, i - 1), Token) <=> Within(t, 1, i - 1, Token)
    BY <1>2, <1>4
  <2>3. Over(SubSeq(l, i + 1, j - 1), Printable \ {"sp"}) <=> Within(t, i + 1, j - 1, Printable \ {"sp"})
    BY <1>2, <1>4
  <2>4. Over(SubSeq(l, j + 6, k - 1), Digit) <=> Within(t, j + 6, k - 1, Digit)
    BY <1>2, <1>4
  <2>5. Over(SubSeq(l, k + 1, e), Digit) <=> Within(t, k + 1, e, Digit)
    BY <1>2, <1>4
  <2>6. i <= j - 1 /\ j \in Nat \ {0} /\ j + 5 <= e
    BY <1>4
  <2>7. QED
    BY <1>3, <1>4, <2>1, <2>2, <2>3, <2>4, <2>5, <2>6 DEF LineTo, MajorTo, HttpAt, UriTo
<1>5. IsRequestLine(l) <=> \E i, j, k \in Nat : Is(i, j, k)
  <2>1. IsRequestLine(l) <=>
          \E i \in {x \in 1 .. e : l[x] = "sp"}, j \in {x \in 1 .. e : l[x] = "sp"},
             k \in {x \in 1 .. e : l[x] = "."} : Is(i, j, k)
    BY <1>1, ZenonT(30) DEF IsRequestLine
  <2>2. \A i, j, k \in Nat : Is(i, j, k) => /\ i \in {x \in 1 .. e : l[x] = "sp"}
                                            /\ j \in {x \in 1 .. e : l[x] = "sp"}
                                            /\ k \in {x \in 1 .. e : l[x] = "."}
    OBVIOUS
  <2> HIDE DEF Is
  <2>3. QED
    BY <2>1, <2>2
<1>6. \A i, j, k \in Nat : LineTo(t, i, j, k, e) => 1 < i /\ i < j /\ j + 6 < k /\ k < e
  BY DEF LineTo, MajorTo, HttpAt, UriTo
<1>7. \A i, j, k \in Nat : Is(i, j, k) => 1 < i /\ i < j /\ j + 6 < k /\ k < e
  OBVIOUS
<1> HIDE DEF Is
<1>8. QED
  BY <1>4, <1>5, <1>6, <1>7 DEF l

----------------------------------------------------------------------------
(* A request, by the lines that IsRequest takes from the text. *)

\* A text that ends with an empty line.
LEMMA SuffixIs ==
    ASSUME NEW t \in Seq(Classes)
    PROVE  IsSuffix(CRLF \o CRLF, t) <=>
             Len(t) >= 4 /\ Len(t) \in LineEnds(t) /\ Len(t) - 2 \in LineEnds(t)
<1> DEFINE N == Len(t)
           u == Reverse(t)
           w == Reverse(CRLF \o CRLF)
<1>1. N \in Nat /\ DOMAIN t = 1 .. N /\ \A x \in 1 .. N : t[x] \in Classes
  BY LenProperties
<1>2. CRLF \o CRLF = <<"CR", "LF", "CR", "LF">>
  <2> DEFINE c == CRLF \o CRLF
  <2>1. CRLF \in Seq({"CR", "LF"}) /\ Len(CRLF) = 2 /\ CRLF[1] = "CR" /\ CRLF[2] = "LF"
    BY DEF CRLF
  <2>2. /\ c \in Seq({"CR", "LF"}) /\ Len(c) = 4
        /\ c[1] = CRLF[1] /\ c[2] = CRLF[2] /\ c[3] = CRLF[1] /\ c[4] = CRLF[2]
    <3>1. /\ c \in Seq({"CR", "LF"}) /\ Len(c) = Len(CRLF) + Len(CRLF)
          /\ \A i \in 1 .. Len(CRLF) + Len(CRLF) :
               c[i] = IF i <= Len(CRLF) THEN CRLF[i] ELSE CRLF[i - Len(CRLF)]
      BY <2>1, ConcatProperties
    <3> HIDE DEF c
    <3>2. QED
      BY <2>1, <3>1
  <2> HIDE DEF c
  <2>3. c = <<c[1], c[2], c[3], c[4]>> /\ c[1] = "CR" /\ c[2] = "LF" /\ c[3] = "CR" /\ c[4] = "LF"
    BY <2>1, <2>2
  <2>4. QED
    BY <2>3 DEF c
<1>3. w = <<"LF", "CR", "LF", "CR">>
  <2>1. w = [i \in 1 .. 4 |-> <<"CR", "LF", "CR", "LF">>[(4 - i) + 1]]
    BY <1>2 DEF Reverse
  <2>2. QED
    BY <2>1
<1>4. Len(u) = N /\ \A x \in 1 .. N : u[x] = t[(N - x) + 1]
  <2>1. u = [i \in 1 .. N |-> t[(N - i) + 1]]
    BY DEF Reverse
  <2> HIDE DEF u
  <2>2. \A x \in 1 .. N : (N - x) + 1 \in 1 .. N
    BY <1>1
  <2>3. \A x \in 1 .. N : u[x] = t[(N - x) + 1] /\ u[x] \in Classes
    BY <1>1, <2>1, <2>2
  <2>4. DOMAIN u = 1 .. N
    BY <2>1
  <2>5. u \in [1 .. N -> Classes]
    BY <2>1, <2>3
  <2>6. u \in Seq(Classes)
    BY <1>1, <2>5, SeqDef
  <2>7. QED
    BY <1>1, <2>3, <2>4, <2>6, LenProperties
<1>5. SubSeq(w, 1, Len(w)) = <<"LF", "CR", "LF", "CR">> /\ Len(w) = 4
  <2> DEFINE v == SubSeq(w, 1, 4)
  <2> HIDE DEF w
  <2>1. Len(w) = 4 /\ \A i \in 1 .. 4 : w[i] \in {"CR", "LF"}
    BY <1>3
  <2>2. v \in Seq({"CR", "LF"}) /\ Len(v) = 4 /\ \A i \in 1 .. 4 : v[i] = w[i]
    BY <2>1, SubSeqProperties
  <2> HIDE DEF v
  <2>3. v = <<v[1], v[2], v[3], v[4]>>
    BY <2>2
  <2>4. v = <<"LF", "CR", "LF", "CR">>
    BY <1>3, <2>2, <2>3
  <2>5. QED
    BY <2>1, <2>4 DEF v
<1> HIDE DEF u, w, N
<1>6. IsSuffix(CRLF \o CRLF, t) <=> 4 <= N /\ <<"LF", "CR", "LF", "CR">> = SubSeq(u, 1, 4)
  BY <1>4, <1>5 DEF IsSuffix, IsPrefix, u, w
<1>7. ASSUME 4 <= N
      PROVE  <<"LF", "CR", "LF", "CR">> = SubSeq(u, 1, 4) <=>
               t[N] = "LF" /\ t[N - 1] = "CR" /\ t[N - 2] = "LF" /\ t[N - 3] = "CR"
  <2> DEFINE v == SubSeq(u, 1, 4)
  <2>1. \A x \in 1 .. 4 : u[x] \in Classes
    BY <1>1, <1>4, <1>7
  <2>2. v \in Seq(Classes) /\ Len(v) = 4 /\ \A x \in 1 .. 4 : v[x] = u[x]
    BY <2>1, SubSeqProperties
  <2> HIDE DEF v
  <2>3. u[1] = t[N] /\ u[2] = t[N - 1] /\ u[3] = t[N - 2] /\ u[4] = t[N - 3]
    BY <1>1, <1>4, <1>7
  <2>4. v = <<v[1], v[2], v[3], v[4]>>
    BY <2>2
  <2>5. v = <<t[N], t[N - 1], t[N - 2], t[N - 3]>>
    BY <2>2, <2>3, <2>4
  <2>6. <<"LF", "CR", "LF", "CR">> = v <=>
          t[N] = "LF" /\ t[N - 1] = "CR" /\ t[N - 2] = "LF" /\ t[N - 3] = "CR"
    BY <2>2, <2>3, <2>4
  <2>7. QED
    BY <2>6, Zenon DEF v
<1>8. ASSUME 4 <= N
      PROVE  N \in LineEnds(t) /\ N - 2 \in LineEnds(t) <=>
               t[N] = "LF" /\ t[N - 1] = "CR" /\ t[N - 2] = "LF" /\ t[N - 3] = "CR"
  <2>1. \A k : k \in LineEnds(t) <=> k = 0 \/ (k \in 2 .. N /\ t[k - 1] = "CR" /\ t[k] = "LF")
    BY EndsAre DEF N
  <2>2. N # 0 /\ N \in 2 .. N /\ N - 2 # 0 /\ N - 2 \in 2 .. N /\ (N - 2) - 1 = N - 3
    BY <1>1, <1>8
  <2>3. QED
    BY <2>1, <2>2
<1>9. QED
  BY <1>1, <1>6, <1>7, <1>8 DEF N

\* Lines, by the ends of lines.
LEMMA LinesAre ==
    ASSUME NEW t
    PROVE  \A l : l \in Lines(t) <=>
             \E a, b : Follow(t, a, b) /\ l = <<a, SubSeq(t, a + 1, b - 2)>>
<1> DEFINE E == LineEnds(t)
           Before(p) == p[1] < p[2] /\ \A k \in E : ~(p[1] < k /\ k < p[2])
           P == {p \in E \X E : Before(p)}
<1>1. Lines(t) = {<<p[1], SubSeq(t, p[1] + 1, p[2] - 2)>> : p \in P}
  BY Zenon DEF Lines
<1>2. \A a, b : <<a, b>> \in P <=> Follow(t, a, b)
  BY DEF Follow
<1>3. \A p \in P : p = <<p[1], p[2]>>
  OBVIOUS
<1> HIDE DEF P
<1>4. ASSUME NEW l \in Lines(t)
      PROVE  \E a, b : Follow(t, a, b) /\ l = <<a, SubSeq(t, a + 1, b - 2)>>
  <2>1. PICK p \in P : l = <<p[1], SubSeq(t, p[1] + 1, p[2] - 2)>>
    BY <1>1, <1>4, Zenon
  <2>2. Follow(t, p[1], p[2])
    BY <1>2, <1>3
  <2>3. QED
    BY <2>1, <2>2
<1>5. ASSUME NEW a, NEW b, Follow(t, a, b)
      PROVE  <<a, SubSeq(t, a + 1, b - 2)>> \in Lines(t)
  <2>1. <<a, b>> \in P
    BY <1>2, <1>5
  <2>2. <<a, b>>[1] = a /\ <<a, b>>[2] = b
    OBVIOUS
  <2>3. QED
    BY <1>1, <2>1, <2>2, Zenon
<1>6. QED
  BY <1>4, <1>5

\* IsRequest says the same by its lines as Complete by its characters.
LEMMA CompleteIs ==
    ASSUME NEW t \in Seq(Classes)
    PROVE  IsRequest(t) <=> Complete(t)
<1> DEFINE N == Len(t)
           lines == Lines(t)
           first == CHOOSE l \in lines : l[1] = 0
           Rest(l) == IF l[2] = <<>> THEN l[1] = N - 2
                      ELSE IsHeader(l[2]) \/ (IsContinuation(l[2]) /\ ~(l[1] = Len(first[2]) + 2))
           Ends == N >= 4 /\ N \in LineEnds(t) /\ N - 2 \in LineEnds(t)
<1>1. IsRequest(t) <=> Ends /\ IsRequestLine(first[2]) /\ \A l \in lines \ {first} : Rest(l)
  <2>1. IsRequest(t) <=> /\ IsSuffix(CRLF \o CRLF, t)
                         /\ IsRequestLine(first[2]) /\ \A l \in lines \ {first} : Rest(l)
    BY Zenon DEF IsRequest
  <2> HIDE DEF first, lines, Rest
  <2>2. QED
    BY <2>1, SuffixIs
<1> SUFFICES ASSUME Ends
             PROVE  IsRequestLine(first[2]) /\ (\A l \in lines \ {first} : Rest(l)) <=>
                      \A a, b \in Nat : Follow(t, a, b) /\ a # N - 2 => LineOK(t, a, b)
  BY <1>1, Zenon DEF Complete
<1> HIDE DEF N
<1>2. N \in Nat /\ N >= 4 /\ N \in LineEnds(t) /\ N - 2 \in LineEnds(t)
  BY LenProperties DEF N
<1>3. /\ \A k : k \in LineEnds(t) <=> k = 0 \/ (k \in 2 .. N /\ t[k - 1] = "CR" /\ t[k] = "LF")
      /\ LineEnds(t) \subseteq Nat
  BY <1>2, EndsAre DEF N
<1>4. PICK d \in Nat : Follow(t, 0, d) /\ \A k \in LineEnds(t) : 0 < k => d <= k
  <2> DEFINE A == {k \in LineEnds(t) : 0 < k}
  <2>1. A \subseteq Nat /\ A # {}
    BY <1>2, <1>3
  <2>2. \E k \in A : \A m \in A : k <= m
    <3> HIDE DEF A
    <3>1. QED
      BY <2>1, Least
  <2>3. PICK k \in A : \A m \in A : k <= m
    BY <2>2
  <2>4. k \in Nat /\ Follow(t, 0, k)
    BY <1>3, <2>3 DEF Follow
  <2>5. QED
    BY <2>3, <2>4
<1>5. ASSUME NEW a, NEW b, Follow(t, a, b)
      PROVE  /\ a \in Nat /\ b \in Nat /\ a + 2 <= b /\ b <= N
             /\ a = 0 => b = d
             /\ a # 0 => (NotSecond(t, a) <=> a # d)
  <2>1. a \in LineEnds(t) /\ b \in LineEnds(t) /\ a < b /\ ~(a < d /\ d < b)
    BY <1>4, <1>5 DEF Follow
  <2>2. a \in Nat /\ b \in Nat /\ b # 0
    BY <1>3, <2>1
  <2>3. b \in 2 .. N /\ t[b - 1] = "CR"
    BY <1>3, <2>1, <2>2
  <2>4. a # b - 1
    <3>1. a = 0 => a # b - 1
      BY <2>3
    <3>2. a # 0 => t[a] = "LF"
      BY <1>3, <2>1
    <3>3. QED
      BY <2>3, <3>1, <3>2
  <2>5. a = 0 => b = d
    <3>1. ~(0 < b /\ b < d) /\ 0 < d
      BY <1>4, <2>1 DEF Follow
    <3>2. QED
      BY <2>1, <2>2, <3>1
  <2>6. d \in LineEnds(t) /\ 0 < d
    BY <1>4 DEF Follow
  <2>7. a # 0 => (NotSecond(t, a) <=> a # d)
    <3>1. ASSUME a # 0, a # d PROVE NotSecond(t, a)
      <4>1. d < a
        BY <1>4, <2>1, <2>2, <3>1
      <4>2. QED
        BY <2>6, <4>1 DEF NotSecond
    <3>2. ASSUME a = d PROVE ~NotSecond(t, a)
      BY <1>3, <1>4, <3>2 DEF NotSecond
    <3>3. QED
      BY <3>1, <3>2
  <2>8. QED
    BY <2>2, <2>1, <2>3, <2>4, <2>5, <2>7
<1> DEFINE Line(a, b) == <<a, SubSeq(t, a + 1, b - 2)>>
<1>6. \A l : l \in lines <=> \E a, b \in Nat : Follow(t, a, b) /\ l = Line(a, b)
  <2>1. \A l : l \in lines <=> \E a, b : Follow(t, a, b) /\ l = Line(a, b)
    BY LinesAre
  <2> HIDE DEF lines, Line
  <2>2. QED
    BY <1>5, <2>1
<1>7. \A a, b : Line(a, b)[1] = a /\ Line(a, b)[2] = SubSeq(t, a + 1, b - 2)
  OBVIOUS
<1> HIDE DEF Line, lines
<1>8. first = Line(0, d)
  <2>1. Line(0, d) \in lines /\ Line(0, d)[1] = 0
    BY <1>4, <1>6, <1>7
  <2>2. \A l \in lines : l[1] = 0 => l = Line(0, d)
    <3> TAKE l \in lines
    <3> HAVE l[1] = 0
    <3>1. PICK a \in Nat, b \in Nat : Follow(t, a, b) /\ l = Line(a, b)
      BY <1>6
    <3>2. a = 0
      BY <1>7, <3>1
    <3>3. b = d
      BY <1>5, <3>1, <3>2
    <3>4. QED
      BY <3>1, <3>2, <3>3
  <2>3. QED
    BY <2>1, <2>2
<1>9. 2 <= d /\ d <= N
  BY <1>4, <1>5
<1>10. first[2] = SubSeq(t, 1, d - 2) /\ Len(first[2]) = d - 2
  <2>1. first[2] = SubSeq(t, 0 + 1, d - 2)
    BY <1>7, <1>8
  <2>2. d - 2 \in Nat /\ 0 \in Nat /\ 0 <= d - 2 /\ d - 2 <= Len(t) /\ (d - 2) - 0 = d - 2
    BY <1>2, <1>9 DEF N
  <2>3. Len(SubSeq(t, 0 + 1, d - 2)) = (d - 2) - 0
    BY <2>2, PartIs
  <2> HIDE DEF first
  <2>4. QED
    BY <2>1, <2>2, <2>3
<1> HIDE DEF first
<1>11. IsRequestLine(first[2]) <=> LineOK(t, 0, d)
  <2>1. d - 2 \in Nat /\ d - 2 <= Len(t)
    BY <1>2, <1>9 DEF N
  <2>2. QED
    BY <1>10, <2>1, LinePart DEF LineOK
<1>12. ASSUME NEW a \in Nat, NEW b \in Nat, Follow(t, a, b), a # 0
       PROVE  Rest(Line(a, b)) <=> (a # N - 2 => LineOK(t, a, b))
  <2> DEFINE e == b - 2
             l == SubSeq(t, a + 1, e)
  <2>1. e \in Nat /\ a <= e /\ e <= Len(t) /\ b <= N
    BY <1>2, <1>5, <1>12 DEF N
  <2>2. Rest(Line(a, b)) <=> IF l = <<>> THEN a = N - 2
                             ELSE IsHeader(l) \/ (IsContinuation(l) /\ ~(a = Len(first[2]) + 2))
    BY <1>7
  <2> HIDE DEF Rest
  <2>3. l = <<>> <=> a = e
    <3>1. SubSeq(t, a + 1, e) = <<>> <=> a = e
      BY <2>1, PartIs
    <3>2. QED
      BY <3>1
  <2>4. a = Len(first[2]) + 2 <=> ~NotSecond(t, a)
    BY <1>5, <1>9, <1>10, <1>12
  <2>5. IsHeader(l) <=> \E i \in Nat : HeaderTo(t, a, i, e)
    BY <2>1, HeaderPart
  <2>6. IsContinuation(l) <=> \E i \in Nat : ContinuationTo(t, a, i, e)
    BY <2>1, ContinuationPart
  <2>7. LineOK(t, a, b) <=> IsHeader(l) \/ (IsContinuation(l) /\ NotSecond(t, a))
    BY <1>12, <2>5, <2>6 DEF LineOK, FieldTo
  <2>8. a = e => ~LineOK(t, a, b)
    <3>1. a = e => \A i \in Nat : ~HeaderTo(t, a, i, e) /\ ~ContinuationTo(t, a, i, e)
      BY DEF HeaderTo, ContinuationTo
    <3>2. QED
      BY <2>5, <2>6, <2>7, <3>1
  <2>9. a = N - 2 => a = e
    <3>1. a = N - 2 => b = N
      BY <1>2, <1>5, <1>12
    <3>2. QED
      BY <3>1
  <2> HIDE DEF e, l
  <2>10. QED
    BY <2>2, <2>3, <2>4, <2>7, <2>8, <2>9
<1> HIDE DEF Rest
<1>13. \A l : l \in lines \ {first} <=> \E a, b \in Nat : Follow(t, a, b) /\ a # 0 /\ l = Line(a, b)
  <2>1. ASSUME NEW l \in lines, l # first
        PROVE  \E a, b \in Nat : Follow(t, a, b) /\ a # 0 /\ l = Line(a, b)
    <3>1. PICK a \in Nat, b \in Nat : Follow(t, a, b) /\ l = Line(a, b)
      BY <1>6
    <3>2. a = 0 => b = d
      BY <1>5, <3>1
    <3>3. a # 0
      BY <1>8, <2>1, <3>1, <3>2
    <3>4. QED
      BY <3>1, <3>3
  <2>2. ASSUME NEW a \in Nat, NEW b \in Nat, Follow(t, a, b), a # 0
        PROVE  Line(a, b) \in lines /\ Line(a, b) # first
    <3>1. Line(a, b) \in lines
      BY <1>6, <2>2
    <3>2. Line(a, b)[1] # first[1]
      BY <1>7, <1>8, <2>2
    <3>3. QED
      BY <3>1, <3>2
  <2>3. QED
    BY <2>1, <2>2
<1>14. (\A l \in lines \ {first} : Rest(l)) <=>
         \A a, b \in Nat : Follow(t, a, b) /\ a # 0 => (a # N - 2 => LineOK(t, a, b))
  BY <1>12, <1>13
<1>15. IsRequestLine(first[2]) <=> \A a, b \in Nat : Follow(t, a, b) /\ a = 0 => LineOK(t, a, b)
  BY <1>4, <1>5, <1>11
<1>16. N - 2 # 0
  BY <1>2
<1>17. QED
  BY <1>14, <1>15, <1>16

----------------------------------------------------------------------------
(* Runs put together, and parts of them. *)

\* s is a run over t that r makes, and then w, that q makes.
Joins(s, p, r, q, t, w) ==
    /\ IsRun(s, p, t \o w)
    /\ \A n \in 0 .. Len(t) : s[n] = r[n]
    /\ \A n \in 0 .. Len(w) : s[Len(t) + n] = q[n]

\* A run over a text and one over what follows are a run over both.
LEMMA RunConcat ==
    ASSUME NEW p, NEW t \in Seq(Classes), NEW w \in Seq(Classes),
           NEW r, IsRun(r, p, t), NEW q, IsRun(q, r[Len(t)], w)
    PROVE  \E s : Joins(s, p, r, q, t, w)
<1> DEFINE M == Len(t)
           N == Len(w)
           u == t \o w
           s == [n \in 0 .. M + N |-> IF n <= M THEN r[n] ELSE q[n - M]]
<1>1. /\ M \in Nat /\ N \in Nat /\ u \in Seq(Classes) /\ Len(u) = M + N
      /\ \A i \in 1 .. M + N : u[i] = IF i <= M THEN t[i] ELSE w[i - M]
  BY LenProperties, ConcatProperties
<1>2. /\ \A n \in 0 .. M : r[n] \in Parsers
      /\ r[0] = p
      /\ \A i \in 1 .. M : r[i] = Consumes(r[i - 1], t[i])
  BY DEF IsRun
<1>3. /\ \A n \in 0 .. N : q[n] \in Parsers
      /\ q[0] = r[M]
      /\ \A i \in 1 .. N : q[i] = Consumes(q[i - 1], w[i])
  BY DEF IsRun
<1> HIDE DEF M, N, u
<1>4. \A n \in 0 .. M + N : s[n] = IF n <= M THEN r[n] ELSE q[n - M]
  OBVIOUS
<1>5. s \in [0 .. M + N -> Parsers]
  <2>1. \A n \in 0 .. M + N : (IF n <= M THEN r[n] ELSE q[n - M]) \in Parsers
    BY <1>1, <1>2, <1>3
  <2>2. QED
    BY <2>1
<1> HIDE DEF s
<1>6. \A n \in 0 .. M : s[n] = r[n]
  BY <1>1, <1>4
<1>7. \A n \in 0 .. N : s[M + n] = q[n]
  <2> TAKE n \in 0 .. N
  <2>1. CASE n = 0
    BY <1>1, <1>3, <1>4, <2>1
  <2>2. CASE n # 0
    <3>1. M + n \in 0 .. M + N /\ ~(M + n <= M) /\ (M + n) - M = n
      BY <1>1, <2>2
    <3>2. QED
      BY <1>4, <3>1
  <2>3. QED
    BY <2>1, <2>2
<1>8. ASSUME NEW i \in 1 .. M + N PROVE s[i] = Consumes(s[i - 1], u[i])
  <2>1. CASE i <= M
    <3>1. i \in 1 .. M /\ i \in 0 .. M /\ i - 1 \in 0 .. M
      BY <1>1, <2>1
    <3>2. QED
      BY <1>1, <1>2, <1>6, <2>1, <3>1
  <2>2. CASE ~(i <= M)
    <3>1. /\ i - M \in 1 .. N /\ i - M \in 0 .. N /\ (i - M) - 1 \in 0 .. N
          /\ M + (i - M) = i /\ M + ((i - M) - 1) = i - 1
      BY <1>1, <2>2
    <3>2. s[i] = q[i - M] /\ s[i - 1] = q[(i - M) - 1]
      BY <1>7, <3>1
    <3>3. QED
      BY <1>1, <1>3, <2>2, <3>1, <3>2
  <2>3. QED
    BY <2>1, <2>2
<1>9. IsRun(s, p, u)
  <2>1. s[0] = p
    BY <1>1, <1>2, <1>6
  <2>2. QED
    BY <1>1, <1>5, <1>8, <2>1 DEF IsRun
<1>10. QED
  BY <1>6, <1>7, <1>9 DEF Joins, u, M, N

\* s is a run over the first m characters of t, that r makes.
Begins(s, r, p, t, m) == IsRun(s, p, SubSeq(t, 1, m)) /\ \A n \in 0 .. m : s[n] = r[n]

\* A run over the beginning of a text.
LEMMA RunPrefix ==
    ASSUME NEW p, NEW t \in Seq(Classes), NEW r, IsRun(r, p, t), NEW m \in 0 .. Len(t)
    PROVE  \E s : Begins(s, r, p, t, m)
<1> DEFINE u == SubSeq(t, 1, m)
           s == [n \in 0 .. m |-> r[n]]
<1>1. /\ Len(t) \in Nat /\ m \in Nat /\ m <= Len(t)
      /\ Len(u) = m /\ \A i \in 1 .. m : u[i] = t[i]
  <2>1. Len(t) \in Nat
    BY LenProperties
  <2>2. QED
    BY <2>1
<1>2. /\ \A n \in 0 .. Len(t) : r[n] \in Parsers
      /\ r[0] = p
      /\ \A i \in 1 .. Len(t) : r[i] = Consumes(r[i - 1], t[i])
  BY DEF IsRun
<1>3. s \in [0 .. m -> Parsers] /\ \A n \in 0 .. m : s[n] = r[n]
  BY <1>1, <1>2
<1> HIDE DEF s, u
<1>4. \A i \in 1 .. m : s[i] = Consumes(s[i - 1], u[i])
  <2> TAKE i \in 1 .. m
  <2>1. i \in 0 .. m /\ i - 1 \in 0 .. m /\ i \in 1 .. Len(t)
    BY <1>1
  <2>2. QED
    BY <1>1, <1>2, <1>3, <2>1
<1>5. s[0] = p
  BY <1>1, <1>2, <1>3
<1>6. IsRun(s, p, u)
  BY <1>1, <1>3, <1>4, <1>5 DEF IsRun
<1>7. QED
  BY <1>3, <1>6 DEF Begins, u

\* There is one run over a text.
LEMMA RunUnique ==
    ASSUME NEW p, NEW t \in Seq(Classes), NEW r, IsRun(r, p, t), NEW q, IsRun(q, p, t)
    PROVE  \A n \in 0 .. Len(t) : r[n] = q[n]
<1> DEFINE N == Len(t)
           T == {n \in Nat : n <= N => r[n] = q[n]}
<1>1. N \in Nat
  BY LenProperties
<1>2. /\ r[0] = p /\ \A i \in 1 .. N : r[i] = Consumes(r[i - 1], t[i])
      /\ q[0] = p /\ \A i \in 1 .. N : q[i] = Consumes(q[i - 1], t[i])
  BY DEF IsRun
<1> HIDE DEF N
<1>3. 0 \in T
  BY <1>2
<1>4. ASSUME NEW n \in Nat, n \in T PROVE n + 1 \in T
  <2> SUFFICES ASSUME n + 1 <= N PROVE r[n + 1] = q[n + 1]
    OBVIOUS
  <2>1. n + 1 \in 1 .. N /\ (n + 1) - 1 = n /\ r[n] = q[n]
    BY <1>1, <1>4
  <2>2. QED
    BY <1>2, <2>1
<1>5. Nat \subseteq T
  <2> HIDE DEF T
  <2>1. QED
    BY <1>3, <1>4, EveryNumber
<1>6. \A n \in 0 .. N : n \in Nat /\ n <= N
  BY <1>1
<1>7. QED
  BY <1>5, <1>6 DEF N

\* An answer stays.
LEMMA RunDecided ==
    ASSUME NEW p, NEW t \in Seq(Classes), NEW r, IsRun(r, p, t),
           NEW m \in 0 .. Len(t), r[m].state \in Final
    PROVE  \A n \in m .. Len(t) : r[n] = r[m]
<1> DEFINE N == Len(t)
           T == {d \in Nat : m + d <= N => r[m + d] = r[m]}
<1>1. N \in Nat /\ m \in Nat /\ m <= N /\ \A i \in 1 .. N : t[i] \in Classes
  BY LenProperties
<1>2. r[m] \in Parsers /\ \A i \in 1 .. N : r[i] = Consumes(r[i - 1], t[i])
  BY DEF IsRun
<1> HIDE DEF N
<1>3. 0 \in T
  BY <1>1
<1>4. ASSUME NEW d \in Nat, d \in T PROVE d + 1 \in T
  <2> SUFFICES ASSUME m + (d + 1) <= N PROVE r[m + (d + 1)] = r[m]
    OBVIOUS
  <2>1. m + (d + 1) \in 1 .. N /\ (m + (d + 1)) - 1 = m + d /\ r[m + d] = r[m]
    BY <1>1, <1>4
  <2>2. r[m + (d + 1)] = Consumes(r[m], t[m + (d + 1)]) /\ t[m + (d + 1)] \in Classes
    BY <1>1, <1>2, <2>1
  <2>3. QED
    BY <1>2, <2>2, Decided
<1>5. Nat \subseteq T
  <2> HIDE DEF T
  <2>1. QED
    BY <1>3, <1>4, EveryNumber
<1>6. ASSUME NEW n \in m .. N PROVE r[n] = r[m]
  <2>1. n - m \in Nat /\ m + (n - m) = n /\ n <= N
    BY <1>1
  <2>2. n - m \in T
    BY <1>5, <2>1
  <2>3. QED
    BY <2>1, <2>2
<1>7. QED
  BY <1>6 DEF N

\* The texts at whose last character a parser is done.
Accepts(p, w) ==
    \E r : /\ IsRun(r, p, w)
           /\ r[Len(w)].state = "true"
           /\ \A n \in Nat : n < Len(w) => r[n].state \notin Final

\* What leads to a parser, and what is accepted from there.
LEMMA AcceptsConcat ==
    ASSUME NEW p, NEW t \in Seq(Classes), NEW w \in Seq(Classes), NEW r, IsRun(r, p, t),
           \A n \in 0 .. Len(t) : r[n].state \notin Final,
           Accepts(r[Len(t)], w)
    PROVE  Accepts(p, t \o w)
<1>1. PICK q : /\ IsRun(q, r[Len(t)], w) /\ q[Len(w)].state = "true"
               /\ \A n \in Nat : n < Len(w) => q[n].state \notin Final
  BY DEF Accepts
<1>2. PICK s : Joins(s, p, r, q, t, w)
  BY <1>1, RunConcat
<1> DEFINE M == Len(t)
           N == Len(w)
           u == t \o w
<1>3. M \in Nat /\ N \in Nat /\ Len(u) = M + N
  BY LenProperties, ConcatProperties
<1>4. /\ IsRun(s, p, u)
      /\ \A n \in 0 .. M : s[n] = r[n] /\ r[n].state \notin Final
      /\ \A n \in 0 .. N : s[M + n] = q[n]
      /\ q[N].state = "true" /\ \A n \in Nat : n < N => q[n].state \notin Final
  BY <1>1, <1>2 DEF Joins
<1> HIDE DEF M, N, u
<1>5. s[M + N].state = "true"
  BY <1>3, <1>4
<1>6. ASSUME NEW n \in Nat, n < M + N PROVE s[n].state \notin Final
  <2>1. CASE n <= M
    BY <1>3, <1>4, <2>1
  <2>2. CASE ~(n <= M)
    <3>1. n - M \in Nat /\ n - M < N /\ M + (n - M) = n /\ n - M \in 0 .. N
      BY <1>3, <1>6, <2>2
    <3>2. s[n] = q[n - M]
      BY <1>4, <3>1
    <3>3. QED
      BY <1>4, <3>1, <3>2
  <2>3. QED
    BY <2>1, <2>2
<1>7. QED
  BY <1>3, <1>4, <1>5, <1>6 DEF Accepts, u

\* The run over one character.
LEMMA OneRun ==
    ASSUME NEW p \in Parsers, NEW c \in Classes
    PROVE  LET r == [n \in 0 .. 1 |-> IF n = 0 THEN p ELSE Consumes(p, c)]
           IN  /\ IsRun(r, p, <<c>>) /\ r[0] = p /\ r[1] = Consumes(p, c)
               /\ <<c>> \in Seq(Classes) /\ Len(<<c>>) = 1
<1> DEFINE q == Consumes(p, c)
           r == [n \in 0 .. 1 |-> IF n = 0 THEN p ELSE q]
<1>1. q \in Parsers
  BY ConsumesTyped
<1>2. <<c>> \in Seq(Classes) /\ Len(<<c>>) = 1 /\ <<c>>[1] = c
  OBVIOUS
<1>3. r \in [0 .. 1 -> Parsers] /\ r[0] = p /\ r[1] = Consumes(p, c)
  <2>1. r[1] = q
    OBVIOUS
  <2> HIDE DEF q
  <2>2. r \in [0 .. 1 -> Parsers] /\ r[0] = p
    BY <1>1
  <2>3. QED
    BY <2>1, <2>2 DEF q
<1> HIDE DEF r
<1>4. \A i \in 1 .. 1 : r[i] = Consumes(r[i - 1], <<c>>[i])
  <2> TAKE i \in 1 .. 1
  <2>1. i = 1 /\ i - 1 = 0
    OBVIOUS
  <2>2. QED
    BY <1>2, <1>3, <2>1
<1>5. IsRun(r, p, <<c>>)
  BY <1>2, <1>3, <1>4 DEF IsRun
<1>6. QED
  BY <1>2, <1>3, <1>5 DEF r

\* A character that ends a request.
LEMMA AcceptsOne ==
    ASSUME NEW p \in Parsers, p.state \notin Final, NEW c \in Classes,
           Consumes(p, c).state = "true"
    PROVE  Accepts(p, <<c>>)
<1>1. PICK r : /\ IsRun(r, p, <<c>>) /\ r[0] = p /\ r[1] = Consumes(p, c)
               /\ Len(<<c>>) = 1
  BY OneRun
<1>2. \A n \in Nat : n < 1 => r[n].state \notin Final
  <2> TAKE n \in Nat
  <2> HAVE n < 1
  <2>1. n = 0
    OBVIOUS
  <2>2. QED
    BY <1>1, <2>1
<1>3. QED
  BY <1>1, <1>2 DEF Accepts

\* A character before what is accepted.
LEMMA AcceptsMore ==
    ASSUME NEW p \in Parsers, p.state \notin Final, NEW c \in Classes, NEW w \in Seq(Classes),
           Consumes(p, c).state \notin Final, Accepts(Consumes(p, c), w)
    PROVE  Accepts(p, <<c>> \o w)
<1>1. PICK r : /\ IsRun(r, p, <<c>>) /\ r[0] = p /\ r[1] = Consumes(p, c)
               /\ <<c>> \in Seq(Classes) /\ Len(<<c>>) = 1
  BY OneRun
<1>2. \A n \in 0 .. 1 : r[n].state \notin Final
  <2> TAKE n \in 0 .. 1
  <2>1. n = 0 \/ n = 1
    OBVIOUS
  <2>2. QED
    BY <1>1, <2>1
<1> DEFINE t == <<c>>
<1>3. t \in Seq(Classes) /\ IsRun(r, p, t) /\ Accepts(r[Len(t)], w)
      /\ \A n \in 0 .. Len(t) : r[n].state \notin Final
  BY <1>1, <1>2
<1> HIDE DEF t
<1>4. Accepts(p, t \o w)
  BY <1>3, AcceptsConcat
<1>5. QED
  BY <1>4 DEF t

----------------------------------------------------------------------------
(* The completions, character by character. *)

\* The first character of the rest of a sequence.
LEMMA RestOf ==
    ASSUME NEW S, NEW s \in Seq(S), NEW i \in 1 .. Len(s)
    PROVE  /\ SubSeq(s, i, Len(s)) = <<s[i]>> \o SubSeq(s, i + 1, Len(s))
           /\ SubSeq(s, i + 1, Len(s)) \in Seq(S) /\ s[i] \in S
<1> DEFINE N == Len(s)
           u == SubSeq(s, i, N)
           v == SubSeq(s, i + 1, N)
           w == <<s[i]>> \o v
<1>1. N \in Nat /\ \A x \in 1 .. N : s[x] \in S
  BY LenProperties
<1>2. s[i] \in S /\ \A x \in i .. N : s[x] \in S
  BY <1>1
<1> HIDE DEF N
<1>3. u \in Seq(S) /\ Len(u) = N - i + 1 /\ \A x \in 1 .. N - i + 1 : u[x] = s[i + x - 1]
  BY <1>1, <1>2, SubSeqProperties DEF N
<1>4. v \in Seq(S) /\ Len(v) = N - i /\ \A x \in 1 .. N - i : v[x] = s[i + x]
  <2>1. /\ \A x \in i + 1 .. N : s[x] \in S
        /\ (IF i + 1 <= N THEN N - (i + 1) + 1 ELSE 0) = N - i
        /\ N - (i + 1) + 1 = N - i
    BY <1>1, <1>2 DEF N
  <2>2. v \in Seq(S) /\ Len(v) = N - i /\ \A x \in 1 .. N - i : v[x] = s[i + 1 + x - 1]
    BY <1>1, <2>1, SubSeqProperties
  <2>3. \A x \in 1 .. N - i : i + 1 + x - 1 = i + x
    BY <1>1
  <2> HIDE DEF v
  <2>4. QED
    BY <2>2, <2>3
<1>5. <<s[i]>> \in Seq(S) /\ Len(<<s[i]>>) = 1 /\ <<s[i]>>[1] = s[i]
  BY <1>2
<1> HIDE DEF u, v
<1>6. /\ w \in Seq(S) /\ Len(w) = 1 + (N - i)
      /\ \A x \in 1 .. 1 + (N - i) : w[x] = IF x <= 1 THEN s[i] ELSE v[x - 1]
  <2>1. /\ w \in Seq(S) /\ Len(w) = 1 + (N - i)
        /\ \A x \in 1 .. 1 + (N - i) : w[x] = IF x <= 1 THEN <<s[i]>>[x] ELSE v[x - 1]
    BY <1>4, <1>5, ConcatProperties
  <2> HIDE DEF w
  <2>2. \A x \in 1 .. 1 + (N - i) : x <= 1 => x = 1
    BY <1>1
  <2>3. QED
    BY <1>5, <2>1, <2>2
<1> HIDE DEF w
<1>7. Len(u) = Len(w)
  BY <1>1, <1>3, <1>6
<1>8. \A x \in 1 .. Len(u) : u[x] = w[x]
  <2> TAKE x \in 1 .. Len(u)
  <2>1. x \in 1 .. N - i + 1 /\ x \in 1 .. 1 + (N - i)
    BY <1>1, <1>3
  <2>2. CASE x = 1
    BY <1>1, <1>3, <1>6, <2>1, <2>2
  <2>3. CASE x # 1
    <3>1. x - 1 \in 1 .. N - i /\ i + (x - 1) = i + x - 1 /\ ~(x <= 1)
      BY <1>1, <2>1, <2>3
    <3>2. QED
      BY <1>3, <1>4, <1>6, <2>1, <3>1
  <2>4. QED
    BY <2>2, <2>3
<1>9. u = w
  BY <1>3, <1>6, <1>7, <1>8, SeqEqual
<1>10. QED
  BY <1>2, <1>4, <1>9 DEF u, v, w, N

\* The texts that lead a parser in a state to an answer.
Leads(state, w) ==
    /\ w \in Seq(Classes)
    /\ \A p \in Parsers : p.state = state => Accepts(p, w)

\* A move, and what leads on from its target.
LEMMA LeadsBy ==
    ASSUME NEW state, NEW to, NEW c \in Classes, <<state, c, to>> \in Moves,
           ~(state = "header_line_start" /\ c \in {"sp", "tab"}),
           NEW w, Leads(to, w), to # "true"
    PROVE  Leads(state, <<c>> \o w)
<1>1. to \notin Final /\ state \notin Final /\ w \in Seq(Classes)
  BY MovesAre DEF Final, Leads
<1>2. ASSUME NEW p \in Parsers, p.state = state PROVE Accepts(p, <<c>> \o w)
  <2>1. Consumes(p, c) \in Parsers
    BY ConsumesTyped
  <2>2. Consumes(p, c).state = to
    BY <1>2, MoveTo
  <2>3. Accepts(Consumes(p, c), w)
    BY <2>1, <2>2 DEF Leads
  <2>4. QED
    BY <1>1, <1>2, <2>2, <2>3, AcceptsMore
<1>3. <<c>> \in Seq(Classes) /\ <<c>> \o w \in Seq(Classes)
  BY <1>1, ConcatProperties
<1>4. QED
  BY <1>2, <1>3 DEF Leads

\* The last character of a request.
LEMMA LeadsLast == Leads("expecting_newline_3", <<"LF">>)
<1>1. "LF" \in Classes /\ <<"LF">> \in Seq(Classes)
  BY DEF Classes
<1>2. <<"expecting_newline_3", "LF", "true">> \in Moves
  BY MovesAre
<1>3. ASSUME NEW p \in Parsers, p.state = "expecting_newline_3" PROVE Accepts(p, <<"LF">>)
  <2>1. Consumes(p, "LF").state = "true"
    BY <1>1, <1>2, <1>3, MoveTo
  <2>2. p.state \notin Final
    BY <1>3 DEF Final
  <2>3. QED
    BY <1>1, <2>1, <2>2, AcceptsOne
<1>4. QED
  BY <1>1, <1>3 DEF Leads

\* The rest of a short request ends what has begun.
LEMMA RequestLeads ==
    LET end == <<"char", "sp", "sp", "H", "T", "T", "P", "/", "digit",
                ".", "digit", "CR", "LF", "CR", "LF">>
    IN  /\ end \in Seq(Classes) /\ Len(end) = 15 /\ DOMAIN end = 1 .. 15
        /\ Leads("method_start", SubSeq(end, 1, 15))
        /\ Leads("method", SubSeq(end, 2, 15))
        /\ Leads("uri", SubSeq(end, 3, 15))
        /\ Leads("http_version_h", SubSeq(end, 4, 15))
        /\ Leads("http_version_t_1", SubSeq(end, 5, 15))
        /\ Leads("http_version_t_2", SubSeq(end, 6, 15))
        /\ Leads("http_version_p", SubSeq(end, 7, 15))
        /\ Leads("http_version_slash", SubSeq(end, 8, 15))
        /\ Leads("http_version_major_start", SubSeq(end, 9, 15))
        /\ Leads("http_version_major", SubSeq(end, 10, 15))
        /\ Leads("http_version_minor_start", SubSeq(end, 11, 15))
        /\ Leads("http_version_minor", SubSeq(end, 12, 15))
        /\ Leads("expecting_newline_1", SubSeq(end, 13, 15))
        /\ Leads("header_line_start", SubSeq(end, 14, 15))
        /\ Leads("expecting_newline_3", SubSeq(end, 15, 15))
<1> DEFINE end == <<"char", "sp", "sp", "H", "T", "T", "P", "/", "digit",
               ".", "digit", "CR", "LF", "CR", "LF">>
<1>1. end \in Seq(Classes) /\ Len(end) = 15 /\ DOMAIN end = 1 .. 15
  BY DEF Classes
<1>2. /\ end[1] = "char" /\ end[2] = "sp" /\ end[3] = "sp" /\ end[4] = "H" /\ end[5] = "T"
      /\ end[6] = "T" /\ end[7] = "P" /\ end[8] = "/" /\ end[9] = "digit" /\ end[10] = "."
      /\ end[11] = "digit" /\ end[12] = "CR" /\ end[13] = "LF" /\ end[14] = "CR" /\ end[15] = "LF"
  OBVIOUS
<1> HIDE DEF end
<1>3. \A i \in 1 .. 15 : /\ SubSeq(end, i, 15) = <<end[i]>> \o SubSeq(end, i + 1, 15)
                        /\ end[i] \in Classes
  BY <1>1, RestOf
<1>4. SubSeq(end, 15, 15) = <<"LF">>
  <2>1. SubSeq(end, 16, 15) = <<>>
    BY SubSeqEmpty
  <2>2. <<"LF">> \o <<>> = <<"LF">>
    BY ConcatEmptySeq
  <2>3. SubSeq(end, 15, 15) = <<end[15]>> \o SubSeq(end, 16, 15)
    BY <1>3
  <2>4. QED
    BY <1>2, <2>1, <2>2, <2>3
<1>5. Leads("expecting_newline_3", SubSeq(end, 15, 15))
  BY <1>4, LeadsLast
<1>6. Leads("header_line_start", SubSeq(end, 14, 15))
  <2>1. <<"header_line_start", "CR", "expecting_newline_3">> \in Moves
    BY ClassFacts, MovesAre
  <2>2. SubSeq(end, 14, 15) = <<"CR">> \o SubSeq(end, 15, 15) /\ "CR" \in Classes
    BY <1>2, <1>3
  <2>3. QED
    BY <1>5, <2>1, <2>2, LeadsBy
<1>7. Leads("expecting_newline_1", SubSeq(end, 13, 15))
  <2>1. <<"expecting_newline_1", "LF", "header_line_start">> \in Moves
    BY ClassFacts, MovesAre
  <2>2. SubSeq(end, 13, 15) = <<"LF">> \o SubSeq(end, 14, 15) /\ "LF" \in Classes
    BY <1>2, <1>3
  <2>3. QED
    BY <1>6, <2>1, <2>2, LeadsBy
<1>8. Leads("http_version_minor", SubSeq(end, 12, 15))
  <2>1. <<"http_version_minor", "CR", "expecting_newline_1">> \in Moves
    BY ClassFacts, MovesAre
  <2>2. SubSeq(end, 12, 15) = <<"CR">> \o SubSeq(end, 13, 15) /\ "CR" \in Classes
    BY <1>2, <1>3
  <2>3. QED
    BY <1>7, <2>1, <2>2, LeadsBy
<1>9. Leads("http_version_minor_start", SubSeq(end, 11, 15))
  <2>1. <<"http_version_minor_start", "digit", "http_version_minor">> \in Moves
    BY ClassFacts, MovesAre
  <2>2. SubSeq(end, 11, 15) = <<"digit">> \o SubSeq(end, 12, 15) /\ "digit" \in Classes
    BY <1>2, <1>3
  <2>3. QED
    BY <1>8, <2>1, <2>2, LeadsBy
<1>10. Leads("http_version_major", SubSeq(end, 10, 15))
  <2>1. <<"http_version_major", ".", "http_version_minor_start">> \in Moves
    BY ClassFacts, MovesAre
  <2>2. SubSeq(end, 10, 15) = <<".">> \o SubSeq(end, 11, 15) /\ "." \in Classes
    BY <1>2, <1>3
  <2>3. QED
    BY <1>9, <2>1, <2>2, LeadsBy
<1>11. Leads("http_version_major_start", SubSeq(end, 9, 15))
  <2>1. <<"http_version_major_start", "digit", "http_version_major">> \in Moves
    BY ClassFacts, MovesAre
  <2>2. SubSeq(end, 9, 15) = <<"digit">> \o SubSeq(end, 10, 15) /\ "digit" \in Classes
    BY <1>2, <1>3
  <2>3. QED
    BY <1>10, <2>1, <2>2, LeadsBy
<1>12. Leads("http_version_slash", SubSeq(end, 8, 15))
  <2>1. <<"http_version_slash", "/", "http_version_major_start">> \in Moves
    BY ClassFacts, MovesAre
  <2>2. SubSeq(end, 8, 15) = <<"/">> \o SubSeq(end, 9, 15) /\ "/" \in Classes
    BY <1>2, <1>3
  <2>3. QED
    BY <1>11, <2>1, <2>2, LeadsBy
<1>13. Leads("http_version_p", SubSeq(end, 7, 15))
  <2>1. <<"http_version_p", "P", "http_version_slash">> \in Moves
    BY ClassFacts, MovesAre
  <2>2. SubSeq(end, 7, 15) = <<"P">> \o SubSeq(end, 8, 15) /\ "P" \in Classes
    BY <1>2, <1>3
  <2>3. QED
    BY <1>12, <2>1, <2>2, LeadsBy
<1>14. Leads("http_version_t_2", SubSeq(end, 6, 15))
  <2>1. <<"http_version_t_2", "T", "http_version_p">> \in Moves
    BY ClassFacts, MovesAre
  <2>2. SubSeq(end, 6, 15) = <<"T">> \o SubSeq(end, 7, 15) /\ "T" \in Classes
    BY <1>2, <1>3
  <2>3. QED
    BY <1>13, <2>1, <2>2, LeadsBy
<1>15. Leads("http_version_t_1", SubSeq(end, 5, 15))
  <2>1. <<"http_version_t_1", "T", "http_version_t_2">> \in Moves
    BY ClassFacts, MovesAre
  <2>2. SubSeq(end, 5, 15) = <<"T">> \o SubSeq(end, 6, 15) /\ "T" \in Classes
    BY <1>2, <1>3
  <2>3. QED
    BY <1>14, <2>1, <2>2, LeadsBy
<1>16. Leads("http_version_h", SubSeq(end, 4, 15))
  <2>1. <<"http_version_h", "H", "http_version_t_1">> \in Moves
    BY ClassFacts, MovesAre
  <2>2. SubSeq(end, 4, 15) = <<"H">> \o SubSeq(end, 5, 15) /\ "H" \in Classes
    BY <1>2, <1>3
  <2>3. QED
    BY <1>15, <2>1, <2>2, LeadsBy
<1>17. Leads("uri", SubSeq(end, 3, 15))
  <2>1. <<"uri", "sp", "http_version_h">> \in Moves
    BY ClassFacts, MovesAre
  <2>2. SubSeq(end, 3, 15) = <<"sp">> \o SubSeq(end, 4, 15) /\ "sp" \in Classes
    BY <1>2, <1>3
  <2>3. QED
    BY <1>16, <2>1, <2>2, LeadsBy
<1>18. Leads("method", SubSeq(end, 2, 15))
  <2>1. <<"method", "sp", "uri">> \in Moves
    BY ClassFacts, MovesAre
  <2>2. SubSeq(end, 2, 15) = <<"sp">> \o SubSeq(end, 3, 15) /\ "sp" \in Classes
    BY <1>2, <1>3
  <2>3. QED
    BY <1>17, <2>1, <2>2, LeadsBy
<1>19. Leads("method_start", SubSeq(end, 1, 15))
  <2>1. <<"method_start", "char", "method">> \in Moves
    BY ClassFacts, MovesAre
  <2>2. SubSeq(end, 1, 15) = <<"char">> \o SubSeq(end, 2, 15) /\ "char" \in Classes
    BY <1>2, <1>3
  <2>3. QED
    BY <1>18, <2>1, <2>2, LeadsBy
<1>20. QED
  BY <1>1, <1>5, <1>6, <1>7, <1>8, <1>9, <1>10, <1>11, <1>12, <1>13, <1>14,
     <1>15, <1>16, <1>17, <1>18, <1>19 DEF end

\* The rest of a short header, and the end of the request.
LEMMA HeaderLeads ==
    LET end == <<":", "sp", "CR", "LF", "CR", "LF">>
    IN  /\ end \in Seq(Classes) /\ Len(end) = 6 /\ DOMAIN end = 1 .. 6
        /\ Leads("header_name", SubSeq(end, 1, 6))
        /\ Leads("space_before_header_value", SubSeq(end, 2, 6))
        /\ Leads("header_value", SubSeq(end, 3, 6))
        /\ Leads("expecting_newline_2", SubSeq(end, 4, 6))
        /\ Leads("header_line_start", SubSeq(end, 5, 6))
        /\ Leads("expecting_newline_3", SubSeq(end, 6, 6))
        /\ Leads("header_lws", SubSeq(end, 3, 6))
<1> DEFINE end == <<":", "sp", "CR", "LF", "CR", "LF">>
<1>1. end \in Seq(Classes) /\ Len(end) = 6 /\ DOMAIN end = 1 .. 6
  BY DEF Classes
<1>2. /\ end[1] = ":" /\ end[2] = "sp" /\ end[3] = "CR" /\ end[4] = "LF" /\ end[5] = "CR"
      /\ end[6] = "LF"
  OBVIOUS
<1> HIDE DEF end
<1>3. \A i \in 1 .. 6 : /\ SubSeq(end, i, 6) = <<end[i]>> \o SubSeq(end, i + 1, 6)
                        /\ end[i] \in Classes
  BY <1>1, RestOf
<1>4. SubSeq(end, 6, 6) = <<"LF">>
  <2>1. SubSeq(end, 7, 6) = <<>>
    BY SubSeqEmpty
  <2>2. <<"LF">> \o <<>> = <<"LF">>
    BY ConcatEmptySeq
  <2>3. SubSeq(end, 6, 6) = <<end[6]>> \o SubSeq(end, 7, 6)
    BY <1>3
  <2>4. QED
    BY <1>2, <2>1, <2>2, <2>3
<1>5. Leads("expecting_newline_3", SubSeq(end, 6, 6))
  BY <1>4, LeadsLast
<1>6. Leads("header_line_start", SubSeq(end, 5, 6))
  <2>1. <<"header_line_start", "CR", "expecting_newline_3">> \in Moves
    BY ClassFacts, MovesAre
  <2>2. SubSeq(end, 5, 6) = <<"CR">> \o SubSeq(end, 6, 6) /\ "CR" \in Classes
    BY <1>2, <1>3
  <2>3. QED
    BY <1>5, <2>1, <2>2, LeadsBy
<1>7. Leads("expecting_newline_2", SubSeq(end, 4, 6))
  <2>1. <<"expecting_newline_2", "LF", "header_line_start">> \in Moves
    BY ClassFacts, MovesAre
  <2>2. SubSeq(end, 4, 6) = <<"LF">> \o SubSeq(end, 5, 6) /\ "LF" \in Classes
    BY <1>2, <1>3
  <2>3. QED
    BY <1>6, <2>1, <2>2, LeadsBy
<1>8. Leads("header_value", SubSeq(end, 3, 6))
  <2>1. <<"header_value", "CR", "expecting_newline_2">> \in Moves
    BY ClassFacts, MovesAre
  <2>2. SubSeq(end, 3, 6) = <<"CR">> \o SubSeq(end, 4, 6) /\ "CR" \in Classes
    BY <1>2, <1>3
  <2>3. QED
    BY <1>7, <2>1, <2>2, LeadsBy
<1>9. Leads("header_lws", SubSeq(end, 3, 6))
  <2>1. <<"header_lws", "CR", "expecting_newline_2">> \in Moves
    BY ClassFacts, MovesAre
  <2>2. SubSeq(end, 3, 6) = <<"CR">> \o SubSeq(end, 4, 6) /\ "CR" \in Classes
    BY <1>2, <1>3
  <2>3. QED
    BY <1>7, <2>1, <2>2, LeadsBy
<1>10. Leads("space_before_header_value", SubSeq(end, 2, 6))
  <2>1. <<"space_before_header_value", "sp", "header_value">> \in Moves
    BY ClassFacts, MovesAre
  <2>2. SubSeq(end, 2, 6) = <<"sp">> \o SubSeq(end, 3, 6) /\ "sp" \in Classes
    BY <1>2, <1>3
  <2>3. QED
    BY <1>8, <2>1, <2>2, LeadsBy
<1>11. Leads("header_name", SubSeq(end, 1, 6))
  <2>1. <<"header_name", ":", "space_before_header_value">> \in Moves
    BY ClassFacts, MovesAre
  <2>2. SubSeq(end, 1, 6) = <<":">> \o SubSeq(end, 2, 6) /\ ":" \in Classes
    BY <1>2, <1>3
  <2>3. QED
    BY <1>10, <2>1, <2>2, LeadsBy
<1>12. QED
  BY <1>1, <1>5, <1>6, <1>7, <1>8, <1>9, <1>10, <1>11 DEF end

----------------------------------------------------------------------------
(* What request_parser::parse answers. *)

\* Whatever a parser has not answered, a completion leads to an answer.
LEMMA Viable ==
    ASSUME NEW p \in Parsers, p.state \notin Final
    PROVE  \E w \in Completions : Accepts(p, w)
<1> DEFINE request == <<"char", "sp", "sp", "H", "T", "T", "P", "/", "digit", ".", "digit",
                        "CR", "LF", "CR", "LF">>
           header == <<":", "sp", "CR", "LF", "CR", "LF">>
<1>1. Completions = {SubSeq(request, i, Len(request)) : i \in DOMAIN request}
                      \cup {SubSeq(header, i, Len(header)) : i \in DOMAIN header}
  BY Zenon DEF Completions
<1>2. Len(request) = 15 /\ DOMAIN request = 1 .. 15
  BY RequestLeads
<1>3. Len(header) = 6 /\ DOMAIN header = 1 .. 6
  BY HeaderLeads
<1>4. \A w : Leads(p.state, w) => Accepts(p, w)
  BY DEF Leads
<1>5. p.state \in States
  BY ParserFacts
<1>6. (\E i \in 1 .. 15 : Leads(p.state, SubSeq(request, i, 15)))
        \/ (\E i \in 1 .. 6 : Leads(p.state, SubSeq(header, i, 6)))
  <2> HIDE DEF request, header
  <2>1. /\ Leads("method_start", SubSeq(request, 1, 15))
        /\ Leads("method", SubSeq(request, 2, 15))
        /\ Leads("uri", SubSeq(request, 3, 15))
        /\ Leads("http_version_h", SubSeq(request, 4, 15))
        /\ Leads("http_version_t_1", SubSeq(request, 5, 15))
        /\ Leads("http_version_t_2", SubSeq(request, 6, 15))
        /\ Leads("http_version_p", SubSeq(request, 7, 15))
        /\ Leads("http_version_slash", SubSeq(request, 8, 15))
        /\ Leads("http_version_major_start", SubSeq(request, 9, 15))
        /\ Leads("http_version_major", SubSeq(request, 10, 15))
        /\ Leads("http_version_minor_start", SubSeq(request, 11, 15))
        /\ Leads("http_version_minor", SubSeq(request, 12, 15))
        /\ Leads("expecting_newline_1", SubSeq(request, 13, 15))
        /\ Leads("header_line_start", SubSeq(request, 14, 15))
        /\ Leads("expecting_newline_3", SubSeq(request, 15, 15))
    BY RequestLeads DEF request
  <2>2. /\ Leads("header_name", SubSeq(header, 1, 6))
        /\ Leads("space_before_header_value", SubSeq(header, 2, 6))
        /\ Leads("header_value", SubSeq(header, 3, 6))
        /\ Leads("expecting_newline_2", SubSeq(header, 4, 6))
        /\ Leads("header_lws", SubSeq(header, 3, 6))
    BY HeaderLeads DEF header
  <2>3. \/ p.state \in {"method_start", "method", "uri", "http_version_h", "http_version_t_1"}
        \/ p.state \in {"http_version_t_2", "http_version_p", "http_version_slash",
                        "http_version_major_start", "http_version_major"}
        \/ p.state \in {"http_version_minor_start", "http_version_minor",
                        "expecting_newline_1", "header_line_start", "expecting_newline_3"}
        \/ p.state \in {"header_name", "space_before_header_value", "header_value",
                        "expecting_newline_2", "header_lws"}
    BY <1>5, StatesAre
  <2>4. QED
    BY <2>1, <2>2, <2>3
<1> HIDE DEF request, header
<1>7. QED
  BY <1>1, <1>2, <1>3, <1>4, <1>6

\* The completions are texts.
LEMMA CompletionsTyped == Completions \subseteq Seq(Classes)
<1> DEFINE request == <<"char", "sp", "sp", "H", "T", "T", "P", "/", "digit", ".", "digit",
                        "CR", "LF", "CR", "LF">>
           header == <<":", "sp", "CR", "LF", "CR", "LF">>
<1>1. Completions = {SubSeq(request, i, Len(request)) : i \in DOMAIN request}
                      \cup {SubSeq(header, i, Len(header)) : i \in DOMAIN header}
  BY Zenon DEF Completions
<1>2. request \in Seq(Classes) /\ DOMAIN request = 1 .. Len(request)
  BY RequestLeads
<1>3. header \in Seq(Classes) /\ DOMAIN header = 1 .. Len(header)
  BY HeaderLeads
<1> HIDE DEF request, header
<1>4. \A i \in 1 .. Len(request) : SubSeq(request, i, Len(request)) \in Seq(Classes)
  BY <1>2, RestOf, ConcatProperties
<1>5. \A i \in 1 .. Len(header) : SubSeq(header, i, Len(header)) \in Seq(Classes)
  BY <1>3, RestOf, ConcatProperties
<1>6. QED
  BY <1>1, <1>2, <1>3, <1>4, <1>5

\* A new parser is done at the end of a text exactly when the text is a request.
LEMMA RequestAccepted ==
    ASSUME NEW t \in Seq(Classes)
    PROVE  IsRequest(t) <=> Accepts(NewParser, t)
<1>1. PICK r : IsRun(r, NewParser, t)
  BY NewParserFacts, ParseRuns
<1>2. Complete(t) => Accepts(NewParser, t)
  BY <1>1, Accepted DEF Accepts
<1>3. Accepts(NewParser, t) => Complete(t)
  BY OnlyRequests DEF Accepts
<1>4. QED
  BY <1>2, <1>3, CompleteIs

\* What a run answers within a text is what the text begins with.
LEMMA AnswerIs ==
    ASSUME NEW t \in Seq(Classes), NEW r, IsRun(r, NewParser, t)
    PROVE  r[Len(t)].state = "true" <=> \E i \in DOMAIN t : IsRequest(SubSeq(t, 1, i))
<1> DEFINE N == Len(t)
           A == {i \in Nat : i <= N /\ r[i].state \in Final}
<1>0. t \in Seq(Classes) /\ IsRun(r, NewParser, t)
  OBVIOUS
<1>1. N \in Nat /\ DOMAIN t = 1 .. N /\ r[0] = NewParser
  BY LenProperties DEF IsRun
<1>2. ASSUME NEW m \in 0 .. N
      PROVE  /\ SubSeq(t, 1, m) \in Seq(Classes) /\ Len(SubSeq(t, 1, m)) = m
  <2>1. \A i \in 1 .. m : t[i] \in Classes
    BY <1>1, LenProperties
  <2>2. QED
    BY <1>1, <2>1, SubSeqProperties
<1> HIDE DEF N, A
<1>3. ASSUME r[N].state = "true"
      PROVE  \E i \in DOMAIN t : IsRequest(SubSeq(t, 1, i))
  <2>1. N \in A /\ A \subseteq Nat
    BY <1>1, <1>3 DEF A, Final
  <2>2. PICK m \in A : \A k \in A : m <= k
    BY <2>1, Least
  <2>3. m \in Nat /\ m <= N /\ m \in 0 .. N /\ r[m].state \in Final
    BY <1>1, <2>2 DEF A
  <2>4. \A n \in Nat : n < m => r[n].state \notin Final
    BY <1>1, <2>2, <2>3 DEF A
  <2>5. r[m].state = "true"
    <3>1. r[N] = r[m]
      <4>1. m \in 0 .. Len(t) /\ N \in m .. Len(t)
        BY <1>1, <2>3 DEF N
      <4>2. QED
        BY <2>3, <4>1, RunDecided
    <3>2. QED
      BY <1>3, <3>1
  <2>6. m # 0
    BY <1>1, <2>3, NewParserFacts
  <2>7. PICK s : IsRun(s, NewParser, SubSeq(t, 1, m)) /\ \A n \in 0 .. m : s[n] = r[n]
    <3>1. m \in 0 .. Len(t)
      BY <2>3 DEF N
    <3>2. \E s : Begins(s, r, NewParser, t, m)
      BY <1>0, <3>1, RunPrefix, Zenon
    <3>3. QED
      BY <3>2 DEF Begins
  <2>8. Accepts(NewParser, SubSeq(t, 1, m))
    <3>1. s[m].state = "true" /\ \A n \in Nat : n < m => s[n].state \notin Final
      <4>1. \A n \in Nat : n < m => n \in 0 .. m
        BY <2>3
      <4>2. m \in 0 .. m
        BY <2>3
      <4>3. QED
        BY <2>4, <2>5, <2>7, <4>1, <4>2
    <3>2. QED
      BY <1>2, <2>3, <2>7, <3>1 DEF Accepts
  <2>9. IsRequest(SubSeq(t, 1, m))
    BY <1>2, <2>3, <2>8, RequestAccepted
  <2>10. m \in DOMAIN t
    BY <1>1, <2>3, <2>6
  <2>11. QED
    BY <2>9, <2>10
<1>4. ASSUME NEW i \in DOMAIN t, IsRequest(SubSeq(t, 1, i)) PROVE r[N].state = "true"
  <2>1. i \in 0 .. N /\ i \in 0 .. Len(t) /\ i \in 0 .. i /\ N \in i .. Len(t)
    BY <1>1 DEF N
  <2> DEFINE u == SubSeq(t, 1, i)
  <2>2. u \in Seq(Classes) /\ Len(u) = i
    BY <1>2, <2>1
  <2>3. PICK s : IsRun(s, NewParser, u) /\ \A n \in 0 .. i : s[n] = r[n]
    <3>1. i \in 0 .. Len(t)
      BY <2>1
    <3>2. \E s : Begins(s, r, NewParser, t, i)
      BY <1>0, <3>1, RunPrefix, Zenon
    <3>3. QED
      BY <3>2 DEF Begins
  <2>4. PICK q : IsRun(q, NewParser, u) /\ q[Len(u)].state = "true"
    BY <1>4, <2>2, RequestAccepted DEF Accepts
  <2> HIDE DEF u
  <2>5. s[i] = q[i]
    <3>1. \A n \in 0 .. Len(u) : s[n] = q[n]
      BY <2>2, <2>3, <2>4, RunUnique
    <3>2. QED
      BY <2>1, <2>2, <3>1
  <2>6. r[i].state = "true"
    BY <2>1, <2>2, <2>3, <2>4, <2>5
  <2>7. r[N] = r[i]
    BY <2>1, <2>6, RunDecided DEF Final
  <2>8. QED
    BY <2>6, <2>7
<1>5. QED
  BY <1>3, <1>4 DEF N

\* request_parser::parse answers what the text says, wherever it ends: it is done at the
\* first request, and refuses at the character from which on nothing can make one.
THEOREM ParserReads ==
    ASSUME NEW t \in Seq(Classes)
    PROVE  Says(Parse(NewParser, t)) = Reading(t)
<1> DEFINE N == Len(t)
<1>1. PICK r : IsRun(r, NewParser, t) /\ r[Len(t)] = Parse(NewParser, t)
  BY NewParserFacts, ParseRuns
<1>2. N \in Nat /\ N \in 0 .. N /\ r[N] \in Parsers
  BY <1>1, LenProperties DEF IsRun
<1>3. r[N].state = "true" <=> \E i \in DOMAIN t : IsRequest(SubSeq(t, 1, i))
  BY <1>1, AnswerIs
<1>4. ASSUME r[N].state \notin Final
      PROVE  \E end \in Completions : IsRequest(t \o end)
  <2>1. PICK w \in Completions : Accepts(r[N], w)
    BY <1>2, <1>4, Viable
  <2>2. w \in Seq(Classes)
    BY CompletionsTyped
  <2>3. \A n \in 0 .. Len(t) : r[n].state \notin Final
    <3> TAKE n \in 0 .. Len(t)
    <3>1. N \in n .. Len(t)
      BY <1>2
    <3>2. QED
      BY <1>1, <1>4, <3>1, RunDecided, ZenonT(30)
  <2>4. Accepts(NewParser, t \o w)
    BY <1>1, <2>1, <2>2, <2>3, AcceptsConcat
  <2>5. t \o w \in Seq(Classes)
    BY <2>2, ConcatProperties
  <2>6. QED
    BY <2>4, <2>5, RequestAccepted
<1>5. ASSUME r[N].state = "false", NEW w \in Completions, IsRequest(t \o w)
      PROVE  FALSE
  <2>1. w \in Seq(Classes)
    BY CompletionsTyped
  <2> DEFINE u == t \o w
  <2>2. u \in Seq(Classes) /\ Len(u) = N + Len(w) /\ Len(w) \in Nat
    BY <2>1, ConcatProperties, LenProperties
  <2>3. PICK q : IsRun(q, NewParser, u) /\ q[Len(u)].state = "true"
    BY <1>5, <2>2, RequestAccepted DEF Accepts
  <2>4. PICK v : IsRun(v, r[Len(t)], w)
    BY <1>2, <2>1, ParseRuns
  <2>5. PICK s : Joins(s, NewParser, r, v, t, w)
    BY <1>1, <2>1, <2>4, RunConcat
  <2>6. IsRun(s, NewParser, u) /\ s[N] = r[N]
    BY <1>2, <2>5 DEF Joins
  <2> HIDE DEF u, N
  <2>7. N \in 0 .. Len(u) /\ Len(u) \in N .. Len(u) /\ Len(u) \in 0 .. Len(u)
    BY <1>2, <2>2
  <2>8. q[N].state = "false"
    BY <1>5, <2>2, <2>3, <2>6, <2>7, RunUnique
  <2>9. q[Len(u)] = q[N]
    BY <2>2, <2>3, <2>7, <2>8, RunDecided DEF Final
  <2>10. QED
    BY <2>3, <2>8, <2>9
<1>6. Parse(NewParser, t) = r[N]
  BY <1>1
<1> HIDE DEF N
<1>7. CASE r[N].state = "true"
  BY <1>3, <1>6, <1>7, Zenon DEF Says, Reading, Final
<1>8. CASE r[N].state = "false"
  BY <1>3, <1>5, <1>6, <1>8 DEF Says, Reading, Final
<1>9. CASE r[N].state \notin Final
  BY <1>3, <1>4, <1>6, <1>9 DEF Says, Reading, Final
<1>10. QED
  BY <1>7, <1>8, <1>9 DEF Final

\* It does not matter in which pieces a text comes.
LEMMA ParsePieces ==
    ASSUME NEW p \in Parsers, NEW t \in Seq(Classes), NEW w \in Seq(Classes)
    PROVE  Parse(Parse(p, t), w) = Parse(p, t \o w)
<1> DEFINE u == t \o w
<1>1. PICK r : IsRun(r, p, t) /\ r[Len(t)] = Parse(p, t)
  BY ParseRuns
<1>2. u \in Seq(Classes) /\ Len(u) = Len(t) + Len(w) /\ Len(w) \in Nat /\ Len(t) \in Nat
  BY ConcatProperties, LenProperties
<1>3. r[Len(t)] \in Parsers
  BY <1>1, <1>2 DEF IsRun
<1>4. PICK q : IsRun(q, r[Len(t)], w) /\ q[Len(w)] = Parse(r[Len(t)], w)
  BY <1>3, ParseRuns
<1>5. PICK s : Joins(s, p, r, q, t, w)
  BY <1>1, <1>4, RunConcat
<1>6. PICK z : IsRun(z, p, u) /\ z[Len(u)] = Parse(p, u)
  BY <1>2, ParseRuns
<1>7. IsRun(s, p, u) /\ s[Len(t) + Len(w)] = q[Len(w)]
  BY <1>2, <1>5 DEF Joins
<1> HIDE DEF u
<1>8. Len(u) \in 0 .. Len(u)
  BY <1>2
<1>9. s[Len(u)] = z[Len(u)]
  <2>1. \A n \in 0 .. Len(u) : s[n] = z[n]
    <3>1. u \in Seq(Classes) /\ IsRun(s, p, u) /\ IsRun(z, p, u)
      BY <1>2, <1>6, <1>7
    <3>2. QED
      BY ONLY <3>1, RunUnique, SMT
  <2>2. QED
    BY <1>8, <2>1
<1>10. QED
  BY <1>1, <1>2, <1>4, <1>6, <1>7, <1>9 DEF u

\* A parser that has read a text is a parser.
LEMMA ParseTyped ==
    ASSUME NEW p \in Parsers, NEW t \in Seq(Classes)
    PROVE  Parse(p, t) \in Parsers
<1>1. PICK r : IsRun(r, p, t) /\ r[Len(t)] = Parse(p, t)
  BY ParseRuns
<1>2. Len(t) \in 0 .. Len(t)
  BY LenProperties
<1>3. QED
  BY <1>1, <1>2 DEF IsRun

----------------------------------------------------------------------------
(* Texts in pieces, and the texts around others. *)

\* The beginnings of a text.
LEMMA Beginning ==
    ASSUME NEW t \in Seq(Classes), NEW m \in 0 .. Len(t)
    PROVE  SubSeq(t, 1, m) \in Seq(Classes) /\ Len(SubSeq(t, 1, m)) = m
<1>1. Len(t) \in Nat /\ m \in Nat /\ \A i \in 1 .. m : t[i] \in Classes
  <2>1. Len(t) \in Nat /\ \A i \in 1 .. Len(t) : t[i] \in Classes
    BY LenProperties
  <2>2. QED
    BY <2>1
<1>2. QED
  BY <1>1, SubSeqProperties

\* A beginning of a text, and the rest of it.
LEMMA Cut ==
    ASSUME NEW t \in Seq(Classes), NEW b \in 0 .. Len(t), NEW a \in 0 .. b
    PROVE  /\ SubSeq(t, 1, a) \o SubSeq(t, a + 1, b) = SubSeq(t, 1, b)
           /\ SubSeq(t, a + 1, b) \in Seq(Classes)
<1> DEFINE u == SubSeq(t, 1, a)
           v == SubSeq(t, a + 1, b)
           w == SubSeq(t, 1, b)
           x == u \o v
<1>1. Len(t) \in Nat /\ a \in Nat /\ b \in Nat /\ a <= b /\ b <= Len(t)
      /\ \A i \in 1 .. b : t[i] \in Classes
  <2>1. Len(t) \in Nat /\ \A i \in 1 .. Len(t) : t[i] \in Classes
    BY LenProperties
  <2>2. QED
    BY <2>1
<1>2. u \in Seq(Classes) /\ Len(u) = a /\ \A i \in 1 .. a : u[i] = t[i]
  <2>1. a \in 0 .. Len(t)
    BY <1>1
  <2>2. QED
    BY <1>1, <2>1, Beginning
<1>3. v \in Seq(Classes) /\ Len(v) = b - a /\ \A i \in 1 .. b - a : v[i] = t[a + i]
  <2>1. /\ \A i \in a + 1 .. b : t[i] \in Classes
        /\ (IF a + 1 <= b THEN b - (a + 1) + 1 ELSE 0) = b - a
        /\ b - (a + 1) + 1 = b - a
    BY <1>1
  <2>2. v \in Seq(Classes) /\ Len(v) = b - a /\ \A i \in 1 .. b - a : v[i] = t[a + 1 + i - 1]
    BY <1>1, <2>1, SubSeqProperties
  <2>3. \A i \in 1 .. b - a : a + 1 + i - 1 = a + i
    BY <1>1
  <2> HIDE DEF v
  <2>4. QED
    BY <2>2, <2>3
<1>4. w \in Seq(Classes) /\ Len(w) = b /\ \A i \in 1 .. b : w[i] = t[i]
  BY <1>1, Beginning
<1> HIDE DEF u, v, w
<1>5. /\ x \in Seq(Classes) /\ Len(x) = a + (b - a)
      /\ \A i \in 1 .. a + (b - a) : x[i] = IF i <= a THEN u[i] ELSE v[i - a]
  <2>1. /\ x \in Seq(Classes) /\ Len(x) = Len(u) + Len(v)
        /\ \A i \in 1 .. Len(u) + Len(v) : x[i] = IF i <= Len(u) THEN u[i] ELSE v[i - Len(u)]
    BY <1>2, <1>3, ConcatProperties
  <2> HIDE DEF x
  <2>2. QED
    BY <1>2, <1>3, <2>1
<1> HIDE DEF x
<1>6. \A i \in 1 .. Len(x) : x[i] = w[i]
  <2> TAKE i \in 1 .. Len(x)
  <2>1. i \in 1 .. b /\ i \in 1 .. a + (b - a)
    BY <1>1, <1>5
  <2>2. CASE i <= a
    BY <1>1, <1>2, <1>4, <1>5, <2>1, <2>2
  <2>3. CASE ~(i <= a)
    <3>1. i - a \in 1 .. b - a /\ a + (i - a) = i
      BY <1>1, <2>1, <2>3
    <3>2. QED
      BY <1>3, <1>4, <1>5, <2>1, <2>3, <3>1
  <2>4. QED
    BY <2>2, <2>3
<1>7. Len(x) = Len(w)
  BY <1>1, <1>4, <1>5
<1>8. x = w
  BY <1>4, <1>5, <1>6, <1>7, SeqEqual
<1>9. QED
  BY <1>3, <1>8 DEF u, v, w, x

\* Nothing is read yet.
LEMMA ParseNothing ==
    ASSUME NEW t \in Seq(Classes)
    PROVE  Parse(NewParser, SubSeq(t, 1, 0)) = NewParser
<1> DEFINE u == SubSeq(t, 1, 0)
<1>1. 0 \in 0 .. Len(t)
  BY LenProperties
<1>2. u \in Seq(Classes) /\ Len(u) = 0
  BY <1>1, Beginning
<1> HIDE DEF u
<1>3. PICK r : IsRun(r, NewParser, u) /\ r[Len(u)] = Parse(NewParser, u)
  BY <1>2, NewParserFacts, ParseRuns
<1>4. r[0] = NewParser
  BY <1>3 DEF IsRun
<1>5. QED
  BY <1>2, <1>3, <1>4 DEF u

\* In whatever pieces a text comes, the parser stands where it would with all at once.
LEMMA ParseOn ==
    ASSUME NEW t \in Seq(Classes), NEW b \in 0 .. Len(t), NEW a \in 0 .. b
    PROVE  Parse(Parse(NewParser, SubSeq(t, 1, a)), SubSeq(t, a + 1, b)) =
             Parse(NewParser, SubSeq(t, 1, b))
<1>1. a \in 0 .. Len(t)
  BY LenProperties
<1>2. SubSeq(t, 1, a) \in Seq(Classes) /\ SubSeq(t, a + 1, b) \in Seq(Classes)
      /\ SubSeq(t, 1, a) \o SubSeq(t, a + 1, b) = SubSeq(t, 1, b)
  BY <1>1, Beginning, Cut
<1>3. NewParser \in Parsers
  BY NewParserFacts
<1>4. Parse(Parse(NewParser, SubSeq(t, 1, a)), SubSeq(t, a + 1, b)) =
        Parse(NewParser, SubSeq(t, 1, a) \o SubSeq(t, a + 1, b))
  BY <1>2, <1>3, ParsePieces, Zenon
<1>5. QED
  BY <1>2, <1>4, Zenon

\* The texts around a text.
LEMMA NearTyped ==
    ASSUME NEW t \in Seq(Classes)
    PROVE  Near(t) \subseteq Seq(Classes)
<1>1. DOMAIN t = 1 .. Len(t) /\ Len(t) \in Nat
  BY LenProperties
<1>2. \A i \in DOMAIN t : SubSeq(t, 1, i) \in Seq(Classes)
  BY <1>1, Beginning
<1>3. ASSUME NEW i \in DOMAIN t, NEW c \in Classes
      PROVE  ReplaceAt(t, i, c) \in Seq(Classes)
  BY <1>1 DEF ReplaceAt
<1>4. ASSUME NEW i \in DOMAIN t, NEW c \in Classes
      PROVE  InsertAt(t, i, c) \in Seq(Classes)
  <2>1. /\ i - 1 \in 0 .. Len(t) /\ i - 1 \in 0 .. Len(t) /\ (i - 1) + 1 = i
        /\ Len(t) \in 0 .. Len(t)
    BY <1>1
  <2>2. /\ SubSeq(t, 1, i - 1) \in Seq(Classes)
        /\ SubSeq(t, (i - 1) + 1, Len(t)) \in Seq(Classes)
    BY <2>1, Beginning, Cut
  <2>3. SubSeq(t, 1, i - 1) \o <<c>> \in Seq(Classes)
    BY <2>2, ConcatProperties
  <2>4. QED
    BY <2>1, <2>2, <2>3, ConcatProperties DEF InsertAt
<1>5. ASSUME NEW i \in DOMAIN t
      PROVE  RemoveAt(t, i) \in Seq(Classes)
  <2>1. i - 1 \in 0 .. Len(t) /\ i \in 0 .. Len(t) /\ Len(t) \in 0 .. Len(t)
    BY <1>1
  <2>2. /\ SubSeq(t, 1, i - 1) \in Seq(Classes)
        /\ SubSeq(t, i + 1, Len(t)) \in Seq(Classes)
    BY <2>1, Beginning, Cut
  <2>3. QED
    BY <2>2, ConcatProperties DEF RemoveAt
<1> DEFINE A == {ReplaceAt(t, i, c) : i \in DOMAIN t, c \in Classes}
           B == {InsertAt(t, i, c) : i \in DOMAIN t, c \in Classes}
           C == {RemoveAt(t, i) : i \in DOMAIN t}
           D == {SubSeq(t, 1, i) : i \in DOMAIN t}
<1>6. Near(t) = {t} \cup A \cup B \cup C \cup D
  BY DEF Near
<1>7. A \subseteq Seq(Classes)
  <2> SUFFICES ASSUME NEW x \in A PROVE x \in Seq(Classes)
    OBVIOUS
  <2>1. PICK i \in DOMAIN t, c \in Classes : x = ReplaceAt(t, i, c)
    OBVIOUS
  <2>2. QED
    BY <1>3, <2>1
<1>8. B \subseteq Seq(Classes)
  <2> SUFFICES ASSUME NEW x \in B PROVE x \in Seq(Classes)
    OBVIOUS
  <2>1. PICK i \in DOMAIN t, c \in Classes : x = InsertAt(t, i, c)
    OBVIOUS
  <2>2. QED
    BY <1>4, <2>1
<1>9. C \subseteq Seq(Classes) /\ D \subseteq Seq(Classes)
  BY <1>2, <1>5
<1> HIDE DEF A, B, C, D
<1>10. QED
  BY <1>6, <1>7, <1>8, <1>9

\* request_parser accepts the requests, and nothing else, and refuses as soon as it
\* can, whatever texts are tried around whatever others.
THEOREM ParserRecognisesAny ==
    ASSUME NEW texts \in SUBSET Seq(Classes)
    PROVE  Recognises(texts)
<1>1. \A text \in UNION {Near(t) : t \in texts} : text \in Seq(Classes)
  BY NearTyped
<1>2. QED
  BY <1>1, ParserReads DEF Recognises

----------------------------------------------------------------------------
(* Division by the number of buckets. *)

\* A rest is a slot.
LEMMA SlotTyped ==
    ASSUME NEW a \in Int
    PROVE  a % Seconds \in Slots
BY StatisticsAssumption DEF Slots

\* A multiple of a number that is smaller than the number is 0.
LEMMA SmallMultiple ==
    ASSUME NEW n \in Nat, NEW q \in Int, q * n < n, 0 - n < q * n
    PROVE  q = 0
<1>1. CASE q >= 1
  <2>1. q * n >= n
    BY <1>1
  <2>2. QED
    BY <2>1
<1>2. CASE q <= 0 - 1
  <2>1. 0 - q >= 1 /\ 0 - q \in Int
    BY <1>2
  <2>2. (0 - q) * n >= n
    BY <2>1
  <2>3. (0 - q) * n = 0 - (q * n)
    OBVIOUS
  <2>4. q * n \in Int
    OBVIOUS
  <2>5. QED
    BY ONLY n \in Nat, q * n < n, 0 - n < q * n, <2>2, <2>3, <2>4
<1>3. QED
  BY <1>1, <1>2

\* A number is so many times the number of buckets, and the rest.
LEMMA Quotient ==
    ASSUME NEW a \in Int
    PROVE  \E q \in Int : a = q * Seconds + (a % Seconds)
<1>1. Seconds \in Nat /\ Seconds > 0
  BY StatisticsAssumption
<1>2. a = (a \div Seconds) * Seconds + (a % Seconds)
  BY <1>1, Z3
<1>3. a \div Seconds \in Int
  BY <1>1, Z3
<1>4. QED
  BY <1>2, <1>3

\* Numbers that leave the same rest are a multiple apart.
LEMMA SameSlot ==
    ASSUME NEW a \in Int, NEW b \in Int
    PROVE  a % Seconds = b % Seconds <=> \E q \in Int : a - b = q * Seconds
<1> DEFINE x == a % Seconds
           y == b % Seconds
<1>1. x \in 0 .. Seconds - 1 /\ y \in 0 .. Seconds - 1 /\ Seconds \in Nat
  BY SlotTyped, StatisticsAssumption DEF Slots
<1>2. PICK p \in Int : a = p * Seconds + x
  BY Quotient
<1>3. PICK r \in Int : b = r * Seconds + y
  BY Quotient
<1> HIDE DEF x, y
<1>4. (p - r) * Seconds = p * Seconds - r * Seconds /\ p * Seconds \in Int /\ r * Seconds \in Int
  BY <1>1
<1>5. ASSUME x = y PROVE \E q \in Int : a - b = q * Seconds
  <2>1. a - b = (p - r) * Seconds /\ p - r \in Int
    BY <1>1, <1>2, <1>3, <1>4, <1>5
  <2>2. QED
    BY <2>1
<1>6. ASSUME NEW q \in Int, a - b = q * Seconds PROVE x = y
  <2> DEFINE z == q - (p - r)
  <2>1. z * Seconds = q * Seconds - (p - r) * Seconds /\ q * Seconds \in Int /\ z \in Int
    BY <1>1
  <2> HIDE DEF z
  <2>2. z * Seconds = x - y
    BY <1>1, <1>2, <1>3, <1>4, <1>6, <2>1
  <2>3. z = 0
    <3>1. z * Seconds < Seconds /\ 0 - Seconds < z * Seconds
      BY <1>1, <2>2
    <3>2. QED
      BY <1>1, <2>1, <3>1, SmallMultiple
  <2>4. z * Seconds = 0
    BY <1>1, <2>3
  <2>5. QED
    BY <1>1, <2>2, <2>4
<1>7. QED
  BY <1>5, <1>6 DEF x, y

\* A rest is its own rest.
LEMMA SlotAgain ==
    ASSUME NEW a \in Int
    PROVE  (a + Seconds) % Seconds = a % Seconds
<1>1. a + Seconds \in Int /\ (a + Seconds) - a = 1 * Seconds /\ 1 \in Int
  BY StatisticsAssumption
<1>2. QED
  BY <1>1, SameSlot

\* A slot that is moved on.
LEMMA SlotOn ==
    ASSUME NEW a \in Int, NEW k \in Int
    PROVE  ((a % Seconds) + k) % Seconds = (a + k) % Seconds
<1> DEFINE x == a % Seconds
<1>1. x \in Int /\ Seconds \in Nat
  BY SlotTyped, StatisticsAssumption DEF Slots
<1>2. PICK q \in Int : a = q * Seconds + x
  BY Quotient
<1> HIDE DEF x
<1>3. q * Seconds \in Int
  BY <1>1
<1>4. (a + k) - (x + k) = q * Seconds /\ a + k \in Int /\ x + k \in Int
  BY <1>1, <1>2, <1>3
<1>5. (a + k) % Seconds = (x + k) % Seconds
  BY <1>4, SameSlot
<1>6. QED
  BY <1>5 DEF x

\* Two seconds of one window have slots of their own.
LEMMA SlotsApart ==
    ASSUME NEW a \in Int, NEW b \in Int, a % Seconds = b % Seconds, b <= a, a - b < Seconds
    PROVE  a = b
<1>1. Seconds \in Nat /\ Seconds > 0
  BY StatisticsAssumption
<1>2. PICK q \in Int : a - b = q * Seconds
  BY SameSlot
<1>3. q * Seconds < Seconds /\ 0 - Seconds < q * Seconds
  BY <1>1, <1>2
<1>4. q = 0
  BY <1>1, <1>3, SmallMultiple
<1>5. q * Seconds = 0
  BY <1>1, <1>4
<1>6. QED
  BY <1>2, <1>5

----------------------------------------------------------------------------
(* The operations of the ring. *)

\* The states of a ring.
Rings == [counts : [Slots -> Nat], current : Slots, time : Nat, total : Nat]

\* The fields of a ring.
LEMMA RingFields ==
    ASSUME NEW ring \in Rings
    PROVE  /\ ring.counts \in [Slots -> Nat] /\ ring.current \in Slots
           /\ ring.time \in Nat /\ ring.total \in Nat
           /\ ring = [counts |-> ring.counts, current |-> ring.current,
                      time |-> ring.time, total |-> ring.total]
BY DEF Rings

\* statistics_ring::statistics_ring, field by field.
LEMMA NewRingIs ==
    ASSUME NEW now \in Nat
    PROVE  /\ NewRing(now) \in Rings /\ NewRing(now).current = 0
           /\ NewRing(now).time = now /\ NewRing(now).total = 0
           /\ \A s \in Slots : NewRing(now).counts[s] = 0
<1>1. 0 \in Slots
  BY StatisticsAssumption DEF Slots
<1>2. [i \in Slots |-> 0] \in [Slots -> Nat]
  OBVIOUS
<1>3. QED
  BY <1>1, <1>2 DEF NewRing, Rings

\* statistics_ring::advance of a clock that went on, field by field.
LEMMA AdvanceIs ==
    ASSUME NEW ring \in Rings, NEW now \in Nat, now > ring.time
    PROVE  /\ Advance(ring, now) \in Rings
           /\ Advance(ring, now).current = (ring.current + (now - ring.time)) % Seconds
           /\ Advance(ring, now).time = now
           /\ Advance(ring, now).total = ring.total
           /\ \A s \in Slots : Advance(ring, now).counts[s] =
                IF s \in Entered(ring, now) THEN 0 ELSE ring.counts[s]
<1> DEFINE E == Entered(ring, now)
           f == [i \in Slots |-> IF i \in E THEN 0 ELSE ring.counts[i]]
           x == (ring.current + now - ring.time) % Seconds
<1>1. ~(now <= ring.time) /\ ring.counts \in [Slots -> Nat] /\ ring.current \in Int
      /\ ring.time \in Int
  BY StatisticsAssumption, RingFields DEF Slots
<1>2. Advance(ring, now) = [ring EXCEPT !.counts = f, !.current = x, !.time = now]
  BY <1>1, Zenon DEF Advance
<1>3. f \in [Slots -> Nat] /\ \A s \in Slots : f[s] = IF s \in E THEN 0 ELSE ring.counts[s]
  BY <1>1
<1>4. x \in Slots /\ ring.current + now - ring.time = ring.current + (now - ring.time)
  <2>1. ring.current + now - ring.time \in Int
    BY <1>1
  <2>2. QED
    BY <1>1, <2>1, SlotTyped
<1>5. x = (ring.current + (now - ring.time)) % Seconds
  BY <1>4
<1> HIDE DEF E, f, x
<1>6. Advance(ring, now) = [counts |-> f, current |-> x, time |-> now, total |-> ring.total]
  BY <1>2, RingFields
<1>7. QED
  BY <1>3, <1>4, <1>5, <1>6, RingFields DEF E, Rings

\* ... and of one that stands or was set back.
LEMMA AdvanceBack ==
    ASSUME NEW ring, NEW now, now <= ring.time
    PROVE  Advance(ring, now) = ring
BY DEF Advance

\* A ring that is advanced is a ring.
LEMMA AdvanceTyped ==
    ASSUME NEW ring \in Rings, NEW now \in Nat
    PROVE  Advance(ring, now) \in Rings
<1>1. ring.time \in Nat
  BY RingFields
<1>2. CASE now <= ring.time
  BY <1>2, AdvanceBack
<1>3. CASE ~(now <= ring.time)
  BY <1>1, <1>3, AdvanceIs
<1>4. QED
  BY <1>2, <1>3

\* statistics_ring::report, field by field.
LEMMA ReportIs ==
    ASSUME NEW ring \in Rings, NEW now \in Nat
    PROVE  LET moved == Advance(ring, now)
               next == Report(ring, now)
           IN  /\ moved \in Rings /\ next \in Rings
               /\ next.current = moved.current /\ next.time = moved.time
               /\ next.total = moved.total + 1
               /\ \A s \in Slots : next.counts[s] =
                    IF s = moved.current THEN moved.counts[s] + 1 ELSE moved.counts[s]
<1> DEFINE moved == Advance(ring, now)
           next == Report(ring, now)
           f == [moved.counts EXCEPT ![moved.current] = @ + 1]
<1>1. moved \in Rings
  BY AdvanceTyped
<1>2. next = [moved EXCEPT !.counts[moved.current] = @ + 1, !.total = @ + 1]
  BY Zenon DEF Report
<1> HIDE DEF moved, next
<1>3. moved.counts \in [Slots -> Nat] /\ moved.current \in Slots /\ moved.total \in Nat
      /\ moved = [counts |-> moved.counts, current |-> moved.current,
                  time |-> moved.time, total |-> moved.total]
      /\ moved.time \in Nat
  BY <1>1, RingFields
<1>4. f \in [Slots -> Nat] /\ \A s \in Slots :
        f[s] = IF s = moved.current THEN moved.counts[s] + 1 ELSE moved.counts[s]
  BY <1>3
<1> HIDE DEF f
<1>5. next = [counts |-> f, current |-> moved.current, time |-> moved.time,
              total |-> moved.total + 1]
  BY <1>2, <1>3 DEF f
<1>6. QED
  BY <1>1, <1>3, <1>4, <1>5 DEF Rings, moved, next

----------------------------------------------------------------------------
(* What the buckets hold, when event j (from the second time on) was counted at *)
(* the second st[j], and the ring stands at the second stand.                   *)

\* The events of the window whose second has bucket s.
InSlot(st, i, stand, s) ==
    {j \in 2 .. i : st[j] > stand - Seconds /\ (st[j] - st[1]) % Seconds = s}

\* Each bucket has the number of the events of the window that it is for.
RingHas(ring, st, i, stand) ==
    /\ ring \in Rings
    /\ ring.current = (stand - st[1]) % Seconds
    /\ ring.time = stand
    /\ ring.total = i - 1
    /\ \A s \in Slots : ring.counts[s] = Cardinality(InSlot(st, i, stand, s))

\* The seconds of the events, none later than the ring's.
Upto(st, i, stand) ==
    /\ i \in Nat /\ i >= 1 /\ stand \in Nat
    /\ \A j \in 1 .. i : st[j] \in Nat /\ st[j] <= stand

\* They are a finite number.
LEMMA InSlotFinite ==
    ASSUME NEW st, NEW i \in Nat, NEW stand, NEW s
    PROVE  IsFiniteSet(InSlot(st, i, stand, s)) /\ Cardinality(InSlot(st, i, stand, s)) \in Nat
<1>1. IsFiniteSet(2 .. i)
  BY FS_Interval
<1>2. InSlot(st, i, stand, s) \subseteq 2 .. i
  BY DEF InSlot
<1>3. QED
  BY <1>1, <1>2, FS_Subset, FS_CardinalityType

\* The buckets that an advance enters are those of the seconds that leave the window.
LEMMA Leaves ==
    ASSUME NEW base \in Nat, NEW stand \in Nat, NEW now \in Nat, now > stand,
           NEW at \in Nat, at > stand - Seconds, at <= stand
    PROVE  (\E k \in 1 .. now - stand :
              (at - base) % Seconds = (((stand - base) % Seconds) + k) % Seconds)
             <=> at <= now - Seconds
<1>1. Seconds \in Nat /\ Seconds > 0
  BY StatisticsAssumption
<1>2. \A k \in 1 .. now - stand : k \in Int /\ stand - base \in Int
  OBVIOUS
<1>3. \A k \in 1 .. now - stand :
        (((stand - base) % Seconds) + k) % Seconds = ((stand - base) + k) % Seconds
  BY <1>2, SlotOn
<1>4. ASSUME NEW k \in 1 .. now - stand,
             (at - base) % Seconds = ((stand - base) + k) % Seconds
      PROVE  at <= now - Seconds
  <2> DEFINE a == (stand - base) + k
             b == at - base
  <2>1. a \in Int /\ b \in Int /\ b <= a /\ a # b /\ a - b = (stand + k) - at
    OBVIOUS
  <2>2. a % Seconds = b % Seconds
    BY <1>4
  <2> HIDE DEF a, b
  <2>3. ~(a - b < Seconds)
    BY <2>1, <2>2, SlotsApart
  <2>4. k <= now - stand /\ k \in Int
    OBVIOUS
  <2>5. (stand + k) - at >= Seconds
    BY <1>1, <2>1, <2>3
  <2>6. QED
    BY ONLY <1>1, <2>4, <2>5, at \in Nat, now \in Nat, stand \in Nat
<1>5. ASSUME at <= now - Seconds
      PROVE  \E k \in 1 .. now - stand : (at - base) % Seconds = ((stand - base) + k) % Seconds
  <2> DEFINE k == (at + Seconds) - stand
  <2>1. k \in 1 .. now - stand
    BY <1>1, <1>5
  <2>2. (stand - base) + k = (at - base) + Seconds /\ at - base \in Int
    BY <1>1
  <2> HIDE DEF k
  <2>3. ((at - base) + Seconds) % Seconds = (at - base) % Seconds
    BY <2>2, SlotAgain
  <2>4. QED
    BY <2>1, <2>2, <2>3
<1>6. QED
  BY <1>3, <1>4, <1>5

\* The clock went on: advance() leaves the events of the new window.
LEMMA Advanced ==
    ASSUME NEW ring, NEW st, NEW i, NEW stand, RingHas(ring, st, i, stand), Upto(st, i, stand),
           NEW now \in Nat, now > stand
    PROVE  RingHas(Advance(ring, now), st, i, now)
<1> DEFINE moved == Advance(ring, now)
<1>1. /\ ring \in Rings /\ ring.time = stand /\ ring.total = i - 1
      /\ ring.current = (stand - st[1]) % Seconds
      /\ \A s \in Slots : ring.counts[s] = Cardinality(InSlot(st, i, stand, s))
  BY DEF RingHas
<1>2. /\ i \in Nat /\ 1 \in 1 .. i /\ stand \in Nat /\ st[1] \in Nat
      /\ \A j \in 1 .. i : st[j] \in Nat /\ st[j] <= stand
      /\ Seconds \in Nat
  BY StatisticsAssumption DEF Upto
<1>3. /\ moved \in Rings /\ moved.time = now /\ moved.total = ring.total
      /\ moved.current = (ring.current + (now - ring.time)) % Seconds
      /\ \A s \in Slots : moved.counts[s] =
           IF s \in Entered(ring, now) THEN 0 ELSE ring.counts[s]
  BY <1>1, AdvanceIs
<1> HIDE DEF moved
<1>4. moved.current = (now - st[1]) % Seconds
  <2>1. stand - st[1] \in Int /\ now - stand \in Int
        /\ (stand - st[1]) + (now - stand) = now - st[1]
    BY <1>2
  <2>2. (((stand - st[1]) % Seconds) + (now - stand)) % Seconds
          = ((stand - st[1]) + (now - stand)) % Seconds
    BY <2>1, SlotOn
  <2>3. QED
    BY <1>1, <1>3, <2>1, <2>2
<1>5. \A s : s \in Entered(ring, now) <=>
        \E k \in 1 .. now - stand : s = (((stand - st[1]) % Seconds) + k) % Seconds
  BY <1>1 DEF Entered
<1>6. \A j \in 2 .. i : st[j] > stand - Seconds =>
        ((st[j] - st[1]) % Seconds \in Entered(ring, now) <=> st[j] <= now - Seconds)
  <2> TAKE j \in 2 .. i
  <2> HAVE st[j] > stand - Seconds
  <2>1. st[j] \in Nat /\ st[j] <= stand
    BY <1>2
  <2>2. (\E k \in 1 .. now - stand :
           (st[j] - st[1]) % Seconds = (((stand - st[1]) % Seconds) + k) % Seconds)
          <=> st[j] <= now - Seconds
    BY <1>2, <2>1, Leaves, ZenonT(30)
  <2>3. QED
    BY <1>5, <2>2
<1>7. ASSUME NEW s \in Slots PROVE moved.counts[s] = Cardinality(InSlot(st, i, now, s))
  <2>1. \A j \in 2 .. i : st[j] \in Nat /\ (st[j] > now - Seconds <=> ~(st[j] <= now - Seconds))
                          /\ (st[j] > now - Seconds => st[j] > stand - Seconds)
    BY <1>2
  <2>2. CASE s \in Entered(ring, now)
    <3>1. InSlot(st, i, now, s) = {}
      BY <1>6, <2>1, <2>2 DEF InSlot
    <3>2. QED
      BY <1>3, <2>2, <3>1, FS_EmptySet
  <2>3. CASE s \notin Entered(ring, now)
    <3>1. InSlot(st, i, now, s) = InSlot(st, i, stand, s)
      BY <1>6, <2>1, <2>3 DEF InSlot
    <3>2. QED
      BY <1>1, <1>3, <2>3, <3>1
  <2>4. QED
    BY <2>2, <2>3
<1>8. QED
  BY <1>1, <1>3, <1>4, <1>7 DEF RingHas, moved

\* ... and no further than the latest time: a clock that was set back changes nothing.
LEMMA Stands ==
    ASSUME NEW ring, NEW st, NEW i, NEW stand, RingHas(ring, st, i, stand), Upto(st, i, stand),
           NEW now \in Nat
    PROVE  RingHas(Advance(ring, now), st, i, IF now <= stand THEN stand ELSE now)
<1>1. stand \in Nat /\ ring.time = stand
  BY DEF Upto, RingHas
<1>2. CASE now <= stand
  <2>1. Advance(ring, now) = ring
    BY <1>1, <1>2, AdvanceBack
  <2>2. QED
    BY <1>2, <2>1
<1>3. CASE ~(now <= stand)
  <2>1. now > stand
    BY <1>1, <1>3
  <2>2. QED
    BY <1>3, <2>1, Advanced
<1>4. QED
  BY <1>2, <1>3

\* An event is counted in the bucket of the second that the ring comes to stand at.
LEMMA Reported ==
    ASSUME NEW ring, NEW st, NEW i, NEW stand, RingHas(ring, st, i, stand), Upto(st, i, stand),
           NEW now \in Nat, st[i + 1] = IF now <= stand THEN stand ELSE now
    PROVE  RingHas(Report(ring, now), st, i + 1, st[i + 1])
<1> DEFINE moved == Advance(ring, now)
           next == Report(ring, now)
           T == st[i + 1]
<1>1. RingHas(moved, st, i, T) /\ T \in Nat /\ i \in Nat /\ i >= 1
  BY Stands DEF Upto
<1>2. /\ next \in Rings /\ next.current = moved.current /\ next.time = moved.time
      /\ next.total = moved.total + 1
      /\ \A s \in Slots : next.counts[s] =
           IF s = moved.current THEN moved.counts[s] + 1 ELSE moved.counts[s]
  BY ReportIs DEF RingHas
<1> HIDE DEF moved, next
<1>3. /\ moved.current = (T - st[1]) % Seconds /\ moved.time = T /\ moved.total = i - 1
      /\ \A s \in Slots : moved.counts[s] = Cardinality(InSlot(st, i, T, s))
  BY <1>1 DEF RingHas
<1>4. next.total = (i + 1) - 1
  BY <1>1, <1>2, <1>3
<1>5. ASSUME NEW s \in Slots PROVE next.counts[s] = Cardinality(InSlot(st, i + 1, T, s))
  <2>0. T > T - Seconds /\ i + 1 \in 2 .. i + 1 /\ 2 .. i + 1 = (2 .. i) \cup {i + 1}
        /\ i + 1 \notin 2 .. i
    BY <1>1, StatisticsAssumption
  <2>1. CASE s = moved.current
    <3>1. InSlot(st, i + 1, T, s) = InSlot(st, i, T, s) \cup {i + 1}
      BY <1>3, <2>0, <2>1 DEF InSlot
    <3>2. i + 1 \notin InSlot(st, i, T, s)
      BY <2>0 DEF InSlot
    <3>3. IsFiniteSet(InSlot(st, i, T, s))
      BY <1>1, InSlotFinite
    <3>4. Cardinality(InSlot(st, i + 1, T, s)) = Cardinality(InSlot(st, i, T, s)) + 1
      BY <3>1, <3>2, <3>3, FS_AddElement
    <3>5. QED
      BY <1>2, <1>3, <2>1, <3>4
  <2>2. CASE s # moved.current
    <3>1. InSlot(st, i + 1, T, s) = InSlot(st, i, T, s)
      BY <1>3, <2>0, <2>2 DEF InSlot
    <3>2. QED
      BY <1>2, <1>3, <2>2, <3>1
  <2>3. QED
    BY <2>1, <2>2
<1>6. QED
  BY <1>2, <1>3, <1>4, <1>5 DEF RingHas, next

----------------------------------------------------------------------------
(* The sum over the buckets. *)

\* The sum is made bucket by bucket.
LEMMA InRingFolds ==
    ASSUME NEW ring \in Rings
    PROVE  \E g \in [SUBSET Slots -> Nat] :
             /\ g[Slots] = InRing(ring)
             /\ g[{}] = 0
             /\ \A B \in SUBSET Slots : B # {} =>
                  \E s \in B : g[B] = ring.counts[s] + g[B \ {s}]
<1> DEFINE Body(g, B) == IF B = {} THEN 0
                         ELSE ring.counts[CHOOSE x \in B : TRUE] + g[B \ {CHOOSE x \in B : TRUE}]
           G == CHOOSE g : g = [B \in SUBSET Slots |-> Body(g, B)]
           C == [B \in SUBSET Slots |-> CHOOSE x \in B : TRUE]
           F == [v \in Nat |-> [s \in Slots |-> ring.counts[s] + v]]
<1>1. InRing(ring) = G[Slots]
  BY Zenon DEF InRing, MapThenSumSet, MapThenFoldSet
<1>2. /\ \A B \in SUBSET Slots : C[B] = CHOOSE x \in B : TRUE
      /\ \A B \in SUBSET Slots : B # {} => C[B] \in B
  OBVIOUS
<1>3. ring.counts \in [Slots -> Nat]
  BY RingFields
<1>4. \A v \in Nat, s \in Slots : F[v][s] = ring.counts[s] + v
  OBVIOUS
<1>5. \A v \in Nat, s \in Slots : F[v][s] \in Nat
  BY <1>3, <1>4
<1>6. IsFiniteSet(Slots)
  <2>1. 0 \in Int /\ Seconds - 1 \in Int
    BY StatisticsAssumption
  <2>2. QED
    BY <2>1, FS_Interval DEF Slots
<1> HIDE DEF C, F
<1>7. PICK g \in [SUBSET Slots -> Nat] : IsFold(g, Slots, C, 0, F)
  <2>1. 0 \in Nat
    OBVIOUS
  <2>2. QED
    BY <1>2, <1>5, <1>6, <2>1, FoldExists
<1>8. ASSUME NEW B \in SUBSET Slots, B # {}
      PROVE  C[B] \in B /\ g[B] = ring.counts[C[B]] + g[B \ {C[B]}]
  <2>1. C[B] \in B /\ C[B] \in Slots /\ B \ {C[B]} \in SUBSET Slots
    BY <1>2, <1>8
  <2>2. g[B] = F[g[B \ {C[B]}]][C[B]]
    BY <1>7, <1>8 DEF IsFold
  <2>3. g[B \ {C[B]}] \in Nat
    BY <2>1
  <2>4. QED
    BY <1>4, <2>1, <2>2, <2>3
<1>9. ASSUME NEW B \in SUBSET Slots PROVE g[B] = Body(g, B)
  <2>1. CASE B = {}
    BY <1>7, <2>1 DEF IsFold
  <2>2. CASE B # {}
    BY <1>2, <1>7, <1>8, <2>2
  <2>3. QED
    BY <2>1, <2>2
<1> HIDE DEF Body
<1>10. g = [B \in SUBSET Slots |-> Body(g, B)]
  BY <1>7, <1>9
<1>11. G = [B \in SUBSET Slots |-> Body(G, B)]
  BY <1>10, Zenon
<1> HIDE DEF G
<1>12. ASSUME NEW B \in SUBSET Slots, B # {}
       PROVE  G[B] = ring.counts[C[B]] + G[B \ {C[B]}]
  <2>1. G[B] = Body(G, B)
    BY <1>11, Zenon
  <2>2. QED
    BY <1>2, <1>12, <2>1 DEF Body
<1>13. G[{}] = 0
  <2>1. G[{}] = Body(G, {})
    BY <1>11
  <2>2. QED
    BY <2>1 DEF Body
<1>14. \A B \in SUBSET Slots : IsFiniteSet(B) /\ Cardinality(B) \in Nat
                              /\ (Cardinality(B) = 0 <=> B = {})
  BY <1>6, FS_Subset, FS_CardinalityType, FS_EmptySet
<1>15. \A B \in SUBSET Slots : G[B] \in Nat
  <2> DEFINE T == {n \in Nat : \A B \in SUBSET Slots : Cardinality(B) = n => G[B] \in Nat}
  <2>1. 0 \in T
    BY <1>13, <1>14
  <2>2. ASSUME NEW n \in Nat, n \in T PROVE n + 1 \in T
    <3> SUFFICES ASSUME NEW B \in SUBSET Slots, Cardinality(B) = n + 1 PROVE G[B] \in Nat
      OBVIOUS
    <3>1. B # {}
      BY <1>14
    <3>2. C[B] \in B /\ C[B] \in Slots /\ B \ {C[B]} \in SUBSET Slots /\ IsFiniteSet(B)
      BY <1>2, <1>14, <3>1
    <3>3. Cardinality(B \ {C[B]}) = n
      <4>1. \A x \in B : Cardinality(B \ {x}) = Cardinality(B) - 1
        BY ONLY <3>2, FS_RemoveElement
      <4>2. QED
        BY <3>2, <4>1
    <3>4. G[B \ {C[B]}] \in Nat
      BY <2>2, <3>2, <3>3
    <3>5. G[B] = ring.counts[C[B]] + G[B \ {C[B]}] /\ ring.counts[C[B]] \in Nat
      BY <1>3, <1>12, <3>1, <3>2
    <3>6. QED
      BY <3>4, <3>5
  <2>3. Nat \subseteq T
    <3> HIDE DEF T
    <3>1. QED
      BY <2>1, <2>2, EveryNumber
  <2>4. QED
    BY <1>14, <2>3
<1>16. DOMAIN G = SUBSET Slots
  BY <1>11
<1>17. G \in [SUBSET Slots -> Nat]
  BY <1>11, <1>15, <1>16
<1>18. \A B \in SUBSET Slots : B # {} => \E s \in B : G[B] = ring.counts[s] + G[B \ {s}]
  BY <1>2, <1>12
<1>19. QED
  BY <1>1, <1>13, <1>17, <1>18

\* The events of a window are spread over the buckets.
LEMMA RingCounts ==
    ASSUME NEW ring, NEW st, NEW i \in Nat, NEW stand, RingHas(ring, st, i, stand),
           \A j \in 1 .. i : st[j] \in Nat, i >= 1
    PROVE  InRing(ring) = Cardinality({j \in 2 .. i : st[j] > stand - Seconds})
<1> DEFINE Slot(j) == (st[j] - st[1]) % Seconds
           R(B) == {j \in 2 .. i : st[j] > stand - Seconds /\ Slot(j) \in B}
           T(g) == {n \in Nat : \A B \in SUBSET Slots :
                                  Cardinality(B) = n => g[B] = Cardinality(R(B))}
<1>1. ring \in Rings /\ \A s \in Slots : ring.counts[s] = Cardinality(InSlot(st, i, stand, s))
  BY DEF RingHas
<1>2. PICK g \in [SUBSET Slots -> Nat] :
             /\ g[Slots] = InRing(ring)
             /\ g[{}] = 0
             /\ \A B \in SUBSET Slots : B # {} =>
                  \E s \in B : g[B] = ring.counts[s] + g[B \ {s}]
  BY <1>1, InRingFolds
<1>3. \A B : IsFiniteSet(R(B)) /\ Cardinality(R(B)) \in Nat
  <2>1. IsFiniteSet(2 .. i)
    BY FS_Interval
  <2>2. \A B : R(B) \subseteq 2 .. i
    OBVIOUS
  <2> HIDE DEF R
  <2>3. QED
    BY <2>1, <2>2, FS_Subset, FS_CardinalityType
<1>4. IsFiniteSet(Slots)
  <2>1. 0 \in Int /\ Seconds - 1 \in Int
    BY StatisticsAssumption
  <2>2. QED
    BY <2>1, FS_Interval DEF Slots
<1>5. \A B \in SUBSET Slots : IsFiniteSet(B) /\ Cardinality(B) \in Nat
                             /\ (Cardinality(B) = 0 <=> B = {})
  BY <1>4, FS_Subset, FS_CardinalityType, FS_EmptySet
<1>6. \A j \in 2 .. i : Slot(j) \in Slots
  <2> TAKE j \in 2 .. i
  <2>1. st[j] - st[1] \in Int
    OBVIOUS
  <2>2. QED
    BY <2>1, SlotTyped
<1>7. 0 \in T(g)
  <2>1. R({}) = {}
    OBVIOUS
  <2>2. Cardinality(R({})) = 0
    BY <2>1, FS_EmptySet
  <2> HIDE DEF R
  <2>3. QED
    BY <1>2, <1>5, <2>2
<1>8. ASSUME NEW n \in Nat, n \in T(g) PROVE n + 1 \in T(g)
  <2> SUFFICES ASSUME NEW B \in SUBSET Slots, Cardinality(B) = n + 1
               PROVE  g[B] = Cardinality(R(B))
    OBVIOUS
  <2>1. B # {} /\ IsFiniteSet(B)
    BY <1>5
  <2>2. PICK s \in B : g[B] = ring.counts[s] + g[B \ {s}]
    BY <1>2, <2>1
  <2> DEFINE A == InSlot(st, i, stand, s)
             D == R(B \ {s})
  <2>3. R(B) = A \cup D /\ A \cap D = {}
    BY DEF InSlot
  <2>4. IsFiniteSet(A) /\ Cardinality(A) \in Nat /\ IsFiniteSet(D) /\ Cardinality(D) \in Nat
    BY <1>3, InSlotFinite
  <2>5. Cardinality(B \ {s}) = n /\ B \ {s} \in SUBSET Slots
    <3>1. \A x \in B : Cardinality(B \ {x}) = Cardinality(B) - 1
      BY ONLY <2>1, FS_RemoveElement
    <3>2. QED
      BY <3>1
  <2> HIDE DEF R
  <2>6. g[B \ {s}] = Cardinality(D)
    BY <1>8, <2>5
  <2>7. ring.counts[s] = Cardinality(A)
    BY <1>1
  <2> HIDE DEF A, D
  <2>8. Cardinality(A \cup D) = Cardinality(A) + Cardinality(D)
    <3>1. Cardinality(A \cup D) = Cardinality(A) + Cardinality(D) - Cardinality(A \cap D)
      BY <2>4, FS_Union
    <3>2. Cardinality(A \cap D) = 0
      BY <2>3, FS_EmptySet
    <3>3. QED
      BY <2>4, <3>1, <3>2
  <2>9. QED
    BY <2>2, <2>3, <2>6, <2>7, <2>8
<1>9. g[Slots] = Cardinality(R(Slots))
  <2>1. Nat \subseteq T(g)
    <3> HIDE DEF T
    <3>1. QED
      BY <1>7, <1>8, EveryNumber
  <2> HIDE DEF R
  <2>2. QED
    BY <1>5, <2>1
<1>10. R(Slots) = {j \in 2 .. i : st[j] > stand - Seconds}
  BY <1>6
<1>11. QED
  BY <1>2, <1>9, <1>10

----------------------------------------------------------------------------
(* A history of the ring. *)

\* x is the latest of the first i times.
Latest(times, i, x) ==
    /\ \E j \in 1 .. i : x = times[j]
    /\ \A j \in 1 .. i : times[j] <= x

\* A ring stands at the latest of its times.
LEMMA StandsAtLatest ==
    ASSUME NEW times, NEW i \in Nat, \A j \in 1 .. i : times[j] \in Nat,
           NEW x, Latest(times, i, x)
    PROVE  StandsAt(times, i) = x /\ x \in Nat
<1> DEFINE A == {times[j] : j \in 1 .. i}
<1>1. x \in A /\ x \in Nat /\ A \subseteq Nat /\ \A y \in A : x >= y
  BY DEF Latest
<1> HIDE DEF A
<1>2. Max(A) = x
  <2>1. Max(A) \in A /\ \A y \in A : Max(A) >= y
    BY <1>1 DEF Max
  <2>2. Max(A) \in Nat /\ Max(A) >= x /\ x >= Max(A)
    BY <1>1, <2>1
  <2>3. QED
    BY ONLY <1>1, <2>2
<1>3. QED
  BY <1>1, <1>2 DEF StandsAt, A

\* There is one.
LEMMA SomeLatest ==
    ASSUME NEW times, NEW n \in Nat, \A j \in 1 .. n : times[j] \in Nat
    PROVE  \A i \in 1 .. n : \E x : Latest(times, i, x)
<1> DEFINE T == {i \in Nat : i + 1 <= n => \E x : Latest(times, i + 1, x)}
<1>1. 0 \in T
  <2>1. Latest(times, 1, times[1]) \/ ~(0 + 1 <= n)
    BY DEF Latest
  <2>2. QED
    BY <2>1
<1>2. ASSUME NEW i \in Nat, i \in T PROVE i + 1 \in T
  <2> SUFFICES ASSUME (i + 1) + 1 <= n PROVE \E x : Latest(times, (i + 1) + 1, x)
    OBVIOUS
  <2>1. PICK x : Latest(times, i + 1, x)
    BY <1>2
  <2>2. \A j \in 1 .. (i + 1) + 1 : j \in 1 .. i + 1 \/ j = (i + 1) + 1
    OBVIOUS
  <2> DEFINE y == times[(i + 1) + 1]
  <2>3. y \in Nat /\ x \in Nat /\ (i + 1) + 1 \in 1 .. (i + 1) + 1
    BY <2>1 DEF Latest
  <2>4. \A j \in 1 .. i + 1 : times[j] \in Nat /\ j \in 1 .. (i + 1) + 1
    OBVIOUS
  <2>5. CASE y <= x
    <3>1. Latest(times, (i + 1) + 1, x)
      BY <2>1, <2>2, <2>4, <2>5 DEF Latest
    <3>2. QED
      BY <3>1
  <2>6. CASE ~(y <= x)
    <3>1. Latest(times, (i + 1) + 1, y)
      BY <2>1, <2>2, <2>3, <2>4, <2>6 DEF Latest
    <3>2. QED
      BY <3>1
  <2>7. QED
    BY <2>5, <2>6
<1>3. Nat \subseteq T
  <2> HIDE DEF T
  <2>1. QED
    BY <1>1, <1>2, EveryNumber
<1>4. ASSUME NEW i \in 1 .. n PROVE \E x : Latest(times, i, x)
  <2>1. i - 1 \in Nat /\ (i - 1) + 1 = i /\ i <= n
    OBVIOUS
  <2>2. i - 1 \in T
    BY <1>3, <2>1
  <2>3. QED
    BY <2>1, <2>2
<1>5. QED
  BY <1>4

\* The second that a ring stands at is set on, never back.
LEMMA StandsFacts ==
    ASSUME NEW times, NEW n \in Nat, \A j \in 1 .. n : times[j] \in Nat
    PROVE  /\ \A i \in 1 .. n : StandsAt(times, i) \in Nat
           /\ n >= 1 => StandsAt(times, 1) = times[1]
           /\ \A i \in 1 .. n : i + 1 <= n =>
                StandsAt(times, i + 1) = IF times[i + 1] <= StandsAt(times, i)
                                           THEN StandsAt(times, i) ELSE times[i + 1]
           /\ \A i \in 1 .. n : \A j \in 1 .. i : StandsAt(times, j) <= StandsAt(times, i)
<1>1. ASSUME NEW i \in 1 .. n
      PROVE  Latest(times, i, StandsAt(times, i)) /\ StandsAt(times, i) \in Nat
  <2>1. PICK x : Latest(times, i, x)
    BY SomeLatest
  <2>2. \A j \in 1 .. i : times[j] \in Nat
    OBVIOUS
  <2>3. StandsAt(times, i) = x /\ x \in Nat
    BY <2>1, <2>2, StandsAtLatest
  <2>4. QED
    BY <2>1, <2>3
<1>2. ASSUME n >= 1 PROVE StandsAt(times, 1) = times[1]
  <2>1. Latest(times, 1, StandsAt(times, 1))
    BY <1>1, <1>2
  <2>2. \A j \in 1 .. 1 : j = 1
    OBVIOUS
  <2>3. QED
    BY <2>1, <2>2 DEF Latest
<1>3. ASSUME NEW i \in 1 .. n, i + 1 <= n
      PROVE  StandsAt(times, i + 1) = IF times[i + 1] <= StandsAt(times, i)
                                        THEN StandsAt(times, i) ELSE times[i + 1]
  <2> DEFINE x == StandsAt(times, i)
             y == times[i + 1]
  <2>1. i + 1 \in 1 .. n /\ y \in Nat /\ \A j \in 1 .. i + 1 : times[j] \in Nat
    BY <1>3
  <2>2. Latest(times, i, x) /\ x \in Nat
    BY <1>1
  <2> HIDE DEF x
  <2>3. \A j \in 1 .. i + 1 : j \in 1 .. i \/ j = i + 1
    OBVIOUS
  <2>4. \A j \in 1 .. i : j \in 1 .. i + 1
    OBVIOUS
  <2>5. i + 1 \in 1 .. i + 1
    OBVIOUS
  <2>6. CASE y <= x
    <3>1. Latest(times, i + 1, x)
      BY <2>2, <2>3, <2>4, <2>6 DEF Latest
    <3>2. StandsAt(times, i + 1) = x
      BY <2>1, <3>1, StandsAtLatest
    <3>3. QED
      BY <2>6, <3>2 DEF x
  <2>7. CASE ~(y <= x)
    <3>1. Latest(times, i + 1, y)
      BY <2>1, <2>2, <2>3, <2>5, <2>7 DEF Latest
    <3>2. StandsAt(times, i + 1) = y
      BY <2>1, <3>1, StandsAtLatest
    <3>3. QED
      BY <2>7, <3>2 DEF x
  <2>8. QED
    BY <2>6, <2>7
<1>4. ASSUME NEW i \in 1 .. n, NEW j \in 1 .. i
      PROVE  StandsAt(times, j) <= StandsAt(times, i)
  <2>1. j \in 1 .. n /\ 1 .. j \subseteq 1 .. i
    OBVIOUS
  <2>2. Latest(times, j, StandsAt(times, j)) /\ Latest(times, i, StandsAt(times, i))
    BY <1>1, <2>1
  <2>3. QED
    BY <2>1, <2>2 DEF Latest
<1>5. QED
  BY <1>1, <1>2, <1>3, <1>4

----------------------------------------------------------------------------
\* The rings after each of some events.
IsHistory(r, ring, events) ==
    /\ r \in [0 .. Len(events) -> Rings]
    /\ r[0] = ring
    /\ \A i \in 1 .. Len(events) : r[i] = Report(r[i - 1], events[i])

\* The history of a ring ends with what the fold over its events gives.
LEMMA ReportsRun ==
    ASSUME NEW ring \in Rings, NEW events \in Seq(Nat)
    PROVE  \E r : /\ IsHistory(r, ring, events)
                  /\ r[Len(events)] = FoldLeft(LAMBDA x, t : Report(x, t), ring, events)
<1> DEFINE n == Len(events)
           Body(g, s) == IF s = {} THEN ring ELSE Report(g[s \ {Max(s)}], events[Max(s)])
           G == CHOOSE g : g = [s \in SUBSET (1 .. n) |-> Body(g, s)]
<1>1. n \in Nat /\ DOMAIN events = 1 .. n /\ \A i \in 1 .. n : events[i] \in Nat
  BY LenProperties
<1>2. FoldLeft(LAMBDA x, t : Report(x, t), ring, events) = G[1 .. n]
  <2>1. FoldLeft(LAMBDA x, t : Report(x, t), ring, events) =
          (CHOOSE g : g = [s \in SUBSET DOMAIN events |->
             IF s = {} THEN ring ELSE Report(g[s \ {Max(s)}], events[Max(s)])])[DOMAIN events]
    BY Zenon DEF FoldLeft, MapThenFoldSet
  <2>2. QED
    BY <1>1, <2>1, Zenon
<1>3. \E g : g = [s \in SUBSET (1 .. n) |-> Body(g, s)]
  <2> DEFINE S == 1 .. n
             C == [s \in SUBSET S |-> Max(s)]
             F == [v \in Rings |-> [i \in S |-> Report(v, events[i])]]
  <2>1. IsFiniteSet(S)
    BY <1>1, FS_Interval
  <2>2. \A s \in SUBSET S : s # {} => C[s] \in s
    BY <1>1, MaxFacts
  <2>3. \A v \in Rings, i \in S : F[v][i] = Report(v, events[i])
    OBVIOUS
  <2>4. \A v \in Rings, i \in S : F[v][i] \in Rings
    BY <1>1, <2>3, ReportIs
  <2>5. \A s \in SUBSET S : C[s] = Max(s)
    OBVIOUS
  <2> HIDE DEF S, C, F
  <2>6. PICK g \in [SUBSET S -> Rings] : IsFold(g, S, C, ring, F)
    BY <2>1, <2>2, <2>4, FoldExists
  <2>7. ASSUME NEW s \in SUBSET S PROVE g[s] = Body(g, s)
    <3>1. g[s] = IF s = {} THEN ring ELSE F[g[s \ {C[s]}]][C[s]]
      BY <2>6 DEF IsFold
    <3>2. CASE s = {}
      BY <3>1, <3>2
    <3>3. CASE s # {}
      <4>1. C[s] \in S /\ s \ {C[s]} \in SUBSET S
        BY <2>2, <3>3
      <4>2. g[s \ {C[s]}] \in Rings
        BY <2>6, <4>1
      <4>3. g[s] = Report(g[s \ {C[s]}], events[C[s]])
        BY <2>3, <3>1, <3>3, <4>1, <4>2
      <4>4. QED
        BY <2>5, <3>3, <4>3
    <3>4. QED
      BY <3>2, <3>3
  <2> HIDE DEF Body
  <2>8. g = [s \in SUBSET S |-> Body(g, s)]
    BY <2>6, <2>7
  <2>9. QED
    BY <2>8 DEF S
<1>4. G = [s \in SUBSET (1 .. n) |-> Body(G, s)]
  BY <1>3, Zenon
<1> HIDE DEF G, n
<1> DEFINE r == [i \in 0 .. n |-> G[1 .. i]]
<1>5. r[0] = ring
  <2>1. 1 .. 0 = {} /\ {} \in SUBSET (1 .. n) /\ 0 \in 0 .. n
    BY <1>1
  <2>2. G[{}] = ring
    BY <1>4, <2>1
  <2>3. QED
    BY <2>1, <2>2
<1>6. ASSUME NEW i \in 1 .. n PROVE r[i] = Report(r[i - 1], events[i])
  <2>1. /\ i \in Nat \ {0} /\ i \in 0 .. n /\ i - 1 \in 0 .. n
        /\ 1 .. i \in SUBSET (1 .. n) /\ 1 .. i # {}
    BY <1>1
  <2>2. G[1 .. i] = Report(G[(1 .. i) \ {Max(1 .. i)}], events[Max(1 .. i)])
    BY <1>4, <2>1
  <2>3. Max(1 .. i) = i /\ (1 .. i) \ {Max(1 .. i)} = 1 .. i - 1
    BY <2>1, MaxFacts
  <2>4. QED
    BY <2>1, <2>2, <2>3
<1>7. r[n] = G[1 .. n]
  BY <1>1
<1>8. \A i \in 0 .. n : r[i] \in Rings
  <2> DEFINE T == {i \in Nat : i <= n => r[i] \in Rings}
  <2>1. 0 \in T
    BY <1>5
  <2>2. ASSUME NEW i \in Nat, i \in T PROVE i + 1 \in T
    <3>1. CASE i + 1 <= n
      <4>1. i + 1 \in 1 .. n /\ (i + 1) - 1 = i /\ r[i] \in Rings
        BY <1>1, <2>2, <3>1
      <4> HIDE DEF r
      <4>2. r[i + 1] = Report(r[i], events[i + 1]) /\ events[i + 1] \in Nat
        BY <1>1, <1>6, <4>1
      <4>3. r[i + 1] \in Rings
        BY <4>1, <4>2, ReportIs
      <4>4. QED
        BY <4>3
    <3>2. CASE ~(i + 1 <= n)
      <4> HIDE DEF r
      <4>1. QED
        BY <3>2
    <3>3. QED
      BY <3>1, <3>2
  <2>3. Nat \subseteq T
    <3> HIDE DEF T
    <3>1. QED
      BY <2>1, <2>2, EveryNumber
  <2> HIDE DEF T, r
  <2>4. \A i \in 0 .. n : i \in Nat /\ i <= n
    BY <1>1
  <2>5. \A i \in 0 .. n : i \in T
    BY <2>3, <2>4
  <2>6. QED
    BY <2>4, <2>5 DEF T
<1>9. r \in [0 .. n -> Rings]
  BY <1>8
<1> HIDE DEF r
<1>10. IsHistory(r, ring, events)
  BY <1>5, <1>6, <1>9 DEF IsHistory, n
<1>11. QED
  BY <1>2, <1>7, <1>10 DEF n

\* Each ring of statistics counts exactly the events of its window, however often and
\* however far the clock jumps or is set back, and for any number of buckets.
THEOREM RingCountsWindow ==
    ASSUME NEW times \in Seq(Nat), Len(times) >= 2
    PROVE  CountsWindow(times)
<1> DEFINE n == Len(times)
           events == SubSeq(times, 2, n - 1)
           st == [i \in 1 .. n |-> StandsAt(times, i)]
           base == NewRing(times[1])
<1>1. n \in Nat /\ n >= 2 /\ \A i \in 1 .. n : times[i] \in Nat
  BY LenProperties
<1>2. events \in Seq(Nat) /\ Len(events) = n - 2 /\ \A i \in 1 .. n - 2 : events[i] = times[i + 1]
  <2>1. /\ \A i \in 2 .. n - 1 : times[i] \in Nat
        /\ (IF 2 <= n - 1 THEN (n - 1) - 2 + 1 ELSE 0) = n - 2
        /\ (n - 1) - 2 + 1 = n - 2
    <3> HIDE DEF n
    <3>1. \A i \in 2 .. n - 1 : i \in 1 .. n
      BY <1>1
    <3>2. QED
      BY <1>1, <3>1
  <2> HIDE DEF n
  <2>2. n - 1 \in Int
    BY <1>1
  <2>3. events \in Seq(Nat) /\ Len(events) = n - 2 /\ \A i \in 1 .. n - 2 : events[i] = times[2 + i - 1]
    BY <1>1, <2>1, <2>2, SubSeqProperties
  <2>4. \A i \in 1 .. n - 2 : 2 + i - 1 = i + 1
    BY <1>1
  <2> HIDE DEF events
  <2>5. QED
    BY <2>3, <2>4
<1>3. Last(times) = times[n]
  BY DEF Last
<1> HIDE DEF n, events
<1>4. \A i \in 1 .. n : st[i] = StandsAt(times, i) /\ st[i] \in Nat
  BY <1>1, StandsFacts
<1>5. /\ st[1] = times[1]
      /\ \A i \in 1 .. n : i + 1 <= n =>
           st[i + 1] = IF times[i + 1] <= st[i] THEN st[i] ELSE times[i + 1]
      /\ \A i \in 1 .. n : \A j \in 1 .. i : st[j] <= st[i]
  <2>1. /\ StandsAt(times, 1) = times[1] /\ 1 \in 1 .. n
        /\ \A i \in 1 .. n : i + 1 <= n =>
             StandsAt(times, i + 1) = IF times[i + 1] <= StandsAt(times, i)
                                        THEN StandsAt(times, i) ELSE times[i + 1]
        /\ \A i \in 1 .. n : \A j \in 1 .. i : StandsAt(times, j) <= StandsAt(times, i)
    <3>1. n >= 1 /\ 1 \in 1 .. n
      BY <1>1
    <3>2. n \in Nat /\ \A j \in 1 .. n : times[j] \in Nat
      BY <1>1
    <3>3. QED
      BY ONLY <3>1, <3>2, StandsFacts
  <2>2. /\ \A i \in 1 .. n : i + 1 <= n => i + 1 \in 1 .. n
        /\ \A i \in 1 .. n : \A j \in 1 .. i : j \in 1 .. n
    BY <1>1
  <2> HIDE DEF st
  <2>3. QED
    BY <1>4, <2>1, <2>2
<1> HIDE DEF st
<1>6. \A i \in 1 .. n : Upto(st, i, st[i])
  <2> TAKE i \in 1 .. n
  <2>1. \A j \in 1 .. i : j \in 1 .. n
    BY <1>1
  <2>2. QED
    BY <1>1, <1>4, <1>5, <2>1 DEF Upto
<1>7. base \in Rings /\ RingHas(base, st, 1, st[1])
  <2>1. 1 \in 1 .. n /\ times[1] \in Nat
    BY <1>1
  <2>2. /\ base \in Rings /\ base.current = 0 /\ base.time = times[1] /\ base.total = 0
        /\ \A s \in Slots : base.counts[s] = 0
    BY <2>1, NewRingIs
  <2> HIDE DEF base
  <2>3. (st[1] - st[1]) % Seconds = 0
    <3>1. st[1] - st[1] = 0
      BY <1>4, <2>1
    <3>2. 0 % Seconds = 0
      BY StatisticsAssumption
    <3>3. QED
      BY <3>1, <3>2
  <2>4. \A s : InSlot(st, 1, st[1], s) = {}
    BY DEF InSlot
  <2>5. \A s : Cardinality(InSlot(st, 1, st[1], s)) = 0
    BY <2>4, FS_EmptySet
  <2>6. QED
    BY <1>5, <2>2, <2>3, <2>5 DEF RingHas
<1> HIDE DEF base
<1>8. PICK r : /\ IsHistory(r, base, events)
               /\ r[Len(events)] = FoldLeft(LAMBDA x, t : Report(x, t), base, events)
  BY <1>2, <1>7, ReportsRun
<1>9. /\ r[0] = base
      /\ \A i \in 1 .. n - 2 : r[i] = Report(r[i - 1], times[i + 1])
  BY <1>2, <1>8 DEF IsHistory
<1>10. RingHas(r[n - 2], st, n - 1, st[n - 1])
  <2> DEFINE T == {k \in Nat : k <= n - 2 => RingHas(r[k], st, k + 1, st[k + 1])}
  <2>1. 0 \in T
    BY <1>7, <1>9
  <2>2. ASSUME NEW k \in Nat, k \in T PROVE k + 1 \in T
    <3> SUFFICES ASSUME k + 1 <= n - 2 PROVE RingHas(r[k + 1], st, (k + 1) + 1, st[(k + 1) + 1])
      OBVIOUS
    <3>1. /\ RingHas(r[k], st, k + 1, st[k + 1]) /\ k + 1 \in 1 .. n /\ (k + 1) + 1 <= n
          /\ k + 1 \in 1 .. n - 2 /\ (k + 1) - 1 = k /\ (k + 1) + 1 \in 1 .. n
      BY <1>1, <2>2
    <3>2. r[k + 1] = Report(r[k], times[(k + 1) + 1]) /\ times[(k + 1) + 1] \in Nat
      BY <1>1, <1>9, <3>1
    <3>3. Upto(st, k + 1, st[k + 1])
      BY <1>6, <3>1
    <3>4. st[(k + 1) + 1] = IF times[(k + 1) + 1] <= st[k + 1] THEN st[k + 1]
                            ELSE times[(k + 1) + 1]
      BY <1>5, <3>1
    <3>5. QED
      BY <3>1, <3>2, <3>3, <3>4, Reported
  <2>3. Nat \subseteq T
    <3> HIDE DEF T
    <3>1. QED
      BY <2>1, <2>2, EveryNumber
  <2>4. n - 2 \in T /\ (n - 2) + 1 = n - 1
    BY <1>1, <2>3
  <2>5. QED
    BY <1>1, <2>4
<1> DEFINE last == Advance(r[n - 2], times[n])
<1>11. RingHas(last, st, n - 1, st[n])
  <2>1. /\ n - 1 \in 1 .. n /\ (n - 1) + 1 = n /\ n <= n /\ times[n] \in Nat
    BY <1>1
  <2>2. Upto(st, n - 1, st[n - 1])
    BY <1>6, <2>1
  <2>3. st[n] = IF times[n] <= st[n - 1] THEN st[n - 1] ELSE times[n]
    BY <1>5, <2>1
  <2>4. QED
    BY <1>10, <2>1, <2>2, <2>3, Stands
<1>12. RingOf(times) = last
  <2>1. RingOf(times) =
          Advance(FoldLeft(LAMBDA x, t : Report(x, t), base, events), Last(times))
    BY Zenon DEF RingOf, base, events, n
  <2>2. QED
    BY <1>2, <1>3, <1>8, <2>1
<1> HIDE DEF last
<1>13. InRing(last) = Cardinality({j \in 2 .. n - 1 : st[j] > st[n] - Seconds})
  <2>1. n - 1 \in Nat /\ n - 1 >= 1 /\ \A j \in 1 .. n - 1 : st[j] \in Nat
    BY <1>1, <1>4
  <2>2. QED
    BY <1>11, <2>1, RingCounts
<1>14. {j \in 2 .. n - 1 : st[j] > st[n] - Seconds} =
         {i \in 2 .. n - 1 : StandsAt(times, i) > StandsAt(times, n) - Seconds}
  <2>1. n \in 1 .. n /\ \A j \in 2 .. n - 1 : j \in 1 .. n
    BY <1>1
  <2>2. QED
    BY <1>4, <2>1
<1>15. last.total = n - 2
  BY <1>1, <1>11 DEF RingHas
<1>16. QED
  BY <1>12, <1>13, <1>14, <1>15, Zenon DEF CountsWindow, n

====
