---- MODULE SeqLemmas ----
(***************************************************************************)
(* Facts about sequences, as used for queues and connections, and about    *)
(* sets of natural numbers, that the proofs of this project share.         *)
(***************************************************************************)
EXTENDS Naturals, Sequences, FiniteSets, Functions, SequenceTheorems, FiniteSetTheorems, WellFoundedInduction,
        TLAPS

\* A queue with one element, as push_back leaves an empty one.
LEMMA Singleton ==
    ASSUME NEW S, NEW x \in S
    PROVE  /\ Append(<<>>, x) = <<x>>
           /\ Head(<<x>>) = x
           /\ Tail(<<x>>) = <<>>
           /\ <<x>> # <<>>
           /\ <<x>> \in Seq(S)
OBVIOUS

\* push_back keeps the front of a queue that has one.
LEMMA AppendFacts ==
    ASSUME NEW S, NEW s \in Seq(S), NEW x \in S
    PROVE  /\ Append(s, x) \in Seq(S)
           /\ Append(s, x) # <<>>
           /\ s # <<>> => Head(Append(s, x)) = Head(s)
           /\ s = <<>> => Head(Append(s, x)) = x
           /\ Len(Append(s, x)) = Len(s) + 1
OBVIOUS

\* pop_front of a queue that is not empty.
LEMMA TailFacts ==
    ASSUME NEW S, NEW s \in Seq(S), s # <<>>
    PROVE  /\ Head(s) \in S
           /\ Tail(s) \in Seq(S)
           /\ Len(Tail(s)) = Len(s) - 1
           /\ Len(s) \in Nat \ {0}
OBVIOUS

\* Both parts of a sequence cut after n elements.
LEMMA CutFacts ==
    ASSUME NEW S, NEW s \in Seq(S), NEW n \in 0 .. Len(s)
    PROVE  /\ SubSeq(s, 1, n) \in Seq(S)
           /\ SubSeq(s, n + 1, Len(s)) \in Seq(S)
OBVIOUS

\* Replacing one element.
LEMMA ExceptFacts ==
    ASSUME NEW S, NEW s \in Seq(S), NEW c \in DOMAIN s, NEW x \in S
    PROVE  /\ [s EXCEPT ![c] = x] \in Seq(S)
           /\ DOMAIN [s EXCEPT ![c] = x] = DOMAIN s
           /\ s # <<>> => [s EXCEPT ![c] = x] # <<>>
OBVIOUS

\* The last element of a sequence that is not empty.
LEMMA LastIndex ==
    ASSUME NEW S, NEW s \in Seq(S), s # <<>>
    PROVE  /\ Len(s) \in DOMAIN s
           /\ s[Len(s)] \in S
OBVIOUS

\* As many empty sequences as s has elements.
LEMMA AllEmpty ==
    ASSUME NEW S, NEW T, NEW s \in Seq(S)
    PROVE  /\ [c \in DOMAIN s |-> <<>>] \in Seq(Seq(T))
           /\ s # <<>> => [c \in DOMAIN s |-> <<>>] # <<>>
<1> DEFINE t == [c \in DOMAIN s |-> <<>>]
<1>1. <<>> \in Seq(T)
  BY EmptySeq
<1>2. Len(s) \in Nat /\ DOMAIN s = 1 .. Len(s)
  BY LenProperties
<1>3. t \in [1 .. Len(s) -> Seq(T)]
  BY <1>1, <1>2
<1>4. t \in UNION {[1 .. n -> Seq(T)] : n \in Nat}
  BY <1>2, <1>3, Zenon
<1>5. t \in Seq(Seq(T))
  BY <1>4, SeqDef, Zenon
<1>6. ASSUME s # <<>> PROVE t # <<>>
  <2>1. 1 \in DOMAIN t
    BY <1>2, <1>6, EmptySeq
  <2>2. DOMAIN <<>> = {}
    OBVIOUS
  <2>3. QED
    BY <2>1, <2>2
<1>7. QED
  BY <1>5, <1>6

\* The contents of a sequence.
LEMMA RangeType ==
    ASSUME NEW S, NEW s \in Seq(S)
    PROVE  Range(s) \in SUBSET S
<1>1. DOMAIN s = 1 .. Len(s) /\ \A i \in 1 .. Len(s) : s[i] \in S
  BY LenProperties
<1>2. QED
  BY <1>1 DEF Range

\* What push_back adds to the contents of a queue.
LEMMA RangeAppend ==
    ASSUME NEW S, NEW s \in Seq(S), NEW x \in S
    PROVE  Range(Append(s, x)) = Range(s) \cup {x}
<1>1. /\ Append(s, x) \in Seq(S)
      /\ Len(Append(s, x)) = Len(s) + 1
      /\ Append(s, x)[Len(s) + 1] = x
      /\ \A i \in 1 .. Len(s) : Append(s, x)[i] = s[i]
  BY AppendProperties
<1>2. /\ DOMAIN s = 1 .. Len(s)
      /\ DOMAIN Append(s, x) = 1 .. Len(s) + 1
      /\ Len(s) \in Nat
  BY <1>1, LenProperties
<1>3. QED
  BY <1>1, <1>2 DEF Range

\* What pop_front takes from the contents of a queue.
LEMMA RangeTail ==
    ASSUME NEW S, NEW s \in Seq(S), s # <<>>
    PROVE  Range(s) = {Head(s)} \cup Range(Tail(s))
<1>1. /\ Tail(s) \in Seq(S) /\ Len(Tail(s)) = Len(s) - 1
      /\ Len(s) \in Nat \ {0}
      /\ \A i \in 1 .. Len(s) - 1 : Tail(s)[i] = s[i + 1]
      /\ Head(s) = s[1]
  OBVIOUS
<1>2. /\ DOMAIN s = 1 .. Len(s)
      /\ DOMAIN Tail(s) = 1 .. Len(s) - 1
  BY <1>1, LenProperties
<1>3. ASSUME NEW i \in DOMAIN s, i # 1 PROVE s[i] \in Range(Tail(s))
  <2>1. i - 1 \in DOMAIN Tail(s) /\ s[i] = Tail(s)[i - 1]
    BY <1>1, <1>2, <1>3
  <2>2. QED
    BY <2>1 DEF Range
<1>4. Range(s) \subseteq {Head(s)} \cup Range(Tail(s))
  BY <1>1, <1>3 DEF Range
<1>5. ASSUME NEW i \in DOMAIN Tail(s) PROVE Tail(s)[i] \in Range(s)
  <2>1. i + 1 \in DOMAIN s /\ Tail(s)[i] = s[i + 1]
    BY <1>1, <1>2
  <2>2. QED
    BY <2>1 DEF Range
<1>6. Head(s) \in Range(s)
  <2>1. 1 \in DOMAIN s
    BY <1>1, <1>2
  <2>2. QED
    BY <1>1, <2>1 DEF Range
<1>7. Range(Tail(s)) \subseteq Range(s)
  BY <1>5 DEF Range
<1>8. QED
  BY <1>4, <1>6, <1>7

\* A sequence cut after n elements loses nothing and repeats nothing.
LEMMA RangeCut ==
    ASSUME NEW S, NEW s \in Seq(S), NEW n \in 0 .. Len(s)
    PROVE  Range(s) = Range(SubSeq(s, 1, n)) \cup Range(SubSeq(s, n + 1, Len(s)))
<1> DEFINE a == SubSeq(s, 1, n)
           b == SubSeq(s, n + 1, Len(s))
<1>1. Len(s) \in Nat /\ n \in Nat /\ DOMAIN s = 1 .. Len(s)
  BY LenProperties
<1>2. DOMAIN a = 1 .. n /\ \A i \in 1 .. n : a[i] = s[i]
  BY <1>1
<1>3. /\ DOMAIN b = 1 .. Len(s) - n
      /\ \A i \in 1 .. Len(s) - n : b[i] = s[n + i]
  BY <1>1
<1> HIDE DEF a, b
<1>4. ASSUME NEW i \in DOMAIN s PROVE s[i] \in Range(a) \cup Range(b)
  <2>1. CASE i <= n
    <3>1. i \in DOMAIN a /\ a[i] = s[i]
      BY <1>1, <1>2, <2>1
    <3>2. QED
      BY <3>1 DEF Range
  <2>2. CASE i > n
    <3>1. i - n \in DOMAIN b /\ b[i - n] = s[i]
      BY <1>1, <1>3, <2>2
    <3>2. QED
      BY <3>1 DEF Range
  <2>3. QED
    BY <1>1, <2>1, <2>2
<1>5. ASSUME NEW i \in DOMAIN a PROVE a[i] \in Range(s)
  BY <1>1, <1>2 DEF Range
<1>6. ASSUME NEW i \in DOMAIN b PROVE b[i] \in Range(s)
  <2>1. n + i \in DOMAIN s /\ b[i] = s[n + i]
    BY <1>1, <1>3
  <2>2. QED
    BY <2>1 DEF Range
<1>7. Range(s) \subseteq Range(a) \cup Range(b)
  BY <1>4 DEF Range
<1>8. Range(a) \subseteq Range(s) /\ Range(b) \subseteq Range(s)
  BY <1>5, <1>6 DEF Range
<1>9. QED
  BY <1>7, <1>8 DEF a, b

\* A queue of distinct elements stays one when a new element is appended.
LEMMA InjectiveAppend ==
    ASSUME NEW S, NEW s \in Seq(S), NEW x \in S, IsInjective(s), x \notin Range(s)
    PROVE  IsInjective(Append(s, x))
<1>1. /\ Append(s, x) \in Seq(S)
      /\ Len(Append(s, x)) = Len(s) + 1
      /\ Append(s, x)[Len(s) + 1] = x
      /\ \A i \in 1 .. Len(s) : Append(s, x)[i] = s[i]
  BY AppendProperties
<1>2. /\ DOMAIN s = 1 .. Len(s)
      /\ DOMAIN Append(s, x) = 1 .. Len(s) + 1
      /\ Len(s) \in Nat
  BY <1>1, LenProperties
<1>3. SUFFICES ASSUME NEW i \in DOMAIN Append(s, x), NEW j \in DOMAIN Append(s, x),
                      Append(s, x)[i] = Append(s, x)[j]
               PROVE  i = j
  BY DEF IsInjective
<1>4. \A k \in 1 .. Len(s) : s[k] \in Range(s)
  BY <1>2 DEF Range
<1>5. QED
  BY <1>1, <1>2, <1>3, <1>4 DEF IsInjective

\* The front of a queue of distinct elements is not found behind it.
LEMMA InjectiveTail ==
    ASSUME NEW S, NEW s \in Seq(S), s # <<>>, IsInjective(s)
    PROVE  IsInjective(Tail(s)) /\ Head(s) \notin Range(Tail(s))
<1>1. /\ Tail(s) \in Seq(S) /\ Len(Tail(s)) = Len(s) - 1
      /\ Len(s) \in Nat \ {0}
      /\ \A i \in 1 .. Len(s) - 1 : Tail(s)[i] = s[i + 1]
      /\ Head(s) = s[1]
  OBVIOUS
<1>2. /\ DOMAIN s = 1 .. Len(s)
      /\ DOMAIN Tail(s) = 1 .. Len(s) - 1
  BY <1>1, LenProperties
<1>3. \A i \in DOMAIN Tail(s) : /\ i + 1 \in DOMAIN s /\ i + 1 # 1
                               /\ Tail(s)[i] = s[i + 1]
  BY <1>1, <1>2
<1>4. IsInjective(Tail(s))
  <2>1. SUFFICES ASSUME NEW i \in DOMAIN Tail(s), NEW j \in DOMAIN Tail(s),
                        Tail(s)[i] = Tail(s)[j]
                 PROVE  i = j
    BY DEF IsInjective
  <2>2. i + 1 = j + 1
    BY <1>3, <2>1 DEF IsInjective
  <2>3. QED
    BY <1>2, <2>2
<1>5. ASSUME NEW i \in DOMAIN Tail(s) PROVE Tail(s)[i] # Head(s)
  <2>1. 1 \in DOMAIN s
    BY <1>1, <1>2
  <2>2. QED
    BY <1>1, <1>3, <2>1 DEF IsInjective
<1>6. QED
  BY <1>4, <1>5 DEF Range

\* Both parts of a cut queue of distinct elements are distinct and disjoint.
LEMMA InjectiveCut ==
    ASSUME NEW S, NEW s \in Seq(S), NEW n \in 0 .. Len(s), IsInjective(s)
    PROVE  /\ IsInjective(SubSeq(s, 1, n))
           /\ Range(SubSeq(s, 1, n)) \cap Range(SubSeq(s, n + 1, Len(s))) = {}
<1> DEFINE a == SubSeq(s, 1, n)
           b == SubSeq(s, n + 1, Len(s))
<1>1. Len(s) \in Nat /\ n \in Nat /\ DOMAIN s = 1 .. Len(s)
  BY LenProperties
<1>2. DOMAIN a = 1 .. n /\ \A i \in 1 .. n : a[i] = s[i]
  BY <1>1
<1>3. /\ DOMAIN b = 1 .. Len(s) - n
      /\ \A i \in 1 .. Len(s) - n : b[i] = s[n + i]
  BY <1>1
<1> HIDE DEF a, b
<1>4. IsInjective(a)
  BY <1>1, <1>2 DEF IsInjective
<1>5. ASSUME NEW i \in DOMAIN a, NEW j \in DOMAIN b PROVE a[i] # b[j]
  <2>1. i \in DOMAIN s /\ n + j \in DOMAIN s /\ i # n + j
    BY <1>1, <1>2, <1>3
  <2>2. a[i] = s[i] /\ b[j] = s[n + j]
    BY <1>2, <1>3
  <2>3. QED
    BY <2>1, <2>2 DEF IsInjective
<1>6. Range(a) \cap Range(b) = {}
  BY <1>5 DEF Range
<1>7. QED
  BY <1>4, <1>6 DEF a, b

\* The elements of a sequence after push_back: those before it, and the new one.
LEMMA AppendCases ==
    ASSUME NEW S, NEW s \in Seq(S), NEW x \in S
    PROVE  LET t == Append(s, x)
           IN  /\ t \in Seq(S) /\ Len(s) \in Nat /\ Len(t) = Len(s) + 1
               /\ DOMAIN s = 1 .. Len(s) /\ DOMAIN t = 1 .. Len(s) + 1
               /\ t[Len(s) + 1] = x /\ Len(s) + 1 \in DOMAIN t
               /\ \A i \in DOMAIN s : i \in DOMAIN t /\ t[i] = s[i]
               /\ \A i \in DOMAIN t : \/ i \in DOMAIN s /\ t[i] = s[i]
                                      \/ i = Len(s) + 1 /\ t[i] = x
<1> DEFINE t == Append(s, x)
<1>1. /\ t \in Seq(S) /\ Len(t) = Len(s) + 1 /\ t[Len(s) + 1] = x
      /\ \A i \in 1 .. Len(s) : t[i] = s[i]
  BY AppendProperties
<1> HIDE DEF t
<1>2. /\ Len(s) \in Nat /\ DOMAIN s = 1 .. Len(s)
      /\ DOMAIN t = 1 .. Len(s) + 1
  BY <1>1, LenProperties
<1>3. \A i \in 1 .. Len(s) + 1 : i \in 1 .. Len(s) \/ i = Len(s) + 1
  BY <1>2
<1>4. Len(s) + 1 \in 1 .. Len(s) + 1 /\ 1 .. Len(s) \subseteq 1 .. Len(s) + 1
  BY <1>2
<1>5. QED
  BY <1>1, <1>2, <1>3, <1>4 DEF t

\* The elements of a sequence after pop_front: all but the first.
LEMMA TailCases ==
    ASSUME NEW S, NEW s \in Seq(S), s # <<>>
    PROVE  LET t == Tail(s)
           IN  /\ t \in Seq(S) /\ Len(s) \in Nat \ {0} /\ Len(t) = Len(s) - 1
               /\ DOMAIN s = 1 .. Len(s) /\ DOMAIN t = 1 .. Len(s) - 1
               /\ Head(s) = s[1] /\ 1 \in DOMAIN s /\ s[1] \in S
               /\ \A i \in DOMAIN t : /\ i \in Nat \ {0} /\ i + 1 \in DOMAIN s
                                      /\ t[i] = s[i + 1]
<1> DEFINE t == Tail(s)
<1>1. /\ t \in Seq(S) /\ Len(t) = Len(s) - 1
      /\ Len(s) \in Nat \ {0}
      /\ \A i \in 1 .. Len(s) - 1 : t[i] = s[i + 1]
      /\ Head(s) = s[1]
  OBVIOUS
<1> HIDE DEF t
<1>2. DOMAIN s = 1 .. Len(s) /\ DOMAIN t = 1 .. Len(s) - 1
  BY <1>1, LenProperties
<1>3. /\ 1 \in 1 .. Len(s)
      /\ \A i \in 1 .. Len(s) - 1 : i \in Nat \ {0} /\ i + 1 \in 1 .. Len(s)
  BY <1>1
<1>4. s[1] \in S
  BY <1>2, <1>3
<1>5. QED
  BY <1>1, <1>2, <1>3, <1>4 DEF t

\* The elements of the first n of a sequence.
LEMMA PrefixCases ==
    ASSUME NEW S, NEW s \in Seq(S), NEW n \in 0 .. Len(s)
    PROVE  LET t == SubSeq(s, 1, n)
           IN  /\ t \in Seq(S) /\ Len(t) = n /\ DOMAIN t = 1 .. n
               /\ \A i \in DOMAIN t : i \in DOMAIN s /\ t[i] = s[i]
<1> DEFINE t == SubSeq(s, 1, n)
<1>1. Len(s) \in Nat /\ DOMAIN s = 1 .. Len(s)
  BY LenProperties
<1>2. /\ t \in Seq(S) /\ Len(t) = n /\ DOMAIN t = 1 .. n
      /\ \A i \in 1 .. n : t[i] = s[i]
  BY <1>1
<1> HIDE DEF t
<1>3. 1 .. n \subseteq 1 .. Len(s)
  BY <1>1
<1>4. QED
  BY <1>1, <1>2, <1>3 DEF t
\* The contents of two queues, one behind the other.
LEMMA RangeConcat ==
    ASSUME NEW S, NEW s \in Seq(S), NEW t \in Seq(S)
    PROVE  Range(s \o t) = Range(s) \cup Range(t)
<1>1. /\ Len(s) \in Nat /\ DOMAIN s = 1 .. Len(s)
      /\ Len(t) \in Nat /\ DOMAIN t = 1 .. Len(t)
  BY LenProperties
<1>2. /\ DOMAIN (s \o t) = 1 .. Len(s) + Len(t)
      /\ \A i \in 1 .. Len(s) + Len(t) :
           (s \o t)[i] = IF i <= Len(s) THEN s[i] ELSE t[i - Len(s)]
  BY ConcatProperties, LenProperties
<1> DEFINE u == s \o t
<1> HIDE DEF u
<1>3. /\ DOMAIN u = 1 .. Len(s) + Len(t)
      /\ \A i \in 1 .. Len(s) + Len(t) : u[i] = IF i <= Len(s) THEN s[i] ELSE t[i - Len(s)]
  BY <1>2 DEF u
<1>4. ASSUME NEW i \in DOMAIN u PROVE u[i] \in Range(s) \cup Range(t)
  <2>1. i \in 1 .. Len(s) + Len(t)
    BY <1>3
  <2>2. CASE i <= Len(s)
    <3>1. i \in DOMAIN s /\ u[i] = s[i]
      BY <1>1, <1>3, <2>1, <2>2
    <3>2. QED
      BY <3>1 DEF Range
  <2>3. CASE ~(i <= Len(s))
    <3>1. i - Len(s) \in DOMAIN t /\ u[i] = t[i - Len(s)]
      BY <1>1, <1>3, <2>1, <2>3
    <3>2. QED
      BY <3>1 DEF Range
  <2>4. QED
    BY <2>2, <2>3
<1>5. ASSUME NEW i \in DOMAIN s PROVE s[i] \in Range(u)
  <2>1. i \in DOMAIN u /\ u[i] = s[i]
    BY <1>1, <1>3
  <2>2. QED
    BY <2>1 DEF Range
<1>6. ASSUME NEW i \in DOMAIN t PROVE t[i] \in Range(u)
  <2>1. /\ i + Len(s) \in 1 .. Len(s) + Len(t) /\ ~(i + Len(s) <= Len(s))
        /\ (i + Len(s)) - Len(s) = i
    BY <1>1
  <2>2. i + Len(s) \in DOMAIN u /\ u[i + Len(s)] = t[i]
    BY <1>3, <2>1
  <2>3. QED
    BY <2>2 DEF Range
<1>7. Range(u) = Range(s) \cup Range(t)
  <2>1. Range(u) \subseteq Range(s) \cup Range(t)
    BY <1>4 DEF Range
  <2>2. Range(s) \subseteq Range(u) /\ Range(t) \subseteq Range(u)
    BY <1>5, <1>6 DEF Range
  <2>3. QED
    BY <2>1, <2>2
<1>8. QED
  BY <1>7 DEF u

\* Where the elements of two queues in a row come from.
LEMMA ConcatCases ==
    ASSUME NEW S, NEW s \in Seq(S), NEW t \in Seq(S)
    PROVE  LET u == s \o t
           IN  /\ u \in Seq(S) /\ Len(s) \in Nat /\ Len(t) \in Nat
               /\ DOMAIN s = 1 .. Len(s) /\ DOMAIN t = 1 .. Len(t)
               /\ DOMAIN u = 1 .. Len(s) + Len(t)
               /\ \A i \in DOMAIN s : i \in DOMAIN u /\ u[i] = s[i]
               /\ \A i \in DOMAIN u :
                    \/ i \in DOMAIN s /\ u[i] = s[i]
                    \/ i - Len(s) \in DOMAIN t /\ u[i] = t[i - Len(s)]
<1>1. /\ Len(s) \in Nat /\ DOMAIN s = 1 .. Len(s)
      /\ Len(t) \in Nat /\ DOMAIN t = 1 .. Len(t)
  BY LenProperties
<1>2. /\ s \o t \in Seq(S)
      /\ DOMAIN (s \o t) = 1 .. Len(s) + Len(t)
      /\ \A i \in 1 .. Len(s) + Len(t) :
           (s \o t)[i] = IF i <= Len(s) THEN s[i] ELSE t[i - Len(s)]
  BY ConcatProperties, LenProperties
<1> DEFINE u == s \o t
           m == Len(s)
           n == Len(t)
<1> HIDE DEF u, m, n
<1>3. /\ u \in Seq(S) /\ m \in Nat /\ n \in Nat
      /\ DOMAIN s = 1 .. m /\ DOMAIN t = 1 .. n /\ DOMAIN u = 1 .. m + n
      /\ \A i \in 1 .. m + n : u[i] = IF i <= m THEN s[i] ELSE t[i - m]
  BY <1>1, <1>2 DEF u, m, n
<1>4. \A i \in 1 .. m : i \in 1 .. m + n /\ i <= m
  BY <1>3
<1>5. \A i \in 1 .. m + n : i \in 1 .. m \/ (~(i <= m) /\ i - m \in 1 .. n)
  BY <1>3
<1>6. QED
  BY <1>3, <1>4, <1>5 DEF u, m, n

\* A list put behind a queue that has none of its elements.
LEMMA InjectiveConcat ==
    ASSUME NEW S, NEW s \in Seq(S), NEW t \in Seq(S), IsInjective(s), IsInjective(t),
           Range(s) \cap Range(t) = {}
    PROVE  /\ s \o t \in Seq(S) /\ IsInjective(s \o t)
           /\ s # <<>> => s \o t # <<>>
<1> DEFINE u == s \o t
<1>1. /\ u \in Seq(S) /\ Len(s) \in Nat
      /\ DOMAIN s = 1 .. Len(s) /\ DOMAIN u = 1 .. Len(s) + Len(t)
      /\ \A i \in DOMAIN s : i \in DOMAIN u /\ u[i] = s[i]
      /\ \A i \in DOMAIN u :
           \/ i \in DOMAIN s /\ u[i] = s[i]
           \/ i - Len(s) \in DOMAIN t /\ u[i] = t[i - Len(s)]
  BY ConcatCases
<1> HIDE DEF u
<1>2. ASSUME NEW i \in DOMAIN u, NEW j \in DOMAIN u, u[i] = u[j] PROVE i = j
  <2>1. CASE i \in DOMAIN s /\ u[i] = s[i] /\ j \in DOMAIN s /\ u[j] = s[j]
    BY <1>2, <2>1 DEF IsInjective
  <2>2. CASE i - Len(s) \in DOMAIN t /\ u[i] = t[i - Len(s)] /\ j - Len(s) \in DOMAIN t /\ u[j] = t[j - Len(s)]
    <3>1. i - Len(s) = j - Len(s)
      BY <1>2, <2>2 DEF IsInjective
    <3>2. i \in Int /\ j \in Int
      BY <1>1
    <3>3. QED
      BY <1>1, <3>1, <3>2
  <2>3. \A a \in DOMAIN s, b \in DOMAIN t : s[a] # t[b]
    BY DEF Range
  <2>4. QED
    BY <1>1, <1>2, <2>1, <2>2, <2>3
<1>3. s # <<>> => u # <<>>
  <2>1. s # <<>> => 1 \in DOMAIN s
    BY <1>1, EmptySeq
  <2>2. QED
    BY <1>1, <2>1
<1>4. QED
  BY <1>1, <1>2, <1>3 DEF IsInjective, u

\* A queue over a set is one over a larger set.
LEMMA SeqWider ==
    ASSUME NEW S, NEW T, S \subseteq T, NEW s \in Seq(S)
    PROVE  s \in Seq(T)
<1>1. Len(s) \in Nat /\ s \in [1 .. Len(s) -> S]
  BY LenProperties
<1>2. s \in [1 .. Len(s) -> T]
  BY <1>1
<1>3. QED
  BY <1>1, <1>2, SeqDef

\* The contents of an empty queue, and of a queue of one.
LEMMA RangeSmall ==
    /\ Range(<<>>) = {}
    /\ \A x : Range(<<x>>) = {x}
  BY DEF Range

----------------------------------------------------------------------------
(* Sets of natural numbers. *)

\* The order of the natural numbers, as a relation.
LEMMA Order == \E R : /\ IsWellFoundedOn(R, Nat)
                      /\ \A a, b \in Nat : a < b => <<a, b>> \in R
<1>1. \A a, b \in Nat : a < b => <<a, b>> \in OpToRel(<, Nat)
  BY DEF OpToRel
<1>2. QED
  BY <1>1, NatLessThanWellFounded

\* The least element of a set of natural numbers.
LEMMA Least ==
    ASSUME NEW T, T \subseteq Nat, T # {}
    PROVE  \E n \in T : \A m \in T : n <= m
<1>1. PICK R : /\ IsWellFoundedOn(R, Nat)
               /\ \A a, b \in Nat : a < b => <<a, b>> \in R
  BY Order
<1>2. \E n \in T : \A m \in T : ~(<<m, n>> \in R)
  <2>1. IsWellFoundedOn(R, Nat)
    BY <1>1
  <2>2. \A S, U : IsWellFoundedOn(R, S) /\ U \subseteq S /\ U # {} => \E n \in U : \A m \in U : ~(<<m, n>> \in R)
    <3> TAKE S, U
    <3> HAVE IsWellFoundedOn(R, S) /\ U \subseteq S /\ U # {}
    <3> HIDE <1>1, <2>1
    <3>1. IsWellFoundedOn(R, S) /\ U \subseteq S /\ U # {}
      OBVIOUS
    <3>2. QED
      BY WFMin, Zenon
  <2>3. QED
    BY <2>1, <2>2
<1>3. PICK n \in T : \A m \in T : ~(<<m, n>> \in R)
  BY <1>2
<1>4. \A m \in T : n <= m
  <2> TAKE m \in T
  <2>1. m \in Nat /\ n \in Nat /\ ~(m < n)
    BY <1>1, <1>3
  <2>2. QED
    BY <2>1
<1>5. QED
  BY <1>4

\* The greatest element of a bounded set of natural numbers.
LEMMA Greatest ==
    ASSUME NEW T, T \subseteq Nat, T # {}, NEW b \in Nat, \A n \in T : n <= b
    PROVE  \E n \in T : \A m \in T : m <= n
<1> DEFINE D == {b - n : n \in T}
<1>1. D \subseteq Nat /\ D # {}
  <2>1. \A n \in T : n \in Nat /\ b - n \in Nat
    OBVIOUS
  <2>2. QED
    BY <2>1, Zenon
<1>2. PICK d \in D : \A e \in D : d <= e
  BY <1>1, Least
<1>3. PICK n \in T : d = b - n
  BY <1>2
<1>4. \A m \in T : m <= n
  <2> TAKE m \in T
  <2>1. b - n <= b - m
    BY <1>2, <1>3
  <2>2. QED
    BY <2>1
<1>5. QED
  BY <1>4


\* Induction, for a set of numbers.
LEMMA EveryNumber ==
    ASSUME NEW T, 0 \in T, \A n \in Nat : n \in T => n + 1 \in T
    PROVE  Nat \subseteq T
<1> SUFFICES ASSUME Nat \ T # {} PROVE FALSE
  OBVIOUS
<1>1. PICK n \in Nat \ T : \A m \in Nat \ T : n <= m
  BY Least
<1>2. n # 0 /\ n - 1 \in Nat /\ n - 1 < n
  BY <1>1
<1>3. n - 1 \in T
  BY <1>1, <1>2
<1>4. QED
  BY <1>1, <1>2, <1>3

----------------------------------------------------------------------------
(* Folds.  A fold takes the members out of a finite set one by one, each time *)
(* the one that C chooses.                                                    *)

\* A function that obeys the equation of a fold, for every set.
IsFold(g, S, C, b, F) ==
    \A T \in SUBSET S : g[T] = IF T = {} THEN b ELSE F[g[T \ {C[T]}]][C[T]]

LEMMA FoldExists ==
    ASSUME NEW S, IsFiniteSet(S),
           NEW C, \A T \in SUBSET S : T # {} => C[T] \in T,
           NEW V, NEW b \in V,
           NEW F, \A v \in V, x \in S : F[v][x] \in V
    PROVE  \E g \in [SUBSET S -> V] : IsFold(g, S, C, b, F)
<1> DEFINE Holds(g, T) == g[T] = IF T = {} THEN b ELSE F[g[T \ {C[T]}]][C[T]]
           Upto == {n \in Nat : \E g \in [SUBSET S -> V] :
                       \A T \in SUBSET S : Cardinality(T) <= n => Holds(g, T)}
<1>1. \A T \in SUBSET S :
        /\ IsFiniteSet(T) /\ Cardinality(T) \in Nat /\ Cardinality(T) <= Cardinality(S)
        /\ Cardinality(T) = 0 <=> T = {}
  BY FS_Subset, FS_CardinalityType, FS_EmptySet
<1>2. 0 \in Upto
  <2> DEFINE g == [T \in SUBSET S |-> b]
  <2>1. g \in [SUBSET S -> V]
    OBVIOUS
  <2>2. \A T \in SUBSET S : Cardinality(T) <= 0 => g[T] = b /\ T = {}
    BY <1>1
  <2> HIDE DEF g
  <2>3. \A T \in SUBSET S : Cardinality(T) <= 0 => Holds(g, T)
    BY <2>2
  <2>4. QED
    BY <2>1, <2>3
<1>3. ASSUME NEW n \in Nat, n \in Upto PROVE n + 1 \in Upto
  <2>1. PICK h \in [SUBSET S -> V] : \A T \in SUBSET S : Cardinality(T) <= n => Holds(h, T)
    BY <1>3
  <2> DEFINE g == [T \in SUBSET S |-> IF T = {} THEN b ELSE F[h[T \ {C[T]}]][C[T]]]
  <2>2. \A T \in SUBSET S : T # {} => /\ T \ {C[T]} \in SUBSET S /\ C[T] \in S
                                      /\ Cardinality(T \ {C[T]}) = Cardinality(T) - 1
    <3> TAKE T \in SUBSET S
    <3> HAVE T # {}
    <3>1. C[T] \in T /\ IsFiniteSet(T)
      BY <1>1
    <3>2. \A x \in T : Cardinality(T \ {x}) = Cardinality(T) - 1
      BY ONLY <3>1, FS_RemoveElement
    <3>3. QED
      BY <3>1, <3>2
  <2>3. g \in [SUBSET S -> V]
    <3>1. \A T \in SUBSET S : (IF T = {} THEN b ELSE F[h[T \ {C[T]}]][C[T]]) \in V
      BY <2>2
    <3>2. QED
      BY <3>1
  <2>4. \A T \in SUBSET S : g[T] = IF T = {} THEN b ELSE F[h[T \ {C[T]}]][C[T]]
    OBVIOUS
  <2> HIDE DEF g
  <2>5. \A T \in SUBSET S : Cardinality(T) <= n => g[T] = h[T]
    BY <2>1, <2>4
  <2>6. ASSUME NEW T \in SUBSET S, Cardinality(T) <= n + 1 PROVE Holds(g, T)
    <3>1. CASE T = {}
      BY <2>4, <3>1
    <3>2. CASE T # {}
      <4>1. T \ {C[T]} \in SUBSET S /\ Cardinality(T \ {C[T]}) = Cardinality(T) - 1
        BY <2>2, <3>2
      <4>2. Cardinality(T) \in Nat
        BY <1>1
      <4>3. Cardinality(T \ {C[T]}) <= n
        BY <4>1, <4>2, <2>6
      <4>4. g[T \ {C[T]}] = h[T \ {C[T]}]
        BY <2>5, <4>1, <4>3
      <4>5. QED
        BY <2>4, <3>2, <4>4
    <3>3. QED
      BY <3>1, <3>2
  <2> HIDE DEF Holds
  <2>7. QED
    BY <2>3, <2>6
<1>4. Cardinality(S) \in Upto
  <2> HIDE DEF Upto
  <2>1. Nat \subseteq Upto
    BY <1>2, <1>3, EveryNumber
  <2>2. QED
    BY <2>1, FS_CardinalityType
<1>5. PICK g \in [SUBSET S -> V] : \A T \in SUBSET S : Cardinality(T) <= Cardinality(S) => Holds(g, T)
  BY <1>4
<1>6. \A T \in SUBSET S : Holds(g, T)
  BY <1>1, <1>5
<1>7. QED
  BY <1>6 DEF IsFold

====
