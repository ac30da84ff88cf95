---------------------------- MODULE CommandsProofs ----------------------------
(***************************************************************************)
(* That Redis commands, MongoDB commands and CQL texts are gated as they   *)
(* are meant, for any commands, arguments, statements and headers, and in  *)
(* any number of steps.                                                    *)
(*                                                                         *)
(* What the analyses compute is given by recursive functions, of which the *)
(* proofs use the first value and the step from one to the next.  What     *)
(* holds of every line, argument or level is an induction; what it shows   *)
(* is a set and not a predicate (SetInduction, SeqInduction).              *)
(***************************************************************************)
EXTENDS Commands, SequenceTheorems, WellFoundedInduction, TLAPS

-----------------------------------------------------------------------------
(* Induction, with a set in the place of a predicate. *)

\* A set of numbers with 0 and the successor of each of its members has them all.
LEMMA SetInduction ==
  ASSUME NEW S, 0 \in S, \A n \in Nat : n \in S => n + 1 \in S
  PROVE  Nat \subseteq S
  <1> DEFINE T == Nat \ S
  <1>1. SUFFICES ASSUME T # {} PROVE FALSE
    OBVIOUS
  <1>2. IsWellFoundedOn(OpToRel(<, Nat), Nat)
    BY NatLessThanWellFounded
  <1>3. PICK x \in T : \A y \in T : <<y, x>> \notin OpToRel(<, Nat)
    BY <1>1, <1>2, WFMin, T \subseteq Nat
  <1>4. \A y \in T : ~(y < x)
    BY <1>3 DEF OpToRel
  <1>5. QED
    BY <1>4

-----------------------------------------------------------------------------
(****************************************************************************)
(* Redis: a line is read as it was written.                                *)
(*                                                                         *)
(* ParseRedisCommand reads a line symbol by symbol; ParsedEmpty and        *)
(* ParsedNext say what it is built from.                                   *)
(***************************************************************************)

(* Reading a line symbol by symbol. *)

\* f is what has been read of a line behind each of its first n symbols.
Reads(f, v, n) ==
  f = [i \in 0..n |-> IF i = 0 THEN NothingRead ELSE ParseSymbol(f[i - 1], v[i])]

LEMMA ReadingExists == ASSUME NEW v, NEW n \in Nat PROVE \E f : Reads(f, v, n)
  <1> DEFINE S == {m \in Nat : \E f : Reads(f, v, m)}
  <1>1. 0 \in S
    <2> DEFINE f == [i \in 0..0 |-> NothingRead]
    <2>1. Reads(f, v, 0)
      BY DEF Reads
    <2>2. QED
      BY <2>1
  <1>2. ASSUME NEW m \in Nat, m \in S PROVE m + 1 \in S
    <2>1. PICK f : Reads(f, v, m)
      BY <1>2
    <2> DEFINE g == [i \in 0..(m + 1) |-> IF i = m + 1 THEN ParseSymbol(f[m], v[m + 1]) ELSE f[i]]
    <2>2. ASSUME NEW i \in 0..(m + 1)
          PROVE g[i] = IF i = 0 THEN NothingRead ELSE ParseSymbol(g[i - 1], v[i])
      <3>1. CASE i = m + 1
        BY <3>1, g[i - 1] = f[m]
      <3>2. CASE i # m + 1
        <4>1. i \in 0..m /\ g[i] = f[i]
          BY <3>2
        <4>2. f[i] = IF i = 0 THEN NothingRead ELSE ParseSymbol(f[i - 1], v[i])
          BY <2>1, <4>1 DEF Reads
        <4>3. i # 0 => g[i - 1] = f[i - 1]
          BY <4>1
        <4>4. QED
          BY <4>1, <4>2, <4>3
      <3>3. QED
        BY <3>1, <3>2
    <2> HIDE DEF g
    <2>3. g = [i \in 0..(m + 1) |-> g[i]]
      BY DEF g
    <2>4. Reads(g, v, m + 1)
      BY <2>2, <2>3 DEF Reads
    <2>5. QED
      BY <2>4
  <1> HIDE DEF S
  <1>3. Nat \subseteq S
    BY <1>1, <1>2, SetInduction
  <1>4. QED
    BY <1>3 DEF S

LEMMA ReadingAgrees ==
  ASSUME NEW v, NEW w, NEW n \in Nat, NEW m \in Nat, n <= m, NEW f, NEW g,
         Reads(f, v, n), Reads(g, w, m), \A i \in 1..n : v[i] = w[i]
  PROVE  f[n] = g[n]
  <1> DEFINE S == {k \in Nat : k <= n => f[k] = g[k]}
  <1>1. 0 \in S
    BY DEF Reads
  <1>2. ASSUME NEW k \in Nat, k \in S PROVE k + 1 \in S
    <2>1. SUFFICES ASSUME k + 1 <= n PROVE f[k + 1] = g[k + 1]
      OBVIOUS
    <2>2. f[k] = g[k]
      BY <1>2, <2>1
    <2>3. f[k + 1] = ParseSymbol(f[k], v[k + 1])
      BY <2>1 DEF Reads
    <2>4. g[k + 1] = ParseSymbol(g[k], w[k + 1])
      BY <2>1 DEF Reads
    <2>5. v[k + 1] = w[k + 1]
      BY <2>1
    <2>6. QED
      BY <2>2, <2>3, <2>4, <2>5
  <1> HIDE DEF S
  <1>3. Nat \subseteq S
    BY <1>1, <1>2, SetInduction
  <1>4. QED
    BY <1>3 DEF S

LEMMA ParsedReads ==
  ASSUME NEW v, Len(v) \in Nat, NEW f, Reads(f, v, Len(v))
  PROVE  Parsed(v) = f[Len(v)]
  <1> DEFINE g == CHOOSE h : Reads(h, v, Len(v))
  <1>1. Parsed(v) = g[Len(v)]
    BY DEF Parsed, Reads
  <1>2. Reads(g, v, Len(v))
    OBVIOUS
  <1> HIDE DEF g
  <1>3. QED
    BY <1>1, <1>2, ReadingAgrees

LEMMA ParsedEmpty == Parsed(<<>>) = NothingRead
  <1>1. PICK f : Reads(f, <<>>, 0)
    BY ReadingExists
  <1>2. f[0] = NothingRead
    BY <1>1 DEF Reads
  <1>3. QED
    BY <1>1, <1>2, ParsedReads

LEMMA ParsedNext ==
  ASSUME NEW S, NEW v \in Seq(S), NEW c \in S
  PROVE  Parsed(v \o <<c>>) = ParseSymbol(Parsed(v), c)
  <1> DEFINE n == Len(v)
             w == v \o <<c>>
  <1>1. n \in Nat /\ n + 1 \in Nat /\ Len(w) = n + 1 /\ w[n + 1] = c /\ \A i \in 1..n : w[i] = v[i]
    OBVIOUS
  <1> HIDE DEF w, n
  <1>2. PICK g : Reads(g, w, n + 1)
    BY <1>1, ReadingExists
  <1>3. PICK f : Reads(f, v, n)
    BY <1>1, ReadingExists
  <1>4. Parsed(v) = f[n] /\ Parsed(w) = g[n + 1]
    BY <1>1, <1>2, <1>3, ParsedReads DEF n
  <1>5. f[n] = g[n]
    BY <1>1, <1>2, <1>3, ReadingAgrees
  <1>6. g[n + 1] = ParseSymbol(g[n], w[n + 1])
    BY <1>1, <1>2 DEF Reads
  <1>7. QED
    BY <1>1, <1>4, <1>5, <1>6 DEF w

-----------------------------------------------------------------------------
(* Sequences, one element after the other. *)

LEMMA SeqInduction ==
  ASSUME NEW S, NEW P, <<>> \in P,
         \A w \in Seq(S), c \in S : w \in P => w \o <<c>> \in P
  PROVE  Seq(S) \subseteq P
  <1> DEFINE N == {n \in Nat : \A w \in Seq(S) : Len(w) = n => w \in P}
  <1>1. 0 \in N
    BY \A w \in Seq(S) : Len(w) = 0 => w = <<>>
  <1>2. ASSUME NEW n \in Nat, n \in N PROVE n + 1 \in N
    <2>1. SUFFICES ASSUME NEW w \in Seq(S), Len(w) = n + 1 PROVE w \in P
      OBVIOUS
    <2> DEFINE v == SubSeq(w, 1, n)
    <2>2. v \in Seq(S) /\ Len(v) = n
      BY <2>1, \A i \in 1..n : w[i] \in S, SubSeqProperties
    <2>3. w[n + 1] \in S
      BY <2>1
    <2>4. w = SubSeq(w, 1, n + 1)
      BY <2>1, SubSeqFull
    <2>5. w = v \o <<w[n + 1]>>
      BY <2>1, <2>4, SubSeqRecursiveSecond, 1 \in 1..Len(w), n + 1 \in 1..Len(w), n + 1 - 1 = n
    <2> HIDE DEF v
    <2>6. QED
      BY <1>2, <2>2, <2>3, <2>5
  <1> HIDE DEF N
  <1>3. Nat \subseteq N
    BY <1>1, <1>2, SetInduction
  <1>4. QED
    BY <1>3 DEF N


-----------------------------------------------------------------------------
(* Sequences of symbols.  Their concatenation has a name of its own, which the *)
(* provers need not look behind.                                               *)

\* What may be in a line.
Symbol == STRING \cup Specials \cup {"n", "x41", "A", "k"}
Text == Seq(Symbol)
Words == Seq(Text)

Cat(v, w) == v \o w
Plus(w, c) == w \o <<c>>

LEMMA SymbolKinds ==
  /\ Spaces \subseteq Symbol /\ Quotes \subseteq Symbol
  /\ "\\" \in Symbol /\ ";" \in Symbol /\ "\n" \in Symbol /\ " " \in Symbol
  /\ "n" \in Symbol /\ "x41" \in Symbol /\ "A" \in Symbol /\ "k" \in Symbol
  /\ "\"" \in Symbol /\ "'" \in Symbol
  BY DEF Symbol, Specials, Spaces, Quotes

LEMMA Pair ==
  ASSUME NEW d \in Symbol, NEW c \in Symbol
  PROVE  <<d>> \o <<c>> = <<d, c>>
  <1>1. <<d>> \in Text /\ <<d, c>> \in Text /\ <<d, c>>[1] = d /\ <<d, c>>[2] = c
    BY DEF Text
  <1>2. Len(<<d>>) = 1 /\ Len(<<d, c>>) = 2 /\ <<d>>[1] = d
    OBVIOUS
  <1> DEFINE x == Append(<<d>>, c)
             y == <<d, c>>
  <1>3. x \in Text /\ Len(x) = 2 /\ x[1] = d /\ x[2] = c
    BY <1>1, <1>2, AppendProperties DEF Text
  <1>4. x = <<d>> \o <<c>>
    BY <1>1, AppendIsConcat DEF Text
  <1>5. y \in Text /\ Len(y) = 2 /\ y[1] = d /\ y[2] = c
    BY <1>1, <1>2
  <1> HIDE DEF x, y
  <1>6. \A i \in 1..Len(x) : x[i] = y[i]
    BY <1>3, <1>5
  <1>7. x = y
    BY <1>3, <1>5, <1>6, SeqEqual DEF Text
  <1>8. QED
    BY <1>4, <1>7 DEF y

LEMMA Triple ==
  ASSUME NEW d \in Symbol, NEW c \in Symbol, NEW e \in Symbol
  PROVE  <<d, c>> \o <<e>> = <<d, c, e>>
  <1>1. /\ <<d, c>> \in Text /\ <<d, c>>[1] = d /\ <<d, c>>[2] = c
        /\ <<d, c, e>> \in Text /\ <<d, c, e>>[1] = d /\ <<d, c, e>>[2] = c /\ <<d, c, e>>[3] = e
    BY DEF Text
  <1>2. Len(<<d, c>>) = 2 /\ Len(<<d, c, e>>) = 3
    OBVIOUS
  <1> DEFINE x == Append(<<d, c>>, e)
             y == <<d, c, e>>
  <1>3. x \in Text /\ Len(x) = 3 /\ x[1] = d /\ x[2] = c /\ x[3] = e
    BY <1>1, <1>2, AppendProperties DEF Text
  <1>4. x = <<d, c>> \o <<e>>
    BY <1>1, AppendIsConcat DEF Text
  <1>5. y \in Text /\ Len(y) = 3 /\ y[1] = d /\ y[2] = c /\ y[3] = e
    BY <1>1, <1>2
  <1> HIDE DEF x, y
  <1>6. \A i \in 1..Len(x) : x[i] = y[i]
    BY <1>3, <1>5
  <1>7. x = y
    BY <1>3, <1>5, <1>6, SeqEqual DEF Text
  <1>8. QED
    BY <1>4, <1>7 DEF y

LEMMA OneSymbol ==
  ASSUME NEW c \in Symbol
  PROVE  <<>> \in Text /\ <<c>> \in Text /\ <<c>> = Append(<<>>, c)
  <1>1. <<>> \in Text /\ <<c>> \in Text
    BY DEF Text
  <1>2. <<>> \o <<c>> = <<c>>
    BY <1>1, ConcatEmptySeq DEF Text
  <1>3. QED
    BY <1>1, <1>2, AppendIsConcat DEF Text

LEMMA CatEmpty == ASSUME NEW w \in Text PROVE Cat(w, <<>>) = w /\ Cat(<<>>, w) = w
  BY ConcatEmptySeq DEF Text, Cat

LEMMA CatType == ASSUME NEW v \in Text, NEW w \in Text PROVE Cat(v, w) \in Text
  BY ConcatProperties DEF Text, Cat

LEMMA CatAssociative ==
  ASSUME NEW u \in Text, NEW v \in Text, NEW w \in Text
  PROVE  Cat(Cat(u, v), w) = Cat(u, Cat(v, w))
  BY ConcatAssociative DEF Text, Cat

LEMMA PlusIs ==
  ASSUME NEW w \in Text, NEW c \in Symbol
  PROVE  Plus(w, c) \in Text /\ Plus(w, c) = Append(w, c) /\ Plus(w, c) = Cat(w, <<c>>)
  <1>1. w \o <<c>> \in Text
    BY OneSymbol, ConcatProperties DEF Text
  <1>2. w \o <<c>> = Append(w, c)
    BY AppendIsConcat DEF Text
  <1>3. QED
    BY <1>1, <1>2 DEF Plus, Cat

LEMMA CatPlus ==
  ASSUME NEW v \in Text, NEW w \in Text, NEW c \in Symbol
  PROVE  Cat(v, Plus(w, c)) = Plus(Cat(v, w), c)
  <1>1. Plus(w, c) = Cat(w, <<c>>) /\ Plus(Cat(v, w), c) = Cat(Cat(v, w), <<c>>)
    BY PlusIs, CatType
  <1>2. QED
    BY <1>1, OneSymbol, CatAssociative

LEMMA TwoSymbols ==
  ASSUME NEW w \in Text, NEW d \in Symbol, NEW c \in Symbol
  PROVE  Cat(w, <<d, c>>) = Plus(Plus(w, d), c) /\ <<d, c>> \in Text
  <1>1. <<d, c>> = Cat(<<d>>, <<c>>)
    BY Pair DEF Cat
  <1>2. Cat(w, Cat(<<d>>, <<c>>)) = Cat(Cat(w, <<d>>), <<c>>)
    BY OneSymbol, CatAssociative
  <1>3. Cat(w, <<d>>) = Plus(w, d) /\ Cat(Plus(w, d), <<c>>) = Plus(Plus(w, d), c)
    BY PlusIs
  <1>4. <<d, c>> \in Text
    BY <1>1, OneSymbol, CatType
  <1>5. QED
    BY <1>1, <1>2, <1>3, <1>4

LEMMA ReadNext ==
  ASSUME NEW v \in Text, NEW c \in Symbol
  PROVE  Parsed(Plus(v, c)) = ParseSymbol(Parsed(v), c)
  BY ParsedNext DEF Text, Plus

LEMMA TextInduction ==
  ASSUME NEW P, <<>> \in P, \A w \in Text, c \in Symbol : w \in P => Plus(w, c) \in P
  PROVE  Text \subseteq P
  BY SeqInduction DEF Text, Plus

-----------------------------------------------------------------------------
(* What a quoted argument is written as. *)

\* A symbol is quoted by itself, or by a backslash and what stands for it.
LEMMA EscapeIs ==
  ASSUME NEW c \in Symbol
  PROVE  \/ Escape(c) = <<c>> /\ c \notin {"\"", "\\"}
         \/ \E e \in Symbol : Escape(c) = <<"\\", e>> /\ Unescaped(e) = c
  <1>1. CASE c \in {"\"", "\\"}
    BY <1>1 DEF Escape, Unescaped
  <1>2. CASE c = "\n"
    <2>1. Escape(c) = <<"\\", "n">> /\ Unescaped("n") = c
      BY <1>2 DEF Escape, Unescaped
    <2>2. QED
      BY <2>1, SymbolKinds
  <1>3. CASE c = "A"
    <2>1. Escape(c) = <<"\\", "x41">> /\ Unescaped("x41") = c
      BY <1>3 DEF Escape, Unescaped
    <2>2. QED
      BY <2>1, SymbolKinds
  <1>4. CASE c \notin {"\"", "\\", "\n", "A"}
    BY <1>4 DEF Escape
  <1>5. QED
    BY <1>1, <1>2, <1>3, <1>4

LEMMA EscapeType == ASSUME NEW c \in Symbol PROVE Escape(c) \in Text
  <1>1. "\\" \in Symbol
    BY SymbolKinds
  <1>2. QED
    BY <1>1, OneSymbol, TwoSymbols, EscapeIs

\* f is what the first elements of a sequence of sequences make together.
Both(x, y) == x \o y
Joins(f, v, n) == f = [i \in 1..n |-> IF i = 1 THEN v[i] ELSE Both(f[i - 1], v[i])]

LEMMA JoiningExists == ASSUME NEW v, NEW n \in Nat PROVE \E f : Joins(f, v, n)
  <1> DEFINE S == {m \in Nat : \E f : Joins(f, v, m)}
  <1>1. 0 \in S
    <2> DEFINE f == [i \in 1..0 |-> {}]
    <2>1. Joins(f, v, 0)
      BY DEF Joins
    <2>2. QED
      BY <2>1
  <1>2. ASSUME NEW m \in Nat, m \in S PROVE m + 1 \in S
    <2>1. PICK f : Joins(f, v, m)
      BY <1>2
    <2> DEFINE g == [i \in 1..(m + 1) |->
                       IF i = m + 1 THEN IF i = 1 THEN v[i] ELSE Both(f[m], v[m + 1]) ELSE f[i]]
    <2>2. ASSUME NEW i \in 1..(m + 1)
          PROVE g[i] = IF i = 1 THEN v[i] ELSE Both(g[i - 1], v[i])
      <3>1. CASE i = m + 1
        BY <3>1, i # 1 => g[i - 1] = f[m]
      <3>2. CASE i # m + 1
        <4>1. i \in 1..m /\ g[i] = f[i]
          BY <3>2
        <4>2. f[i] = IF i = 1 THEN v[i] ELSE Both(f[i - 1], v[i])
          BY <2>1, <4>1 DEF Joins
        <4>3. i # 1 => g[i - 1] = f[i - 1]
          BY <4>1
        <4>4. QED
          BY <4>1, <4>2, <4>3
      <3>3. QED
        BY <3>1, <3>2
    <2> HIDE DEF g
    <2>3. g = [i \in 1..(m + 1) |-> g[i]]
      BY DEF g
    <2>4. Joins(g, v, m + 1)
      BY <2>2, <2>3 DEF Joins
    <2>5. QED
      BY <2>4
  <1> HIDE DEF S
  <1>3. Nat \subseteq S
    BY <1>1, <1>2, SetInduction
  <1>4. QED
    BY <1>3 DEF S

LEMMA JoiningAgrees ==
  ASSUME NEW v, NEW w, NEW n \in Nat, NEW m \in Nat, 1 <= n, n <= m, NEW f, NEW g,
         Joins(f, v, n), Joins(g, w, m), \A i \in 1..n : v[i] = w[i]
  PROVE  f[n] = g[n]
  <1> DEFINE S == {k \in Nat : 1 <= k /\ k <= n => f[k] = g[k]}
  <1>1. 0 \in S
    OBVIOUS
  <1>2. ASSUME NEW k \in Nat, k \in S PROVE k + 1 \in S
    <2>1. SUFFICES ASSUME k + 1 <= n PROVE f[k + 1] = g[k + 1]
      OBVIOUS
    <2>2. k # 0 => f[k] = g[k]
      BY <1>2, <2>1
    <2>3. f[k + 1] = IF k = 0 THEN v[k + 1] ELSE Both(f[k], v[k + 1])
      BY <2>1 DEF Joins
    <2>4. g[k + 1] = IF k = 0 THEN w[k + 1] ELSE Both(g[k], w[k + 1])
      BY <2>1 DEF Joins
    <2>5. v[k + 1] = w[k + 1]
      BY <2>1
    <2>6. QED
      BY <2>2, <2>3, <2>4, <2>5
  <1> HIDE DEF S
  <1>3. Nat \subseteq S
    BY <1>1, <1>2, SetInduction
  <1>4. QED
    BY <1>3 DEF S

LEMMA FlattenJoins ==
  ASSUME NEW v, Len(v) \in Nat \ {0}, NEW f, Joins(f, v, Len(v))
  PROVE  FlattenSeq(v) = f[Len(v)]
  <1> DEFINE g == CHOOSE h : Joins(h, v, Len(v))
  <1>1. FlattenSeq(v) = g[Len(v)]
    BY DEF FlattenSeq, Joins, Both
  <1>2. Joins(g, v, Len(v))
    OBVIOUS
  <1> HIDE DEF g
  <1>3. QED
    BY <1>1, <1>2, JoiningAgrees

LEMMA EscapedEmpty == Escaped(<<>>) = <<>>
  <1>1. Len([i \in DOMAIN <<>> |-> Escape(<<>>[i])]) = 0
    OBVIOUS
  <1>2. [i \in DOMAIN <<>> |-> Escape(<<>>[i])] = <<>>
    OBVIOUS
  <1>3. QED
    BY <1>1, <1>2 DEF Escaped, FlattenSeq

LEMMA EscapedNext ==
  ASSUME NEW w \in Seq(Symbol), NEW c \in Symbol, Escaped(w) \in Seq(Symbol)
  PROVE  Escaped(w \o <<c>>) = Escaped(w) \o Escape(c)
  <1> DEFINE n == Len(w)
             x == w \o <<c>>
             v == [i \in DOMAIN w |-> Escape(w[i])]
             u == [i \in DOMAIN x |-> Escape(x[i])]
  <1>1. n \in Nat /\ n + 1 \in Nat /\ Len(x) = n + 1 /\ x[n + 1] = c /\ DOMAIN x = 1..(n + 1)
         /\ DOMAIN w = 1..n /\ \A i \in 1..n : x[i] = w[i]
    OBVIOUS
  <1>2. u[n + 1] = Escape(c) /\ \A i \in 1..n : u[i] = v[i]
    BY <1>1
  <1>3. Escaped(w) = FlattenSeq(v) /\ Escaped(x) = FlattenSeq(u)
    BY DEF Escaped
  <1>4. Len(v) = n /\ Len(u) = n + 1
    <2>1. \A i \in 1..n : v[i] \in Seq(Symbol)
      BY <1>1, EscapeType DEF Text
    <2>2. \A i \in 1..(n + 1) : u[i] \in Seq(Symbol)
      BY <1>1, EscapeType DEF Text
    <2>3. v \in [1..n -> Seq(Symbol)] /\ u \in [1..(n + 1) -> Seq(Symbol)]
      BY <1>1, <2>1, <2>2
    <2> HIDE DEF v, u, n
    <2>4. QED
      BY <1>1, <2>3
  <1> HIDE DEF n, x, v, u
  <1>5. PICK g : Joins(g, u, n + 1)
    BY <1>1, JoiningExists
  <1>6. FlattenSeq(u) = g[n + 1]
    BY <1>1, <1>4, <1>5, FlattenJoins
  <1>7. CASE n = 0
    <2>1. w = <<>>
      BY <1>7 DEF n
    <2>2. Escaped(w) = <<>>
      BY <2>1, EscapedEmpty
    <2>3. g[1] = u[1]
      BY <1>5, <1>7 DEF Joins
    <2>4. Escaped(x) = Escape(c)
      BY <1>2, <1>3, <1>6, <1>7, <2>3
    <2>5. <<>> \o Escape(c) = Escape(c)
      BY EscapeType, ConcatEmptySeq DEF Text
    <2>6. QED
      BY <2>2, <2>4, <2>5 DEF x
  <1>8. CASE n # 0
    <2>1. PICK f : Joins(f, v, n)
      BY <1>1, JoiningExists
    <2>2. FlattenSeq(v) = f[n]
      BY <1>1, <1>4, <1>8, <2>1, FlattenJoins
    <2>3. f[n] = g[n]
      <3>1. n \in Nat /\ n + 1 \in Nat /\ 1 <= n /\ n <= n + 1
        BY <1>1, <1>8
      <3>2. \A i \in 1..n : v[i] = u[i]
        BY <1>2
      <3>3. QED
        BY <1>5, <2>1, <3>1, <3>2, JoiningAgrees
    <2>4. g[n + 1] = Both(g[n], u[n + 1])
      BY <1>1, <1>5, <1>8 DEF Joins
    <2>5. QED
      BY <1>2, <1>3, <1>6, <2>2, <2>3, <2>4 DEF x, Both
  <1>9. QED
    BY <1>7, <1>8

LEMMA EscapedType == ASSUME NEW w \in Text PROVE Escaped(w) \in Text
  <1> DEFINE P == {x \in Text : Escaped(x) \in Text}
  <1>1. <<>> \in P
    BY EscapedEmpty, EmptySeq DEF Text
  <1>2. ASSUME NEW x \in Text, NEW c \in Symbol, Escaped(x) \in Text
        PROVE  Plus(x, c) \in Text /\ Escaped(Plus(x, c)) \in Text
    <2>1. Escaped(Plus(x, c)) = Cat(Escaped(x), Escape(c))
      BY <1>2, EscapedNext DEF Plus, Cat, Text
    <2>2. QED
      BY <1>2, <2>1, EscapeType, CatType, PlusIs
  <1>3. Text \subseteq P
    BY <1>1, <1>2, TextInduction
  <1>4. QED
    BY <1>3

LEMMA EscapedPlus ==
  ASSUME NEW w \in Text, NEW c \in Symbol
  PROVE  Escaped(Plus(w, c)) = Cat(Escaped(w), Escape(c))
  BY EscapedType, EscapedNext DEF Plus, Cat, Text

-----------------------------------------------------------------------------
(* What one symbol does. *)

\* Between two arguments, and within one.
Between(done) == [args |-> done, cur |-> <<>>, in |-> FALSE, quote |-> "none"]
Within(done, word, quote) == [args |-> done, cur |-> word, in |-> TRUE, quote |-> quote]

\* The symbols that stand for themselves, outside of quotes and in each kind.
Literal(c, quote) ==
  CASE quote = "none" -> c \notin Spaces \cup Quotes
    [] quote = "'" -> c # "'"
    [] quote = "\"" -> c \notin {"\"", "\\"}

\* Behind v, done have been read: and no more, or word of the next argument.
Apart(v, done) == Parsed(v) = Between(done)
At(v, done, word, quote) == Parsed(v) = Within(done, word, quote)

LEMMA LiteralRead ==
  ASSUME NEW v \in Text, NEW done \in Words, NEW word \in Text, NEW c \in Symbol,
         NEW quote \in {"none", "'", "\""}, At(v, done, word, quote), Literal(c, quote)
  PROVE  At(Plus(v, c), done, Plus(word, c), quote)
  <1>1. ParseSymbol(Within(done, word, quote), c) = Within(done, Append(word, c), quote)
    BY DEF ParseSymbol, Within, Literal, Spaces, Quotes
  <1>2. QED
    BY <1>1, PlusIs, ReadNext DEF At

LEMMA FirstRead ==
  ASSUME NEW v \in Text, NEW done \in Words, NEW c \in Symbol, Apart(v, done), Literal(c, "none")
  PROVE  At(Plus(v, c), done, <<c>>, "none")
  <1>1. ParseSymbol(Between(done), c) = Within(done, Append(<<>>, c), "none")
    BY DEF ParseSymbol, Between, Within, Literal, Spaces, Quotes
  <1>2. QED
    BY <1>1, OneSymbol, ReadNext DEF At, Apart

LEMMA QuoteOpens ==
  ASSUME NEW v \in Text, NEW done \in Words, NEW word \in Text, NEW q \in Quotes,
         At(v, done, word, "none") \/ (Apart(v, done) /\ word = <<>>)
  PROVE  At(Plus(v, q), done, word, q)
  <1>1. ParseSymbol(Between(done), q) = Within(done, <<>>, q)
    BY DEF ParseSymbol, Between, Within, Spaces, Quotes
  <1>2. ParseSymbol(Within(done, word, "none"), q) = Within(done, word, q)
    BY DEF ParseSymbol, Within, Spaces, Quotes
  <1>3. Parsed(Plus(v, q)) = ParseSymbol(Parsed(v), q)
    BY SymbolKinds, ReadNext
  <1>4. QED
    BY <1>1, <1>2, <1>3 DEF At, Apart

LEMMA QuoteCloses ==
  ASSUME NEW v \in Text, NEW done \in Words, NEW word \in Text, NEW q \in Quotes, At(v, done, word, q)
  PROVE  At(Plus(v, q), done, word, "none")
  <1>1. ParseSymbol(Within(done, word, q), q) = Within(done, word, "none")
    BY DEF ParseSymbol, EndOfQuote, Within, Spaces, Quotes
  <1>2. Parsed(Plus(v, q)) = ParseSymbol(Parsed(v), q)
    BY SymbolKinds, ReadNext
  <1>3. QED
    BY <1>1, <1>2 DEF At

LEMMA BackslashRead ==
  ASSUME NEW v \in Text, NEW done \in Words, NEW word \in Text, NEW e \in Symbol,
         At(v, done, word, "\""), Unescaped(e) \in Symbol
  PROVE  At(Cat(v, <<"\\", e>>), done, Plus(word, Unescaped(e)), "\"")
  <1>1. ParseSymbol(Within(done, word, "\""), "\\") = Within(done, word, "escape")
    BY DEF ParseSymbol, Within, Spaces, Quotes
  <1>2. ParseSymbol(Within(done, word, "escape"), e) = Within(done, Append(word, Unescaped(e)), "\"")
    BY DEF ParseSymbol, Within, Spaces, Quotes
  <1>3. PICK b \in Symbol : b = "\\"
    BY SymbolKinds
  <1>4. Cat(v, <<b, e>>) = Plus(Plus(v, b), e) /\ Plus(v, b) \in Text
    BY TwoSymbols, PlusIs
  <1>5. Parsed(Cat(v, <<b, e>>)) = ParseSymbol(ParseSymbol(Parsed(v), b), e)
    BY <1>4, ReadNext
  <1>6. QED
    BY <1>1, <1>2, <1>3, <1>5, PlusIs DEF At

LEMMA SpaceRead ==
  ASSUME NEW v \in Text, NEW done \in Words, NEW word \in Text, NEW c \in Spaces
  PROVE  /\ Apart(v, done) => Apart(Plus(v, c), done)
         /\ At(v, done, word, "none") => Apart(Plus(v, c), Append(done, word))
  <1>1. ParseSymbol(Between(done), c) = Between(done)
    BY DEF ParseSymbol, Between, Spaces, Quotes
  <1>2. ParseSymbol(Within(done, word, "none"), c) = Between(Append(done, word))
    BY DEF ParseSymbol, Between, Within, Spaces, Quotes
  <1>3. Parsed(Plus(v, c)) = ParseSymbol(Parsed(v), c)
    BY SymbolKinds, ReadNext
  <1>4. QED
    BY <1>1, <1>2, <1>3 DEF At, Apart

-----------------------------------------------------------------------------
(* What the parts of a form do. *)

Literals(w, quote) == \A i \in DOMAIN w : Literal(w[i], quote)

LEMMA LiteralsPlus ==
  ASSUME NEW w \in Text, NEW c \in Symbol, NEW quote, Literals(Plus(w, c), quote)
  PROVE  Literals(w, quote) /\ Literal(c, quote)
  <1> DEFINE x == Plus(w, c)
  <1>1. /\ DOMAIN w \subseteq DOMAIN x /\ (\A i \in DOMAIN w : x[i] = w[i])
        /\ Len(w) + 1 \in DOMAIN x /\ x[Len(w) + 1] = c
    BY DEF Text, Plus
  <1>2. \A i \in DOMAIN x : Literal(x[i], quote)
    BY DEF Literals
  <1> HIDE DEF x
  <1>3. QED
    BY <1>1, <1>2 DEF Literals

LEMMA LiteralsRead ==
  ASSUME NEW v \in Text, NEW done \in Words, NEW word \in Text,
         NEW quote \in {"none", "'", "\""}, At(v, done, word, quote),
         NEW w \in Text, Literals(w, quote)
  PROVE  At(Cat(v, w), done, Cat(word, w), quote)
  <1> DEFINE P == {x \in Text : Literals(x, quote) => At(Cat(v, x), done, Cat(word, x), quote)}
  <1>1. <<>> \in P
    BY CatEmpty, EmptySeq DEF Text
  <1>2. ASSUME NEW x \in Text, NEW c \in Symbol, At(Cat(v, x), done, Cat(word, x), quote),
               Literal(c, quote)
        PROVE  At(Cat(v, Plus(x, c)), done, Cat(word, Plus(x, c)), quote)
    <2>1. Cat(v, x) \in Text /\ Cat(word, x) \in Text
      BY CatType
    <2>2. Cat(v, Plus(x, c)) = Plus(Cat(v, x), c) /\ Cat(word, Plus(x, c)) = Plus(Cat(word, x), c)
      BY CatPlus
    <2>3. At(Plus(Cat(v, x), c), done, Plus(Cat(word, x), c), quote)
      BY <1>2, <2>1, LiteralRead
    <2>4. QED
      BY <2>2, <2>3
  <1>3. \A x \in Text, c \in Symbol : x \in P => Plus(x, c) \in P
    BY <1>2, PlusIs, LiteralsPlus
  <1>4. Text \subseteq P
    BY <1>1, <1>3, TextInduction
  <1>5. QED
    BY <1>4

\* Behind a double quote, a symbol is read back from what it is quoted as.
LEMMA EscapeRead ==
  ASSUME NEW v \in Text, NEW done \in Words, NEW word \in Text, NEW c \in Symbol,
         At(v, done, word, "\"")
  PROVE  At(Cat(v, Escape(c)), done, Plus(word, c), "\"")
  <1>1. CASE Escape(c) = <<c>> /\ c \notin {"\"", "\\"}
    <2>1. Literal(c, "\"")
      BY <1>1 DEF Literal
    <2>2. Cat(v, Escape(c)) = Plus(v, c)
      BY <1>1, PlusIs
    <2>3. QED
      BY <2>1, <2>2, LiteralRead
  <1>2. CASE \E e \in Symbol : Escape(c) = <<"\\", e>> /\ Unescaped(e) = c
    BY <1>2, BackslashRead
  <1>3. QED
    BY <1>1, <1>2, EscapeIs

LEMMA EscapedRead ==
  ASSUME NEW v \in Text, NEW done \in Words, NEW word \in Text, At(v, done, word, "\""),
         NEW w \in Text
  PROVE  At(Cat(v, Escaped(w)), done, Cat(word, w), "\"")
  <1> DEFINE P == {x \in Text : At(Cat(v, Escaped(x)), done, Cat(word, x), "\"")}
  <1>1. <<>> \in P
    BY CatEmpty, EscapedEmpty, EmptySeq DEF Text
  <1>2. ASSUME NEW x \in Text, NEW c \in Symbol, At(Cat(v, Escaped(x)), done, Cat(word, x), "\"")
        PROVE  At(Cat(v, Escaped(Plus(x, c))), done, Cat(word, Plus(x, c)), "\"")
    <2>1. Escaped(x) \in Text /\ Escape(c) \in Text
      BY EscapedType, EscapeType
    <2>2. Cat(v, Escaped(x)) \in Text /\ Cat(word, x) \in Text
      BY <2>1, CatType
    <2>3. Cat(v, Escaped(Plus(x, c))) = Cat(Cat(v, Escaped(x)), Escape(c))
      <3>1. Escaped(Plus(x, c)) = Cat(Escaped(x), Escape(c))
        BY EscapedPlus
      <3>2. Cat(v, Cat(Escaped(x), Escape(c))) = Cat(Cat(v, Escaped(x)), Escape(c))
        BY <2>1, CatAssociative
      <3>3. QED
        BY <3>1, <3>2
    <2>4. Cat(word, Plus(x, c)) = Plus(Cat(word, x), c)
      BY CatPlus
    <2>5. At(Cat(Cat(v, Escaped(x)), Escape(c)), done, Plus(Cat(word, x), c), "\"")
      BY <1>2, <2>2, EscapeRead
    <2>6. QED
      BY <2>3, <2>4, <2>5
  <1>3. \A x \in Text, c \in Symbol : x \in P => Plus(x, c) \in P
    BY <1>2, PlusIs
  <1>4. Text \subseteq P
    BY <1>1, <1>3, TextInduction
  <1>5. QED
    BY <1>4

-----------------------------------------------------------------------------
(* The forms of an argument. *)

\* The symbol a text ends in.
EndOf(w) == w[Len(w)]

LEMMA PlusEnd ==
  ASSUME NEW w \in Text, NEW c \in Symbol
  PROVE  Plus(w, c) # <<>> /\ EndOf(Plus(w, c)) = c
  <1>1. Len(w \o <<c>>) = Len(w) + 1 /\ (w \o <<c>>)[Len(w) + 1] = c /\ Len(w) + 1 # 0
    BY DEF Text
  <1>2. QED
    BY <1>1 DEF Plus, EndOf

LEMMA CatEnd ==
  ASSUME NEW v \in Text, NEW w \in Text, w # <<>>
  PROVE  Cat(v, w) # <<>> /\ EndOf(Cat(v, w)) = EndOf(w)
  <1>1. Len(w) \in Nat \ {0} /\ Len(v) \in Nat
    BY EmptySeq, LenProperties DEF Text
  <1>2. /\ Len(v \o w) = Len(v) + Len(w)
        /\ (v \o w)[Len(v) + Len(w)] = w[Len(w)]
    BY <1>1, ConcatProperties DEF Text
  <1>3. QED
    BY <1>1, <1>2 DEF Cat, EndOf

LEMMA Enclosed ==
  ASSUME NEW v \in Text, NEW a \in Symbol, NEW w \in Text, NEW b \in Symbol
  PROVE  /\ Cat(v, <<a>> \o w \o <<b>>) = Plus(Cat(Plus(v, a), w), b)
         /\ <<a>> \o w \o <<b>> \in Text
         /\ <<a>> \o w \o <<b>> # <<>> /\ EndOf(<<a>> \o w \o <<b>>) = b
  <1> DEFINE x == Cat(<<a>>, w)
  <1>1. <<a>> \o w \o <<b>> = Plus(x, b)
    BY DEF Plus, Cat
  <1>2. x \in Text /\ Cat(v, x) = Cat(Plus(v, a), w)
    BY OneSymbol, CatType, CatAssociative, PlusIs
  <1> HIDE DEF x
  <1>3. Cat(v, Plus(x, b)) = Plus(Cat(v, x), b) /\ Plus(x, b) \in Text
    BY <1>2, CatPlus, PlusIs
  <1>4. QED
    BY <1>1, <1>2, <1>3, PlusEnd

LEMMA QuotedRead ==
  ASSUME NEW v \in Text, NEW done \in Words, NEW word \in Text,
         At(v, done, word, "none") \/ (Apart(v, done) /\ word = <<>>),
         NEW arg \in Text, NEW form \in Quoted(arg)
  PROVE  /\ form \in Text /\ form # <<>> /\ EndOf(form) \in Quotes
         /\ At(Cat(v, form), done, Cat(word, arg), "none")
  <1>1. "\"" \in Symbol /\ "\"" \in Quotes /\ "'" \in Symbol /\ "'" \in Quotes
    BY SymbolKinds DEF Quotes
  <1>2. ASSUME NEW q \in Symbol, q \in Quotes, NEW w \in Text, form = <<q>> \o w \o <<q>>,
               At(Plus(v, q), done, word, q) => At(Cat(Plus(v, q), w), done, Cat(word, arg), q)
        PROVE  /\ form \in Text /\ form # <<>> /\ EndOf(form) \in Quotes
               /\ At(Cat(v, form), done, Cat(word, arg), "none")
    <2>1. /\ form \in Text /\ form # <<>> /\ EndOf(form) = q
          /\ Cat(v, form) = Plus(Cat(Plus(v, q), w), q)
      BY <1>2, Enclosed
    <2>2. At(Plus(v, q), done, word, q)
      BY <1>2, QuoteOpens
    <2>3. Plus(v, q) \in Text /\ Cat(word, arg) \in Text
      BY PlusIs, CatType
    <2>4. Cat(Plus(v, q), w) \in Text
      BY <2>3, CatType
    <2>5. At(Plus(Cat(Plus(v, q), w), q), done, Cat(word, arg), "none")
      BY <1>2, <2>2, <2>3, <2>4, QuoteCloses
    <2>6. QED
      BY <1>2, <2>1, <2>5
  <1>3. CASE form = <<"\"">> \o Escaped(arg) \o <<"\"">>
    <2>1. Escaped(arg) \in Text /\ Plus(v, "\"") \in Text
      BY <1>1, EscapedType, PlusIs
    <2>2. At(Plus(v, "\""), done, word, "\"")
            => At(Cat(Plus(v, "\""), Escaped(arg)), done, Cat(word, arg), "\"")
      BY <2>1, EscapedRead
    <2>3. QED
      BY <1>1, <1>2, <1>3, <2>1, <2>2
  <1>4. CASE (\A i \in DOMAIN arg : arg[i] # "'") /\ form = <<"'">> \o arg \o <<"'">>
    <2>1. Literals(arg, "'")
      BY <1>4 DEF Literals, Literal
    <2>2. Plus(v, "'") \in Text
      BY <1>1, PlusIs
    <2>3. At(Plus(v, "'"), done, word, "'")
            => At(Cat(Plus(v, "'"), arg), done, Cat(word, arg), "'")
      BY <2>1, <2>2, LiteralsRead
    <2>4. QED
      BY <1>1, <1>2, <1>4, <2>3
  <1>5. QED
    BY <1>3, <1>4 DEF Quoted


LEMMA BareIsLiteral ==
  ASSUME NEW w \in Text, Bare(w)
  PROVE  Literals(w, "none") /\ (w # <<>> => EndOf(w) \notin Specials)
  <1>1. w # <<>> => Len(w) \in DOMAIN w
    BY DEF Text
  <1>2. QED
    BY <1>1 DEF Bare, Literals, Literal, Specials, EndOf

LEMMA HeadTail ==
  ASSUME NEW w \in Text, w # <<>>
  PROVE  /\ w[1] \in Symbol /\ Tail(w) \in Text
         /\ Cat(<<w[1]>>, Tail(w)) = w
  <1>1. w[1] \in Symbol /\ Tail(w) \in Text /\ Len(w) \in Nat \ {0}
    BY HeadTailProperties, LenProperties, EmptySeq, ElementOfSeq, 1 \in 1..Len(w) DEF Text
  <1>2. Tail(w) = SubSeq(w, 2, Len(w))
    BY TailIsSubSeq DEF Text
  <1>3. SubSeq(w, 1, Len(w)) = <<w[1]>> \o SubSeq(w, 1 + 1, Len(w))
    BY <1>1, SubSeqRecursiveFirst DEF Text
  <1>4. SubSeq(w, 1, Len(w)) = w
    BY SubSeqFull DEF Text
  <1>5. 1 + 1 = 2
    OBVIOUS
  <1>6. QED
    BY <1>1, <1>2, <1>3, <1>4, <1>5 DEF Cat

LEMMA FormsRead ==
  ASSUME NEW v \in Text, NEW done \in Words, Apart(v, done), NEW arg \in Text, NEW form \in Forms(arg)
  PROVE  /\ form \in Text /\ form # <<>> /\ EndOf(form) \notin Spaces \cup {";"}
         /\ At(Cat(v, form), done, arg, "none")
  <1> DEFINE Read(f) == /\ f \in Text /\ f # <<>> /\ EndOf(f) \notin Spaces \cup {";"}
                        /\ At(Cat(v, f), done, arg, "none")
  <1>1. Quotes \cap (Spaces \cup {";"}) = {}
    BY DEF Quotes, Spaces
  <1>2. \A c \in Symbol : c \notin Specials => Literal(c, "none") /\ c \notin Spaces \cup {";"}
    BY DEF Specials, Literal
  <1>3. <<>> \in Text
    BY EmptySeq DEF Text
  <1>4. CASE form \in Quoted(arg)
    <2>1. Cat(<<>>, arg) = arg
      BY CatEmpty
    <2>2. /\ form \in Text /\ form # <<>> /\ EndOf(form) \in Quotes
          /\ At(Cat(v, form), done, Cat(<<>>, arg), "none")
      BY <1>3, <1>4, QuotedRead
    <2>3. QED
      BY <1>1, <2>1, <2>2
  <1>5. ASSUME arg # <<>>, arg[1] \notin Specials
        PROVE  /\ arg[1] \in Symbol /\ Tail(arg) \in Text /\ <<arg[1]>> \in Text
               /\ Cat(<<arg[1]>>, Tail(arg)) = arg
               /\ Cat(v, <<arg[1]>>) \in Text
               /\ At(Cat(v, <<arg[1]>>), done, <<arg[1]>>, "none")
    <2>1. arg[1] \in Symbol /\ Tail(arg) \in Text /\ Cat(<<arg[1]>>, Tail(arg)) = arg
      BY <1>5, HeadTail
    <2>2. <<arg[1]>> \in Text /\ Cat(v, <<arg[1]>>) = Plus(v, arg[1]) /\ Plus(v, arg[1]) \in Text
      BY <2>1, OneSymbol, PlusIs
    <2>3. At(Plus(v, arg[1]), done, <<arg[1]>>, "none")
      BY <1>2, <1>5, <2>1, FirstRead
    <2>4. QED
      BY <2>1, <2>2, <2>3
  <1>6. CASE arg # <<>> /\ Bare(arg) /\ form = arg
    <2>1. arg[1] \notin Specials /\ Bare(Tail(arg))
      <3>1. 1 \in DOMAIN arg /\ \A i \in DOMAIN Tail(arg) : i + 1 \in DOMAIN arg /\ Tail(arg)[i] = arg[i + 1]
        BY <1>6, HeadTailProperties, LenProperties, EmptySeq DEF Text
      <3>2. QED
        BY <1>6, <3>1 DEF Bare
    <2>2. Literals(Tail(arg), "none")
      BY <1>5, <1>6, <2>1, BareIsLiteral
    <2>3. At(Cat(Cat(v, <<arg[1]>>), Tail(arg)), done, Cat(<<arg[1]>>, Tail(arg)), "none")
      BY <1>5, <1>6, <2>1, <2>2, LiteralsRead
    <2>4. Cat(Cat(v, <<arg[1]>>), Tail(arg)) = Cat(v, arg)
      BY <1>5, <1>6, <2>1, CatAssociative
    <2>5. EndOf(arg) \notin Spaces \cup {";"}
      BY <1>6, BareIsLiteral DEF Specials
    <2>6. QED
      BY <1>5, <1>6, <2>1, <2>3, <2>4, <2>5
  <1>7. ASSUME arg # <<>>, arg[1] \notin Specials, NEW q \in Quoted(Tail(arg)), form = <<arg[1]>> \o q
        PROVE  Read(form)
    <2> DEFINE a == <<arg[1]>>
               t == Tail(arg)
    <2>1. a \in Text /\ t \in Text /\ Cat(a, t) = arg /\ At(Cat(v, a), done, a, "none") /\ Cat(v, a) \in Text
      BY <1>5, <1>7
    <2>2. form = Cat(a, q)
      BY <1>7 DEF Cat
    <2>3. q \in Quoted(t)
      BY <1>7
    <2> HIDE DEF a, t
    <2>4. q \in Text /\ q # <<>> /\ EndOf(q) \in Quotes /\ At(Cat(Cat(v, a), q), done, Cat(a, t), "none")
      BY <2>1, <2>3, QuotedRead
    <2>5. Cat(Cat(v, a), q) = Cat(v, form)
      BY <2>1, <2>2, <2>4, CatAssociative
    <2>6. form \in Text /\ form # <<>> /\ EndOf(form) = EndOf(q)
      BY <2>1, <2>2, <2>4, CatType, CatEnd
    <2>7. QED
      BY <1>1, <2>1, <2>4, <2>5, <2>6
  <1>8. ASSUME Len(arg) > 1, Bare(Tail(arg)), NEW q \in Quoted(<<arg[1]>>), form = q \o Tail(arg)
        PROVE  Read(form)
    <2> DEFINE a == <<arg[1]>>
               t == Tail(arg)
    <2>1. arg # <<>> /\ t # <<>>
      <3>1. arg # <<>>
        BY <1>8
      <3>2. Len(t) = Len(arg) - 1 /\ Len(arg) \in Nat
        BY <3>1, HeadTailProperties, LenProperties DEF Text
      <3>3. Len(t) # 0
        BY <1>8, <3>2
      <3>4. Len(<<>>) = 0
        BY EmptySeq
      <3>5. QED
        BY <3>1, <3>3, <3>4
    <2>2. a \in Text /\ t \in Text /\ Cat(a, t) = arg
      BY <2>1, HeadTail, OneSymbol
    <2>3. q \in Text /\ At(Cat(v, q), done, a, "none")
      BY <1>3, <1>8, <2>2, CatEmpty, QuotedRead
    <2>4. form = Cat(q, t)
      BY <1>8 DEF Cat
    <2>5. Literals(t, "none") /\ EndOf(t) \notin Specials
      BY <1>8, <2>1, <2>2, BareIsLiteral
    <2> HIDE DEF a, t
    <2>6. Cat(v, q) \in Text
      BY <2>3, CatType
    <2>7. At(Cat(Cat(v, q), t), done, Cat(a, t), "none")
      BY <2>2, <2>3, <2>5, <2>6, LiteralsRead
    <2>8. Cat(Cat(v, q), t) = Cat(v, form)
      BY <2>2, <2>3, <2>4, CatAssociative
    <2>9. form \in Text /\ form # <<>> /\ EndOf(form) = EndOf(t)
      BY <2>1, <2>2, <2>3, <2>4, CatType, CatEnd
    <2>10. QED
      BY <2>2, <2>5, <2>7, <2>8, <2>9 DEF Specials
  <1>9. QED
    BY <1>4, <1>6, <1>7, <1>8 DEF Forms

LEMMA GapRead ==
  ASSUME NEW v \in Text, NEW done \in Words, NEW word \in Text, At(v, done, word, "none"),
         NEW gap \in {<<" ">>, <<" ", " ">>}
  PROVE  gap \in Text /\ Cat(v, gap) \in Text /\ Apart(Cat(v, gap), Append(done, word))
  <1>1. PICK c \in Symbol : c = " " /\ c \in Spaces
    BY SymbolKinds DEF Spaces
  <1>2. Append(done, word) \in Words
    BY AppendProperties DEF Words
  <1>3. Plus(v, c) \in Text /\ Apart(Plus(v, c), Append(done, word))
    BY <1>1, PlusIs, SpaceRead
  <1>4. CASE gap = <<c>>
    BY <1>3, <1>4, OneSymbol, PlusIs
  <1>5. CASE gap = <<c, c>>
    <2>1. gap \in Text /\ Cat(v, gap) = Plus(Plus(v, c), c)
      BY <1>5, TwoSymbols
    <2>2. Plus(Plus(v, c), c) \in Text /\ Apart(Plus(Plus(v, c), c), Append(done, word))
      BY <1>1, <1>2, <1>3, PlusIs, SpaceRead
    <2>3. QED
      BY <2>1, <2>2
  <1>6. QED
    BY <1>1, <1>4, <1>5


-----------------------------------------------------------------------------
(* A whole line. *)

\* The arguments in what has been written: the last of them is still open.
Written(text, words) ==
  /\ text \in Text /\ words \in Words
  /\ words = <<>> => text = <<>>
  /\ words # <<>> =>
       /\ text # <<>> /\ EndOf(text) \notin Spaces \cup {";"}
       /\ At(text, Front(words), Last(words), "none")

LEMMA FrontLast ==
  ASSUME NEW words \in Words, words # <<>>
  PROVE  /\ Front(words) \in Words /\ Last(words) \in Text
         /\ Append(Front(words), Last(words)) = words
  <1>1. Len(words) \in Nat \ {0}
    BY EmptySeq, LenProperties DEF Words
  <1>2. \A i \in 1..(Len(words) - 1) : words[i] \in Text
    BY <1>1 DEF Words
  <1>3. Front(words) \in Words
    BY <1>1, <1>2, SubSeqProperties DEF Front, Words
  <1>4. Last(words) \in Text
    BY <1>1 DEF Last, Words
  <1>5. SubSeq(words, 1, Len(words)) = SubSeq(words, 1, Len(words) - 1) \o <<words[Len(words)]>>
    BY <1>1, SubSeqRecursiveSecond DEF Words
  <1>6. SubSeq(words, 1, Len(words)) = words
    BY SubSeqFull DEF Words
  <1>7. Append(Front(words), Last(words)) = Front(words) \o <<Last(words)>>
    BY <1>3, <1>4, AppendIsConcat DEF Words
  <1>8. QED
    BY <1>3, <1>4, <1>5, <1>6, <1>7 DEF Front, Last

LEMMA FrontLastOfAppend ==
  ASSUME NEW words \in Words, NEW arg \in Text
  PROVE  /\ Append(words, arg) \in Words /\ Append(words, arg) # <<>>
         /\ Front(Append(words, arg)) = words /\ Last(Append(words, arg)) = arg
  <1> DEFINE x == Append(words, arg)
  <1>1. /\ x \in Words /\ Len(x) = Len(words) + 1 /\ x[Len(x)] = arg
        /\ \A i \in 1..Len(words) : x[i] = words[i]
    BY AppendProperties, LenProperties DEF Words
  <1>2. Len(words) \in Nat
    BY DEF Words
  <1> HIDE DEF x
  <1>3. x # <<>>
    BY <1>1, <1>2, EmptySeq
  <1>4. Last(x) = arg
    BY <1>1 DEF Last
  <1>5. \A i \in 1..Len(words) : x[i] \in Text
    BY <1>1, <1>2 DEF Words
  <1>6. /\ SubSeq(x, 1, Len(words)) \in Seq(Text) /\ Len(SubSeq(x, 1, Len(words))) = Len(words)
        /\ \A i \in 1..Len(words) : SubSeq(x, 1, Len(words))[i] = x[i]
    BY <1>2, <1>5, SubSeqProperties
  <1>7. SubSeq(x, 1, Len(words)) = words
    BY <1>1, <1>6, SeqEqual DEF Words
  <1>8. Len(x) - 1 = Len(words)
    BY <1>1, <1>2
  <1>9. Front(x) = words
    BY <1>7, <1>8 DEF Front
  <1>10. QED
    BY <1>1, <1>3, <1>4, <1>9 DEF x

LEMMA WrittenIsParsed ==
  ASSUME NEW text, NEW words, Written(text, words)
  PROVE  ParseRedisCommand(text) = words
  <1>1. CASE words = <<>>
    BY <1>1, ParsedEmpty DEF Written, ParseRedisCommand, NothingRead
  <1>2. CASE words # <<>>
    <2>1. Parsed(text) = Within(Front(words), Last(words), "none")
      BY <1>2 DEF Written, At
    <2>2. ParseRedisCommand(text) = Append(Front(words), Last(words))
      BY <2>1 DEF ParseRedisCommand, Within
    <2>3. QED
      BY <1>2, <2>2, FrontLast DEF Written
  <1>3. QED
    BY <1>1, <1>2

LEMMA WriteReads ==
  ASSUME NEW text, NEW words, Written(text, words), NEW arg \in Text, NEW form \in Forms(arg),
         NEW gap \in {<<" ">>, <<" ", " ">>}
  PROVE  Written(text \o (IF text = <<>> THEN <<>> ELSE gap) \o form, Append(words, arg))
  <1> DEFINE g == IF text = <<>> THEN <<>> ELSE gap
             v == Cat(text, g)
  <1>1. v \in Text /\ Apart(v, words)
    <2>1. CASE words = <<>>
      <3>1. text = <<>> /\ <<>> \in Text
        BY <2>1, EmptySeq DEF Written, Text
      <3>2. v = <<>>
        BY <3>1, CatEmpty
      <3>3. Apart(<<>>, <<>>)
        BY ParsedEmpty DEF Apart, Between, NothingRead
      <3>4. QED
        BY <2>1, <3>1, <3>2, <3>3
    <2>2. CASE words # <<>>
      <3>1. /\ text # <<>> /\ text \in Text /\ words \in Words
            /\ At(text, Front(words), Last(words), "none")
        BY <2>2 DEF Written
      <3>2. /\ Front(words) \in Words /\ Last(words) \in Text
            /\ Append(Front(words), Last(words)) = words
        BY <2>2, <3>1, FrontLast
      <3>3. Cat(text, gap) \in Text /\ Apart(Cat(text, gap), Append(Front(words), Last(words)))
        BY <3>1, <3>2, GapRead
      <3>4. QED
        BY <3>1, <3>2, <3>3
    <2>3. QED
      BY <2>1, <2>2
  <1>2. text \o g \o form = Cat(v, form)
    BY DEF Cat
  <1>3. words \in Words
    BY DEF Written
  <1> HIDE DEF v, g
  <1>4. /\ form \in Text /\ form # <<>> /\ EndOf(form) \notin Spaces \cup {";"}
        /\ At(Cat(v, form), words, arg, "none")
    BY <1>1, <1>3, FormsRead
  <1>5. Cat(v, form) \in Text /\ Cat(v, form) # <<>> /\ EndOf(Cat(v, form)) = EndOf(form)
    BY <1>1, <1>4, CatType, CatEnd
  <1>6. Written(Cat(v, form), Append(words, arg))
    BY <1>3, <1>4, <1>5, FrontLastOfAppend DEF Written
  <1>7. QED
    BY <1>2, <1>6 DEF g

LEMMA Trimmed ==
  ASSUME NEW text \in Text, text # <<>>, EndOf(text) \notin Spaces
  PROVE  WithoutSemicolon(text) = SubSeq(text, 1, IF EndOf(text) = ";" THEN Len(text) - 1 ELSE Len(text))
  <1> DEFINE code == {i \in DOMAIN text : text[i] \notin Spaces}
  <1>1. Len(text) \in Nat \ {0} /\ DOMAIN text = 1..Len(text)
    BY EmptySeq, LenProperties DEF Text
  <1>2. Len(text) \in code /\ \A i \in code : i \in Int /\ Len(text) >= i
    BY <1>1 DEF EndOf
  <1> HIDE DEF code
  <1>3. Max(code) = Len(text)
    <2>1. \A x \in code : (\A y \in code : x >= y) => x = Len(text)
      BY <1>1, <1>2
    <2>2. QED
      BY <1>1, <1>2, <2>1 DEF Max
  <1>4. QED
    BY <1>2, <1>3 DEF WithoutSemicolon, code, EndOf

LEMMA NoSemicolon ==
  ASSUME NEW text \in Text, text # <<>>, EndOf(text) \notin Spaces \cup {";"}
  PROVE  WithoutSemicolon(text) = text
  <1>1. WithoutSemicolon(text) = SubSeq(text, 1, Len(text))
    BY Trimmed
  <1>2. QED
    BY <1>1, SubSeqFull DEF Text

LEMMA SemicolonIsCut ==
  ASSUME NEW text \in Text
  PROVE  WithoutSemicolon(Plus(text, ";")) = text
  <1> DEFINE x == Plus(text, ";")
  <1>1. x \in Text /\ x # <<>> /\ EndOf(x) = ";" /\ ";" \notin Spaces
    BY SymbolKinds, PlusIs, PlusEnd DEF Spaces
  <1>2. WithoutSemicolon(x) = SubSeq(x, 1, Len(x) - 1)
    BY <1>1, Trimmed
  <1>3. x = Append(text, ";") /\ ";" \in Symbol
    BY SymbolKinds, PlusIs
  <1>4. Len(text) \in Nat /\ Len(x) = Len(text) + 1 /\ \A i \in 1..Len(text) : x[i] = text[i]
    <2>1. text \in Seq(Symbol)
      BY DEF Text
    <2>2. Len(text) \in Nat
      BY <2>1, LenProperties
    <2>3. /\ Len(Append(text, ";")) = Len(text) + 1
          /\ \A i \in 1..Len(text) : Append(text, ";")[i] = text[i]
      BY <1>3, <2>1, AppendProperties
    <2> HIDE DEF x
    <2>4. QED
      BY <1>3, <2>2, <2>3
  <1> HIDE DEF x
  <1>5. \A i \in 1..Len(text) : x[i] \in Symbol
    BY <1>4 DEF Text
  <1>6. Len(x) - 1 = Len(text)
    BY <1>4
  <1>7. /\ SubSeq(x, 1, Len(text)) \in Seq(Symbol) /\ Len(SubSeq(x, 1, Len(text))) = Len(text)
        /\ \A i \in 1..Len(text) : SubSeq(x, 1, Len(text))[i] = x[i]
    BY <1>4, <1>5, SubSeqProperties
  <1>8. SubSeq(x, 1, Len(text)) = text
    BY <1>4, <1>7, SeqEqual DEF Text
  <1>9. QED
    BY <1>2, <1>6, <1>8 DEF x

\* Outside of what ends a line, the semicolon aside, nothing is cut off.
LEMMA WrittenIsWhole ==
  ASSUME NEW text, NEW words, Written(text, words)
  PROVE  WithoutSemicolon(text) = text
  <1>1. CASE words = <<>>
    <2>1. text = <<>>
      BY <1>1 DEF Written
    <2>2. {i \in DOMAIN <<>> : <<>>[i] \notin Spaces} = {}
      OBVIOUS
    <2>3. QED
      BY <2>1, <2>2 DEF WithoutSemicolon
  <1>2. CASE words # <<>>
    BY <1>2, NoSemicolon DEF Written
  <1>3. QED
    BY <1>1, <1>2

\* A quote that is left open, behind what has been written.
LEMMA OpenQuoteParsed ==
  ASSUME NEW text, NEW words, Written(text, words), NEW q \in Quotes
  PROVE  ParseRedisCommand(WithoutSemicolon(text \o <<" ", q, "k">>)) = <<>>
  <1>1. /\ " " \in Symbol /\ " " \in Spaces /\ q \in Symbol /\ "k" \in Symbol
        /\ Literal("k", q) /\ "k" \notin Spaces \cup {";"}
    BY SymbolKinds DEF Spaces, Quotes, Literal
  <1>2. text \in Text /\ words \in Words /\ <<>> \in Text
    BY EmptySeq DEF Written, Text
  <1> DEFINE a == Plus(text, " ")
             b == Plus(a, q)
             x == Plus(b, "k")
  <1>3. a \in Text /\ b \in Text /\ x \in Text /\ x # <<>> /\ EndOf(x) = "k"
    BY <1>1, <1>2, PlusIs, PlusEnd
  <1>4. Apart(a, words)
    <2>1. CASE words = <<>>
      <3>1. Apart(<<>>, <<>>) /\ text = <<>>
        BY <2>1, ParsedEmpty DEF Apart, Between, NothingRead, Written
      <3>2. QED
        BY <1>1, <1>2, <2>1, <3>1, SpaceRead
    <2>2. CASE words # <<>>
      <3>1. At(text, Front(words), Last(words), "none")
        BY <2>2 DEF Written
      <3>2. /\ Front(words) \in Words /\ Last(words) \in Text
            /\ Append(Front(words), Last(words)) = words
        BY <1>2, <2>2, FrontLast
      <3>3. Apart(Plus(text, " "), Append(Front(words), Last(words)))
        BY <1>1, <1>2, <3>1, <3>2, SpaceRead
      <3>4. QED
        BY <3>2, <3>3
    <2>3. QED
      BY <2>1, <2>2
  <1> HIDE DEF a, b
  <1>5. At(b, words, <<>>, q)
    BY <1>2, <1>3, <1>4, QuoteOpens DEF b
  <1>6. At(x, words, Plus(<<>>, "k"), q)
    BY <1>1, <1>2, <1>3, <1>5, LiteralRead DEF Quotes
  <1>7. text \o <<" ", q, "k">> = x
    <2>1. Cat(text, <<" ", q>>) = b
      BY <1>1, <1>2, TwoSymbols DEF a, b
    <2>2. <<" ", q, "k">> = Plus(<<" ", q>>, "k")
      BY <1>1, Triple DEF Plus
    <2>3. <<" ", q>> \in Text
      BY <1>1, <1>2, TwoSymbols
    <2>4. Cat(text, Plus(<<" ", q>>, "k")) = Plus(Cat(text, <<" ", q>>), "k")
      BY <1>1, <1>2, <2>3, CatPlus
    <2>5. QED
      BY <2>1, <2>2, <2>4 DEF Cat
  <1> HIDE DEF x
  <1>8. WithoutSemicolon(x) = x
    BY <1>1, <1>3, NoSemicolon
  <1>9. ParseRedisCommand(x) = <<>>
    <2>1. Parsed(x).quote = q
      BY <1>6 DEF At, Within
    <2>2. q # "none"
      BY DEF Quotes
    <2>3. QED
      BY <2>1, <2>2 DEF ParseRedisCommand
  <1>10. QED
    BY <1>7, <1>8, <1>9


-----------------------------------------------------------------------------
(* What may follow a command does not change its level. *)

More == Seq(Arguments)

LEMMA ConstantTypes ==
  /\ \A c \in Commands : c.args \in Words /\ c.args # <<>> /\ c.need = Level(AnalyzeArguments(c.args))
  /\ Arguments \subseteq Text
  /\ More \subseteq Words
  <1>1. STRING \subseteq Symbol
    BY DEF Symbol
  <1>2. \A w \in Seq(STRING) : w \in Text
    BY <1>1, SeqMonotonic DEF Text
  <1>3. \A w \in Seq(Seq(STRING)) : w \in Words
    BY <1>2, SeqMonotonic, Seq(STRING) \subseteq Text DEF Words
  <1>4. Arguments \subseteq Text
    BY <1>2, ArgumentsAssumption
  <1>5. \A w \in More : w \in Words
    BY <1>4, SeqMonotonic DEF More, Words
  <1>6. QED
    BY <1>3, <1>4, <1>5, CommandsAssumption

LEMMA ArgumentWords ==
  ASSUME NEW arg \in Arguments
  PROVE  WordOf(arg) # "store" /\ \A name : <<name, WordOf(arg)>> \notin ReadSubs
  <1>1. ASSUME NEW name, <<name, WordOf(arg)>> \in ReadSubs PROVE FALSE
    <2>1. <<name, WordOf(arg)>>[2] \in {sub[2] : sub \in ReadSubs}
      BY <1>1
    <2>2. <<name, WordOf(arg)>>[2] = WordOf(arg)
      OBVIOUS
    <2>3. QED
      BY <2>1, <2>2, ArgumentsAssumption
  <1>2. QED
    BY <1>1, ArgumentsAssumption

LEMMA MoreKeepsAnalysis ==
  ASSUME NEW words \in Words, words # <<>>, NEW more \in More
  PROVE  AnalyzeArguments(words \o more) = AnalyzeArguments(words)
  <1> DEFINE all == words \o more
             n == Len(words)
  <1>1. more \in Words
    BY ConstantTypes
  <1>2. n \in Nat \ {0} /\ Len(more) \in Nat
    BY <1>1, EmptySeq, LenProperties DEF Words
  <1>3. /\ Len(all) = n + Len(more)
        /\ \A i \in 1..n : all[i] = words[i]
        /\ \A i \in 1..Len(more) : all[n + i] = more[i]
    BY <1>1, <1>2, ConcatProperties DEF Words
  <1>4. all \in Words
    BY <1>1, ConcatProperties DEF Words
  <1> HIDE DEF all, n
  <1>5. all # <<>>
    <2>1. Len(all) # 0
      BY <1>2, <1>3
    <2>2. QED
      BY <2>1, EmptySeq
  <1>6. \A i \in (n + 1)..Len(all) : all[i] \in Arguments
    <2>1. ASSUME NEW i \in (n + 1)..Len(all) PROVE all[i] \in Arguments
      <3>1. i - n \in 1..Len(more) /\ n + (i - n) = i
        BY <1>2, <1>3
      <3>2. more[i - n] \in Arguments
        BY <3>1 DEF More
      <3>3. QED
        BY <1>3, <3>1, <3>2
    <2>2. QED
      BY <2>1
  <1>7. \A name : AnalyzeRedisContainer(name, all) = AnalyzeRedisContainer(name, words)
    <2>1. CASE n > 1
      <3>1. Len(all) > 1 /\ all[2] = words[2]
        BY <1>2, <1>3, <2>1
      <3>2. QED
        BY <2>1, <3>1 DEF AnalyzeRedisContainer, n
    <2>2. CASE n = 1
      <3>1. Len(all) > 1 => all[2] \in Arguments
        BY <1>2, <1>3, <1>6, <2>2
      <3>2. \A name : Len(all) > 1 => <<name, WordOf(all[2])>> \notin ReadSubs
        BY <3>1, ArgumentWords
      <3>3. ~(Len(words) > 1)
        BY <2>2 DEF n
      <3>4. QED
        BY <3>2, <3>3 DEF AnalyzeRedisContainer
    <2>3. QED
      BY <1>2, <2>1, <2>2
  <1>8. \A name : AnalyzeRedisSort(name, all) = AnalyzeRedisSort(name, words)
    <2>1. (\E i \in 2..Len(all) : WordOf(all[i]) = "store") <=> (\E i \in 2..n : WordOf(words[i]) = "store")
      <3>1. ASSUME NEW i \in 2..Len(all), WordOf(all[i]) = "store" PROVE i \in 2..n /\ all[i] = words[i]
        <4>1. i \notin (n + 1)..Len(all)
          BY <1>6, <3>1, ArgumentWords
        <4>2. QED
          BY <1>2, <1>3, <4>1
      <3>2. ASSUME NEW i \in 2..n PROVE i \in 2..Len(all) /\ all[i] = words[i]
        BY <1>2, <1>3
      <3>3. QED
        BY <3>1, <3>2
    <2>2. QED
      BY <2>1 DEF AnalyzeRedisSort, n
  <1>9. all[1] = words[1]
    BY <1>2, <1>3
  <1>10. AnalyzeArguments(all) = AnalyzeArguments(words)
    BY <1>5, <1>7, <1>8, <1>9 DEF AnalyzeArguments
  <1>11. QED
    BY <1>10 DEF all

-----------------------------------------------------------------------------
(* The invariant. *)

\* What has been written, and what is still to be, is a command and what follows.
OfCommand ==
  \E c \in Commands, more \in More :
    need = c.need /\ args \o rest = c.args \o more /\ (more # <<>> => rest = <<>>)

Invariant ==
  IF ended THEN RedisAsMeant ELSE Written(line, args) /\ rest \in Words /\ OfCommand

LEMMA InvariantInit == Init => Invariant
  <1> SUFFICES ASSUME Init PROVE Invariant
    OBVIOUS
  <1>1. PICK c \in Commands : line = <<>> /\ args = <<>> /\ rest = c.args /\ need = c.need /\ ended = FALSE
    BY DEF Init
  <1>2. rest \in Words /\ <<>> \in Words /\ <<>> \in Text /\ <<>> \in More
    BY <1>1, ConstantTypes, EmptySeq DEF Words, Text, More
  <1>3. Written(line, args)
    BY <1>1, <1>2 DEF Written
  <1>4. args \o rest = c.args \o <<>>
    <2>1. <<>> \o rest = rest /\ rest \o <<>> = rest
      BY <1>2, ConcatEmptySeq DEF Words
    <2>2. QED
      BY <1>1, <2>1
  <1>5. OfCommand
    BY <1>1, <1>2, <1>4 DEF OfCommand
  <1>6. QED
    BY <1>1, <1>2, <1>3, <1>5 DEF Invariant

\* A command that has been written is gated at its level.
LEMMA WrittenIsGated ==
  ASSUME Written(line, args), OfCommand, rest = <<>>
  PROVE  Level(AnalyzeArguments(args)) = need
  <1>1. PICK c \in Commands, more \in More : need = c.need /\ args \o rest = c.args \o more
    BY DEF OfCommand
  <1>2. args \o rest = args
    BY ConcatEmptySeq DEF Written, Words
  <1>3. AnalyzeArguments(c.args \o more) = AnalyzeArguments(c.args)
    BY ConstantTypes, MoreKeepsAnalysis
  <1>4. QED
    BY <1>1, <1>2, <1>3, ConstantTypes

LEMMA InvariantImplies == Invariant => RedisAsMeant
  <1> SUFFICES ASSUME Invariant PROVE RedisAsMeant
    OBVIOUS
  <1>1. CASE ended
    BY <1>1 DEF Invariant
  <1>2. CASE ~ended
    <2>1. ParseRedisCommand(WithoutSemicolon(line)) = args
      BY <1>2, WrittenIsWhole, WrittenIsParsed DEF Invariant
    <2>2. rest = <<>> => Level(AnalyzeArguments(args)) = need
      BY <1>2, WrittenIsGated DEF Invariant
    <2>3. QED
      BY <2>1, <2>2 DEF RedisAsMeant, ParsesAsMeant, GatedByCommand, AnalyzeRedis
  <1>3. QED
    BY <1>1, <1>2

LEMMA FirstWord ==
  ASSUME NEW words \in Words, words # <<>>
  PROVE  words = <<Head(words)>> \o Tail(words)
  <1> DEFINE both == <<Head(words)>> \o Tail(words)
  <1>1. /\ Head(words) \in Text /\ Tail(words) \in Words
        /\ Len(Tail(words)) = Len(words) - 1
        /\ \A i \in 1..Len(Tail(words)) : Tail(words)[i] = words[i + 1]
        /\ Len(words) \in Nat \ {0}
    BY HeadTailProperties, LenProperties, EmptySeq DEF Words
  <1>2. Head(words) = words[1]
    BY DEF Words
  <1>3. <<Head(words)>> \in Words /\ Len(<<Head(words)>>) = 1 /\ <<Head(words)>>[1] = Head(words)
    BY <1>1 DEF Words
  <1>4. /\ both \in Words /\ Len(both) = 1 + Len(Tail(words)) /\ both[1] = words[1]
        /\ \A i \in 1..Len(Tail(words)) : both[1 + i] = Tail(words)[i]
    BY <1>1, <1>2, <1>3, ConcatProperties DEF Words
  <1> HIDE DEF both
  <1>5. ASSUME NEW i \in 1..Len(words) PROVE both[i] = words[i]
    <2>1. CASE i = 1
      BY <1>4, <2>1
    <2>2. CASE i # 1
      <3>1. i - 1 \in 1..Len(Tail(words)) /\ 1 + (i - 1) = i /\ (i - 1) + 1 = i
        BY <1>1, <2>2
      <3>2. QED
        BY <1>1, <1>4, <3>1
    <2>3. QED
      BY <2>1, <2>2
  <1>6. Len(both) = Len(words)
    BY <1>1, <1>4
  <1>7. both = words
    BY <1>4, <1>5, <1>6, SeqEqual DEF Words
  <1>8. QED
    BY <1>7 DEF both

LEMMA WordsAssociative ==
  ASSUME NEW a \in Seq(Text), NEW b \in Seq(Text), NEW d \in Seq(Text)
  PROVE  (a \o b) \o d = a \o (b \o d)
  BY ConcatAssociative

LEMMA WriteStep ==
  ASSUME Written(line, args), NEW arg \in Text, Write(arg)
  PROVE  Written(line', args') /\ args' = Append(args, arg)
  <1>1. PICK form \in Forms(arg), gap \in {<<" ">>, <<" ", " ">>} :
           line' = line \o (IF line = <<>> THEN <<>> ELSE gap) \o form
    BY DEF Write
  <1>2. args' = Append(args, arg)
    BY DEF Write
  <1>3. Written(line \o (IF line = <<>> THEN <<>> ELSE gap) \o form, Append(args, arg))
    BY WriteReads
  <1>4. QED
    BY <1>1, <1>2, <1>3

LEMMA InvariantStep == Invariant /\ [Next]_vars => Invariant'
  <1> SUFFICES ASSUME Invariant, [Next]_vars PROVE Invariant'
    OBVIOUS
  <1>1. CASE Continue
    <2>1. ~ended /\ Written(line, args) /\ rest \in Words /\ OfCommand /\ rest # <<>> /\ args \in Words
      BY <1>1 DEF Invariant, Continue, Written
    <2>2. Head(rest) \in Text /\ Tail(rest) \in Words
      BY <2>1, HeadTailProperties DEF Words
    <2>3. Written(line', args') /\ args' = Append(args, Head(rest))
      BY <1>1, <2>1, <2>2, WriteStep DEF Continue
    <2>4. Append(args, Head(rest)) \o Tail(rest) = args \o rest
      <3>1. Append(args, Head(rest)) = args \o <<Head(rest)>> /\ <<Head(rest)>> \in Words
        BY <2>1, <2>2, AppendIsConcat DEF Words
      <3>2. rest = <<Head(rest)>> \o Tail(rest)
        BY <2>1, FirstWord
      <3>3. (args \o <<Head(rest)>>) \o Tail(rest) = args \o (<<Head(rest)>> \o Tail(rest))
        BY <2>1, <2>2, <3>1, ConcatAssociative DEF Words
      <3>4. QED
        BY <3>1, <3>2, <3>3
    <2>5. OfCommand'
      <3>1. PICK c \in Commands, more \in More :
              need = c.need /\ args \o rest = c.args \o more /\ (more # <<>> => rest = <<>>)
        BY <2>1 DEF OfCommand
      <3>2. need' = c.need /\ args' \o rest' = c.args \o more /\ more = <<>>
        BY <1>1, <2>1, <2>3, <2>4, <3>1 DEF Continue
      <3>3. QED
        BY <3>2 DEF OfCommand
    <2>6. QED
      BY <1>1, <2>2, <2>3, <2>5 DEF Invariant, Continue
  <1>2. CASE OneMore
    <2>1. ~ended /\ Written(line, args) /\ rest \in Words /\ OfCommand /\ rest = <<>> /\ args \in Words
      BY <1>2 DEF Invariant, OneMore, Written
    <2>2. PICK arg \in Arguments : Write(arg)
      BY <1>2 DEF OneMore
    <2>3. arg \in Text
      BY ConstantTypes
    <2>4. Written(line', args') /\ args' = Append(args, arg) /\ rest' = <<>> /\ need' = need
      BY <1>2, <2>1, <2>2, <2>3, WriteStep DEF OneMore
    <2>5. OfCommand'
      <3>1. PICK c \in Commands, more \in More : need = c.need /\ args \o rest = c.args \o more
        BY <2>1 DEF OfCommand
      <3>2. /\ <<arg>> \in Words /\ Append(args, arg) \in Words
            /\ more \in Words /\ c.args \in Words /\ Append(more, arg) \in More
        BY <2>1, <2>3, ConstantTypes, AppendProperties DEF Words, More
      <3>3. args = c.args \o more
        BY <2>1, <3>1, ConcatEmptySeq DEF Words
      <3>4. Append(args, arg) = args \o <<arg>> /\ Append(more, arg) = more \o <<arg>>
        BY <2>1, <2>3, <3>2, AppendIsConcat DEF Words
      <3>5. (c.args \o more) \o <<arg>> = c.args \o (more \o <<arg>>)
        <4>1. c.args \in Seq(Text) /\ more \in Seq(Text) /\ <<arg>> \in Seq(Text)
          BY <3>2 DEF Words
        <4>2. QED
          BY <4>1, WordsAssociative
      <3>6. Append(args, arg) \o <<>> = Append(args, arg)
        BY <3>2, ConcatEmptySeq DEF Words
      <3>7. args' \o rest' = c.args \o Append(more, arg)
        BY <2>4, <3>3, <3>4, <3>5, <3>6
      <3>8. QED
        BY <2>4, <3>1, <3>2, <3>7 DEF OfCommand
    <2>6. QED
      BY <1>2, <2>1, <2>4, <2>5 DEF Invariant, OneMore
  <1>3. CASE Semicolon
    <2>1. ~ended /\ Written(line, args) /\ OfCommand /\ rest = <<>> /\ line \in Text
      BY <1>3 DEF Invariant, Semicolon, Written
    <2>2. line' = Plus(line, ";") /\ ended' /\ args' = args /\ rest' = rest /\ need' = need
      BY <1>3 DEF Semicolon, Plus
    <2>3. ParseRedisCommand(WithoutSemicolon(line')) = args
      BY <2>1, <2>2, SemicolonIsCut, WrittenIsParsed
    <2>4. Level(AnalyzeArguments(args)) = need
      BY <2>1, WrittenIsGated
    <2>5. QED
      BY <2>2, <2>3, <2>4 DEF Invariant, RedisAsMeant, ParsesAsMeant, GatedByCommand, AnalyzeRedis
  <1>4. CASE OpenQuote
    <2>1. ~ended /\ Written(line, args)
      BY <1>4 DEF Invariant, OpenQuote
    <2>2. PICK q \in Quotes : line' = line \o <<" ", q, "k">>
      BY <1>4 DEF OpenQuote, Quotes
    <2>3. ParseRedisCommand(WithoutSemicolon(line')) = <<>>
      BY <2>1, <2>2, OpenQuoteParsed
    <2>4. Level(AnalyzeArguments(<<>>)) = Never
      BY DEF Level, AnalyzeArguments, Refused
    <2>5. QED
      BY <1>4, <2>3, <2>4
      DEF OpenQuote, Invariant, RedisAsMeant, ParsesAsMeant, GatedByCommand, AnalyzeRedis
  <1>5. CASE UNCHANGED vars
    BY <1>5 DEF vars, Invariant, OfCommand, RedisAsMeant, ParsesAsMeant, GatedByCommand
  <1>6. QED
    BY <1>1, <1>2, <1>3, <1>4, <1>5 DEF Next

\* However a command and its arguments are quoted, the line is cut into them, and
\* gated at the level of the command alone (redis_analyze.go:97-248, :291-334).
THEOREM RedisReadAsMeant == Spec => []RedisAsMeant
  <1>1. Init => Invariant
    BY InvariantInit
  <1>2. Invariant /\ [Next]_vars => Invariant'
    BY InvariantStep
  <1>3. Invariant => RedisAsMeant
    BY InvariantImplies
  <1>4. QED
    BY <1>1, <1>2, <1>3, PTL DEF Spec

-----------------------------------------------------------------------------
(****************************************************************************)
(* MongoDB: a command is gated at least at the level its reach calls for.  *)
(*                                                                         *)
(* The analysis goes down a document level by level, and decides which     *)
(* filters match everything round by round.  What bounds both is how deep  *)
(* a document grows with each step (Nested), and from which round on       *)
(* nothing changes (Settled).                                              *)
(***************************************************************************)

Start(v) == [all |-> {v}, last |-> {v}]

Deeper(r) ==
  LET next == UNION {M!Children(w) : w \in r.last}
  IN  [all |-> r.all \cup next, last |-> next]

\* f is what the search has found of a value after each of n levels.
Descends(f, v, n) ==
  f = [m \in 0..n |-> IF m = 0 THEN Start(v) ELSE Deeper(f[m - 1])]

LEMMA DescentExists == ASSUME NEW v, NEW n \in Nat PROVE \E f : Descends(f, v, n)
  <1> DEFINE S == {m \in Nat : \E f : Descends(f, v, m)}
  <1>1. 0 \in S
    <2> DEFINE f == [m \in 0..0 |-> Start(v)]
    <2>1. Descends(f, v, 0)
      BY DEF Descends
    <2>2. QED
      BY <2>1
  <1>2. ASSUME NEW m \in Nat, m \in S PROVE m + 1 \in S
    <2>1. PICK f : Descends(f, v, m)
      BY <1>2
    <2> DEFINE g == [i \in 0..(m + 1) |-> IF i = m + 1 THEN Deeper(f[m]) ELSE f[i]]
    <2>2. ASSUME NEW i \in 0..(m + 1)
          PROVE g[i] = IF i = 0 THEN Start(v) ELSE Deeper(g[i - 1])
      <3>1. CASE i = m + 1
        BY <3>1, g[i - 1] = f[m]
      <3>2. CASE i # m + 1
        <4>1. i \in 0..m /\ g[i] = f[i]
          BY <3>2
        <4>2. f[i] = IF i = 0 THEN Start(v) ELSE Deeper(f[i - 1])
          BY <2>1, <4>1 DEF Descends
        <4>3. i # 0 => g[i - 1] = f[i - 1]
          BY <4>1
        <4>4. QED
          BY <4>1, <4>2, <4>3
      <3>3. QED
        BY <3>1, <3>2
    <2> HIDE DEF g
    <2>3. g = [i \in 0..(m + 1) |-> g[i]]
      BY DEF g
    <2>4. Descends(g, v, m + 1)
      BY <2>2, <2>3 DEF Descends
    <2>5. QED
      BY <2>4
  <1> HIDE DEF S
  <1>3. Nat \subseteq S
    BY <1>1, <1>2, SetInduction
  <1>4. QED
    BY <1>3 DEF S

LEMMA DescentAgrees ==
  ASSUME NEW v, NEW n \in Nat, NEW m \in Nat, n <= m, NEW f, NEW g,
         Descends(f, v, n), Descends(g, v, m)
  PROVE  f[n] = g[n]
  <1> DEFINE S == {k \in Nat : k <= n => f[k] = g[k]}
  <1>1. 0 \in S
    BY DEF Descends
  <1>2. ASSUME NEW k \in Nat, k \in S PROVE k + 1 \in S
    <2>1. SUFFICES ASSUME k + 1 <= n PROVE f[k + 1] = g[k + 1]
      OBVIOUS
    <2>2. f[k] = g[k]
      BY <1>2, <2>1
    <2>3. f[k + 1] = Deeper(f[k])
      BY <2>1 DEF Descends
    <2>4. g[k + 1] = Deeper(g[k])
      BY <2>1 DEF Descends
    <2>5. QED
      BY <2>2, <2>3, <2>4
  <1> HIDE DEF S
  <1>3. Nat \subseteq S
    BY <1>1, <1>2, SetInduction
  <1>4. QED
    BY <1>3 DEF S

LEMMA WithinDescends ==
  ASSUME NEW v, NEW n \in Nat, NEW f, Descends(f, v, n)
  PROVE  M!Within(v, n) = f[n]
  <1> DEFINE g == CHOOSE h : Descends(h, v, n)
  <1>1. M!Within(v, n) = g[n]
    BY DEF M!Within, Descends, Deeper, Start
  <1>2. Descends(g, v, n)
    OBVIOUS
  <1> HIDE DEF g
  <1>3. QED
    BY <1>1, <1>2, DescentAgrees

\* A value and all that stands in it down to a level, and at that level.
All(v, n) == M!Within(v, n).all
AtLevel(v, n) == M!Within(v, n).last

LEMMA WithinZero == ASSUME NEW v PROVE All(v, 0) = {v} /\ AtLevel(v, 0) = {v}
  <1>1. PICK f : Descends(f, v, 0)
    BY DescentExists
  <1>2. f[0] = Start(v)
    BY <1>1 DEF Descends
  <1>3. QED
    BY <1>1, <1>2, WithinDescends DEF All, AtLevel, Start

LEMMA WithinNext ==
  ASSUME NEW v, NEW n \in Nat
  PROVE  /\ AtLevel(v, n + 1) = UNION {M!Children(w) : w \in AtLevel(v, n)}
         /\ All(v, n + 1) = All(v, n) \cup AtLevel(v, n + 1)
  <1>1. PICK g : Descends(g, v, n + 1)
    BY DescentExists
  <1>2. PICK f : Descends(f, v, n)
    BY DescentExists
  <1>3. M!Within(v, n) = f[n] /\ M!Within(v, n + 1) = g[n + 1]
    BY <1>1, <1>2, WithinDescends
  <1>4. f[n] = g[n]
    BY <1>1, <1>2, DescentAgrees
  <1>5. g[n + 1] = Deeper(g[n])
    BY <1>1 DEF Descends
  <1>6. QED
    BY <1>3, <1>4, <1>5 DEF All, AtLevel, Deeper

\* Nothing stands in a value at a level, nor deeper.
Nested(v, n) == AtLevel(v, n) = {}

\* A value's levels are those of its children, one deeper.
LEMMA LevelOfChildren ==
  ASSUME NEW v, NEW n \in Nat
  PROVE  AtLevel(v, n + 1) = UNION {AtLevel(w, n) : w \in M!Children(v)}
  <1> DEFINE S == {k \in Nat : AtLevel(v, k + 1) = UNION {AtLevel(w, k) : w \in M!Children(v)}}
  <1>1. 0 \in S
    <2>1. AtLevel(v, 0 + 1) = UNION {M!Children(w) : w \in {v}}
      BY WithinZero, WithinNext, 0 \in Nat
    <2>2. AtLevel(v, 0 + 1) = M!Children(v)
      BY <2>1
    <2>3. \A w : AtLevel(w, 0) = {w}
      BY WithinZero
    <2>4. UNION {AtLevel(w, 0) : w \in M!Children(v)} = M!Children(v)
      BY <2>3
    <2>5. QED
      BY <2>2, <2>4
  <1>2. ASSUME NEW k \in Nat, k \in S PROVE k + 1 \in S
    <2>1. AtLevel(v, (k + 1) + 1) = UNION {M!Children(u) : u \in AtLevel(v, k + 1)}
      BY WithinNext, k + 1 \in Nat
    <2>2. AtLevel(v, k + 1) = UNION {AtLevel(w, k) : w \in M!Children(v)}
      BY <1>2
    <2>3. \A w : AtLevel(w, k + 1) = UNION {M!Children(u) : u \in AtLevel(w, k)}
      BY WithinNext
    <2>4. UNION {M!Children(u) : u \in AtLevel(v, k + 1)}
          = UNION {AtLevel(w, k + 1) : w \in M!Children(v)}
      BY <2>2, <2>3
    <2>5. QED
      BY <2>1, <2>4
  <1> HIDE DEF S
  <1>3. Nat \subseteq S
    BY <1>1, <1>2, SetInduction
  <1>4. QED
    BY <1>3 DEF S

LEMMA AllOfChildren ==
  ASSUME NEW v, NEW n \in Nat
  PROVE  All(v, n + 1) = {v} \cup UNION {All(w, n) : w \in M!Children(v)}
  <1> DEFINE S == {k \in Nat : All(v, k + 1) = {v} \cup UNION {All(w, k) : w \in M!Children(v)}}
  <1>1. 0 \in S
    <2>1. All(v, 0 + 1) = {v} \cup AtLevel(v, 0 + 1)
      BY WithinZero, WithinNext, 0 \in Nat
    <2>2. AtLevel(v, 0 + 1) = UNION {AtLevel(w, 0) : w \in M!Children(v)}
      BY LevelOfChildren, 0 \in Nat
    <2>3. \A w : AtLevel(w, 0) = All(w, 0)
      BY WithinZero
    <2>4. QED
      BY <2>1, <2>2, <2>3
  <1>2. ASSUME NEW k \in Nat, k \in S PROVE k + 1 \in S
    <2>1. All(v, (k + 1) + 1) = All(v, k + 1) \cup AtLevel(v, (k + 1) + 1)
      BY WithinNext, k + 1 \in Nat
    <2>2. All(v, k + 1) = {v} \cup UNION {All(w, k) : w \in M!Children(v)}
      BY <1>2
    <2>3. AtLevel(v, (k + 1) + 1) = UNION {AtLevel(w, k + 1) : w \in M!Children(v)}
      BY LevelOfChildren, k + 1 \in Nat
    <2>4. \A w : All(w, k + 1) = All(w, k) \cup AtLevel(w, k + 1)
      BY WithinNext
    <2>5. QED
      BY <2>1, <2>2, <2>3, <2>4
  <1> HIDE DEF S
  <1>3. Nat \subseteq S
    BY <1>1, <1>2, SetInduction
  <1>4. QED
    BY <1>3 DEF S

LEMMA NestedDeeper ==
  ASSUME NEW v, NEW n \in Nat, NEW m \in Nat, n <= m, Nested(v, n)
  PROVE  Nested(v, m)
  <1> DEFINE S == {k \in Nat : k >= n => Nested(v, k)}
  <1>1. 0 \in S
    BY DEF Nested
  <1>2. ASSUME NEW k \in Nat, k \in S PROVE k + 1 \in S
    <2>1. AtLevel(v, k + 1) = UNION {M!Children(w) : w \in AtLevel(v, k)}
      BY WithinNext
    <2>2. CASE k >= n
      <3>1. AtLevel(v, k) = {}
        BY <1>2, <2>2 DEF Nested
      <3>2. QED
        BY <2>1, <3>1 DEF Nested
    <2>3. CASE ~(k >= n)
      BY <2>3 
    <2>4. QED
      BY <2>2, <2>3
  <1> HIDE DEF S
  <1>3. Nat \subseteq S
    BY <1>1, <1>2, SetInduction
  <1>4. QED
    BY <1>3 DEF S

LEMMA NestedChildren ==
  ASSUME NEW v, NEW n \in Nat
  PROVE  Nested(v, n + 1) <=> \A w \in M!Children(v) : Nested(w, n)
  BY LevelOfChildren DEF Nested

LEMMA Depths == MaxDepth \in Nat /\ 2 * MaxDepth \in Nat /\ MaxDepth >= 2
  BY DepthAssumption

LEMMA ChildrenOfDoc ==
  ASSUME NEW fields
  PROVE  M!Children(M!Doc(fields)) = {fields[i].value : i \in DOMAIN fields}
  BY DEF M!Children, M!Doc

LEMMA ChildrenOfList ==
  ASSUME NEW items
  PROVE  M!Children(M!List(items)) = {items[i] : i \in DOMAIN items}
  BY DEF M!Children, M!List

LEMMA DocNested ==
  ASSUME NEW fields, NEW n \in Nat
  PROVE  Nested(M!Doc(fields), n + 1) <=> \A i \in DOMAIN fields : Nested(fields[i].value, n)
  <1> DEFINE v == M!Doc(fields)
  <1>1. M!Children(v) = {fields[i].value : i \in DOMAIN fields}
    BY ChildrenOfDoc
  <1> HIDE DEF v
  <1>2. Nested(v, n + 1) <=> \A w \in M!Children(v) : Nested(w, n)
    BY NestedChildren
  <1>3. Nested(v, n + 1) <=> \A i \in DOMAIN fields : Nested(fields[i].value, n)
    BY <1>1, <1>2
  <1>4. QED
    BY <1>3 DEF v

LEMMA ListNested ==
  ASSUME NEW items, NEW n \in Nat
  PROVE  Nested(M!List(items), n + 1) <=> \A i \in DOMAIN items : Nested(items[i], n)
  <1> DEFINE v == M!List(items)
  <1>1. M!Children(v) = {items[i] : i \in DOMAIN items}
    BY ChildrenOfList
  <1> HIDE DEF v
  <1>2. Nested(v, n + 1) <=> \A w \in M!Children(v) : Nested(w, n)
    BY NestedChildren
  <1>3. Nested(v, n + 1) <=> \A i \in DOMAIN items : Nested(items[i], n)
    BY <1>1, <1>2
  <1>4. QED
    BY <1>3 DEF v

\* Nothing stands in a value.
Leaf(v) == v.type \notin {"doc", "list"}

LEMMA LeafNested == ASSUME NEW v, Leaf(v) PROVE M!Children(v) = {} /\ Nested(v, 1)
  <1>1. M!Children(v) = {}
    BY DEF Leaf, M!Children
  <1>2. Nested(v, 0 + 1)
    BY <1>1, NestedChildren, 0 \in Nat
  <1>3. QED
    BY <1>1, <1>2

LEMMA Leaves ==
  /\ Leaf(M!Null) /\ Leaf(M!MinKey) /\ Leaf(M!Absent)
  /\ \A x \in Int : Leaf(M!Number(x))
  /\ \A b \in BOOLEAN : Leaf(M!Flag(b))
  BY DEF Leaf, M!Null, M!MinKey, M!Absent, M!Number, M!Flag

\* All of a value is looked at.
Shallow(v) == Nested(v, 2 * MaxDepth)

LEMMA NestedIsShallow ==
  ASSUME NEW v, NEW n \in Nat, n <= 2 * MaxDepth, Nested(v, n) PROVE Shallow(v)
  BY Depths, NestedDeeper DEF Shallow

LEMMA InsideOfChildren ==
  ASSUME NEW v, \A w \in M!Children(v) : Shallow(w)
  PROVE  M!Inside(v) = {v} \cup UNION {M!Inside(w) : w \in M!Children(v)}
  <1> DEFINE n == 2 * MaxDepth - 1
  <1>1. n \in Nat /\ n + 1 = 2 * MaxDepth
    BY Depths
  <1>2. All(v, n + 1) = {v} \cup UNION {All(w, n) : w \in M!Children(v)}
    BY <1>1, AllOfChildren
  <1>3. ASSUME NEW w \in M!Children(v) PROVE All(w, n + 1) = All(w, n)
    <2>1. AtLevel(w, n + 1) = {}
      BY <1>1 DEF Shallow, Nested
    <2>2. All(w, n + 1) = All(w, n) \cup AtLevel(w, n + 1)
      BY <1>1, WithinNext
    <2>3. QED
      BY <2>1, <2>2
  <1>4. All(v, n + 1) = {v} \cup UNION {All(w, n + 1) : w \in M!Children(v)}
    BY <1>2, <1>3
  <1>5. \A w : M!Inside(w) = All(w, n + 1)
    BY <1>1 DEF M!Inside, All
  <1>6. QED
    BY <1>4, <1>5

LEMMA FindKeyOfChildren ==
  ASSUME NEW v, NEW keys, \A w \in M!Children(v) : Shallow(w)
  PROVE  M!FindKey(v, keys)
         <=> M!HasKey(v, keys) \/ \E w \in M!Children(v) : M!FindKey(w, keys)
  BY InsideOfChildren DEF M!FindKey

LEMMA DocFinds ==
  ASSUME NEW fields, NEW keys, \A i \in DOMAIN fields : Shallow(fields[i].value)
  PROVE  M!FindKey(M!Doc(fields), keys)
         <=> \E i \in DOMAIN fields : fields[i].key \in keys \/ M!FindKey(fields[i].value, keys)
  <1>1. M!HasKey(M!Doc(fields), keys) <=> \E i \in DOMAIN fields : fields[i].key \in keys
    BY DEF M!HasKey, M!Doc
  <1>2. QED
    BY <1>1, ChildrenOfDoc, FindKeyOfChildren

LEMMA ListFinds ==
  ASSUME NEW items, NEW keys, \A i \in DOMAIN items : Shallow(items[i])
  PROVE  M!FindKey(M!List(items), keys) <=> \E i \in DOMAIN items : M!FindKey(items[i], keys)
  <1>1. ~M!HasKey(M!List(items), keys)
    BY DEF M!HasKey, M!List
  <1>2. QED
    BY <1>1, ChildrenOfList, FindKeyOfChildren

LEMMA LeafFinds == ASSUME NEW v, NEW keys, Leaf(v) PROVE ~M!FindKey(v, keys)
  <1>1. ~M!HasKey(v, keys)
    BY DEF M!HasKey, Leaf
  <1>2. QED
    BY <1>1, LeafNested, FindKeyOfChildren

-----------------------------------------------------------------------------
(* A value with all there is to know of it but the filters: how deep it nests, *)
(* and whether it names code, or a stage that writes.                          *)

\* The three facts a value is put together with.
Quiet(v, n) == Nested(v, n) /\ ~M!FindKey(v, M!WriteStages)

\* A value names code to run on the server.
Runs(v) == M!FindKey(v, M!CodeOperators)

LEMMA QuietLeaf == ASSUME NEW v, Leaf(v) PROVE Quiet(v, 1) /\ ~Runs(v)
  BY LeafNested, LeafFinds DEF Quiet, Runs

LEMMA QuietMore ==
  ASSUME NEW v, NEW n \in Nat, NEW m \in Nat, n <= m, Quiet(v, n) PROVE Quiet(v, m)
  BY NestedDeeper DEF Quiet

LEMMA LeavesAreQuiet == \A v : Leaf(v) => Quiet(v, 2) /\ Quiet(v, 3) /\ ~Runs(v)
  BY QuietLeaf, QuietMore

\* A name that the analysis looks for nowhere.
Plain(key) == key \notin M!CodeOperators \cup M!WriteStages

LEMMA QuietDoc ==
  ASSUME NEW key, Plain(key), NEW v, NEW n \in Nat, n <= 2 * MaxDepth, Quiet(v, n)
  PROVE  Quiet(M!Doc(<<M!F(key, v)>>), n + 1) /\ (Runs(M!Doc(<<M!F(key, v)>>)) <=> Runs(v))
  <1> DEFINE fields == <<M!F(key, v)>>
  <1>1. DOMAIN fields = {1} /\ fields[1].key = key /\ fields[1].value = v
    BY DEF M!F
  <1> HIDE DEF fields
  <1>2. Shallow(v) /\ Nested(v, n)
    BY NestedIsShallow DEF Quiet
  <1>3. Nested(M!Doc(fields), n + 1)
    BY <1>1, <1>2, DocNested
  <1>4. \A keys : M!FindKey(M!Doc(fields), keys) <=> key \in keys \/ M!FindKey(v, keys)
    BY <1>1, <1>2, DocFinds
  <1>5. QED
    BY <1>3, <1>4 DEF Quiet, Runs, Plain, fields

LEMMA QuietDocOfTwo ==
  ASSUME NEW k1, NEW k2, Plain(k1), Plain(k2), NEW v, NEW w, NEW n \in Nat,
         n <= 2 * MaxDepth, Quiet(v, n), Quiet(w, n)
  PROVE  /\ Quiet(M!Doc(<<M!F(k1, v), M!F(k2, w)>>), n + 1)
         /\ Runs(M!Doc(<<M!F(k1, v), M!F(k2, w)>>)) <=> Runs(v) \/ Runs(w)
  <1> DEFINE fields == <<M!F(k1, v), M!F(k2, w)>>
  <1>1. /\ DOMAIN fields = {1, 2} /\ fields[1].key = k1 /\ fields[1].value = v
        /\ fields[2].key = k2 /\ fields[2].value = w
    BY DEF M!F
  <1> HIDE DEF fields
  <1>2. Shallow(v) /\ Nested(v, n) /\ Shallow(w) /\ Nested(w, n)
    BY NestedIsShallow DEF Quiet
  <1>3. Nested(M!Doc(fields), n + 1)
    BY <1>1, <1>2, DocNested
  <1>4. \A keys : M!FindKey(M!Doc(fields), keys)
          <=> k1 \in keys \/ k2 \in keys \/ M!FindKey(v, keys) \/ M!FindKey(w, keys)
    BY <1>1, <1>2, DocFinds
  <1>5. QED
    BY <1>3, <1>4 DEF Quiet, Runs, Plain, fields

LEMMA QuietDocOfThree ==
  ASSUME NEW k1, NEW k2, NEW k3, Plain(k1), Plain(k2), Plain(k3), NEW v, NEW w, NEW x,
         NEW n \in Nat, n <= 2 * MaxDepth,
         Quiet(v, n), Quiet(w, n), Quiet(x, n)
  PROVE  /\ Quiet(M!Doc(<<M!F(k1, v), M!F(k2, w), M!F(k3, x)>>), n + 1)
         /\ Runs(M!Doc(<<M!F(k1, v), M!F(k2, w), M!F(k3, x)>>))
            <=> Runs(v) \/ Runs(w) \/ Runs(x)
  <1> DEFINE fields == <<M!F(k1, v), M!F(k2, w), M!F(k3, x)>>
  <1>1. /\ DOMAIN fields = {1, 2, 3} /\ fields[1].key = k1 /\ fields[1].value = v
        /\ fields[2].key = k2 /\ fields[2].value = w /\ fields[3].key = k3 /\ fields[3].value = x
    BY DEF M!F
  <1> HIDE DEF fields
  <1>2. Shallow(v) /\ Nested(v, n) /\ Shallow(w) /\ Nested(w, n) /\ Shallow(x) /\ Nested(x, n)
    BY NestedIsShallow DEF Quiet
  <1>3. Nested(M!Doc(fields), n + 1)
    BY <1>1, <1>2, DocNested
  <1>4. \A keys : M!FindKey(M!Doc(fields), keys)
          <=> \/ k1 \in keys \/ k2 \in keys \/ k3 \in keys
              \/ M!FindKey(v, keys) \/ M!FindKey(w, keys) \/ M!FindKey(x, keys)
    BY <1>1, <1>2, DocFinds
  <1>5. QED
    BY <1>3, <1>4 DEF Quiet, Runs, Plain, fields

LEMMA QuietList ==
  ASSUME NEW v, NEW n \in Nat, n <= 2 * MaxDepth, Quiet(v, n)
  PROVE  Quiet(M!List(<<v>>), n + 1) /\ (Runs(M!List(<<v>>)) <=> Runs(v))
  <1> DEFINE items == <<v>>
  <1>1. DOMAIN items = {1} /\ items[1] = v
    OBVIOUS
  <1> HIDE DEF items
  <1>2. Shallow(v) /\ Nested(v, n)
    BY NestedIsShallow DEF Quiet
  <1>3. Nested(M!List(items), n + 1)
    BY <1>1, <1>2, ListNested
  <1>4. \A keys : M!FindKey(M!List(items), keys) <=> M!FindKey(v, keys)
    BY <1>1, <1>2, ListFinds
  <1>5. QED
    BY <1>3, <1>4 DEF Quiet, Runs, items

LEMMA QuietListOfTwo ==
  ASSUME NEW v, NEW w, NEW n \in Nat, n <= 2 * MaxDepth,
         Quiet(v, n), Quiet(w, n)
  PROVE  Quiet(M!List(<<v, w>>), n + 1) /\ (Runs(M!List(<<v, w>>)) <=> Runs(v) \/ Runs(w))
  <1> DEFINE items == <<v, w>>
  <1>1. DOMAIN items = {1, 2} /\ items[1] = v /\ items[2] = w
    OBVIOUS
  <1> HIDE DEF items
  <1>2. Shallow(v) /\ Nested(v, n) /\ Shallow(w) /\ Nested(w, n)
    BY NestedIsShallow DEF Quiet
  <1>3. Nested(M!List(items), n + 1)
    BY <1>1, <1>2, ListNested
  <1>4. \A keys : M!FindKey(M!List(items), keys) <=> M!FindKey(v, keys) \/ M!FindKey(w, keys)
    BY <1>1, <1>2, ListFinds
  <1>5. QED
    BY <1>3, <1>4 DEF Quiet, Runs, items

-----------------------------------------------------------------------------
(* The clauses a filter is grown from. *)

\* The document without fields: no filter that is selective matches it, unless
\* null hides in it.
Missing == [a |-> M!Absent, b |-> M!Absent]

\* Whether a clause, which joins no filters, matches every document.
Loose(c) == M!ClauseIsTautology(c.field, {})

Simple(e) == e = M!F(e.key, e.value) /\ Plain(e.key) /\ e.key \notin {"$and", "$or"}

ClauseIsGood(c) ==
  /\ Simple(c.field) /\ Quiet(c.field.value, 3) /\ (c.code <=> Runs(c.field.value))
  /\ c.code \in BOOLEAN /\ c.pinned \in BOOLEAN /\ c.docs \subseteq M!Documents
  /\ c.hides \in BOOLEAN
  /\ ~Loose(c) => c.hides \/ Missing \notin c.docs
  /\ c.pinned => ~Loose(c) /\ ~c.hides

LEMMA MissingIsDocument == Missing \in M!Documents
  BY DEF Missing, M!Documents

LEMMA MissingAt == ASSUME NEW key \in {"a", "b", "c"} PROVE M!At(Missing, key) = M!Absent
  BY DEF Missing, M!At

LEMMA ClauseNames ==
  ASSUME NEW key \in {"a", "b", "c", "$expr", "$ne", "$lt", "$gte", "$exists", "$eq", "$in"}
  PROVE  Plain(key) /\ key \notin {"$and", "$or"}
  BY DEF Plain, M!CodeOperators, M!WriteStages

LEMMA SimpleClause ==
  ASSUME NEW key \in {"a", "b", "c", "$expr"}, NEW v PROVE Simple(M!F(key, v))
  BY ClauseNames DEF Simple, M!F

LEMMA NoOperators ==
  ~M!IsOperator("a") /\ ~M!IsOperator("b") /\ ~M!IsOperator("c") /\ M!IsOperator("$expr")
  BY DEF M!IsOperator, M!FieldOperators, M!CodeOperators, M!WriteStages

LEMMA TestIsLoose ==
  ASSUME NEW key \in {"a", "b", "c"}, NEW ops, NEW pins
  PROVE  Loose(M!Test(key, ops, pins)) <=> M!ConditionIsTautology(M!Doc(ops))
  <1>1. ~M!IsOperator(key) /\ key \notin {"$and", "$or"}
    BY NoOperators, ClauseNames
  <1>2. M!Doc(ops).type = "doc" /\ M!Doc(ops) # M!Null
    BY DEF M!Doc, M!Null
  <1>3. M!Test(key, ops, pins).field = M!F(key, M!Doc(ops))
    BY DEF M!Test
  <1>4. M!F(key, M!Doc(ops)).key = key /\ M!F(key, M!Doc(ops)).value = M!Doc(ops)
    BY DEF M!F
  <1>5. QED
    BY <1>1, <1>2, <1>3, <1>4 DEF Loose, M!ClauseIsTautology

LEMMA IsIsLoose ==
  ASSUME NEW key \in {"a", "b", "c"}, NEW v, NEW pins, v.type # "doc"
  PROVE  Loose(M!Is(key, v, pins)) <=> v = M!Null
  <1>1. ~M!IsOperator(key) /\ key \notin {"$and", "$or"}
    BY NoOperators, ClauseNames
  <1>3. M!Is(key, v, pins).field = M!F(key, v)
    BY DEF M!Is
  <1>4. M!F(key, v).key = key /\ M!F(key, v).value = v
    BY DEF M!F
  <1>5. QED
    BY <1>1, <1>3, <1>4 DEF Loose, M!ClauseIsTautology

LEMMA IsGood ==
  ASSUME NEW key \in {"a", "b", "c"}, NEW v \in {M!Null, M!Number(1), M!Regex}, NEW pins \in BOOLEAN,
         pins => v # M!Null
  PROVE  ClauseIsGood(M!Is(key, v, pins))
  <1> DEFINE c == M!Is(key, v, pins)
  <1>1. /\ c.field = M!F(key, v) /\ c.pinned = pins /\ c.code = FALSE /\ c.hides = FALSE
        /\ c.docs = {d \in M!Documents : M!Equals(M!At(d, key), v)}
    BY DEF M!Is
  <1>2. Leaf(v) /\ v.type # "doc"
    BY DEF Leaf, M!Null, M!Number, M!Regex
  <1>3. Loose(c) <=> v = M!Null
    BY <1>2, IsIsLoose
  <1>4. Simple(c.field) /\ c.field.value = v
    BY <1>1, SimpleClause DEF M!F
  <1>5. v # M!Null => ~M!Equals(M!At(Missing, key), v)
    BY MissingAt DEF M!Equals, M!Absent, M!Null, M!Number, M!Regex, M!Text
  <1>6. Quiet(v, 1) /\ ~Runs(v)
    BY <1>2, QuietLeaf
  <1>7. Quiet(v, 3) /\ ~Runs(v)
    BY <1>6, QuietMore
  <1> HIDE DEF c
  <1>8. ClauseIsGood(c)
    BY <1>1, <1>3, <1>4, <1>5, <1>7 DEF ClauseIsGood
  <1>9. QED
    BY <1>8 DEF c

\* null hides in a test.
Hiding(ops) == \E i \in DOMAIN ops : M!HidesNull(ops[i])

LEMMA TestGood ==
  ASSUME NEW key \in {"a", "b", "c"}, NEW ops, NEW pins \in BOOLEAN,
         Quiet(M!Doc(ops), 3), ~Runs(M!Doc(ops)),
         pins => ~M!ConditionIsTautology(M!Doc(ops)) /\ ~Hiding(ops),
         \/ M!ConditionIsTautology(M!Doc(ops)) \/ Hiding(ops)
         \/ \E i \in DOMAIN ops : ~M!Satisfies(M!Absent, ops[i])
  PROVE  ClauseIsGood(M!Test(key, ops, pins))
  <1> DEFINE c == M!Test(key, ops, pins)
             v == M!Doc(ops)
  <1>1. /\ c.field = M!F(key, v) /\ c.pinned = pins /\ c.code = FALSE /\ c.hides = Hiding(ops)
        /\ c.docs = {d \in M!Documents : \A i \in DOMAIN ops : M!Satisfies(M!At(d, key), ops[i])}
    BY DEF M!Test, Hiding
  <1>2. Loose(c) <=> M!ConditionIsTautology(v)
    BY TestIsLoose
  <1>3. Simple(c.field) /\ c.field.value = v
    BY <1>1, SimpleClause DEF M!F
  <1>4. M!At(Missing, key) = M!Absent
    BY MissingAt
  <1>5. Quiet(v, 3) /\ ~Runs(v)
    OBVIOUS
  <1>6. ~Loose(c) => c.hides \/ Missing \notin c.docs
    BY <1>1, <1>2, <1>4
  <1>7. (c.pinned => ~Loose(c) /\ ~c.hides) /\ c.hides \in BOOLEAN
    BY <1>1, <1>2 DEF Hiding
  <1>8. c.docs \subseteq M!Documents
    BY <1>1
  <1> HIDE DEF c, v
  <1>9. ClauseIsGood(c)
    BY <1>1, <1>3, <1>5, <1>6, <1>7, <1>8 DEF ClauseIsGood
  <1>10. QED
    BY <1>9 DEF c

LEMMA OneTestGood ==
  ASSUME NEW key \in {"a", "b", "c"}, NEW name \in {"$ne", "$lt", "$gte", "$in"},
         NEW v, Quiet(v, 2), ~Runs(v), NEW pins \in BOOLEAN,
         pins => M!Pins(M!F(name, v)) /\ ~M!HidesNull(M!F(name, v)),
         M!Pins(M!F(name, v)) => M!HidesNull(M!F(name, v)) \/ ~M!Satisfies(M!Absent, M!F(name, v))
  PROVE  ClauseIsGood(M!Test(key, <<M!F(name, v)>>, pins))
  <1> DEFINE op == M!F(name, v)
             ops == <<op>>
  <1>1. DOMAIN ops = {1} /\ ops[1] = op
    OBVIOUS
  <1>2. M!IsOperator(op.key)
    BY DEF M!F, M!IsOperator, M!FieldOperators
  <1>3. M!Doc(ops).fields = ops
    BY DEF M!Doc
  <1>4. Quiet(M!Doc(ops), 2 + 1) /\ ~Runs(M!Doc(ops))
    BY Depths, QuietDoc, ClauseNames
  <1>5. Quiet(M!Doc(ops), 3)
    BY <1>4
  <1>6. /\ pins => M!Pins(op) /\ ~M!HidesNull(op)
        /\ M!Pins(op) => M!HidesNull(op) \/ ~M!Satisfies(M!Absent, op)
    OBVIOUS
  <1> HIDE DEF op, ops
  <1>7. M!ConditionIsTautology(M!Doc(ops)) <=> ~M!Pins(op)
    BY <1>1, <1>2, <1>3 DEF M!ConditionIsTautology
  <1>8. Hiding(ops) <=> M!HidesNull(op)
    BY <1>1 DEF Hiding
  <1>9. pins => ~M!ConditionIsTautology(M!Doc(ops)) /\ ~Hiding(ops)
    BY <1>6, <1>7, <1>8
  <1>10. \/ M!ConditionIsTautology(M!Doc(ops)) \/ Hiding(ops)
         \/ \E i \in DOMAIN ops : ~M!Satisfies(M!Absent, ops[i])
    BY <1>6, <1>1, <1>7, <1>8
  <1>11. ClauseIsGood(M!Test(key, ops, pins))
    BY <1>4, <1>5, <1>9, <1>10, TestGood
  <1>12. QED
    BY <1>11 DEF op, ops

LEMMA TwoTestsGood ==
  ASSUME NEW key \in {"a", "b", "c"}, NEW k1 \in {"$exists", "$ne"}, NEW k2 \in {"$eq", "$in"},
         NEW v, NEW w, Quiet(v, 2), Quiet(w, 2), ~Runs(v), ~Runs(w), NEW pins \in BOOLEAN,
         pins <=> M!Pins(M!F(k1, v)) \/ M!Pins(M!F(k2, w)), ~M!HidesNull(M!F(k2, w)),
         pins => ~M!Satisfies(M!Absent, M!F(k1, v))
  PROVE  ClauseIsGood(M!Test(key, <<M!F(k1, v), M!F(k2, w)>>, pins))
  <1> DEFINE op == M!F(k1, v)
             other == M!F(k2, w)
             ops == <<op, other>>
  <1>1. DOMAIN ops = {1, 2} /\ ops[1] = op /\ ops[2] = other
    OBVIOUS
  <1>2. M!IsOperator(op.key) /\ ~M!HidesNull(op)
    BY DEF M!F, M!IsOperator, M!FieldOperators, M!HidesNull
  <1>3. M!Doc(ops).fields = ops
    BY DEF M!Doc
  <1>4. Quiet(M!Doc(ops), 2 + 1) /\ ~Runs(M!Doc(ops))
    BY Depths, QuietDocOfTwo, ClauseNames
  <1>5. Quiet(M!Doc(ops), 3) /\ ~Runs(M!Doc(ops))
    BY <1>4
  <1>6. /\ (pins <=> M!Pins(op) \/ M!Pins(other)) /\ (pins => ~M!Satisfies(M!Absent, op))
        /\ ~M!HidesNull(other)
    OBVIOUS
  <1> HIDE DEF op, other, ops
  <1>7. M!ConditionIsTautology(M!Doc(ops)) <=> ~M!Pins(op) /\ ~M!Pins(other)
    BY <1>1, <1>2, <1>3 DEF M!ConditionIsTautology
  <1>12. ~Hiding(ops)
    BY <1>1, <1>2, <1>6 DEF Hiding
  <1>8. pins => ~M!ConditionIsTautology(M!Doc(ops)) /\ ~Hiding(ops)
    BY <1>6, <1>7, <1>12
  <1>9. \/ M!ConditionIsTautology(M!Doc(ops)) \/ Hiding(ops)
        \/ \E i \in DOMAIN ops : ~M!Satisfies(M!Absent, ops[i])
    BY <1>6, <1>1, <1>7
  <1>10. ClauseIsGood(M!Test(key, ops, pins))
    BY <1>5, <1>8, <1>9, TestGood
  <1>11. QED
    BY <1>10 DEF op, other, ops

LEMMA AnythingGood ==
  ASSUME NEW v, NEW runs \in BOOLEAN, Quiet(v, 3), runs <=> Runs(v)
  PROVE  ClauseIsGood(M!Anything(v, runs))
  <1> DEFINE c == M!Anything(v, runs)
  <1>1. /\ c.field = M!F("$expr", v) /\ c.pinned = FALSE /\ c.code = runs /\ c.hides = FALSE
        /\ c.docs = M!Documents
    BY DEF M!Anything
  <1>2. M!F("$expr", v).key = "$expr" /\ M!F("$expr", v).value = v
    BY DEF M!F
  <1>3. Loose(c)
    BY <1>1, <1>2, NoOperators DEF Loose, M!ClauseIsTautology
  <1>4. Simple(c.field)
    BY <1>1, SimpleClause
  <1> HIDE DEF c
  <1>5. ClauseIsGood(c)
    BY <1>1, <1>2, <1>3, <1>4 DEF ClauseIsGood
  <1>6. QED
    BY <1>5 DEF c

LEMMA ClausesAreGood == ASSUME NEW c \in M!Clauses PROVE ClauseIsGood(c)
  <1>0. \A v : Leaf(v) => Quiet(v, 2) /\ ~Runs(v)
    BY LeavesAreQuiet
  <1>1. CASE c = M!Is("a", M!Number(1), TRUE)
    BY <1>1, IsGood DEF M!Number, M!Null
  <1>2. CASE c = M!Is("a", M!Null, FALSE)
    BY <1>2, IsGood
  <1>3. CASE c = M!Is("b", M!Regex, TRUE)
    BY <1>3, IsGood DEF M!Regex, M!Null
  <1>4. CASE c = M!Test("a", <<M!F("$ne", M!Number(1))>>, FALSE)
    <2>1. ~M!Pins(M!F("$ne", M!Number(1)))
      BY DEF M!Pins, M!F
    <2>2. Leaf(M!Number(1))
      BY Leaves
    <2>3. QED
      BY <1>0, <1>4, <2>1, <2>2, OneTestGood
  <1>5. CASE c = M!Test("a", <<M!F("$lt", M!Number(0))>>, TRUE)
    <2>1. M!Number(0) \notin {M!MinKey, M!MaxKey} /\ M!Number(0) # M!Null
      BY DEF M!Number, M!MinKey, M!MaxKey, M!Null
    <2>2. M!Pins(M!F("$lt", M!Number(0))) /\ ~M!HidesNull(M!F("$lt", M!Number(0)))
      BY <2>1 DEF M!Pins, M!HidesNull, M!F
    <2>3. ~M!Satisfies(M!Absent, M!F("$lt", M!Number(0)))
      BY DEF M!Satisfies, M!F, M!Absent, M!Number
    <2>4. Leaf(M!Number(0))
      BY Leaves
    <2>5. QED
      BY <1>0, <1>5, <2>2, <2>3, <2>4, OneTestGood
  <1>6. CASE c = M!Test("a", <<M!F("$gte", M!MinKey)>>, FALSE)
    <2>1. ~M!Pins(M!F("$gte", M!MinKey))
      BY DEF M!Pins, M!F
    <2>2. QED
      BY <1>0, <1>6, <2>1, Leaves, OneTestGood
  <1>12. CASE c = M!Test("c", <<M!F("$in", M!List(<<M!Null, M!Number(0)>>))>>, FALSE)
    <2> DEFINE items == <<M!Null, M!Number(0)>>
               l == M!List(items)
    <2>1. DOMAIN items = {1, 2} /\ items[1] = M!Null /\ l.items = items
      BY DEF M!List
    <2>2. Quiet(M!Null, 1) /\ Quiet(M!Number(0), 1) /\ ~Runs(M!Null) /\ ~Runs(M!Number(0))
      BY Leaves, QuietLeaf
    <2>3. Quiet(l, 1 + 1) /\ ~Runs(l)
      BY <2>2, QuietListOfTwo, Depths
    <2>4. Quiet(l, 2)
      BY <2>3
    <2> HIDE DEF items, l
    <2>5. M!HidesNull(M!F("$in", l))
      BY <2>1 DEF M!HidesNull, M!F
    <2>6. ClauseIsGood(M!Test("c", <<M!F("$in", l)>>, FALSE))
      BY <2>3, <2>4, <2>5, OneTestGood
    <2>7. QED
      BY <1>12, <2>6 DEF l, items
  <1>13. CASE c = M!Test("c", <<M!F("$gte", M!Null)>>, FALSE)
    <2>1. M!HidesNull(M!F("$gte", M!Null))
      BY DEF M!HidesNull, M!F
    <2>2. QED
      BY <1>0, <1>13, <2>1, Leaves, OneTestGood
  <1>7. CASE c = M!Test("b", <<M!F("$exists", M!Flag(FALSE)), M!F("$eq", M!Null)>>, FALSE)
    <2>1. ~M!Pins(M!F("$exists", M!Flag(FALSE))) /\ ~M!Pins(M!F("$eq", M!Null))
      BY DEF M!Pins, M!F
    <2>2. Quiet(M!Flag(FALSE), 2) /\ Quiet(M!Null, 2) /\ ~Runs(M!Flag(FALSE)) /\ ~Runs(M!Null)
      BY Leaves, LeavesAreQuiet
    <2>3. ~M!HidesNull(M!F("$eq", M!Null))
      BY DEF M!HidesNull, M!F
    <2>4. QED
      BY <1>7, <2>1, <2>2, <2>3, TwoTestsGood
  <1>8. CASE c = M!Test("b", <<M!F("$ne", M!Null), M!F("$in", M!List(<<M!Number(0), M!Number(1)>>))>>, TRUE)
    <2> DEFINE l == M!List(<<M!Number(0), M!Number(1)>>)
    <2>1. M!Pins(M!F("$in", l))
      BY DEF M!Pins, M!F
    <2>2. ~M!Satisfies(M!Absent, M!F("$ne", M!Null))
      BY DEF M!Satisfies, M!F, M!Equals, M!Absent, M!Null, M!Regex
    <2>3. /\ Quiet(M!Number(0), 1) /\ Quiet(M!Number(1), 1) /\ Quiet(M!Null, 1)
          /\ ~Runs(M!Number(0)) /\ ~Runs(M!Number(1)) /\ ~Runs(M!Null)
      BY Leaves, QuietLeaf
    <2>4. Quiet(l, 1 + 1) /\ ~Runs(l)
      BY <2>3, QuietListOfTwo, Depths
    <2>5. Quiet(M!Null, 2) /\ Quiet(l, 2)
      BY <2>3, <2>4, QuietMore
    <2>8. ~M!HidesNull(M!F("$in", l))
      BY DEF M!HidesNull, M!F, M!List, M!Number, M!Null
    <2> HIDE DEF l
    <2>6. ClauseIsGood(M!Test("b", <<M!F("$ne", M!Null), M!F("$in", l)>>, TRUE))
      BY <2>1, <2>2, <2>3, <2>4, <2>5, <2>8, TwoTestsGood
    <2>7. QED
      BY <1>8, <2>6 DEF l
  <1>9. CASE c = M!Anything(M!Flag(TRUE), FALSE)
    <2>1. Quiet(M!Flag(TRUE), 3) /\ ~Runs(M!Flag(TRUE))
      BY Leaves, LeavesAreQuiet
    <2>2. QED
      BY <1>9, <2>1, AnythingGood
  <1>10. CASE c = M!Anything(M!Doc(<<M!F("$function", M!Null)>>), TRUE)
    <2> DEFINE fields == <<M!F("$function", M!Null)>>
    <2>1. DOMAIN fields = {1} /\ fields[1].key = "$function" /\ fields[1].value = M!Null
      BY DEF M!F
    <2> HIDE DEF fields
    <2>2. Nested(M!Null, 1) /\ Shallow(M!Null)
      BY Leaves, LeafNested, Depths, NestedIsShallow
    <2>3. ~M!FindKey(M!Null, M!WriteStages)
      BY Leaves, LeafFinds
    <2>4. Nested(M!Doc(fields), 1 + 1)
      BY <2>1, <2>2, DocNested
    <2>5. \A keys : M!FindKey(M!Doc(fields), keys)
            <=> "$function" \in keys \/ M!FindKey(M!Null, keys)
      BY <2>1, <2>2, DocFinds
    <2>6. Quiet(M!Doc(fields), 2) /\ Runs(M!Doc(fields))
      BY <2>3, <2>4, <2>5 DEF Quiet, Runs, M!CodeOperators, M!WriteStages
    <2>7. Quiet(M!Doc(fields), 3)
      BY <2>6, QuietMore
    <2>8. ClauseIsGood(M!Anything(M!Doc(fields), TRUE))
      BY <2>6, <2>7, AnythingGood
    <2>9. QED
      BY <1>10, <2>8 DEF fields
  <1>11. QED
    BY <1>1, <1>2, <1>3, <1>4, <1>5, <1>6, <1>7, <1>8, <1>9, <1>10, <1>12, <1>13 DEF M!Clauses

-----------------------------------------------------------------------------
(* Which filters match everything, round by round. *)

\* The filters that do, if those do that deeper is made of.
Remaining(filters, deeper) ==
  {f \in filters : \A i \in DOMAIN f.fields : M!ClauseIsTautology(f.fields[i], deeper)}

\* g is what is left of the filters after each of n rounds.
Narrows(g, filters, n) ==
  g = [m \in 0..n |-> IF m = 0 THEN filters ELSE Remaining(filters, g[m - 1])]

LEMMA NarrowingExists ==
  ASSUME NEW filters, NEW n \in Nat PROVE \E g : Narrows(g, filters, n)
  <1> DEFINE S == {m \in Nat : \E g : Narrows(g, filters, m)}
  <1>1. 0 \in S
    <2> DEFINE g == [m \in 0..0 |-> filters]
    <2>1. Narrows(g, filters, 0)
      BY DEF Narrows
    <2>2. QED
      BY <2>1
  <1>2. ASSUME NEW m \in Nat, m \in S PROVE m + 1 \in S
    <2>1. PICK g : Narrows(g, filters, m)
      BY <1>2
    <2> DEFINE h == [i \in 0..(m + 1) |-> IF i = m + 1 THEN Remaining(filters, g[m]) ELSE g[i]]
    <2>2. ASSUME NEW i \in 0..(m + 1)
          PROVE h[i] = IF i = 0 THEN filters ELSE Remaining(filters, h[i - 1])
      <3>1. CASE i = m + 1
        BY <3>1, h[i - 1] = g[m]
      <3>2. CASE i # m + 1
        <4>1. i \in 0..m /\ h[i] = g[i]
          BY <3>2
        <4>2. g[i] = IF i = 0 THEN filters ELSE Remaining(filters, g[i - 1])
          BY <2>1, <4>1 DEF Narrows
        <4>3. i # 0 => h[i - 1] = g[i - 1]
          BY <4>1
        <4>4. QED
          BY <4>1, <4>2, <4>3
      <3>3. QED
        BY <3>1, <3>2
    <2> HIDE DEF h
    <2>3. h = [i \in 0..(m + 1) |-> h[i]]
      BY DEF h
    <2>4. Narrows(h, filters, m + 1)
      BY <2>2, <2>3 DEF Narrows
    <2>5. QED
      BY <2>4
  <1> HIDE DEF S
  <1>3. Nat \subseteq S
    BY <1>1, <1>2, SetInduction
  <1>4. QED
    BY <1>3 DEF S

LEMMA NarrowingAgrees ==
  ASSUME NEW filters, NEW n \in Nat, NEW m \in Nat, n <= m, NEW g, NEW h,
         Narrows(g, filters, n), Narrows(h, filters, m)
  PROVE  g[n] = h[n]
  <1> DEFINE S == {k \in Nat : k <= n => g[k] = h[k]}
  <1>1. 0 \in S
    BY DEF Narrows
  <1>2. ASSUME NEW k \in Nat, k \in S PROVE k + 1 \in S
    <2>1. SUFFICES ASSUME k + 1 <= n PROVE g[k + 1] = h[k + 1]
      OBVIOUS
    <2>2. g[k] = h[k]
      BY <1>2, <2>1
    <2>3. g[k + 1] = Remaining(filters, g[k])
      BY <2>1 DEF Narrows
    <2>4. h[k + 1] = Remaining(filters, h[k])
      BY <2>1 DEF Narrows
    <2>5. QED
      BY <2>2, <2>3, <2>4
  <1> HIDE DEF S
  <1>3. Nat \subseteq S
    BY <1>1, <1>2, SetInduction
  <1>4. QED
    BY <1>3 DEF S

LEMMA TautologiesNarrow ==
  ASSUME NEW filters, NEW n \in Nat, NEW g, Narrows(g, filters, n)
  PROVE  M!Tautologies(filters, n) = g[n]
  <1> DEFINE h == CHOOSE f : Narrows(f, filters, n)
  <1>1. M!Tautologies(filters, n) = h[n]
    BY DEF M!Tautologies, Narrows, Remaining
  <1>2. Narrows(h, filters, n)
    OBVIOUS
  <1> HIDE DEF h
  <1>3. QED
    BY <1>1, <1>2, NarrowingAgrees

LEMMA TautologiesZero == ASSUME NEW filters PROVE M!Tautologies(filters, 0) = filters
  <1>1. PICK g : Narrows(g, filters, 0)
    BY NarrowingExists
  <1>2. g[0] = filters
    BY <1>1 DEF Narrows
  <1>3. QED
    BY <1>1, <1>2, TautologiesNarrow

LEMMA TautologiesNext ==
  ASSUME NEW filters, NEW n \in Nat
  PROVE  M!Tautologies(filters, n + 1) = Remaining(filters, M!Tautologies(filters, n))
  <1>1. PICK h : Narrows(h, filters, n + 1)
    BY NarrowingExists
  <1>2. PICK g : Narrows(g, filters, n)
    BY NarrowingExists
  <1>3. M!Tautologies(filters, n) = g[n] /\ M!Tautologies(filters, n + 1) = h[n + 1]
    BY <1>1, <1>2, TautologiesNarrow
  <1>4. g[n] = h[n]
    BY <1>1, <1>2, NarrowingAgrees
  <1>5. h[n + 1] = Remaining(filters, h[n])
    BY <1>1 DEF Narrows
  <1>6. QED
    BY <1>3, <1>4, <1>5

-----------------------------------------------------------------------------
(* The rounds tell the same of a filter wherever it stands. *)

\* The filters a clause joins.
Branches(e) ==
  IF e.key \in {"$and", "$or"} /\ M!IsClauses(e.value)
  THEN {e.value.items[k] : k \in DOMAIN e.value.items}
  ELSE {}

LEMMA ClauseOfBranches ==
  ASSUME NEW e, NEW V, NEW W, \A b \in Branches(e) : b \in V <=> b \in W
  PROVE  M!ClauseIsTautology(e, V) <=> M!ClauseIsTautology(e, W)
  <1>1. CASE e.key \in {"$and", "$or"} /\ M!IsClauses(e.value)
    <2>1. \A k \in DOMAIN e.value.items : e.value.items[k] \in V <=> e.value.items[k] \in W
      BY <1>1 DEF Branches
    <2>2. QED
      BY <1>1, <2>1 DEF M!ClauseIsTautology
  <1>2. CASE ~(e.key \in {"$and", "$or"} /\ M!IsClauses(e.value))
    BY <1>2 DEF M!ClauseIsTautology
  <1>3. QED
    BY <1>1, <1>2

Closed(filters) ==
  \A f \in filters : \A i \in DOMAIN f.fields : Branches(f.fields[i]) \subseteq filters

LEMMA TautologiesOfLess ==
  ASSUME NEW less, NEW more, less \subseteq more, Closed(less), NEW n \in Nat
  PROVE  \A f \in less : f \in M!Tautologies(less, n) <=> f \in M!Tautologies(more, n)
  <1> DEFINE S == {k \in Nat : \A f \in less : f \in M!Tautologies(less, k) <=> f \in M!Tautologies(more, k)}
  <1>1. 0 \in S
    BY TautologiesZero
  <1>2. ASSUME NEW k \in Nat, k \in S PROVE k + 1 \in S
    <2> DEFINE V == M!Tautologies(less, k)
               W == M!Tautologies(more, k)
    <2>1. \A f \in less : f \in V <=> f \in W
      BY <1>2
    <2>2. /\ M!Tautologies(less, k + 1) = Remaining(less, V)
          /\ M!Tautologies(more, k + 1) = Remaining(more, W)
      BY TautologiesNext
    <2> HIDE DEF V, W
    <2>3. ASSUME NEW f \in less PROVE f \in Remaining(less, V) <=> f \in Remaining(more, W)
      <3>1. ASSUME NEW i \in DOMAIN f.fields
            PROVE M!ClauseIsTautology(f.fields[i], V) <=> M!ClauseIsTautology(f.fields[i], W)
        <4>1. Branches(f.fields[i]) \subseteq less
          BY DEF Closed
        <4>2. QED
          BY <2>1, <4>1, ClauseOfBranches
      <3>2. QED
        BY <3>1 DEF Remaining
    <2>4. QED
      BY <2>2, <2>3
  <1> HIDE DEF S
  <1>3. Nat \subseteq S
    BY <1>1, <1>2, SetInduction
  <1>4. QED
    BY <1>3 DEF S

LEMMA ShallowChild ==
  ASSUME NEW v, Shallow(v), NEW w \in M!Children(v) PROVE Shallow(w) /\ M!Inside(w) \subseteq M!Inside(v)
  <1>1. Nested(v, 2 * MaxDepth + 1)
    BY Depths, NestedDeeper DEF Shallow
  <1>2. \A u \in M!Children(v) : Shallow(u)
    BY <1>1, Depths, NestedChildren DEF Shallow
  <1>3. QED
    BY <1>2, InsideOfChildren

LEMMA OneLevelMore ==
  ASSUME NEW v, NEW n \in Nat PROVE \A w \in All(v, n) : M!Children(w) \subseteq All(v, n + 1)
  <1> DEFINE S == {k \in Nat : \A w \in All(v, k) : M!Children(w) \subseteq All(v, k + 1)}
  <1>1. 0 \in S
    <2>1. AtLevel(v, 0 + 1) = UNION {M!Children(w) : w \in {v}}
      BY WithinZero, WithinNext, 0 \in Nat
    <2>2. All(v, 0 + 1) = All(v, 0) \cup AtLevel(v, 0 + 1)
      BY WithinNext, 0 \in Nat
    <2>3. All(v, 0) = {v}
      BY WithinZero
    <2>4. QED
      BY <2>1, <2>2, <2>3
  <1>2. ASSUME NEW k \in Nat, k \in S PROVE k + 1 \in S
    <2>1. All(v, k + 1) = All(v, k) \cup AtLevel(v, k + 1)
      BY WithinNext
    <2>2. /\ All(v, (k + 1) + 1) = All(v, k + 1) \cup AtLevel(v, (k + 1) + 1)
          /\ AtLevel(v, (k + 1) + 1) = UNION {M!Children(w) : w \in AtLevel(v, k + 1)}
      BY WithinNext, k + 1 \in Nat
    <2>3. \A w \in All(v, k) : M!Children(w) \subseteq All(v, k + 1)
      BY <1>2
    <2>4. QED
      BY <2>1, <2>2, <2>3
  <1> HIDE DEF S
  <1>3. Nat \subseteq S
    BY <1>1, <1>2, SetInduction
  <1>4. QED
    BY <1>3 DEF S

LEMMA InsideIsClosed ==
  ASSUME NEW v, Shallow(v), NEW w \in M!Inside(v) PROVE M!Children(w) \subseteq M!Inside(v)
  <1> DEFINE n == 2 * MaxDepth
  <1>1. n \in Nat /\ M!Inside(v) = All(v, n)
    BY Depths DEF M!Inside, All
  <1>2. Nested(v, n + 1)
    BY <1>1, NestedDeeper DEF Shallow
  <1> HIDE DEF n
  <1>3. All(v, n + 1) = All(v, n) \cup AtLevel(v, n + 1) /\ AtLevel(v, n + 1) = {}
    BY <1>1, <1>2, WithinNext DEF Nested
  <1>4. QED
    BY <1>1, <1>3, OneLevelMore

LEMMA InsideItself == ASSUME NEW v PROVE v \in M!Inside(v)
  <1> DEFINE S == {k \in Nat : v \in All(v, k)}
  <1>1. 0 \in S
    BY WithinZero
  <1>2. ASSUME NEW k \in Nat, k \in S PROVE k + 1 \in S
    BY <1>2, WithinNext
  <1> HIDE DEF S
  <1>3. Nat \subseteq S
    BY <1>1, <1>2, SetInduction
  <1>4. QED
    BY <1>3, Depths DEF S, M!Inside, All

\* The filters a filter is made of, itself among them.
Filters(f) == {w \in M!Inside(f) : w.type = "doc"}

LEMMA BranchIsInside ==
  ASSUME NEW f, f.type = "doc", NEW i \in DOMAIN f.fields, NEW b \in Branches(f.fields[i])
  PROVE  /\ f.fields[i].value \in M!Children(f) /\ b \in M!Children(f.fields[i].value)
         /\ b.type = "doc"
  <1> DEFINE e == f.fields[i]
  <1>1. M!IsClauses(e.value) /\ \E k \in DOMAIN e.value.items : b = e.value.items[k]
    BY DEF Branches
  <1>2. e.value.type = "list" /\ b.type = "doc"
    BY <1>1 DEF M!IsClauses
  <1>3. e.value \in M!Children(f)
    BY DEF M!Children
  <1>4. b \in M!Children(e.value)
    BY <1>1, <1>2 DEF M!Children
  <1>5. QED
    BY <1>2, <1>3, <1>4

LEMMA FiltersAreClosed == ASSUME NEW f, Shallow(f) PROVE Closed(Filters(f))
  <1> SUFFICES ASSUME NEW g \in Filters(f), NEW i \in DOMAIN g.fields, NEW b \in Branches(g.fields[i])
               PROVE b \in Filters(f)
    BY DEF Closed
  <1>1. g.type = "doc" /\ g \in M!Inside(f)
    BY DEF Filters
  <1>2. g.fields[i].value \in M!Inside(f)
    BY <1>1, BranchIsInside, InsideIsClosed
  <1>3. b \in M!Inside(f)
    BY <1>1, <1>2, BranchIsInside, InsideIsClosed
  <1>4. QED
    BY <1>1, <1>3, BranchIsInside DEF Filters

\* A filter matches everything, as far as n rounds tell.
Matches(f, n) == f \in M!Tautologies(Filters(f), n)

\* A clause does, as far as n rounds tell of the filters it joins.
ClauseMatches(e, n) == M!ClauseIsTautology(e, {b \in Branches(e) : Matches(b, n)})

LEMMA MatchesZero == ASSUME NEW f, f.type = "doc" PROVE Matches(f, 0)
  BY InsideItself, TautologiesZero DEF Matches, Filters

LEMMA BranchMatches ==
  ASSUME NEW f, f.type = "doc", Shallow(f), NEW i \in DOMAIN f.fields,
         NEW b \in Branches(f.fields[i]), NEW n \in Nat
  PROVE  b \in M!Tautologies(Filters(f), n) <=> Matches(b, n)
  <1> DEFINE v == f.fields[i].value
  <1>1. v \in M!Children(f) /\ b \in M!Children(v) /\ b.type = "doc"
    BY BranchIsInside
  <1> HIDE DEF v
  <1>2. Shallow(v) /\ M!Inside(v) \subseteq M!Inside(f)
    BY <1>1, ShallowChild
  <1>3. Shallow(b) /\ M!Inside(b) \subseteq M!Inside(v)
    BY <1>1, <1>2, ShallowChild
  <1>4. Filters(b) \subseteq Filters(f) /\ Closed(Filters(b)) /\ b \in Filters(b)
    BY <1>1, <1>2, <1>3, FiltersAreClosed, InsideItself DEF Filters
  <1>5. \A g \in Filters(b) :
          g \in M!Tautologies(Filters(b), n) <=> g \in M!Tautologies(Filters(f), n)
    BY <1>4, TautologiesOfLess
  <1>6. QED
    BY <1>4, <1>5 DEF Matches

\* A filter does if each of its clauses does.
LEMMA MatchesNext ==
  ASSUME NEW f, f.type = "doc", Shallow(f), NEW n \in Nat
  PROVE  Matches(f, n + 1) <=> \A i \in DOMAIN f.fields : ClauseMatches(f.fields[i], n)
  <1> DEFINE W == M!Tautologies(Filters(f), n)
  <1>1. Matches(f, n + 1) <=> f \in Remaining(Filters(f), W)
    BY TautologiesNext DEF Matches
  <1>2. f \in Filters(f)
    BY InsideItself DEF Filters
  <1>3. \A i \in DOMAIN f.fields : \A b \in Branches(f.fields[i]) : b \in W <=> Matches(b, n)
    BY BranchMatches
  <1> HIDE DEF W
  <1>4. ASSUME NEW i \in DOMAIN f.fields
        PROVE M!ClauseIsTautology(f.fields[i], W) <=> ClauseMatches(f.fields[i], n)
    <2> DEFINE e == f.fields[i]
               V == {b \in Branches(e) : Matches(b, n)}
    <2>1. \A b \in Branches(e) : b \in W <=> b \in V
      BY <1>3
    <2>2. M!ClauseIsTautology(e, W) <=> M!ClauseIsTautology(e, V)
      BY <2>1, ClauseOfBranches
    <2>3. QED
      BY <2>2 DEF ClauseMatches
  <1>5. QED
    BY <1>1, <1>2, <1>4 DEF Remaining

-----------------------------------------------------------------------------
(* What the verdict on a filter is, for every way to grow it. *)

\* From k rounds on, the rounds tell the same as all of them.
Settled(f, k) == \A n \in Nat : n >= k => (Matches(f, n) <=> M!FilterIsTautology(f))

LEMMA TautologyMatches == ASSUME NEW f PROVE M!FilterIsTautology(f) <=> Matches(f, MaxDepth)
  BY DEF M!FilterIsTautology, Matches, Filters

LEMMA SettledFrom ==
  ASSUME NEW f, NEW k \in Nat, k <= MaxDepth,
         \A n \in Nat : n >= k => (Matches(f, n) <=> Matches(f, k))
  PROVE  Settled(f, k) /\ (M!FilterIsTautology(f) <=> Matches(f, k))
  BY TautologyMatches, Depths DEF Settled

LEMMA SettledLater ==
  ASSUME NEW f, NEW k \in Nat, NEW m \in Nat, k <= m, Settled(f, k) PROVE Settled(f, m)
  BY DEF Settled

LEMMA SimpleMatches ==
  ASSUME NEW e, Simple(e), NEW n \in Nat
  PROVE  ClauseMatches(e, n) <=> M!ClauseIsTautology(e, {})
  <1>1. Branches(e) = {}
    BY DEF Branches, Simple
  <1>2. QED
    BY <1>1 DEF ClauseMatches

\* A clause that joins two filters.
Joined(how, a, b) == M!F(how, M!List(<<a, b>>))

\* The clause joins them so.
Connective(e, how, a, b) ==
  /\ e.key = how /\ e.value = M!List(<<a, b>>) /\ M!IsClauses(e.value)
  /\ e.value.items = <<a, b>> /\ Branches(e) = {a, b}

LEMMA JoinedIs ==
  ASSUME NEW how \in {"$and", "$or"}, NEW a, NEW b, a.type = "doc", b.type = "doc"
  PROVE  Connective(Joined(how, a, b), how, a, b)
  <1> DEFINE e == Joined(how, a, b)
  <1>1. e.key = how /\ e.value = M!List(<<a, b>>)
    BY DEF Joined, M!F
  <1>2. e.value.type = "list" /\ e.value.items = <<a, b>>
    BY <1>1 DEF M!List
  <1> HIDE DEF e
  <1>3. M!IsClauses(e.value)
    BY <1>2 DEF M!IsClauses
  <1>4. Branches(e) = {a, b}
    BY <1>1, <1>2, <1>3 DEF Branches
  <1>5. QED
    BY <1>1, <1>2, <1>3, <1>4 DEF e, Connective

LEMMA AndMatches ==
  ASSUME NEW a, NEW b, a.type = "doc", b.type = "doc", NEW n \in Nat
  PROVE  ClauseMatches(Joined("$and", a, b), n) <=> Matches(a, n) /\ Matches(b, n)
  <1> DEFINE e == Joined("$and", a, b)
  <1>1. Connective(e, "$and", a, b)
    BY JoinedIs
  <1> HIDE DEF e
  <1>2. ClauseMatches(e, n) <=> Matches(a, n) /\ Matches(b, n)
    BY <1>1 DEF Connective, ClauseMatches, M!ClauseIsTautology
  <1>3. QED
    BY <1>2 DEF e

LEMMA OrMatches ==
  ASSUME NEW a, NEW b, a.type = "doc", b.type = "doc", NEW n \in Nat
  PROVE  ClauseMatches(Joined("$or", a, b), n) <=> Matches(a, n) \/ Matches(b, n)
  <1> DEFINE e == Joined("$or", a, b)
  <1>1. Connective(e, "$or", a, b)
    BY JoinedIs
  <1> HIDE DEF e
  <1> DEFINE W == {f \in {a, b} : Matches(f, n)}
             items == e.value.items
  <1>2. DOMAIN items = {1, 2} /\ items[1] = a /\ items[2] = b /\ items # <<>>
    BY <1>1 DEF Connective
  <1>3. a \in W <=> Matches(a, n)
    OBVIOUS
  <1>4. b \in W <=> Matches(b, n)
    OBVIOUS
  <1>5. ClauseMatches(e, n) <=> M!ClauseIsTautology(e, W)
    BY <1>1 DEF Connective, ClauseMatches
  <1> HIDE DEF W
  <1>6. ClauseMatches(e, n) <=> \E k \in DOMAIN items : items[k] \in W
    BY <1>1, <1>2, <1>5 DEF Connective, M!ClauseIsTautology
  <1> HIDE DEF items
  <1>7. ClauseMatches(e, n) <=> Matches(a, n) \/ Matches(b, n)
    BY <1>2, <1>3, <1>4, <1>6
  <1>8. QED
    BY <1>7 DEF e

\* A document with one field.
OneField(e) == M!Doc(<<e>>)

LEMMA OneFieldMatches ==
  ASSUME NEW e, Shallow(OneField(e)), NEW n \in Nat
  PROVE  Matches(OneField(e), n + 1) <=> ClauseMatches(e, n)
  <1> DEFINE f == OneField(e)
  <1>1. f.type = "doc" /\ DOMAIN f.fields = {1} /\ f.fields[1] = e
    BY DEF OneField, M!Doc
  <1> HIDE DEF f
  <1>2. Shallow(f)
    BY DEF f
  <1>3. Matches(f, n + 1) <=> \A i \in DOMAIN f.fields : ClauseMatches(f.fields[i], n)
    BY <1>1, <1>2, MatchesNext
  <1>4. Matches(f, n + 1) <=> ClauseMatches(e, n)
    BY <1>1, <1>3
  <1>5. QED
    BY <1>4 DEF f

\* A filter with nothing in it matches everything.
LEMMA EmptyVerdict ==
  /\ M!Doc(<<>>).type = "doc" /\ Shallow(M!Doc(<<>>))
  /\ M!FilterIsTautology(M!Doc(<<>>)) /\ Settled(M!Doc(<<>>), 1)
  <1> DEFINE f == M!Doc(<<>>)
  <1>1. f.type = "doc" /\ DOMAIN f.fields = {}
    BY DEF M!Doc
  <1>2. Nested(f, 1)
    <2>1. Nested(f, 0 + 1) <=> \A i \in DOMAIN <<>> : Nested(<<>>[i].value, 0)
      BY DocNested, 0 \in Nat
    <2>2. QED
      BY <2>1
  <1> HIDE DEF f
  <1>3. Shallow(f)
    BY <1>2, Depths, NestedIsShallow
  <1>4. \A n \in Nat : Matches(f, n + 1)
    BY <1>1, <1>3, MatchesNext
  <1>5. ASSUME NEW n \in Nat, n >= 1 PROVE Matches(f, n)
    <2>1. n - 1 \in Nat /\ (n - 1) + 1 = n
      BY <1>5
    <2>2. QED
      BY <1>4, <2>1
  <1>6. Settled(f, 1) /\ M!FilterIsTautology(f)
    BY <1>5, Depths, SettledFrom
  <1>7. QED
    BY <1>1, <1>3, <1>6 DEF f

LEMMA OneVerdict ==
  ASSUME NEW e, Simple(e), Shallow(OneField(e))
  PROVE  /\ M!FilterIsTautology(OneField(e)) <=> M!ClauseIsTautology(e, {})
         /\ Settled(OneField(e), 1)
  <1> DEFINE f == OneField(e)
  <1>1. \A n \in Nat : Matches(f, n + 1) <=> M!ClauseIsTautology(e, {})
    BY OneFieldMatches, SimpleMatches
  <1> HIDE DEF f
  <1>2. ASSUME NEW n \in Nat, n >= 1 PROVE Matches(f, n) <=> M!ClauseIsTautology(e, {})
    <2>1. n - 1 \in Nat /\ (n - 1) + 1 = n
      BY <1>2
    <2>2. QED
      BY <1>1, <2>1
  <1>3. Settled(f, 1) /\ (M!FilterIsTautology(f) <=> Matches(f, 1))
    BY <1>2, Depths, SettledFrom
  <1>4. QED
    BY <1>2, <1>3 DEF f

LEMMA AndVerdict ==
  ASSUME NEW a, NEW b, a.type = "doc", b.type = "doc", NEW k \in Nat, k + 1 <= MaxDepth,
         Settled(a, k), Settled(b, k), Shallow(OneField(Joined("$and", a, b)))
  PROVE  /\ M!FilterIsTautology(OneField(Joined("$and", a, b)))
            <=> M!FilterIsTautology(a) /\ M!FilterIsTautology(b)
         /\ Settled(OneField(Joined("$and", a, b)), k + 1)
  <1> DEFINE f == OneField(Joined("$and", a, b))
  <1>1. \A n \in Nat : Matches(f, n + 1) <=> Matches(a, n) /\ Matches(b, n)
    BY OneFieldMatches, AndMatches
  <1> HIDE DEF f
  <1>2. ASSUME NEW n \in Nat, n >= k + 1
        PROVE  Matches(f, n) <=> M!FilterIsTautology(a) /\ M!FilterIsTautology(b)
    <2>1. n - 1 \in Nat /\ (n - 1) + 1 = n /\ n - 1 >= k
      BY <1>2
    <2>2. QED
      BY <1>1, <2>1 DEF Settled
  <1>3. Settled(f, k + 1) /\ (M!FilterIsTautology(f) <=> Matches(f, k + 1))
    BY <1>2, Depths, SettledFrom
  <1>4. QED
    BY <1>2, <1>3 DEF f

LEMMA OrVerdict ==
  ASSUME NEW a, NEW b, a.type = "doc", b.type = "doc", NEW k \in Nat, k + 1 <= MaxDepth,
         Settled(a, k), Settled(b, k), Shallow(OneField(Joined("$or", a, b)))
  PROVE  /\ M!FilterIsTautology(OneField(Joined("$or", a, b)))
            <=> M!FilterIsTautology(a) \/ M!FilterIsTautology(b)
         /\ Settled(OneField(Joined("$or", a, b)), k + 1)
  <1> DEFINE f == OneField(Joined("$or", a, b))
  <1>1. \A n \in Nat : Matches(f, n + 1) <=> Matches(a, n) \/ Matches(b, n)
    BY OneFieldMatches, OrMatches
  <1> HIDE DEF f
  <1>2. ASSUME NEW n \in Nat, n >= k + 1
        PROVE  Matches(f, n) <=> M!FilterIsTautology(a) \/ M!FilterIsTautology(b)
    <2>1. n - 1 \in Nat /\ (n - 1) + 1 = n /\ n - 1 >= k
      BY <1>2
    <2>2. QED
      BY <1>1, <2>1 DEF Settled
  <1>3. Settled(f, k + 1) /\ (M!FilterIsTautology(f) <=> Matches(f, k + 1))
    BY <1>2, Depths, SettledFrom
  <1>4. QED
    BY <1>2, <1>3 DEF f

-----------------------------------------------------------------------------
(* One field more. *)

IsListed(s) == s \in Seq({s[i] : i \in DOMAIN s})

LEMMA MoreOf ==
  ASSUME NEW s, IsListed(s), NEW e
  PROVE  /\ IsListed(Append(s, e))
         /\ Len(s) \in Nat /\ DOMAIN s = 1..Len(s) /\ DOMAIN Append(s, e) = 1..(Len(s) + 1)
         /\ Append(s, e)[Len(s) + 1] = e /\ \A i \in 1..Len(s) : Append(s, e)[i] = s[i]
  <1> DEFINE S == {s[i] : i \in DOMAIN s} \cup {e}
             t == Append(s, e)
  <1>1. s \in Seq(S) /\ e \in S
    BY DEF IsListed
  <1>2. /\ Len(s) \in Nat /\ DOMAIN s = 1..Len(s)
        /\ t \in Seq(S) /\ Len(t) = Len(s) + 1 /\ DOMAIN t = 1..(Len(s) + 1)
        /\ t[Len(s) + 1] = e /\ \A i \in 1..Len(s) : t[i] = s[i]
    BY <1>1, AppendProperties
  <1> HIDE DEF t
  <1>3. t \in Seq({t[i] : i \in DOMAIN t})
    BY <1>2
  <1>4. QED
    BY <1>2, <1>3 DEF IsListed, t

LEMMA MoreFields ==
  ASSUME NEW fields, IsListed(fields), NEW e, Simple(e), NEW n \in Nat, n <= 2 * MaxDepth,
         Quiet(M!Doc(fields), n + 1), Quiet(e.value, n)
  PROVE  /\ Quiet(M!Doc(Append(fields, e)), n + 1)
         /\ Runs(M!Doc(Append(fields, e))) <=> Runs(M!Doc(fields)) \/ Runs(e.value)
  <1> DEFINE more == Append(fields, e)
             l == Len(fields)
  <1>1. /\ l \in Nat /\ DOMAIN fields = 1..l /\ DOMAIN more = 1..(l + 1)
        /\ more[l + 1] = e /\ \A i \in 1..l : more[i] = fields[i]
    BY MoreOf
  <1> HIDE DEF more, l
  <1>2. \A i \in DOMAIN fields : Nested(fields[i].value, n)
    BY DocNested DEF Quiet
  <1>3. Nested(e.value, n)
    BY DEF Quiet
  <1>4. \A i \in DOMAIN more : Nested(more[i].value, n)
    <2> SUFFICES ASSUME NEW i \in DOMAIN more PROVE Nested(more[i].value, n)
      OBVIOUS
    <2>1. CASE i = l + 1
      BY <1>1, <1>3, <2>1
    <2>2. CASE i # l + 1
      <3>1. i \in 1..l
        BY <1>1, <2>2
      <3>2. QED
        BY <1>1, <1>2, <3>1
    <2>3. QED
      BY <2>1, <2>2
  <1>5. Nested(M!Doc(more), n + 1)
    BY <1>4, DocNested
  <1>6. /\ \A i \in DOMAIN fields : Shallow(fields[i].value)
        /\ \A i \in DOMAIN more : Shallow(more[i].value)
    BY <1>2, <1>4, NestedIsShallow
  <1>7. ASSUME NEW keys
        PROVE  M!FindKey(M!Doc(more), keys)
               <=> M!FindKey(M!Doc(fields), keys) \/ e.key \in keys \/ M!FindKey(e.value, keys)
    <2>1. /\ M!FindKey(M!Doc(more), keys)
             <=> \E i \in DOMAIN more : more[i].key \in keys \/ M!FindKey(more[i].value, keys)
          /\ M!FindKey(M!Doc(fields), keys)
             <=> \E i \in DOMAIN fields : fields[i].key \in keys \/ M!FindKey(fields[i].value, keys)
      BY <1>6, DocFinds
    <2>2. 1..(l + 1) = 1..l \cup {l + 1}
      BY <1>1
    <2>3. QED
      BY <1>1, <2>1, <2>2
  <1>8. QED
    BY <1>5, <1>7 DEF Quiet, Runs, Simple, Plain, more

LEMMA MoreVerdict ==
  ASSUME NEW fields, IsListed(fields), NEW e, Simple(e), NEW k \in Nat, k >= 1, k <= MaxDepth,
         Shallow(M!Doc(fields)), Shallow(M!Doc(Append(fields, e))), Settled(M!Doc(fields), k)
  PROVE  /\ M!FilterIsTautology(M!Doc(Append(fields, e)))
            <=> M!FilterIsTautology(M!Doc(fields)) /\ M!ClauseIsTautology(e, {})
         /\ Settled(M!Doc(Append(fields, e)), k)
  <1> DEFINE more == Append(fields, e)
             l == Len(fields)
             f == M!Doc(fields)
             g == M!Doc(more)
  <1>1. /\ l \in Nat /\ DOMAIN fields = 1..l /\ DOMAIN more = 1..(l + 1)
        /\ more[l + 1] = e /\ \A i \in 1..l : more[i] = fields[i]
    BY MoreOf
  <1>2. f.type = "doc" /\ f.fields = fields /\ g.type = "doc" /\ g.fields = more
    BY DEF M!Doc
  <1>3. Shallow(f) /\ Shallow(g) /\ Settled(f, k)
    OBVIOUS
  <1> HIDE DEF more, l, f, g
  <1>4. ASSUME NEW n \in Nat
        PROVE  Matches(g, n + 1) <=> Matches(f, n + 1) /\ M!ClauseIsTautology(e, {})
    <2>1. /\ Matches(f, n + 1) <=> \A i \in 1..l : ClauseMatches(fields[i], n)
          /\ Matches(g, n + 1) <=> \A i \in 1..(l + 1) : ClauseMatches(more[i], n)
      BY <1>1, <1>2, <1>3, MatchesNext
    <2>2. 1..(l + 1) = 1..l \cup {l + 1}
      BY <1>1
    <2>3. ClauseMatches(e, n) <=> M!ClauseIsTautology(e, {})
      BY SimpleMatches
    <2>4. QED
      BY <1>1, <2>1, <2>2, <2>3
  <1>5. ASSUME NEW n \in Nat, n >= k
        PROVE  Matches(g, n) <=> M!FilterIsTautology(f) /\ M!ClauseIsTautology(e, {})
    <2>1. n - 1 \in Nat /\ (n - 1) + 1 = n
      BY <1>5
    <2>2. Matches(f, n) <=> M!FilterIsTautology(f)
      BY <1>3, <1>5 DEF Settled
    <2>3. QED
      BY <1>4, <2>1, <2>2
  <1>6. Settled(g, k) /\ (M!FilterIsTautology(g) <=> Matches(g, k))
    BY <1>5, SettledFrom
  <1>7. QED
    BY <1>5, <1>6 DEF f, g, more

-----------------------------------------------------------------------------
(* The filter. *)

\* A filter of at most n levels, of which k rounds tell all.
FilterIs(f, n, k) == f = M!Doc(f.fields) /\ IsListed(f.fields) /\ Quiet(f, n) /\ Settled(f, k)

\* What is kept of a filter f grown in some steps, with the documents it matches,
\* whether its clauses pin values, whether null hides in one, and the level it
\* calls for.
FilterHolds(f, steps, found, pins, hides, level) ==
  /\ FilterIs(f, 2 * steps + 4, steps + 1)
  /\ ~M!FilterIsTautology(f) => hides \/ Missing \notin found
  /\ pins => ~M!FilterIsTautology(f)
  /\ level = IF Runs(f) THEN M!PermissionFull ELSE M!PermissionReadOnly

LEMMA DocIsDoc == ASSUME NEW f, f = M!Doc(f.fields) PROVE f.type = "doc"
  BY DEF M!Doc

LEMMA OneIsASeq == ASSUME NEW e PROVE IsListed(<<e>>)
  BY DEF IsListed

LEMMA OneFieldIs ==
  ASSUME NEW e PROVE OneField(e).fields = <<e>> /\ OneField(e) = M!Doc(OneField(e).fields)
  BY DEF OneField, M!Doc

LEMMA OneHolds ==
  ASSUME NEW c \in M!Clauses
  PROVE  /\ FilterIs(M!One(c), 4, 1)
         /\ Runs(M!One(c)) <=> c.code
         /\ M!FilterIsTautology(M!One(c)) <=> Loose(c)
  <1> DEFINE e == c.field
             f == OneField(e)
  <1>1. Simple(e) /\ Quiet(e.value, 3) /\ (c.code <=> Runs(e.value))
    BY ClausesAreGood DEF ClauseIsGood
  <1>2. e = M!F(e.key, e.value) /\ Plain(e.key)
    BY <1>1 DEF Simple
  <1> HIDE DEF e
  <1>3. /\ Quiet(M!Doc(<<M!F(e.key, e.value)>>), 3 + 1)
        /\ Runs(M!Doc(<<M!F(e.key, e.value)>>)) <=> Runs(e.value)
    BY <1>1, <1>2, Depths, QuietDoc
  <1>4. Quiet(f, 4) /\ (Runs(f) <=> Runs(e.value))
    BY <1>2, <1>3 DEF OneField
  <1>5. Shallow(f)
    BY <1>4, Depths, NestedIsShallow DEF Quiet
  <1>6. (M!FilterIsTautology(f) <=> M!ClauseIsTautology(e, {})) /\ Settled(f, 1)
    BY <1>1, <1>5, OneVerdict
  <1>7. f = M!Doc(f.fields) /\ IsListed(f.fields)
    BY OneFieldIs, OneIsASeq
  <1>8. M!One(c) = f
    BY DEF M!One, OneField, e
  <1> HIDE DEF f
  <1>9. QED
    BY <1>1, <1>4, <1>6, <1>7, <1>8 DEF FilterIs, Loose, e

LEMMA EmptyHolds ==
  FilterIs(M!Doc(<<>>), 4, 1) /\ ~Runs(M!Doc(<<>>)) /\ M!FilterIsTautology(M!Doc(<<>>))
  <1> DEFINE f == M!Doc(<<>>)
  <1>1. f.fields = <<>> /\ DOMAIN <<>> = {}
    BY DEF M!Doc
  <1>2. IsListed(<<>>)
    BY DEF IsListed
  <1>3. Nested(f, 1)
    <2>1. Nested(f, 0 + 1) <=> \A i \in DOMAIN <<>> : Nested(<<>>[i].value, 0)
      BY DocNested, 0 \in Nat
    <2>2. QED
      BY <2>1
  <1>4. \A keys : ~M!FindKey(f, keys)
    BY <1>1, DocFinds
  <1>5. Quiet(f, 1) /\ ~Runs(f)
    BY <1>3, <1>4 DEF Quiet, Runs
  <1>6. Quiet(f, 4)
    BY <1>5, QuietMore
  <1>7. QED
    BY <1>1, <1>2, <1>5, <1>6, EmptyVerdict DEF FilterIs

\* Two filters put into one clause.
LEMMA JoinHolds ==
  ASSUME NEW how \in {"$and", "$or"}, NEW a, NEW b, NEW n \in Nat, n + 2 <= 2 * MaxDepth,
         NEW k \in Nat, k + 1 <= MaxDepth, FilterIs(a, n, k), FilterIs(b, n, k)
  PROVE  /\ FilterIs(OneField(Joined(how, a, b)), n + 2, k + 1)
         /\ Runs(OneField(Joined(how, a, b))) <=> Runs(a) \/ Runs(b)
         /\ M!FilterIsTautology(OneField(Joined(how, a, b)))
              <=> IF how = "$and" THEN M!FilterIsTautology(a) /\ M!FilterIsTautology(b)
                  ELSE M!FilterIsTautology(a) \/ M!FilterIsTautology(b)
  <1> DEFINE f == OneField(Joined(how, a, b))
             l == M!List(<<a, b>>)
  <1>0. n <= 2 * MaxDepth /\ n + 1 <= 2 * MaxDepth /\ n + 1 \in Nat /\ (n + 1) + 1 = n + 2
    BY Depths
  <1>1. /\ a.type = "doc" /\ b.type = "doc" /\ Settled(a, k) /\ Settled(b, k)
        /\ Quiet(a, n) /\ Quiet(b, n)
    BY DocIsDoc DEF FilterIs
  <1>2. Quiet(l, n + 1) /\ (Runs(l) <=> Runs(a) \/ Runs(b))
    BY <1>0, <1>1, QuietListOfTwo
  <1>3. Plain(how)
    BY DEF Plain, M!CodeOperators, M!WriteStages
  <1> HIDE DEF l
  <1>4. Quiet(M!Doc(<<M!F(how, l)>>), (n + 1) + 1) /\ (Runs(M!Doc(<<M!F(how, l)>>)) <=> Runs(l))
    BY <1>0, <1>2, <1>3, QuietDoc
  <1>5. f = M!Doc(<<M!F(how, l)>>)
    BY DEF OneField, Joined, l
  <1>6. Quiet(f, n + 2) /\ (Runs(f) <=> Runs(a) \/ Runs(b))
    BY <1>0, <1>2, <1>4, <1>5
  <1>7. Shallow(f)
    BY <1>6, NestedIsShallow DEF Quiet
  <1>8. Settled(f, k + 1)
    BY <1>1, <1>7, AndVerdict, OrVerdict
  <1>9. M!FilterIsTautology(f)
          <=> IF how = "$and" THEN M!FilterIsTautology(a) /\ M!FilterIsTautology(b)
              ELSE M!FilterIsTautology(a) \/ M!FilterIsTautology(b)
    BY <1>1, <1>7, AndVerdict, OrVerdict
  <1>10. f = M!Doc(f.fields) /\ IsListed(f.fields)
    BY OneFieldIs, OneIsASeq
  <1> HIDE DEF f
  <1>11. FilterIs(f, n + 2, k + 1)
    BY <1>6, <1>8, <1>10 DEF FilterIs
  <1>12. QED
    BY <1>6, <1>9, <1>11 DEF f

\* A filter and the other way round: a NOR matches everything, for the analysis.
LEMMA NorHolds ==
  ASSUME NEW a, NEW n \in Nat, n + 2 <= 2 * MaxDepth, NEW k \in Nat, k + 1 <= MaxDepth,
         FilterIs(a, n, k)
  PROVE  LET f == M!Doc(<<M!F("$nor", M!List(<<a>>))>>)
         IN  /\ FilterIs(f, n + 2, k + 1) /\ (Runs(f) <=> Runs(a)) /\ M!FilterIsTautology(f)
  <1> DEFINE l == M!List(<<a>>)
             e == M!F("$nor", l)
             f == OneField(e)
  <1>0. n <= 2 * MaxDepth /\ n + 1 <= 2 * MaxDepth /\ n + 1 \in Nat /\ (n + 1) + 1 = n + 2
    BY Depths
  <1>1. Quiet(a, n)
    BY DEF FilterIs
  <1>2. Quiet(l, n + 1) /\ (Runs(l) <=> Runs(a))
    BY <1>0, <1>1, QuietList
  <1>3. Plain("$nor")
    BY DEF Plain, M!CodeOperators, M!WriteStages
  <1> HIDE DEF l
  <1>4. Quiet(M!Doc(<<M!F("$nor", l)>>), (n + 1) + 1) /\ (Runs(M!Doc(<<M!F("$nor", l)>>)) <=> Runs(l))
    BY <1>0, <1>2, <1>3, QuietDoc
  <1>5. Quiet(f, n + 2) /\ (Runs(f) <=> Runs(a))
    BY <1>0, <1>2, <1>4 DEF OneField
  <1>6. Shallow(f)
    BY <1>5, NestedIsShallow DEF Quiet
  <1>7. Simple(e) /\ M!ClauseIsTautology(e, {})
    BY <1>3 DEF Simple, M!F, M!ClauseIsTautology, M!IsOperator
  <1> HIDE DEF e
  <1>8. Settled(f, 1) /\ M!FilterIsTautology(f)
    BY <1>6, <1>7, OneVerdict
  <1>9. Settled(f, k + 1)
    BY <1>8, SettledLater
  <1>10. f = M!Doc(f.fields) /\ IsListed(f.fields)
    BY OneFieldIs, OneIsASeq
  <1>11. f = M!Doc(<<M!F("$nor", M!List(<<a>>))>>)
    BY DEF OneField, e, l
  <1> HIDE DEF f
  <1>12. QED
    BY <1>5, <1>8, <1>9, <1>10, <1>11 DEF FilterIs

LEMMA FilterMore ==
  ASSUME NEW f, NEW n \in Nat, NEW m \in Nat, n <= m, NEW k \in Nat, NEW l \in Nat, k <= l,
         FilterIs(f, n, k)
  PROVE  FilterIs(f, m, l)
  BY QuietMore, SettledLater DEF FilterIs

\* Where no null hides, all of what a command calls for is seen; nor does it
\* where values are pinned.
NothingHides == (hidden \/ mongoNeed = mongoSeen) /\ (pinned => ~hidden)

\* What there is to know of a filter in a state.
FilterKept ==
  /\ mongoSteps \in Nat /\ mongoSteps <= MaxMongoSteps
  /\ FilterHolds(doc, mongoSteps, reached, pinned, hidden, mongoSeen)
  /\ NothingHides
  /\ hidden => doc.fields # <<>>

\* The bounds are enough for one step more.
LEMMA RoomForStep ==
  ASSUME mongoSteps \in Nat, mongoSteps < MaxMongoSteps
  PROVE  LET n == 2 * mongoSteps + 4
             k == mongoSteps + 1
         IN  /\ n \in Nat /\ k \in Nat /\ k >= 1 /\ 1 <= k /\ 4 <= n
             /\ n + 2 <= 2 * MaxDepth /\ k + 1 <= MaxDepth
             /\ n + 2 = 2 * (mongoSteps + 1) + 4 /\ k + 1 = (mongoSteps + 1) + 1
             /\ mongoSteps + 1 \in Nat /\ mongoSteps + 1 <= MaxMongoSteps
  BY DepthAssumption

LEMMA InitFilter == M!Init => FilterKept /\ M!NarrowsAndWidens
  <1> SUFFICES ASSUME M!Init PROVE FilterKept /\ M!NarrowsAndWidens
    OBVIOUS
  <1>1. mongoSteps = 0 /\ mongoPhase = "filter" /\ joined = "none"
    BY DEF M!Init
  <1>2. M!NarrowsAndWidens
    BY <1>1 DEF M!NarrowsAndWidens
  <1>3. mongoSteps \in Nat /\ mongoSteps <= MaxMongoSteps
    BY <1>1, DepthAssumption
  <1>4. CASE /\ doc = M!Doc(<<>>) /\ reached = M!Documents /\ pinned = FALSE /\ hidden = FALSE
             /\ mongoNeed = M!PermissionReadOnly /\ mongoSeen = mongoNeed
    <2>1. FilterIs(doc, 4, 1) /\ ~Runs(doc) /\ M!FilterIsTautology(doc)
      BY <1>4, EmptyHolds
    <2>2. FilterIs(doc, 2 * 0 + 4, 0 + 1)
      BY <2>1
    <2>3. FilterHolds(doc, 0, reached, pinned, hidden, mongoSeen)
      BY <1>4, <2>1, <2>2 DEF FilterHolds
    <2>4. QED
      BY <1>1, <1>2, <1>3, <1>4, <2>3 DEF FilterKept, NothingHides
  <1>5. ASSUME NEW c \in M!Clauses,
               doc = M!One(c), reached = c.docs, pinned = c.pinned, hidden = c.hides,
               mongoNeed = M!Cost(c), mongoSeen = mongoNeed
        PROVE  FilterKept /\ M!NarrowsAndWidens
    <2>1. FilterIs(doc, 4, 1) /\ (Runs(doc) <=> c.code) /\ (M!FilterIsTautology(doc) <=> Loose(c))
      BY <1>5, OneHolds
    <2>2. FilterIs(doc, 2 * 0 + 4, 0 + 1)
      BY <2>1
    <2>3. (~Loose(c) => c.hides \/ Missing \notin c.docs) /\ (c.pinned => ~Loose(c) /\ ~c.hides)
      BY ClausesAreGood DEF ClauseIsGood
    <2>4. mongoSeen = IF Runs(doc) THEN M!PermissionFull ELSE M!PermissionReadOnly
      BY <1>5, <2>1
      DEF M!Cost, M!PermissionFull, M!PermissionReadOnly
    <2>5. FilterHolds(doc, 0, reached, pinned, hidden, mongoSeen)
      BY <1>5, <2>1, <2>2, <2>3, <2>4 DEF FilterHolds
    <2>6. doc.fields # <<>>
      BY <1>5 DEF M!One, M!Doc
    <2>7. QED
      BY <1>1, <1>2, <1>3, <1>5, <2>3, <2>5, <2>6 DEF FilterKept, NothingHides
  <1>6. QED
    BY <1>4, <1>5
    DEF M!Init

LEMMA AddFieldStep ==
  ASSUME FilterKept, NEW c \in M!Clauses, M!AddField(c)
  PROVE  FilterKept' /\ M!NarrowsAndWidens'
  <1> DEFINE n == 2 * mongoSteps + 4
             k == mongoSteps + 1
             e == c.field
             fields == doc.fields
             g == M!Doc(Append(fields, e))
  <1>1. /\ mongoSteps < MaxMongoSteps /\ mongoSteps' = mongoSteps + 1
        /\ mongoFloor' = ~M!FilterIsTautology(doc) /\ joined' = "and"
        /\ mongoSeen' = M!Worst(mongoSeen, M!Cost(c)) /\ doc' = g
        /\ mongoNeed' = M!Worst(mongoNeed, M!Cost(c)) /\ hidden' = (hidden \/ c.hides)
        /\ reached' = reached \cap c.docs /\ pinned' = (c.pinned /\ (pinned \/ fields = <<>>))
    BY DEF M!AddField, M!Combine, M!Asks, M!Grow
  <1>2. /\ FilterIs(doc, n, k)
        /\ ~M!FilterIsTautology(doc) => hidden \/ Missing \notin reached
        /\ pinned => ~M!FilterIsTautology(doc)
        /\ mongoSeen = IF Runs(doc) THEN M!PermissionFull ELSE M!PermissionReadOnly
    BY DEF FilterKept, FilterHolds
  <1>3. /\ Simple(e) /\ Quiet(e.value, 3) /\ (c.code <=> Runs(e.value))
        /\ (~Loose(c) => c.hides \/ Missing \notin c.docs) /\ (c.pinned => ~Loose(c) /\ ~c.hides)
    BY ClausesAreGood DEF ClauseIsGood
  <1>4. /\ n \in Nat /\ n - 1 \in Nat /\ 3 <= n - 1 /\ n - 1 <= 2 * MaxDepth /\ (n - 1) + 1 = n
        /\ n <= 2 * MaxDepth /\ k \in Nat /\ k >= 1 /\ k <= MaxDepth
        /\ n <= 2 * (mongoSteps + 1) + 4 /\ k <= (mongoSteps + 1) + 1
        /\ mongoSteps + 1 \in Nat /\ mongoSteps + 1 <= MaxMongoSteps
    BY <1>1, DepthAssumption DEF FilterKept
  <1> DEFINE m == n - 1
  <1>5. doc = M!Doc(fields) /\ IsListed(fields) /\ Quiet(doc, m + 1) /\ Settled(doc, k)
    BY <1>2, <1>4 DEF FilterIs
  <1>6. Quiet(e.value, m)
    BY <1>3, <1>4, QuietMore
  <1> HIDE DEF n, k, e, fields
  <1>7. m \in Nat /\ m <= 2 * MaxDepth /\ m + 1 = n
    BY <1>4
  <1> HIDE DEF m
  <1>8. Quiet(g, m + 1) /\ (Runs(g) <=> Runs(M!Doc(fields)) \/ Runs(e.value))
    BY <1>3, <1>5, <1>6, <1>7, MoreFields
  <1>9. Shallow(doc) /\ Shallow(g)
    BY <1>4, <1>5, <1>8, <1>7, NestedIsShallow DEF Quiet
  <1>10. /\ M!FilterIsTautology(g) <=> M!FilterIsTautology(doc) /\ M!ClauseIsTautology(e, {})
        /\ Settled(g, k)
    BY <1>3, <1>4, <1>5, <1>9, MoreVerdict
  <1>11. M!FilterIsTautology(g) <=> M!FilterIsTautology(doc) /\ Loose(c)
    BY <1>10 DEF Loose, e
  <1>12. g = M!Doc(g.fields) /\ IsListed(g.fields)
    BY <1>5, MoreOf DEF M!Doc
  <1> HIDE DEF g
  <1>13. FilterIs(g, n, k)
    BY <1>8, <1>10, <1>12, <1>7 DEF FilterIs
  <1>14. FilterIs(g, 2 * (mongoSteps + 1) + 4, (mongoSteps + 1) + 1)
    <2> DEFINE n2 == 2 * (mongoSteps + 1) + 4
               k2 == (mongoSteps + 1) + 1
    <2>1. n2 \in Nat /\ k2 \in Nat /\ n <= n2 /\ k <= k2
      BY <1>4
    <2> HIDE DEF n2, k2
    <2>2. FilterIs(g, n2, k2)
      BY <1>4, <1>13, <2>1, FilterMore
    <2>3. QED
      BY <2>2 DEF n2, k2
  <1>15. mongoSeen' = IF Runs(g) THEN M!PermissionFull ELSE M!PermissionReadOnly
    BY <1>1, <1>2, <1>3, <1>5, <1>8
    DEF M!Worst, M!Cost, M!PermissionFull, M!PermissionReadOnly
  <1>16. FilterHolds(g, mongoSteps + 1, reached', pinned', hidden', mongoSeen')
    <2>1. ~M!FilterIsTautology(g) => hidden' \/ Missing \notin reached'
      BY <1>1, <1>2, <1>3, <1>11
    <2>2. pinned' => ~M!FilterIsTautology(g)
      BY <1>1, <1>3, <1>11
    <2>3. QED
      BY <1>14, <1>15, <2>1, <2>2 DEF FilterHolds
  <1>17. FilterKept'
    <2>1. g.fields # <<>>
      <3>1. Len(fields) \in Nat /\ DOMAIN g.fields = 1..(Len(fields) + 1)
        BY <1>5, MoreOf DEF g, M!Doc
      <3>2. 1 \in DOMAIN g.fields
        BY <3>1
      <3>3. QED
        BY <3>2
    <2>2. NothingHides'
      BY <1>1, <1>3 DEF FilterKept, NothingHides, fields
    <2>3. QED
      BY <1>1, <1>4, <1>16, <2>1, <2>2 DEF FilterKept
  <1>18. M!NarrowsAndWidens'
    BY <1>1, <1>11 DEF M!NarrowsAndWidens
  <1>19. QED
    BY <1>17, <1>18

LEMMA JoinStep ==
  ASSUME FilterKept, mongoSteps < MaxMongoSteps, NEW c \in M!Clauses,
         NEW how \in {"$and", "$or"},
         NEW l \in {M!List(<<doc, M!One(c)>>), M!List(<<M!One(c), doc>>)}
  PROVE  LET g == M!Doc(<<M!F(how, l)>>)
         IN  /\ FilterIs(g, 2 * (mongoSteps + 1) + 4, (mongoSteps + 1) + 1)
             /\ Runs(g) <=> Runs(doc) \/ c.code
             /\ M!FilterIsTautology(g)
                  <=> IF how = "$and" THEN M!FilterIsTautology(doc) /\ Loose(c)
                      ELSE M!FilterIsTautology(doc) \/ Loose(c)
  <1> DEFINE n == 2 * mongoSteps + 4
             k == mongoSteps + 1
             one == M!One(c)
             g == M!Doc(<<M!F(how, l)>>)
  <1>1. /\ n \in Nat /\ k \in Nat /\ 1 <= k /\ 4 <= n /\ n + 2 <= 2 * MaxDepth /\ k + 1 <= MaxDepth
        /\ n + 2 = 2 * (mongoSteps + 1) + 4 /\ k + 1 = (mongoSteps + 1) + 1
    BY RoomForStep DEF FilterKept
  <1>2. FilterIs(doc, n, k)
    BY DEF FilterKept, FilterHolds
  <1>3. FilterIs(one, 4, 1) /\ (Runs(one) <=> c.code) /\ (M!FilterIsTautology(one) <=> Loose(c))
    BY OneHolds
  <1> HIDE DEF n, k
  <1>4. FilterIs(one, n, k)
    BY <1>1, <1>3, FilterMore
  <1>5. g = OneField(Joined(how, doc, one)) \/ g = OneField(Joined(how, one, doc))
    BY DEF OneField, Joined
  <1> HIDE DEF g, one
  <1>6. CASE g = OneField(Joined(how, doc, one))
    <2>1. /\ FilterIs(g, n + 2, k + 1) /\ (Runs(g) <=> Runs(doc) \/ Runs(one))
          /\ M!FilterIsTautology(g)
               <=> IF how = "$and" THEN M!FilterIsTautology(doc) /\ M!FilterIsTautology(one)
                   ELSE M!FilterIsTautology(doc) \/ M!FilterIsTautology(one)
      BY <1>1, <1>2, <1>4, <1>6, JoinHolds
    <2>2. QED
      BY <1>1, <1>3, <2>1 DEF g
  <1>7. CASE g = OneField(Joined(how, one, doc))
    <2>1. /\ FilterIs(g, n + 2, k + 1) /\ (Runs(g) <=> Runs(one) \/ Runs(doc))
          /\ M!FilterIsTautology(g)
               <=> IF how = "$and" THEN M!FilterIsTautology(one) /\ M!FilterIsTautology(doc)
                   ELSE M!FilterIsTautology(one) \/ M!FilterIsTautology(doc)
      BY <1>1, <1>2, <1>4, <1>7, JoinHolds
    <2>2. QED
      BY <1>1, <1>3, <2>1 DEF g
  <1>8. QED
    BY <1>5, <1>6, <1>7

LEMMA KeptFacts ==
  ASSUME FilterKept
  PROVE  /\ mongoSteps \in Nat /\ mongoSteps <= MaxMongoSteps
         /\ FilterIs(doc, 2 * mongoSteps + 4, mongoSteps + 1)
         /\ ~M!FilterIsTautology(doc) => hidden \/ Missing \notin reached
         /\ pinned => ~M!FilterIsTautology(doc)
         /\ mongoSeen = IF Runs(doc) THEN M!PermissionFull ELSE M!PermissionReadOnly
         /\ NothingHides
  BY DEF FilterKept, FilterHolds

LEMMA ClauseFacts ==
  ASSUME NEW c \in M!Clauses
  PROVE  /\ c.docs \subseteq M!Documents /\ c.code \in BOOLEAN /\ c.hides \in BOOLEAN
         /\ ~Loose(c) => c.hides \/ Missing \notin c.docs
         /\ c.pinned => ~Loose(c) /\ ~c.hides
  BY ClausesAreGood DEF ClauseIsGood

LEMMA AndWithStep ==
  ASSUME FilterKept, NEW c \in M!Clauses, M!AndWith(c)
  PROVE  FilterKept' /\ M!NarrowsAndWidens'
  <1>1. /\ mongoSteps < MaxMongoSteps /\ mongoSteps' = mongoSteps + 1
        /\ mongoFloor' = ~M!FilterIsTautology(doc) /\ joined' = "and"
        /\ mongoSeen' = M!Worst(mongoSeen, M!Cost(c))
        /\ mongoNeed' = M!Worst(mongoNeed, M!Cost(c)) /\ hidden' = (hidden \/ c.hides)
        /\ reached' = reached \cap c.docs /\ pinned' = (pinned /\ c.pinned)
    BY DEF M!AndWith, M!Combine, M!Asks, M!Grow
  <1>2. PICK l \in {M!List(<<doc, M!One(c)>>), M!List(<<M!One(c), doc>>)} :
          doc' = M!Doc(<<M!F("$and", l)>>)
    BY DEF M!AndWith
  <1>3. /\ FilterIs(doc', 2 * (mongoSteps + 1) + 4, (mongoSteps + 1) + 1)
        /\ Runs(doc') <=> Runs(doc) \/ c.code
        /\ M!FilterIsTautology(doc') <=> M!FilterIsTautology(doc) /\ Loose(c)
    BY <1>1, <1>2, JoinStep
  <1>4. mongoSeen' = IF Runs(doc') THEN M!PermissionFull ELSE M!PermissionReadOnly
    BY <1>1, <1>3, KeptFacts DEF M!Worst, M!Cost, M!PermissionFull, M!PermissionReadOnly
  <1>5. /\ ~M!FilterIsTautology(doc') => hidden' \/ Missing \notin reached'
        /\ pinned' => ~M!FilterIsTautology(doc')
    BY <1>1, <1>3, KeptFacts, ClauseFacts
  <1>6. FilterHolds(doc', mongoSteps + 1, reached', pinned', hidden', mongoSeen')
    BY <1>3, <1>4, <1>5 DEF FilterHolds
  <1>7. FilterKept'
    <2>1. doc'.fields # <<>>
      BY <1>2 DEF M!Doc
    <2>2. NothingHides'
      BY <1>1, KeptFacts, ClauseFacts DEF NothingHides
    <2>3. QED
      BY <1>1, <1>6, <2>1, <2>2, KeptFacts, DepthAssumption DEF FilterKept
  <1>8. M!NarrowsAndWidens'
    BY <1>1, <1>3 DEF M!NarrowsAndWidens
  <1>9. QED
    BY <1>7, <1>8

LEMMA OrWithStep ==
  ASSUME FilterKept, NEW c \in M!Clauses, M!OrWith(c)
  PROVE  FilterKept' /\ M!NarrowsAndWidens'
  <1>1. /\ mongoSteps < MaxMongoSteps /\ mongoSteps' = mongoSteps + 1
        /\ mongoFloor' = ~M!FilterIsTautology(doc) /\ joined' = "or"
        /\ mongoSeen' = M!Worst(mongoSeen, M!Cost(c))
        /\ mongoNeed' = M!Worst(mongoNeed, M!Cost(c)) /\ hidden' = (hidden \/ c.hides)
        /\ reached' = reached \cup c.docs /\ pinned' = (pinned /\ c.pinned)
    BY DEF M!OrWith, M!Combine, M!Asks, M!Grow
  <1>2. PICK l \in {M!List(<<doc, M!One(c)>>), M!List(<<M!One(c), doc>>)} :
          doc' = M!Doc(<<M!F("$or", l)>>)
    BY DEF M!OrWith
  <1>3. /\ FilterIs(doc', 2 * (mongoSteps + 1) + 4, (mongoSteps + 1) + 1)
        /\ Runs(doc') <=> Runs(doc) \/ c.code
        /\ M!FilterIsTautology(doc') <=> M!FilterIsTautology(doc) \/ Loose(c)
    BY <1>1, <1>2, JoinStep
  <1>4. mongoSeen' = IF Runs(doc') THEN M!PermissionFull ELSE M!PermissionReadOnly
    BY <1>1, <1>3, KeptFacts DEF M!Worst, M!Cost, M!PermissionFull, M!PermissionReadOnly
  <1>5. /\ ~M!FilterIsTautology(doc') => hidden' \/ Missing \notin reached'
        /\ pinned' => ~M!FilterIsTautology(doc')
    BY <1>1, <1>3, KeptFacts, ClauseFacts
  <1>6. FilterHolds(doc', mongoSteps + 1, reached', pinned', hidden', mongoSeen')
    BY <1>3, <1>4, <1>5 DEF FilterHolds
  <1>7. FilterKept'
    <2>1. doc'.fields # <<>>
      BY <1>2 DEF M!Doc
    <2>2. NothingHides'
      BY <1>1, KeptFacts, ClauseFacts DEF NothingHides
    <2>3. QED
      BY <1>1, <1>6, <2>1, <2>2, KeptFacts, DepthAssumption DEF FilterKept
  <1>8. M!NarrowsAndWidens'
    BY <1>1, <1>3 DEF M!NarrowsAndWidens
  <1>9. QED
    BY <1>7, <1>8

LEMMA NorStep ==
  ASSUME FilterKept, M!Nor
  PROVE  FilterKept' /\ M!NarrowsAndWidens'
  <1>1. /\ mongoSteps < MaxMongoSteps /\ mongoSteps' = mongoSteps + 1
        /\ joined' = "nor" /\ mongoSeen' = M!Worst(mongoSeen, M!PermissionReadOnly)
        /\ mongoNeed' = M!Worst(mongoNeed, M!PermissionReadOnly)
        /\ (hidden' <=> hidden) /\ pinned' = FALSE
        /\ doc' = M!Doc(<<M!F("$nor", M!List(<<doc>>))>>)
    BY DEF M!Nor, M!Combine, M!Asks, M!Grow
  <1> DEFINE n == 2 * mongoSteps + 4
             k == mongoSteps + 1
  <1>2. /\ n \in Nat /\ k \in Nat /\ n + 2 <= 2 * MaxDepth /\ k + 1 <= MaxDepth
        /\ n + 2 = 2 * (mongoSteps + 1) + 4 /\ k + 1 = (mongoSteps + 1) + 1
    BY <1>1, KeptFacts, RoomForStep
  <1>3. FilterIs(doc, n, k)
    BY KeptFacts
  <1> HIDE DEF n, k
  <1>4. FilterIs(doc', n + 2, k + 1) /\ (Runs(doc') <=> Runs(doc)) /\ M!FilterIsTautology(doc')
    BY <1>1, <1>2, <1>3, NorHolds
  <1>5. mongoSeen' = IF Runs(doc') THEN M!PermissionFull ELSE M!PermissionReadOnly
    BY <1>1, <1>4, KeptFacts DEF M!Worst, M!PermissionFull, M!PermissionReadOnly
  <1>6. FilterHolds(doc', mongoSteps + 1, reached', pinned', hidden', mongoSeen')
    BY <1>1, <1>2, <1>4, <1>5 DEF FilterHolds
  <1>7. FilterKept'
    <2>1. doc'.fields # <<>>
      BY <1>1 DEF M!Doc
    <2>2. NothingHides'
      BY <1>1, KeptFacts DEF NothingHides
    <2>3. QED
      BY <1>1, <1>6, <2>1, <2>2, KeptFacts, DepthAssumption DEF FilterKept
  <1>8. M!NarrowsAndWidens'
    BY <1>1 DEF M!NarrowsAndWidens
  <1>9. QED
    BY <1>7, <1>8

-----------------------------------------------------------------------------
(* What explain wraps. *)

Opened(d) == IF M!Name(d) = "explain" THEN M!Wrapped(d) ELSE d

\* g is what is left of a command when each of n explains is taken off.
Unwraps(g, d, n) == g = [m \in 0..n |-> IF m = 0 THEN d ELSE Opened(g[m - 1])]

LEMMA UnwrappingExists == ASSUME NEW d, NEW n \in Nat PROVE \E g : Unwraps(g, d, n)
  <1> DEFINE S == {m \in Nat : \E g : Unwraps(g, d, m)}
  <1>1. 0 \in S
    <2> DEFINE g == [m \in 0..0 |-> d]
    <2>1. Unwraps(g, d, 0)
      BY DEF Unwraps
    <2>2. QED
      BY <2>1
  <1>2. ASSUME NEW m \in Nat, m \in S PROVE m + 1 \in S
    <2>1. PICK g : Unwraps(g, d, m)
      BY <1>2
    <2> DEFINE h == [i \in 0..(m + 1) |-> IF i = m + 1 THEN Opened(g[m]) ELSE g[i]]
    <2>2. ASSUME NEW i \in 0..(m + 1)
          PROVE h[i] = IF i = 0 THEN d ELSE Opened(h[i - 1])
      <3>1. CASE i = m + 1
        BY <3>1, h[i - 1] = g[m]
      <3>2. CASE i # m + 1
        <4>1. i \in 0..m /\ h[i] = g[i]
          BY <3>2
        <4>2. g[i] = IF i = 0 THEN d ELSE Opened(g[i - 1])
          BY <2>1, <4>1 DEF Unwraps
        <4>3. i # 0 => h[i - 1] = g[i - 1]
          BY <4>1
        <4>4. QED
          BY <4>1, <4>2, <4>3
      <3>3. QED
        BY <3>1, <3>2
    <2> HIDE DEF h
    <2>3. h = [i \in 0..(m + 1) |-> h[i]]
      BY DEF h
    <2>4. Unwraps(h, d, m + 1)
      BY <2>2, <2>3 DEF Unwraps
    <2>5. QED
      BY <2>4
  <1> HIDE DEF S
  <1>3. Nat \subseteq S
    BY <1>1, <1>2, SetInduction
  <1>4. QED
    BY <1>3 DEF S

LEMMA UnwrappingAgrees ==
  ASSUME NEW d, NEW n \in Nat, NEW m \in Nat, n <= m, NEW g, NEW h,
         Unwraps(g, d, n), Unwraps(h, d, m)
  PROVE  g[n] = h[n]
  <1> DEFINE S == {k \in Nat : k <= n => g[k] = h[k]}
  <1>1. 0 \in S
    BY DEF Unwraps
  <1>2. ASSUME NEW k \in Nat, k \in S PROVE k + 1 \in S
    <2>1. SUFFICES ASSUME k + 1 <= n PROVE g[k + 1] = h[k + 1]
      OBVIOUS
    <2>2. g[k] = h[k]
      BY <1>2, <2>1
    <2>3. g[k + 1] = Opened(g[k])
      BY <2>1 DEF Unwraps
    <2>4. h[k + 1] = Opened(h[k])
      BY <2>1 DEF Unwraps
    <2>5. QED
      BY <2>2, <2>3, <2>4
  <1> HIDE DEF S
  <1>3. Nat \subseteq S
    BY <1>1, <1>2, SetInduction
  <1>4. QED
    BY <1>3 DEF S

LEMMA UnwrappedUnwraps ==
  ASSUME NEW d, NEW n \in Nat, NEW g, Unwraps(g, d, n)
  PROVE  M!Unwrapped(d, n) = g[n]
  <1> DEFINE h == CHOOSE f : Unwraps(f, d, n)
  <1>1. M!Unwrapped(d, n) = h[n]
    BY DEF M!Unwrapped, Unwraps, Opened
  <1>2. Unwraps(h, d, n)
    OBVIOUS
  <1> HIDE DEF h
  <1>3. QED
    BY <1>1, <1>2, UnwrappingAgrees

LEMMA UnwrappedZero == ASSUME NEW d PROVE M!Unwrapped(d, 0) = d
  <1>1. PICK g : Unwraps(g, d, 0)
    BY UnwrappingExists
  <1>2. g[0] = d
    BY <1>1 DEF Unwraps
  <1>3. QED
    BY <1>1, <1>2, UnwrappedUnwraps

LEMMA UnwrappedNext ==
  ASSUME NEW d, NEW n \in Nat
  PROVE  M!Unwrapped(d, n + 1) = Opened(M!Unwrapped(d, n))
  <1>1. PICK h : Unwraps(h, d, n + 1)
    BY UnwrappingExists
  <1>2. PICK g : Unwraps(g, d, n)
    BY UnwrappingExists
  <1>3. M!Unwrapped(d, n) = g[n] /\ M!Unwrapped(d, n + 1) = h[n + 1]
    BY <1>1, <1>2, UnwrappedUnwraps
  <1>4. g[n] = h[n]
    BY <1>1, <1>2, UnwrappingAgrees
  <1>5. h[n + 1] = Opened(h[n])
    BY <1>1 DEF Unwraps
  <1>6. QED
    BY <1>3, <1>4, <1>5

\* The first explain may be taken off first.
LEMMA UnwrappedInner ==
  ASSUME NEW d, NEW n \in Nat PROVE M!Unwrapped(d, n + 1) = M!Unwrapped(Opened(d), n)
  <1> DEFINE S == {k \in Nat : M!Unwrapped(d, k + 1) = M!Unwrapped(Opened(d), k)}
  <1>1. 0 \in S
    <2>1. M!Unwrapped(d, 0 + 1) = Opened(d)
      BY UnwrappedZero, UnwrappedNext, 0 \in Nat
    <2>2. QED
      BY <2>1, UnwrappedZero
  <1>2. ASSUME NEW k \in Nat, k \in S PROVE k + 1 \in S
    <2>1. M!Unwrapped(d, (k + 1) + 1) = Opened(M!Unwrapped(d, k + 1))
      BY UnwrappedNext, k + 1 \in Nat
    <2>2. M!Unwrapped(Opened(d), k + 1) = Opened(M!Unwrapped(Opened(d), k))
      BY UnwrappedNext
    <2>3. QED
      BY <1>2, <2>1, <2>2
  <1> HIDE DEF S
  <1>3. Nat \subseteq S
    BY <1>1, <1>2, SetInduction
  <1>4. QED
    BY <1>3 DEF S

\* No explain is left when n are taken off.
Bottom(d, n) == M!Name(M!Unwrapped(d, n)) # "explain"

LEMMA BottomStays ==
  ASSUME NEW d, NEW n \in Nat, NEW m \in Nat, n <= m, Bottom(d, n)
  PROVE  M!Unwrapped(d, m) = M!Unwrapped(d, n) /\ Bottom(d, m)
  <1> DEFINE S == {k \in Nat : k >= n => M!Unwrapped(d, k) = M!Unwrapped(d, n)}
  <1>1. 0 \in S
    OBVIOUS
  <1>2. ASSUME NEW k \in Nat, k \in S PROVE k + 1 \in S
    <2>1. CASE k >= n
      <3>1. M!Unwrapped(d, k) = M!Unwrapped(d, n)
        BY <1>2, <2>1
      <3>2. M!Unwrapped(d, k + 1) = Opened(M!Unwrapped(d, k))
        BY UnwrappedNext
      <3>3. Opened(M!Unwrapped(d, n)) = M!Unwrapped(d, n)
        BY DEF Opened, Bottom
      <3>4. QED
        BY <3>1, <3>2, <3>3
    <2>2. CASE ~(k >= n)
      BY <2>2
    <2>3. QED
      BY <2>1, <2>2
  <1> HIDE DEF S
  <1>3. Nat \subseteq S
    BY <1>1, <1>2, SetInduction
  <1>4. QED
    BY <1>3 DEF S, Bottom

-----------------------------------------------------------------------------
(* The fields of a command. *)

\* Of n fields the one at i has a name.
OnlyAt(fields, n, i, key) ==
  /\ DOMAIN fields = 1..n
  /\ fields[i].key = key /\ \A j \in 1..n : j # i => fields[j].key # key

LEMMA FieldAt ==
  ASSUME NEW fields, NEW n \in Nat, NEW i \in 1..n, NEW key, OnlyAt(fields, n, i, key)
  PROVE  M!Field(M!Doc(fields), key) = fields[i].value
  <1>1. M!Doc(fields).fields = fields
    BY DEF M!Doc
  <1>2. i = CHOOSE k \in DOMAIN fields :
              fields[k].key = key /\ \A j \in 1..(k - 1) : fields[j].key # key
    <2>1. fields[i].key = key /\ \A j \in 1..(i - 1) : fields[j].key # key
      BY DEF OnlyAt
    <2>2. \A k \in DOMAIN fields : fields[k].key = key => k = i
      BY DEF OnlyAt
    <2>3. i \in DOMAIN fields
      BY DEF OnlyAt
    <2>4. QED
      BY <2>1, <2>2, <2>3
  <1>3. i \in DOMAIN fields /\ fields[i].key = key
    BY DEF OnlyAt
  <1>4. QED
    BY <1>1, <1>2, <1>3 DEF M!Field

LEMMA FieldAbsent ==
  ASSUME NEW fields, NEW key, \A j \in DOMAIN fields : fields[j].key # key
  PROVE  M!Field(M!Doc(fields), key) = M!Absent
  BY DEF M!Field, M!Doc

LEMMA OneKey ==
  ASSUME NEW k1, NEW v1 PROVE M!Field(M!Doc(<<M!F(k1, v1)>>), k1) = v1
  <1> DEFINE fields == <<M!F(k1, v1)>>
  <1>1. OnlyAt(fields, 1, 1, k1) /\ fields[1].value = v1
    BY DEF M!F, OnlyAt
  <1> HIDE DEF fields
  <1>2. M!Field(M!Doc(fields), k1) = fields[1].value
    BY <1>1, FieldAt
  <1>3. QED
    BY <1>1, <1>2 DEF fields

LEMMA TwoKeys ==
  ASSUME NEW k1, NEW k2, NEW v1, NEW v2, k1 # k2
  PROVE  /\ M!Field(M!Doc(<<M!F(k1, v1), M!F(k2, v2)>>), k1) = v1
         /\ M!Field(M!Doc(<<M!F(k1, v1), M!F(k2, v2)>>), k2) = v2
  <1> DEFINE fields == <<M!F(k1, v1), M!F(k2, v2)>>
  <1>1. /\ OnlyAt(fields, 2, 1, k1) /\ OnlyAt(fields, 2, 2, k2)
        /\ fields[1].value = v1 /\ fields[2].value = v2
    BY DEF M!F, OnlyAt
  <1> HIDE DEF fields
  <1>2. M!Field(M!Doc(fields), k1) = fields[1].value
    BY <1>1, FieldAt
  <1>3. M!Field(M!Doc(fields), k2) = fields[2].value
    BY <1>1, FieldAt
  <1>4. QED
    BY <1>1, <1>2, <1>3 DEF fields

LEMMA NoSuchKey ==
  ASSUME NEW k1, NEW k2, NEW v1, NEW v2, NEW key, key \notin {k1, k2}
  PROVE  M!Field(M!Doc(<<M!F(k1, v1), M!F(k2, v2)>>), key) = M!Absent
  <1> DEFINE fields == <<M!F(k1, v1), M!F(k2, v2)>>
  <1>1. \A j \in DOMAIN fields : fields[j].key # key
    BY DEF M!F
  <1> HIDE DEF fields
  <1>2. M!Field(M!Doc(fields), key) = M!Absent
    BY <1>1, FieldAbsent
  <1>3. QED
    BY <1>2 DEF fields

LEMMA ThreeKeys ==
  ASSUME NEW k1, NEW k2, NEW k3, NEW v1, NEW v2, NEW v3, k1 # k2, k1 # k3, k2 # k3
  PROVE  /\ M!Field(M!Doc(<<M!F(k1, v1), M!F(k2, v2), M!F(k3, v3)>>), k2) = v2
         /\ M!Field(M!Doc(<<M!F(k1, v1), M!F(k2, v2), M!F(k3, v3)>>), k3) = v3
  <1> DEFINE fields == <<M!F(k1, v1), M!F(k2, v2), M!F(k3, v3)>>
  <1>1. /\ OnlyAt(fields, 3, 2, k2) /\ OnlyAt(fields, 3, 3, k3)
        /\ fields[2].value = v2 /\ fields[3].value = v3
    BY DEF M!F, OnlyAt
  <1> HIDE DEF fields
  <1>2. M!Field(M!Doc(fields), k2) = fields[2].value
    BY <1>1, FieldAt
  <1>3. M!Field(M!Doc(fields), k3) = fields[3].value
    BY <1>1, FieldAt
  <1>4. QED
    BY <1>1, <1>2, <1>3 DEF fields

LEMMA NoSuchKeyOfThree ==
  ASSUME NEW k1, NEW k2, NEW k3, NEW v1, NEW v2, NEW v3, NEW key, key \notin {k1, k2, k3}
  PROVE  M!Field(M!Doc(<<M!F(k1, v1), M!F(k2, v2), M!F(k3, v3)>>), key) = M!Absent
  <1> DEFINE fields == <<M!F(k1, v1), M!F(k2, v2), M!F(k3, v3)>>
  <1>1. \A j \in DOMAIN fields : fields[j].key # key
    BY DEF M!F
  <1> HIDE DEF fields
  <1>2. M!Field(M!Doc(fields), key) = M!Absent
    BY <1>1, FieldAbsent
  <1>3. QED
    BY <1>2 DEF fields

-----------------------------------------------------------------------------
(* The level of a command that no explain wraps. *)

LevelOf(d) == M!RequiredPermission(M!AnalyzeMongo(d))

LEMMA PlainLevel ==
  ASSUME NEW fields, fields # <<>>, fields[1].key # "explain"
  PROVE  LET d == M!Doc(fields)
         IN  /\ Bottom(d, 0) /\ d.type = "doc" /\ d.fields = fields /\ M!Name(d) = fields[1].key
             /\ LevelOf(d) = IF Runs(d) THEN M!PermissionFull
                             ELSE M!RequiredPermission(M!AnalyzeCommand(d, fields[1].key))
  <1> DEFINE d == M!Doc(fields)
  <1>1. d.type = "doc" /\ d.fields = fields /\ M!Name(d) = fields[1].key
    BY DEF M!Doc, M!Name
  <1> HIDE DEF d
  <1>2. M!Unwrapped(d, 0) = d
    BY UnwrappedZero
  <1>3. Bottom(d, 0)
    BY <1>1, <1>2 DEF Bottom
  <1>4. M!Explained(d) = d
    BY <1>2, <1>3, BottomStays, Depths DEF M!Explained
  <1>5. LevelOf(d) = IF Runs(d) THEN M!PermissionFull
                     ELSE M!RequiredPermission(M!AnalyzeCommand(d, fields[1].key))
    BY <1>1, <1>4
    DEF LevelOf, M!AnalyzeMongo, Runs, M!RequiredPermission, M!Bounded
  <1>6. QED
    BY <1>1, <1>3, <1>5 DEF d

-----------------------------------------------------------------------------
(* The commands that list their entries. *)

ListName(name) == IF name = "update" THEN "updates" ELSE "deletes"

Entries(name, items) ==
  M!Doc(<<M!F(name, M!Null), M!F(ListName(name), M!List(items))>>)

\* An entry that any level but full is too low for.
Fatal(name, item) == Runs(item) \/ M!EntryUnbounded(name, item)

LEMMA EntriesFound ==
  ASSUME NEW name \in {"delete", "update"}, NEW items, Nested(M!List(items), 2 * MaxDepth)
  PROVE  Runs(Entries(name, items)) <=> \E i \in DOMAIN items : Runs(items[i])
  <1> DEFINE l == M!List(items)
             fields == <<M!F(name, M!Null), M!F(ListName(name), l)>>
  <1>1. /\ DOMAIN fields = {1, 2} /\ fields[1].key = name /\ fields[1].value = M!Null
        /\ fields[2].key = ListName(name) /\ fields[2].value = l
    BY DEF M!F
  <1>2. Shallow(l)
    BY DEF Shallow
  <1>3. \A i \in DOMAIN items : items[i] \in M!Children(l)
    BY ChildrenOfList
  <1> HIDE DEF l, fields
  <1>4. \A i \in DOMAIN items : Shallow(items[i])
    BY <1>2, <1>3, ShallowChild
  <1>5. Leaf(M!Null)
    BY Leaves
  <1>6. Shallow(M!Null) /\ ~Runs(M!Null)
    BY <1>5, LeafNested, LeafFinds, Depths, NestedIsShallow DEF Runs
  <1>7. \A i \in DOMAIN fields : Shallow(fields[i].value)
    BY <1>1, <1>2, <1>6
  <1>8. Runs(M!Doc(fields))
        <=> \E i \in DOMAIN fields : fields[i].key \in M!CodeOperators \/ Runs(fields[i].value)
    BY <1>7, DocFinds DEF Runs
  <1>9. name \notin M!CodeOperators /\ ListName(name) \notin M!CodeOperators
    BY DEF ListName, M!CodeOperators
  <1>10. Runs(M!Doc(fields)) <=> Runs(l)
    BY <1>1, <1>6, <1>8, <1>9
  <1>11. Runs(l) <=> \E i \in DOMAIN items : Runs(items[i])
    BY <1>4, ListFinds DEF Runs, l
  <1>12. Entries(name, items) = M!Doc(fields)
    BY DEF Entries, fields, l
  <1>13. QED
    BY <1>10, <1>11, <1>12

LEMMA EntriesLevel ==
  ASSUME NEW name \in {"delete", "update"}, NEW items, items # <<>>,
         Nested(M!List(items), 2 * MaxDepth)
  PROVE  /\ Bottom(Entries(name, items), 0)
         /\ LevelOf(Entries(name, items))
              = IF \E i \in DOMAIN items : Fatal(name, items[i])
                THEN M!PermissionFull ELSE M!PermissionSafeWrite
  <1> DEFINE l == M!List(items)
             fields == <<M!F(name, M!Null), M!F(ListName(name), l)>>
             d == M!Doc(fields)
  <1>1. fields # <<>> /\ fields[1].key = name /\ name # "explain"
    BY DEF M!F
  <1>2. M!Field(d, ListName(name)) = l
    <2>1. name # ListName(name)
      BY DEF ListName
    <2>2. QED
      BY <2>1, TwoKeys
  <1>3. l.type = "list" /\ l.items = items
    BY DEF M!List
  <1>4. d = Entries(name, items)
    BY DEF Entries
  <1> HIDE DEF l, fields
  <1>5. /\ Bottom(d, 0) /\ d.fields = fields
        /\ LevelOf(d) = IF Runs(d) THEN M!PermissionFull
                        ELSE M!RequiredPermission(M!AnalyzeCommand(d, name))
    BY <1>1, PlainLevel
  <1> HIDE DEF d
  <1>6. M!AnalyzeCommand(d, name) = M!WriteReach(d, name)
    BY <1>1, <1>5 DEF M!AnalyzeCommand, M!ReadCommands, M!WriteCommands, M!SchemaCommands, M!SessionCommands
  <1>7. M!WriteReach(d, name)
        = IF \E i \in DOMAIN items : M!EntryUnbounded(name, items[i])
          THEN M!Unbounded("write") ELSE M!Bounded("write")
    <2>1. M!Field(d, IF name = "update" THEN "updates" ELSE "deletes") = l
      BY <1>2 DEF ListName
    <2>2. CASE name = "update"
      BY <1>3, <2>1, <2>2 DEF M!WriteReach, M!AnyEntryUnbounded
    <2>3. CASE name = "delete"
      BY <1>3, <2>1, <2>3 DEF M!WriteReach, M!AnyEntryUnbounded
    <2>4. QED
      BY <2>2, <2>3
  <1>8. M!RequiredPermission(M!AnalyzeCommand(d, name))
        = IF \E i \in DOMAIN items : M!EntryUnbounded(name, items[i])
          THEN M!PermissionFull ELSE M!PermissionSafeWrite
    BY <1>6, <1>7 DEF M!RequiredPermission, M!Unbounded, M!Bounded
  <1>9. Runs(d) <=> \E i \in DOMAIN items : Runs(items[i])
    BY <1>4, EntriesFound
  <1>10. QED
    BY <1>4, <1>5, <1>8, <1>9 DEF Fatal

\* An entry: a filter, and what stands behind it.
LEMMA EntryOfOne ==
  ASSUME NEW f, f.type = "doc", NEW n \in Nat, n <= 2 * MaxDepth, Quiet(f, n)
  PROVE  LET e == M!Doc(<<M!F("q", f)>>)
         IN  Quiet(e, n + 1) /\ (Fatal("delete", e) <=> Runs(f) \/ M!FilterIsTautology(f))
  <1> DEFINE e == M!Doc(<<M!F("q", f)>>)
  <1>1. Plain("q")
    BY DEF Plain, M!CodeOperators, M!WriteStages
  <1>2. Quiet(e, n + 1) /\ (Runs(e) <=> Runs(f))
    BY <1>1, QuietDoc
  <1>3. M!Field(e, "q") = f
    BY OneKey
  <1>4. e.type = "doc"
    BY DEF M!Doc
  <1> HIDE DEF e
  <1>5. M!EntryUnbounded("delete", e) <=> M!FilterIsTautology(f)
    BY <1>3, <1>4 DEF M!EntryUnbounded, M!AsDoc
  <1>6. QED
    BY <1>2, <1>5 DEF Fatal, e

LEMMA EntryOfTwo ==
  ASSUME NEW f, f.type = "doc", NEW n \in Nat, n <= 2 * MaxDepth, Quiet(f, n),
         NEW u, Quiet(u, n), ~Runs(u), NEW name \in {"delete", "update"}
  PROVE  LET e == M!Doc(<<M!F("q", f), M!F("u", u)>>)
         IN  /\ Quiet(e, n + 1)
             /\ Runs(e) <=> Runs(f)
             /\ Fatal(name, e) <=> \/ Runs(f) \/ M!FilterIsTautology(f)
                                   \/ (name = "update" /\ u.type = "list")
  <1> DEFINE e == M!Doc(<<M!F("q", f), M!F("u", u)>>)
  <1>1. Plain("q") /\ Plain("u")
    BY DEF Plain, M!CodeOperators, M!WriteStages
  <1>2. Quiet(e, n + 1) /\ (Runs(e) <=> Runs(f))
    BY <1>1, QuietDocOfTwo
  <1>3. M!Field(e, "q") = f /\ M!Field(e, "u") = u /\ M!Field(e, "upsert") = M!Absent
    BY TwoKeys, NoSuchKey
  <1>4. e.type = "doc" /\ ~M!IsTrue(M!Absent)
    BY DEF M!Doc, M!IsTrue, M!Absent, M!Flag
  <1> HIDE DEF e
  <1>5. M!EntryUnbounded(name, e)
        <=> M!FilterIsTautology(f) \/ (name = "update" /\ u.type = "list")
    <2>1. M!AsDoc(M!Field(e, "q")) = f /\ ~M!IsTrue(M!Field(e, "upsert"))
      BY <1>3, <1>4 DEF M!AsDoc
    <2>2. QED
      BY <1>3, <1>4, <2>1 DEF M!EntryUnbounded
  <1>6. Fatal(name, e) <=> Runs(f) \/ M!FilterIsTautology(f) \/ (name = "update" /\ u.type = "list")
    BY <1>2, <1>5 DEF Fatal
  <1>7. QED
    BY <1>2, <1>6 DEF e

LEMMA EntryOfThree ==
  ASSUME NEW f, f.type = "doc", NEW n \in Nat, n <= 2 * MaxDepth, Quiet(f, n), n >= 1,
         NEW u, Quiet(u, n)
  PROVE  LET e == M!Doc(<<M!F("q", f), M!F("u", u), M!F("upsert", M!Flag(TRUE))>>)
         IN  Quiet(e, n + 1) /\ Fatal("update", e)
  <1> DEFINE t == M!Flag(TRUE)
             e == M!Doc(<<M!F("q", f), M!F("u", u), M!F("upsert", t)>>)
  <1>1. Plain("q") /\ Plain("u") /\ Plain("upsert")
    BY DEF Plain, M!CodeOperators, M!WriteStages
  <1>2. Leaf(t)
    BY DEF Leaf, M!Flag
  <1>3. M!IsTrue(t)
    BY DEF M!IsTrue
  <1> HIDE DEF t
  <1>4. Quiet(t, n)
    BY <1>2, QuietLeaf, QuietMore
  <1>5. Quiet(e, n + 1)
    BY <1>1, <1>4, QuietDocOfThree
  <1>6. M!Field(e, "upsert") = t
    BY ThreeKeys
  <1> HIDE DEF e
  <1>7. M!EntryUnbounded("update", e)
    BY <1>3, <1>6 DEF M!EntryUnbounded
  <1>8. QED
    BY <1>5, <1>7 DEF Fatal, e, t

-----------------------------------------------------------------------------
(* The command. *)

\* A command that lists its entries.
Listing(d) ==
  LET items == d.fields[2].value.items
  IN  d = Entries(d.fields[1].key, items) /\ IsListed(items) /\ items # <<>>

\* What a command needs, and how it is gated.
Gated(level, wants, pins) ==
  /\ wants \in 0..2 /\ level \in 0..2
  /\ level >= wants
  /\ pins => level = wants

\* What is kept of a command d made in some steps.
CommandHolds(d, steps, wants, pins) ==
  /\ d.type = "doc" /\ d.fields # <<>>
  /\ Nested(d, 2 * steps + 5) /\ Bottom(d, steps)
  /\ d.fields[1].key \in {"delete", "update"} => Listing(d)
  /\ Gated(LevelOf(d), wants, pins)

CommandKept ==
  /\ mongoSteps \in Nat /\ mongoSteps <= MaxMongoSteps
  /\ CommandHolds(doc, mongoSteps, mongoSeen, pinned)
  /\ NothingHides

LEMMA GatedWorst ==
  ASSUME NEW l, NEW n, NEW m \in 0..2, NEW k \in 0..2, NEW p, NEW q,
         Gated(l, n, p), m >= k, q => m = k
  PROVE  Gated(M!Worst(l, m), M!Worst(n, k), p /\ q)
  BY DEF Gated, M!Worst

LEMMA LevelIs == M!Level = LevelOf(doc)
  BY DEF M!Level, LevelOf

LEMMA KeptIsGated == CommandKept => M!GatedAt(M!Level)
  BY LevelIs
  DEF CommandKept, CommandHolds, Gated, NothingHides, M!GatedAt, M!CoversReach, M!ExactIfPinned

LEMMA ExplainStep == ASSUME CommandKept, M!Explain PROVE CommandKept'
  <1> DEFINE d == M!Doc(<<M!F("explain", doc)>>)
             s == mongoSteps
  <1>1. /\ s < MaxMongoSteps /\ mongoSteps' = s + 1 /\ doc' = d
        /\ mongoSeen' = mongoSeen /\ pinned' = pinned
        /\ mongoNeed' = mongoNeed /\ hidden' = hidden
    BY DEF M!Explain, M!Grow
  <1>2. /\ s \in Nat /\ doc.type = "doc" /\ Nested(doc, 2 * s + 5) /\ Bottom(doc, s)
        /\ Gated(LevelOf(doc), mongoSeen, pinned)
    BY DEF CommandKept, CommandHolds
  <1> HIDE DEF s
  <1>3. /\ 2 * s + 5 \in Nat /\ 2 * s + 5 <= 2 * MaxDepth /\ (2 * s + 5) + 1 \in Nat
        /\ (2 * s + 5) + 1 <= 2 * (s + 1) + 5 /\ 2 * (s + 1) + 5 \in Nat
        /\ s + 1 \in Nat /\ s + 1 <= MaxMongoSteps /\ s + 1 <= MaxDepth
        /\ MaxDepth - 1 \in Nat /\ (MaxDepth - 1) + 1 = MaxDepth /\ s <= MaxDepth - 1 /\ s <= MaxDepth
    BY <1>1, <1>2, DepthAssumption
  <1> DEFINE fields == <<M!F("explain", doc)>>
  <1>4. /\ DOMAIN fields = {1} /\ fields[1].key = "explain" /\ fields[1].value = doc
        /\ d.type = "doc" /\ d.fields = fields /\ fields # <<>>
    BY DEF M!F, M!Doc
  <1>5. d = M!Doc(fields)
    OBVIOUS
  <1> HIDE DEF d, fields
  <1>6. Opened(d) = doc
    BY <1>2, <1>4 DEF Opened, M!Name, M!Wrapped, M!AsDoc
  <1>7. \A n \in Nat : M!Unwrapped(d, n + 1) = M!Unwrapped(doc, n)
    BY <1>6, UnwrappedInner
  <1>8. Bottom(d, s + 1)
    BY <1>2, <1>7 DEF Bottom
  <1>9. M!Explained(d) = M!Explained(doc)
    <2>1. M!Unwrapped(d, MaxDepth) = M!Unwrapped(doc, MaxDepth - 1)
      BY <1>3, <1>7
    <2>2. M!Unwrapped(doc, MaxDepth - 1) = M!Unwrapped(doc, s)
      BY <1>2, <1>3, BottomStays
    <2>3. M!Unwrapped(doc, MaxDepth) = M!Unwrapped(doc, s)
      BY <1>2, <1>3, BottomStays, Depths
    <2>4. QED
      BY <2>1, <2>2, <2>3 DEF M!Explained
  <1>10. Nested(d, (2 * s + 5) + 1)
    BY <1>2, <1>3, <1>4, <1>5, DocNested
  <1>11. Nested(d, 2 * (s + 1) + 5)
    BY <1>3, <1>10, NestedDeeper
  <1>12. Runs(d) <=> Runs(doc)
    <2>1. Shallow(doc)
      BY <1>2, <1>3, NestedIsShallow
    <2>2. Runs(d) <=> "explain" \in M!CodeOperators \/ Runs(doc)
      BY <1>4, <1>5, <2>1, DocFinds DEF Runs
    <2>3. QED
      BY <2>2 DEF M!CodeOperators
  <1>13. LevelOf(d) = LevelOf(doc)
    BY <1>9, <1>12 DEF LevelOf, M!AnalyzeMongo, Runs
  <1>14. CommandHolds(d, s + 1, mongoSeen, pinned)
    BY <1>2, <1>4, <1>8, <1>11, <1>13 DEF CommandHolds
  <1>15. NothingHides'
    BY <1>1 DEF CommandKept, NothingHides
  <1>16. QED
    BY <1>1, <1>3, <1>14, <1>15 DEF CommandKept, s

-----------------------------------------------------------------------------
(* One entry more. *)

LEMMA ChangeIs == Quiet(M!Change, 2) /\ ~Runs(M!Change) /\ M!Change.type = "doc"
  <1>1. Leaf(M!Number(1)) /\ Plain("a")
    BY DEF Leaf, M!Number, Plain, M!CodeOperators, M!WriteStages
  <1>2. Quiet(M!Number(1), 1) /\ ~Runs(M!Number(1))
    BY <1>1, QuietLeaf
  <1>3. Quiet(M!Change, 1 + 1) /\ ~Runs(M!Change)
    BY <1>1, <1>2, Depths, QuietDoc DEF M!Change
  <1>4. M!Change.type = "doc"
    BY DEF M!Change, M!Doc
  <1>5. QED
    BY <1>3, <1>4

LEMMA PipelineIs == Quiet(M!Pipeline, 4) /\ ~Runs(M!Pipeline) /\ M!Pipeline.type = "list"
  <1> DEFINE stage == M!Doc(<<M!F("$set", M!Change)>>)
  <1>1. Plain("$set")
    BY DEF Plain, M!CodeOperators, M!WriteStages
  <1>2. Quiet(stage, 2 + 1) /\ ~Runs(stage)
    BY <1>1, ChangeIs, Depths, QuietDoc
  <1>3. Quiet(stage, 3)
    BY <1>2
  <1>4. M!Pipeline = M!List(<<stage>>)
    BY DEF M!Pipeline
  <1> HIDE DEF stage
  <1>5. 3 \in Nat /\ 3 <= 2 * MaxDepth
    BY Depths
  <1>6. Quiet(M!List(<<stage>>), 3 + 1) /\ (Runs(M!List(<<stage>>)) <=> Runs(stage))
    BY <1>3, <1>5, QuietList
  <1>7. QED
    BY <1>2, <1>4, <1>6 DEF M!List

LEMMA ItemsReplaced ==
  ASSUME NEW name, NEW items, NEW more
  PROVE  [Entries(name, items) EXCEPT !.fields[2].value.items = more] = Entries(name, more)
  BY DEF Entries, M!Doc, M!F, M!List

LEMMA EntriesNested ==
  ASSUME NEW name, NEW items, NEW n \in Nat
  PROVE  /\ Nested(Entries(name, items), n + 1) => Nested(M!List(items), n)
         /\ Nested(M!List(items), n) /\ n >= 1 => Nested(Entries(name, items), n + 1)
  <1> DEFINE l == M!List(items)
             fields == <<M!F(name, M!Null), M!F(ListName(name), l)>>
  <1>1. DOMAIN fields = {1, 2} /\ fields[1].value = M!Null /\ fields[2].value = l
    BY DEF M!F
  <1>2. Entries(name, items) = M!Doc(fields)
    BY DEF Entries
  <1> HIDE DEF fields, l
  <1>3. Nested(M!Doc(fields), n + 1) <=> \A i \in DOMAIN fields : Nested(fields[i].value, n)
    BY DocNested
  <1>4. Leaf(M!Null)
    BY Leaves
  <1>5. Nested(M!Null, 1)
    BY <1>4, LeafNested
  <1>6. n >= 1 => Nested(M!Null, n)
    BY <1>5, NestedDeeper
  <1>7. Nested(Entries(name, items), n + 1) <=> Nested(M!Null, n) /\ Nested(l, n)
    BY <1>1, <1>2, <1>3
  <1>8. QED
    BY <1>6, <1>7 DEF l

\* A list of entries is another one and an entry more.
EntryAdded(name, items, entry, more, n) ==
  /\ IsListed(more) /\ more # <<>> /\ Nested(M!List(more), n)
  /\ Bottom(Entries(name, more), 0)
  /\ LevelOf(Entries(name, more))
       = M!Worst(LevelOf(Entries(name, items)),
                 IF Fatal(name, entry) THEN M!PermissionFull ELSE M!PermissionSafeWrite)

LEMMA EntryAppended ==
  ASSUME NEW name \in {"delete", "update"}, NEW items, IsListed(items), items # <<>>, NEW entry,
         NEW n \in Nat, Nested(M!List(items), n + 1), Nested(entry, n), n + 1 <= 2 * MaxDepth
  PROVE  EntryAdded(name, items, entry, Append(items, entry), n + 1)
  <1> DEFINE more == Append(items, entry)
             l == Len(items)
  <1>1. /\ IsListed(more) /\ l \in Nat /\ DOMAIN items = 1..l /\ DOMAIN more = 1..(l + 1)
        /\ more[l + 1] = entry /\ \A i \in 1..l : more[i] = items[i]
    BY MoreOf
  <1> HIDE DEF more, l
  <1>2. 1..(l + 1) = 1..l \cup {l + 1}
    BY <1>1
  <1>3. more # <<>>
    BY <1>1, l + 1 \in 1..(l + 1)
  <1>4. \A i \in DOMAIN items : Nested(items[i], n)
    BY ListNested
  <1>5. \A i \in DOMAIN more : Nested(more[i], n)
    BY <1>1, <1>2, <1>4
  <1>6. Nested(M!List(more), n + 1)
    BY <1>5, ListNested
  <1>7. Nested(M!List(items), 2 * MaxDepth) /\ Nested(M!List(more), 2 * MaxDepth)
    BY <1>6, Depths, NestedDeeper
  <1>8. /\ Bottom(Entries(name, more), 0)
        /\ LevelOf(Entries(name, more))
             = IF \E i \in DOMAIN more : Fatal(name, more[i])
               THEN M!PermissionFull ELSE M!PermissionSafeWrite
    BY <1>3, <1>7, EntriesLevel
  <1>9. LevelOf(Entries(name, items))
          = IF \E i \in DOMAIN items : Fatal(name, items[i])
            THEN M!PermissionFull ELSE M!PermissionSafeWrite
    BY <1>7, EntriesLevel
  <1>10. (\E i \in DOMAIN more : Fatal(name, more[i]))
         <=> (\E i \in DOMAIN items : Fatal(name, items[i])) \/ Fatal(name, entry)
    BY <1>1, <1>2
  <1>11. LevelOf(Entries(name, more))
          = M!Worst(LevelOf(Entries(name, items)),
                    IF Fatal(name, entry) THEN M!PermissionFull ELSE M!PermissionSafeWrite)
    BY <1>8, <1>9, <1>10 DEF M!Worst, M!PermissionFull, M!PermissionSafeWrite
  <1>12. EntryAdded(name, items, entry, more, n + 1)
    BY <1>1, <1>3, <1>6, <1>8, <1>11 DEF EntryAdded
  <1>13. QED
    BY <1>12 DEF more

LEMMA AnotherEntryStep ==
  ASSUME CommandKept, NEW c \in M!Clauses, M!AnotherEntry(c)
  PROVE  CommandKept'
  <1> DEFINE s == mongoSteps
             name == doc.fields[1].key
             items == doc.fields[2].value.items
             one == M!One(c)
             entry == M!Doc(<<M!F("q", one), M!F("u", M!Change)>>)
             more == Append(items, entry)
             base == M!Worst(M!PermissionSafeWrite, M!Cost(c))
             all == c.docs = M!Documents
             level == IF all /\ ~c.hides THEN M!PermissionFull ELSE base
             whole == IF all THEN M!PermissionFull ELSE base
  <1>1. /\ s < MaxMongoSteps /\ mongoSteps' = s + 1 /\ name \in {"delete", "update"}
        /\ doc' = [doc EXCEPT !.fields[2].value.items = more]
        /\ mongoSeen' = M!Worst(mongoSeen, level) /\ pinned' = (pinned /\ c.pinned)
        /\ mongoNeed' = M!Worst(mongoNeed, whole) /\ hidden' = (hidden \/ c.hides)
    BY DEF M!AnotherEntry, M!Asks, M!Grow
  <1>2. /\ s \in Nat /\ Nested(doc, 2 * s + 5) /\ Listing(doc)
        /\ Gated(LevelOf(doc), mongoSeen, pinned)
    BY <1>1 DEF CommandKept, CommandHolds
  <1>3. doc = Entries(name, items) /\ IsListed(items) /\ items # <<>>
    BY <1>2 DEF Listing
  <1> HIDE DEF level, whole, base, all
  <1>4. doc' = Entries(name, more)
    <2>1. doc' = [doc EXCEPT !.fields[2].value.items = more] /\ doc = Entries(name, items)
      BY <1>1, <1>3
    <2> HIDE DEF name, items, more
    <2>2. [Entries(name, items) EXCEPT !.fields[2].value.items = more] = Entries(name, more)
      BY ItemsReplaced
    <2>3. QED
      BY <2>1, <2>2
  <1>5. /\ FilterIs(one, 4, 1) /\ (Runs(one) <=> c.code) /\ (M!FilterIsTautology(one) <=> Loose(c))
    BY OneHolds
  <1>6. one.type = "doc" /\ Quiet(one, 4)
    BY <1>5, DocIsDoc DEF FilterIs
  <1> HIDE DEF name, items, one, s
  <1>7. Quiet(entry, 4 + 1) /\ (Fatal(name, entry) <=> c.code \/ Loose(c))
    <2>1. Quiet(M!Change, 4)
      BY ChangeIs, QuietMore
    <2>2. M!Change.type # "list" /\ ~Runs(M!Change) /\ 4 <= 2 * MaxDepth /\ 4 \in Nat
      BY ChangeIs, Depths
    <2>3. Quiet(entry, 4 + 1)
          /\ (Fatal(name, entry) <=> Runs(one) \/ M!FilterIsTautology(one)
                                       \/ (name = "update" /\ M!Change.type = "list"))
      BY <1>1, <1>6, <2>1, <2>2, EntryOfTwo
    <2>4. QED
      BY <1>5, <2>2, <2>3
  <1> HIDE DEF entry
  <1>8. Nested(entry, 5)
    BY <1>7 DEF Quiet
  <1> DEFINE n == 2 * s + 5
  <1>9. /\ n \in Nat /\ n - 1 \in Nat /\ n - 1 <= n + 1 /\ n + 1 \in Nat /\ 5 <= n
        /\ n + 1 <= 2 * MaxDepth /\ (n + 1) + 1 = 2 * (s + 1) + 5 /\ (n - 1) + 1 = n /\ n + 1 >= 1
        /\ s + 1 \in Nat /\ s + 1 <= MaxMongoSteps
    <2>1. s \in Nat /\ s < MaxMongoSteps
      BY <1>1, <1>2
    <2>2. QED
      BY <2>1, DepthAssumption
  <1>10. Nested(doc, n)
    <2>1. Nested(doc, 2 * s + 5)
      BY <1>2
    <2>2. QED
      BY <2>1
  <1> HIDE DEF n, more
  <1>11. Nested(M!List(items), n - 1)
    BY <1>3, <1>9, <1>10, EntriesNested
  <1>12. Nested(M!List(items), n + 1) /\ Nested(entry, n)
    BY <1>8, <1>9, <1>11, NestedDeeper
  <1> DEFINE own == IF Fatal(name, entry) THEN M!PermissionFull ELSE M!PermissionSafeWrite
  <1>13. /\ IsListed(more) /\ more # <<>> /\ Nested(M!List(more), n + 1)
         /\ Bottom(doc', 0) /\ LevelOf(doc') = M!Worst(LevelOf(doc), own)
    <2>1. EntryAdded(name, items, entry, Append(items, entry), n + 1)
      BY <1>1, <1>3, <1>9, <1>12, EntryAppended
    <2>2. EntryAdded(name, items, entry, more, n + 1)
      BY <2>1 DEF more
    <2>3. QED
      BY <1>3, <1>4, <2>2 DEF EntryAdded, own
  <1>14. Nested(doc', 2 * (s + 1) + 5)
    BY <1>4, <1>9, <1>13, EntriesNested
  <1>15. Bottom(doc', s + 1)
    BY <1>9, <1>13, BottomStays
  <1>16. own \in 0..2 /\ level \in 0..2 /\ own >= level /\ (c.pinned => own = level)
    <2>1. all /\ ~c.hides => Loose(c)
      BY ClauseFacts, MissingIsDocument DEF all
    <2>2. c.pinned => ~Loose(c)
      BY ClauseFacts
    <2>3. base = IF c.code THEN M!PermissionFull ELSE M!PermissionSafeWrite
      BY ClauseFacts
      DEF base, M!Worst, M!Cost, M!PermissionFull, M!PermissionSafeWrite, M!PermissionReadOnly
    <2>4. QED
      BY <1>7, <2>1, <2>2, <2>3, ClauseFacts DEF level, M!PermissionFull, M!PermissionSafeWrite
  <1> HIDE DEF own
  <1>17. Gated(LevelOf(doc'), mongoSeen', pinned')
    BY <1>1, <1>2, <1>13, <1>16, GatedWorst
  <1>18. /\ doc'.type = "doc" /\ doc'.fields # <<>>
         /\ doc'.fields[1].key = name /\ doc'.fields[2].value.items = more
    BY <1>4 DEF Entries, M!Doc, M!F, M!List
  <1>19. Listing(doc')
    BY <1>4, <1>13, <1>18 DEF Listing
  <1>20. CommandHolds(doc', s + 1, mongoSeen', pinned')
    BY <1>14, <1>15, <1>17, <1>18, <1>19 DEF CommandHolds
  <1>21. NothingHides'
    <2>1. ~c.hides => level = whole
      BY DEF level, whole, all, base
    <2>2. QED
      BY <1>1, <2>1, ClauseFacts DEF CommandKept, NothingHides
  <1>22. QED
    BY <1>1, <1>9, <1>20, <1>21 DEF CommandKept

-----------------------------------------------------------------------------
(* A filter put into a command. *)

\* What the reach of a filter calls for, as far as it is seen.
Reach == IF reached = M!Documents /\ ~hidden THEN M!PermissionFull ELSE M!PermissionSafeWrite

LEMMA SubmitFacts ==
  ASSUME FilterKept, M!Submit, NEW n, n = 2 * mongoSteps + 4
  PROVE  /\ mongoSteps' = mongoSteps + 1 /\ mongoSteps + 1 \in Nat
         /\ mongoSteps + 1 <= MaxMongoSteps /\ pinned' = pinned /\ hidden' = hidden
         /\ n \in Nat /\ 4 <= n /\ n + 2 <= 2 * MaxDepth /\ n + 3 = 2 * (mongoSteps + 1) + 5
         /\ doc.type = "doc" /\ Quiet(doc, n)
         /\ mongoSeen = IF Runs(doc) THEN M!PermissionFull ELSE M!PermissionReadOnly
         /\ pinned => ~M!FilterIsTautology(doc)
         /\ Reach = M!PermissionFull \/ Reach = M!PermissionSafeWrite
         /\ ~M!FilterIsTautology(doc) => Reach = M!PermissionSafeWrite
  <1>1. /\ mongoSteps < MaxMongoSteps /\ mongoSteps' = mongoSteps + 1
        /\ pinned' = pinned /\ hidden' = hidden
    BY DEF M!Submit, M!Grow
  <1>2. /\ n \in Nat /\ 4 <= n /\ n + 2 <= 2 * MaxDepth /\ n + 3 = 2 * (mongoSteps + 1) + 5
        /\ mongoSteps + 1 \in Nat /\ mongoSteps + 1 <= MaxMongoSteps
    BY <1>1, KeptFacts, DepthAssumption
  <1>3. FilterIs(doc, n, mongoSteps + 1)
    BY KeptFacts
  <1>4. doc.type = "doc" /\ Quiet(doc, n)
    BY <1>3, DocIsDoc DEF FilterIs
  <1>5. ~M!FilterIsTautology(doc) => Reach = M!PermissionSafeWrite
    BY KeptFacts, MissingIsDocument DEF Reach
  <1>6. Reach = M!PermissionFull \/ Reach = M!PermissionSafeWrite
    BY DEF Reach
  <1>7. QED
    BY <1>1, <1>2, <1>4, <1>5, <1>6, KeptFacts

\* What a write asks for, one whose filter does not matter, and a read.
LEMMA AskedFacts ==
  ASSUME FilterKept, M!Submit
  PROVE  /\ M!Writes => mongoSeen' = M!Worst(mongoSeen, Reach) /\ NothingHides'
         /\ M!WritesAnything => mongoSeen' = M!PermissionFull /\ NothingHides'
         /\ UNCHANGED <<mongoNeed, mongoSeen>> => NothingHides'
  <1>1. pinned' = pinned /\ hidden' = hidden /\ NothingHides /\ mongoSeen \in 0..2
    BY SubmitFacts, KeptFacts DEF M!PermissionFull, M!PermissionReadOnly
  <1>2. ASSUME M!Writes PROVE mongoSeen' = M!Worst(mongoSeen, Reach) /\ NothingHides'
    BY <1>1, <1>2 DEF M!Writes, M!Asks, Reach, NothingHides
  <1>3. ASSUME M!WritesAnything PROVE mongoSeen' = M!PermissionFull /\ NothingHides'
    BY <1>1, <1>3 DEF M!WritesAnything, M!Asks, M!Worst, M!PermissionFull, NothingHides
  <1>4. QED
    BY <1>1, <1>2, <1>3 DEF NothingHides

\* The level of a write, when the analysis looks at its filter.
LEMMA WriteIsGated ==
  ASSUME FilterKept, M!Submit, NEW level,
         level = IF Runs(doc) \/ M!FilterIsTautology(doc) THEN M!PermissionFull ELSE M!PermissionSafeWrite
  PROVE  Gated(level, M!Worst(mongoSeen, Reach), pinned)
  BY SubmitFacts DEF Gated, M!Worst, M!PermissionFull, M!PermissionSafeWrite, M!PermissionReadOnly

LEMMA ReadIsGated ==
  ASSUME FilterKept, M!Submit, NEW level,
         level = IF Runs(doc) THEN M!PermissionFull ELSE M!PermissionReadOnly
  PROVE  Gated(level, mongoSeen, pinned)
  BY SubmitFacts DEF Gated, M!PermissionFull, M!PermissionReadOnly

LEMMA FullIsGated == ASSUME NEW pins PROVE Gated(M!PermissionFull, M!PermissionFull, pins)
  BY DEF Gated, M!PermissionFull

LEMMA CommandMade ==
  ASSUME FilterKept, M!Submit, NEW d, doc' = d, d.type = "doc", d.fields # <<>>,
         NEW n, n = 2 * mongoSteps + 4, Nested(d, n + 3), Bottom(d, 0),
         d.fields[1].key \in {"delete", "update"} => Listing(d),
         Gated(LevelOf(d), mongoSeen', pinned), NothingHides'
  PROVE  CommandKept'
  <1>1. /\ mongoSteps' = mongoSteps + 1 /\ mongoSteps + 1 \in Nat /\ 0 <= mongoSteps + 1
        /\ mongoSteps + 1 <= MaxMongoSteps /\ pinned' = pinned /\ n + 3 = 2 * (mongoSteps + 1) + 5
    BY SubmitFacts
  <1>2. Bottom(d, mongoSteps + 1)
    BY <1>1, BottomStays, 0 \in Nat
  <1>3. CommandHolds(d, mongoSteps + 1, mongoSeen', pinned')
    BY <1>1, <1>2 DEF CommandHolds
  <1>4. QED
    BY <1>1, <1>3 DEF CommandKept

LEMMA EntryMade ==
  ASSUME FilterKept, M!Submit, NEW name \in {"delete", "update"}, NEW e,
         NEW n, n = 2 * mongoSteps + 4, Quiet(e, n + 1), doc' = Entries(name, <<e>>),
         NEW level, level = IF Fatal(name, e) THEN M!PermissionFull ELSE M!PermissionSafeWrite,
         Gated(level, mongoSeen', pinned), NothingHides'
  PROVE  CommandKept'
  <1> DEFINE items == <<e>>
             d == Entries(name, items)
  <1>1. DOMAIN items = {1} /\ items[1] = e /\ items # <<>> /\ IsListed(items)
    BY DEF IsListed
  <1>2. d.type = "doc" /\ d.fields # <<>> /\ d.fields[1].key = name /\ d.fields[2].value.items = items
    BY DEF Entries, M!Doc, M!F, M!List
  <1>3. doc' = d
    OBVIOUS
  <1>4. /\ n \in Nat /\ n + 1 \in Nat /\ n + 2 \in Nat /\ (n + 1) + 1 = n + 2 /\ (n + 2) + 1 = n + 3
        /\ n + 2 <= 2 * MaxDepth /\ n + 2 >= 1
    BY SubmitFacts
  <1>5. d = Entries(name, items)
    OBVIOUS
  <1> HIDE DEF d, items
  <1>6. Nested(M!List(items), n + 2)
    BY <1>1, <1>4, ListNested DEF Quiet
  <1>7. Nested(d, n + 3)
    BY <1>4, <1>5, <1>6, EntriesNested
  <1>8. Nested(M!List(items), 2 * MaxDepth)
    BY <1>4, <1>6, Depths, NestedDeeper
  <1>9. /\ Bottom(d, 0)
        /\ LevelOf(d) = IF \E i \in DOMAIN items : Fatal(name, items[i])
                        THEN M!PermissionFull ELSE M!PermissionSafeWrite
    BY <1>1, <1>5, <1>8, EntriesLevel
  <1>10. LevelOf(d) = level
    BY <1>1, <1>9
  <1>11. Listing(d)
    BY <1>1, <1>2, <1>5 DEF Listing
  <1>12. QED
    BY <1>2, <1>3, <1>7, <1>9, <1>10, <1>11, CommandMade

LEMMA AppendedFields ==
  ASSUME NEW a, NEW b, NEW c
  PROVE  <<a>> \o <<>> = <<a>> /\ <<a>> \o <<b>> = <<a, b>> /\ <<a>> \o <<b, c>> = <<a, b, c>>
  <1> DEFINE S == {a, b, c}
  <1>1. /\ <<a>> \in Seq(S) /\ <<b>> \in Seq(S) /\ <<c>> \in Seq(S) /\ <<b, c>> \in Seq(S)
        /\ a \in S /\ b \in S /\ c \in S
    OBVIOUS
  <1>2. <<a, b>> \in Seq(S) /\ <<a, b, c>> \in Seq(S)
    OBVIOUS
  <1>3. <<a>> \o <<>> = <<a>>
    BY <1>1, ConcatEmptySeq
  <1>4. <<a>> \o <<b>> = <<a, b>>
    <2> DEFINE x == <<a>> \o <<b>>
               y == <<a, b>>
    <2>1. x \in Seq(S) /\ Len(x) = 2 /\ x[1] = a /\ x[2] = b
      <3>1. /\ x \in Seq(S) /\ Len(x) = Len(<<a>>) + Len(<<b>>)
            /\ \A i \in 1..Len(x) : x[i] = IF i <= Len(<<a>>) THEN <<a>>[i] ELSE <<b>>[i - Len(<<a>>)]
        BY <1>1, ConcatProperties
      <3>2. Len(<<a>>) = 1 /\ Len(<<b>>) = 1 /\ <<a>>[1] = a /\ <<b>>[1] = b /\ 2 - 1 = 1
        OBVIOUS
      <3> HIDE DEF x
      <3>3. QED
        BY <3>1, <3>2
    <2>2. y \in Seq(S) /\ Len(y) = 2 /\ y[1] = a /\ y[2] = b
      BY <1>2
    <2> HIDE DEF x, y, S
    <2>3. x = y
      BY <2>1, <2>2, SeqEqual
    <2>4. QED
      BY <2>3 DEF x, y
  <1>5. <<a>> \o <<b, c>> = <<a, b, c>>
    <2> DEFINE x == <<a>> \o <<b, c>>
               y == <<a, b, c>>
    <2>1. x \in Seq(S) /\ Len(x) = 3 /\ x[1] = a /\ x[2] = b /\ x[3] = c
      <3>1. /\ x \in Seq(S) /\ Len(x) = Len(<<a>>) + Len(<<b, c>>)
            /\ \A i \in 1..Len(x) : x[i] = IF i <= Len(<<a>>) THEN <<a>>[i] ELSE <<b, c>>[i - Len(<<a>>)]
        BY <1>1, ConcatProperties
      <3>2. /\ Len(<<a>>) = 1 /\ Len(<<b, c>>) = 2 /\ <<a>>[1] = a /\ <<b, c>>[1] = b /\ <<b, c>>[2] = c
            /\ 2 - 1 = 1 /\ 3 - 1 = 2
        OBVIOUS
      <3> HIDE DEF x
      <3>3. QED
        BY <3>1, <3>2
    <2>2. y \in Seq(S) /\ Len(y) = 3 /\ y[1] = a /\ y[2] = b /\ y[3] = c
      BY <1>2
    <2> HIDE DEF x, y, S
    <2>3. x = y
      BY <2>1, <2>2, SeqEqual
    <2>4. QED
      BY <2>3 DEF x, y
  <1>6. QED
    BY <1>3, <1>4, <1>5

LEMMA DeleteItStep == ASSUME FilterKept, M!DeleteIt PROVE CommandKept'
  <1> DEFINE e == M!Doc(<<M!F("q", doc)>>)
             n == 2 * mongoSteps + 4
             level == IF Fatal("delete", e) THEN M!PermissionFull ELSE M!PermissionSafeWrite
  <1>7. n = 2 * mongoSteps + 4
    OBVIOUS
  <1>1. M!Submit /\ mongoSeen' = M!Worst(mongoSeen, Reach) /\ NothingHides'
    BY AskedFacts DEF M!DeleteIt
  <1>2. doc' = Entries("delete", <<e>>)
    BY AppendedFields DEF M!DeleteIt, M!Entry, Entries, ListName
  <1> HIDE DEF n
  <1>3. doc.type = "doc" /\ Quiet(doc, n) /\ n \in Nat /\ n <= 2 * MaxDepth
    BY <1>1, <1>7, Depths, SubmitFacts
  <1>4. Quiet(e, n + 1) /\ (Fatal("delete", e) <=> Runs(doc) \/ M!FilterIsTautology(doc))
    BY <1>3, EntryOfOne
  <1> HIDE DEF e
  <1>5. Gated(level, mongoSeen', pinned)
    BY <1>1, <1>4, WriteIsGated
  <1>6. QED
    BY <1>1, <1>2, <1>4, <1>5, <1>7, EntryMade

LEMMA UpdateItStep == ASSUME FilterKept, M!UpdateIt PROVE CommandKept'
  <1> DEFINE n == 2 * mongoSteps + 4
  <1>1. M!Submit
    BY DEF M!UpdateIt
  <1>3. n = 2 * mongoSteps + 4
    OBVIOUS
  <1> HIDE DEF n
  <1>2. doc.type = "doc" /\ Quiet(doc, n) /\ n \in Nat /\ 4 <= n /\ 1 <= n /\ n <= 2 * MaxDepth
    BY <1>1, <1>3, Depths, SubmitFacts
  <1>4. Quiet(M!Change, n) /\ Quiet(M!Pipeline, n)
    BY <1>2, ChangeIs, PipelineIs, QuietMore
  <1>5. CASE /\ doc' = M!Doc(<<M!F("update", M!Null), M!F("updates", M!Entry(<<M!F("u", M!Change)>>))>>)
             /\ M!Writes
    <2> DEFINE e == M!Doc(<<M!F("q", doc), M!F("u", M!Change)>>)
               level == IF Fatal("update", e) THEN M!PermissionFull ELSE M!PermissionSafeWrite
    <2>1. doc' = Entries("update", <<e>>)
      BY <1>5, AppendedFields DEF M!Entry, Entries, ListName
    <2>2. Quiet(e, n + 1) /\ (Fatal("update", e) <=> Runs(doc) \/ M!FilterIsTautology(doc))
      BY <1>2, <1>4, ChangeIs, EntryOfTwo
    <2> HIDE DEF e
    <2>3. Gated(level, mongoSeen', pinned) /\ NothingHides'
      BY <1>1, <1>5, <2>2, AskedFacts, WriteIsGated
    <2>4. QED
      BY <1>1, <1>3, <2>1, <2>2, <2>3, EntryMade
  <1>6. CASE /\ doc' = M!Doc(<<M!F("update", M!Null), M!F("updates", M!Entry(<<M!F("u", M!Pipeline)>>))>>)
             /\ M!WritesAnything
    <2> DEFINE e == M!Doc(<<M!F("q", doc), M!F("u", M!Pipeline)>>)
               level == IF Fatal("update", e) THEN M!PermissionFull ELSE M!PermissionSafeWrite
    <2>1. doc' = Entries("update", <<e>>)
      BY <1>6, AppendedFields DEF M!Entry, Entries, ListName
    <2>2. Quiet(e, n + 1) /\ Fatal("update", e)
      BY <1>2, <1>4, PipelineIs, EntryOfTwo
    <2> HIDE DEF e
    <2>3. Gated(level, mongoSeen', pinned) /\ NothingHides'
      BY <1>1, <1>6, <2>2, AskedFacts, FullIsGated
    <2>4. QED
      BY <1>1, <1>3, <2>1, <2>2, <2>3, EntryMade
  <1>7. CASE /\ doc' = M!Doc(<<M!F("update", M!Null),
                               M!F("updates", M!Entry(<<M!F("u", M!Change), M!F("upsert", M!Flag(TRUE))>>))>>)
             /\ M!WritesAnything
    <2> DEFINE e == M!Doc(<<M!F("q", doc), M!F("u", M!Change), M!F("upsert", M!Flag(TRUE))>>)
               level == IF Fatal("update", e) THEN M!PermissionFull ELSE M!PermissionSafeWrite
    <2>1. doc' = Entries("update", <<e>>)
      <3>1. <<M!F("q", doc)>> \o <<M!F("u", M!Change), M!F("upsert", M!Flag(TRUE))>>
              = <<M!F("q", doc), M!F("u", M!Change), M!F("upsert", M!Flag(TRUE))>>
        BY AppendedFields
      <3>2. M!Entry(<<M!F("u", M!Change), M!F("upsert", M!Flag(TRUE))>>) = M!List(<<e>>)
        BY <3>1 DEF M!Entry
      <3>3. QED
        BY <1>7, <3>2 DEF Entries, ListName
    <2>2. Quiet(e, n + 1) /\ Fatal("update", e)
      <3>1. doc.type = "doc" /\ Quiet(doc, n) /\ n \in Nat /\ n >= 1 /\ n <= 2 * MaxDepth
        BY <1>2
      <3>2. Quiet(M!Change, n)
        BY <1>4
      <3>3. QED
        BY <3>1, <3>2, EntryOfThree
    <2> HIDE DEF e
    <2>3. Gated(level, mongoSeen', pinned) /\ NothingHides'
      BY <1>1, <1>7, <2>2, AskedFacts, FullIsGated
    <2>4. QED
      BY <1>1, <1>3, <2>1, <2>2, <2>3, EntryMade
  <1>8. QED
    BY <1>5, <1>6, <1>7 DEF M!UpdateIt

LEMMA LeavesQuiet ==
  ASSUME NEW n \in Nat, 1 <= n
  PROVE  /\ Quiet(M!Null, n) /\ ~Runs(M!Null)
         /\ Quiet(M!Flag(TRUE), n) /\ ~Runs(M!Flag(TRUE))
  <1>1. ASSUME NEW v, Leaf(v) PROVE Quiet(v, n) /\ ~Runs(v)
    BY <1>1, QuietLeaf, QuietMore
  <1>2. Leaf(M!Null) /\ Leaf(M!Flag(TRUE))
    BY Leaves
  <1>3. QED
    BY <1>1, <1>2

LEMMA FindItStep == ASSUME FilterKept, M!FindIt PROVE CommandKept'
  <1> DEFINE n == 2 * mongoSteps + 4
             fields == <<M!F("find", M!Null), M!F("filter", doc)>>
             d == M!Doc(fields)
  <1>1. M!Submit /\ mongoSeen' = mongoSeen /\ doc' = d /\ NothingHides'
    BY AskedFacts DEF M!FindIt
  <1>2. n = 2 * mongoSteps + 4
    OBVIOUS
  <1>3. fields # <<>> /\ fields[1].key = "find"
    BY DEF M!F
  <1>4. Plain("find") /\ Plain("filter")
    BY DEF Plain, M!CodeOperators, M!WriteStages
  <1> HIDE DEF n
  <1>5. /\ Quiet(doc, n) /\ n \in Nat /\ 1 <= n /\ n <= 2 * MaxDepth
        /\ n + 1 <= n + 3 /\ n + 3 \in Nat /\ n + 1 \in Nat
    BY <1>1, <1>2, Depths, SubmitFacts
  <1>6. Quiet(M!Null, n) /\ ~Runs(M!Null)
    BY <1>5, LeavesQuiet
  <1>7. Quiet(d, n + 1) /\ (Runs(d) <=> Runs(doc))
    BY <1>4, <1>5, <1>6, QuietDocOfTwo
  <1> HIDE DEF fields
  <1>8. /\ Bottom(d, 0) /\ d.type = "doc" /\ d.fields = fields
        /\ LevelOf(d) = IF Runs(d) THEN M!PermissionFull
                        ELSE M!RequiredPermission(M!AnalyzeCommand(d, "find"))
    BY <1>3, PlainLevel
  <1> HIDE DEF d
  <1>9. M!RequiredPermission(M!AnalyzeCommand(d, "find")) = M!PermissionReadOnly
    BY <1>3, <1>8
    DEF M!AnalyzeCommand, M!ReadCommands, M!WriteCommands, M!SchemaCommands, M!SessionCommands,
        M!RequiredPermission, M!Bounded
  <1>10. Gated(LevelOf(d), mongoSeen', pinned)
    BY <1>1, <1>7, <1>8, <1>9, ReadIsGated
  <1>11. Nested(d, n + 3)
    BY <1>5, <1>7, NestedDeeper DEF Quiet
  <1>12. QED
    BY <1>1, <1>2, <1>3, <1>8, <1>10, <1>11, CommandMade

\* A find and modify: what it looks for, and what it does with what it finds.
Modify(query, key, v) ==
  M!Doc(<<M!F("findandmodify", M!Null), M!F("query", query), M!F(key, v)>>)

LEMMA ModifyMade ==
  ASSUME FilterKept, M!Submit, NEW n, n = 2 * mongoSteps + 4,
         NEW key \in {"remove", "update"}, NEW v, Quiet(v, n), ~Runs(v),
         doc' = Modify(doc, key, v),
         NEW level,
         level = IF \/ Runs(doc) \/ M!FilterIsTautology(doc)
                    \/ (~(key = "remove" /\ M!IsTrue(v)) /\ (key = "update" /\ v.type = "list"))
                 THEN M!PermissionFull ELSE M!PermissionSafeWrite,
         Gated(level, mongoSeen', pinned), NothingHides'
  PROVE  CommandKept'
  <1> DEFINE fields == <<M!F("findandmodify", M!Null), M!F("query", doc), M!F(key, v)>>
             d == M!Doc(fields)
  <1>1. doc' = d
    BY DEF Modify
  <1>2. fields # <<>> /\ fields[1].key = "findandmodify"
    BY DEF M!F
  <1>3. Plain("findandmodify") /\ Plain("query") /\ Plain(key)
    BY DEF Plain, M!CodeOperators, M!WriteStages
  <1>4. /\ Quiet(doc, n) /\ n \in Nat /\ 1 <= n /\ n <= 2 * MaxDepth
        /\ n + 1 <= n + 3 /\ n + 3 \in Nat /\ n + 1 \in Nat
    BY Depths, SubmitFacts
  <1>5. Quiet(M!Null, n) /\ ~Runs(M!Null)
    BY <1>4, LeavesQuiet
  <1>6. Quiet(d, n + 1) /\ (Runs(d) <=> Runs(doc))
    BY <1>3, <1>4, <1>5, QuietDocOfThree
  <1>7. M!Field(d, "query") = doc /\ M!Field(d, key) = v
    BY ThreeKeys
  <1>8. M!Field(d, "upsert") = M!Absent /\ (key # "remove" => M!Field(d, "remove") = M!Absent)
        /\ (key # "update" => M!Field(d, "update") = M!Absent)
    BY NoSuchKeyOfThree
  <1> HIDE DEF fields
  <1>9. /\ Bottom(d, 0) /\ d.type = "doc" /\ d.fields = fields
        /\ LevelOf(d) = IF Runs(d) THEN M!PermissionFull
                        ELSE M!RequiredPermission(M!AnalyzeCommand(d, "findandmodify"))
    BY <1>2, PlainLevel
  <1> HIDE DEF d
  <1>10. M!AnalyzeCommand(d, "findandmodify") = M!WriteReach(d, "findandmodify")
    BY <1>2, <1>9
    DEF M!AnalyzeCommand, M!ReadCommands, M!WriteCommands, M!SchemaCommands, M!SessionCommands
  <1>11. M!AsDoc(doc) = doc
    BY SubmitFacts DEF M!AsDoc
  <1>12. ~M!IsTrue(M!Absent) /\ M!Absent.type # "list"
    BY DEF M!IsTrue, M!Absent, M!Flag
  <1>13. M!WriteReach(d, "findandmodify")
         = IF \/ M!FilterIsTautology(doc)
              \/ (~(key = "remove" /\ M!IsTrue(v)) /\ (key = "update" /\ v.type = "list"))
           THEN M!Unbounded("write") ELSE M!Bounded("write")
    BY <1>7, <1>8, <1>11, <1>12 DEF M!WriteReach
  <1>14. LevelOf(d) = level
    BY <1>6, <1>9, <1>10, <1>13 DEF M!RequiredPermission, M!Unbounded, M!Bounded
  <1>15. Nested(d, n + 3)
    BY <1>4, <1>6, NestedDeeper DEF Quiet
  <1>16. QED
    BY <1>1, <1>2, <1>9, <1>14, <1>15, CommandMade

LEMMA FindAndModifyStep == ASSUME FilterKept, M!FindAndModify PROVE CommandKept'
  <1> DEFINE n == 2 * mongoSteps + 4
  <1>1. M!Submit
    BY DEF M!FindAndModify
  <1>2. n = 2 * mongoSteps + 4
    OBVIOUS
  <1> HIDE DEF n
  <1>3. n \in Nat /\ 4 <= n /\ 1 <= n
    BY <1>1, <1>2, SubmitFacts
  <1>4. Quiet(M!Change, n) /\ Quiet(M!Pipeline, n) /\ Quiet(M!Flag(TRUE), n) /\ ~Runs(M!Flag(TRUE))
    <2>1. Quiet(M!Change, n) /\ Quiet(M!Pipeline, n)
      BY <1>3, ChangeIs, PipelineIs, QuietMore
    <2>2. QED
      BY <1>3, <2>1, LeavesQuiet
  <1>5. M!Flag(TRUE).type # "list" /\ M!Change.type # "list"
    BY ChangeIs DEF M!Flag
  <1> DEFINE limited == IF Runs(doc) \/ M!FilterIsTautology(doc)
                        THEN M!PermissionFull ELSE M!PermissionSafeWrite
  <1>6. Gated(limited, M!Worst(mongoSeen, Reach), pinned)
    BY <1>1, WriteIsGated
  <1>7. CASE doc' = Modify(doc, "remove", M!Flag(TRUE)) /\ M!Writes
    <2>1. mongoSeen' = M!Worst(mongoSeen, Reach) /\ NothingHides'
      BY <1>1, <1>7, AskedFacts
    <2>2. QED
      BY <1>1, <1>2, <1>4, <1>5, <1>6, <1>7, <2>1, ModifyMade
  <1>8. CASE doc' = Modify(doc, "update", M!Change) /\ M!Writes
    <2>1. mongoSeen' = M!Worst(mongoSeen, Reach) /\ NothingHides'
      BY <1>1, <1>8, AskedFacts
    <2>2. QED
      BY <1>1, <1>2, <1>4, <1>5, <1>6, <1>8, <2>1, ChangeIs, ModifyMade
  <1>9. CASE doc' = Modify(doc, "update", M!Pipeline) /\ M!WritesAnything
    <2>1. Gated(M!PermissionFull, mongoSeen', pinned) /\ NothingHides'
      BY <1>1, <1>9, AskedFacts, FullIsGated
    <2>2. QED
      BY <1>1, <1>2, <1>4, <1>9, <2>1, PipelineIs, ModifyMade
  <1>10. QED
    BY <1>7, <1>8, <1>9 DEF M!FindAndModify, Modify

-----------------------------------------------------------------------------
(* A pipeline, and the invariant. *)

\* A stage that writes the output, inside another.
Inner == M!Doc(<<M!F("$facet", M!Doc(<<M!F("x", M!List(<<M!Doc(<<M!F("$out", M!Null)>>)>>))>>))>>)

LEMMA InnerWrites == Nested(Inner, 5) /\ M!FindKey(Inner, M!WriteStages) /\ ~Runs(Inner)
  <1> DEFINE out == M!Doc(<<M!F("$out", M!Null)>>)
             stages == M!List(<<out>>)
             x == M!Doc(<<M!F("x", stages)>>)
  <1> DEFINE OneFieldOf(v, w, key, n) ==
        /\ Nested(v, n + 1)
        /\ \A keys : M!FindKey(v, keys) <=> key \in keys \/ M!FindKey(w, keys)
  <1>1. ASSUME NEW key, NEW w, NEW n \in Nat, n <= 2 * MaxDepth, Nested(w, n)
        PROVE  OneFieldOf(M!Doc(<<M!F(key, w)>>), w, key, n)
    <2> DEFINE fields == <<M!F(key, w)>>
    <2>1. DOMAIN fields = {1} /\ fields[1].key = key /\ fields[1].value = w
      BY DEF M!F
    <2> HIDE DEF fields
    <2>2. Shallow(w)
      BY <1>1, NestedIsShallow
    <2>3. Nested(M!Doc(fields), n + 1)
      BY <1>1, <2>1, DocNested
    <2>4. \A keys : M!FindKey(M!Doc(fields), keys) <=> key \in keys \/ M!FindKey(w, keys)
      BY <2>1, <2>2, DocFinds
    <2>5. QED
      BY <2>3, <2>4 DEF fields
  <1>2. Leaf(M!Null)
    BY Leaves
  <1>3. Nested(M!Null, 1) /\ \A keys : ~M!FindKey(M!Null, keys)
    BY <1>2, LeafNested, LeafFinds
  <1>4. 4 <= 2 * MaxDepth /\ 2 * MaxDepth \in Nat
    BY Depths
  <1>5. OneFieldOf(out, M!Null, "$out", 1)
    BY <1>1, <1>3, <1>4
  <1> HIDE DEF out
  <1>6. Nested(stages, 3) /\ \A keys : M!FindKey(stages, keys) <=> M!FindKey(out, keys)
    <2> DEFINE items == <<out>>
    <2>1. DOMAIN items = {1} /\ items[1] = out
      OBVIOUS
    <2>2. Nested(out, 2)
      BY <1>5
    <2>3. Shallow(out)
      BY <1>4, <2>2, NestedIsShallow
    <2> HIDE DEF items
    <2>4. Nested(M!List(items), 2 + 1)
      BY <2>1, <2>2, ListNested
    <2>5. \A keys : M!FindKey(M!List(items), keys) <=> M!FindKey(out, keys)
      BY <2>1, <2>3, ListFinds
    <2>6. QED
      BY <2>4, <2>5 DEF items
  <1> HIDE DEF stages
  <1>7. OneFieldOf(x, stages, "x", 3)
    BY <1>1, <1>4, <1>6
  <1> HIDE DEF x
  <1>8. Nested(x, 4)
    BY <1>7
  <1>9. OneFieldOf(Inner, x, "$facet", 4)
    BY <1>1, <1>4, <1>8 DEF Inner, x, stages, out
  <1>10. Nested(Inner, 5)
    BY <1>9
  <1>11. \A keys : M!FindKey(Inner, keys) <=> "$facet" \in keys \/ "x" \in keys \/ "$out" \in keys
    BY <1>3, <1>5, <1>6, <1>7, <1>9
  <1>12. QED
    BY <1>10, <1>11 DEF Runs, M!WriteStages, M!CodeOperators

\* An aggregation and its stages.
Aggregation(stages) == M!Doc(<<M!F("aggregate", M!Null), M!F("pipeline", M!List(stages))>>)

LEMMA AggregationIs ==
  ASSUME NEW stages, NEW n \in Nat, n + 1 <= 2 * MaxDepth, \A i \in DOMAIN stages : Nested(stages[i], n)
  PROVE  LET d == Aggregation(stages)
             writes == \E i \in DOMAIN stages : M!FindKey(stages[i], M!WriteStages)
             runs == \E i \in DOMAIN stages : Runs(stages[i])
         IN  /\ Nested(d, n + 2) /\ Bottom(d, 0) /\ d.type = "doc" /\ d.fields # <<>>
             /\ d.fields[1].key = "aggregate"
             /\ LevelOf(d) = IF writes \/ runs THEN M!PermissionFull ELSE M!PermissionReadOnly
  <1> DEFINE l == M!List(stages)
             fields == <<M!F("aggregate", M!Null), M!F("pipeline", l)>>
             d == M!Doc(fields)
             writes == \E i \in DOMAIN stages : M!FindKey(stages[i], M!WriteStages)
             runs == \E i \in DOMAIN stages : Runs(stages[i])
  <1>1. /\ DOMAIN fields = {1, 2} /\ fields # <<>> /\ fields[1].key = "aggregate"
        /\ fields[1].value = M!Null /\ fields[2].key = "pipeline" /\ fields[2].value = l
    BY DEF M!F
  <1>2. d = Aggregation(stages)
    BY DEF Aggregation
  <1>3. n <= 2 * MaxDepth /\ n + 1 \in Nat /\ (n + 1) + 1 = n + 2
    BY Depths
  <1>4. \A i \in DOMAIN stages : Shallow(stages[i])
    BY <1>3, NestedIsShallow
  <1>5. Nested(l, n + 1)
    BY ListNested
  <1>6. Shallow(l)
    BY <1>3, <1>5, NestedIsShallow
  <1>7. \A keys : M!FindKey(l, keys) <=> \E i \in DOMAIN stages : M!FindKey(stages[i], keys)
    BY <1>4, ListFinds
  <1>8. Leaf(M!Null)
    BY Leaves
  <1>9. Nested(M!Null, 1) /\ \A keys : ~M!FindKey(M!Null, keys)
    BY <1>8, LeafNested, LeafFinds
  <1>10. Nested(M!Null, n + 1) /\ Shallow(M!Null)
    <2>1. 1 <= n + 1 /\ 1 <= 2 * MaxDepth /\ 1 \in Nat
      BY Depths
    <2>2. QED
      BY <1>3, <1>9, <2>1, NestedDeeper, NestedIsShallow
  <1> HIDE DEF l, fields
  <1>11. Nested(d, (n + 1) + 1)
    BY <1>1, <1>3, <1>5, <1>10, DocNested
  <1>12. \A keys : M!FindKey(d, keys)
           <=> \/ "aggregate" \in keys \/ "pipeline" \in keys
               \/ \E i \in DOMAIN stages : M!FindKey(stages[i], keys)
    BY <1>1, <1>6, <1>7, <1>9, <1>10, DocFinds
  <1>13. (M!FindKey(d, M!WriteStages) <=> writes) /\ (Runs(d) <=> runs)
    BY <1>12 DEF M!WriteStages, M!CodeOperators, Runs
  <1>14. /\ Bottom(d, 0) /\ d.type = "doc" /\ d.fields = fields
         /\ LevelOf(d) = IF Runs(d) THEN M!PermissionFull
                         ELSE M!RequiredPermission(M!AnalyzeCommand(d, "aggregate"))
    BY <1>1, PlainLevel
  <1> HIDE DEF d, writes, runs
  <1>15. M!AnalyzeCommand(d, "aggregate")
         = IF M!FindKey(d, M!WriteStages) THEN M!Unbounded("write") ELSE M!Bounded("read")
    BY <1>1, <1>14
    DEF M!AnalyzeCommand, M!ReadCommands, M!WriteCommands, M!SchemaCommands, M!SessionCommands
  <1>16. M!RequiredPermission(M!AnalyzeCommand(d, "aggregate"))
         = IF M!FindKey(d, M!WriteStages) THEN M!PermissionFull ELSE M!PermissionReadOnly
    BY <1>15 DEF M!RequiredPermission, M!Unbounded, M!Bounded
  <1>17. LevelOf(d) = IF writes \/ runs THEN M!PermissionFull ELSE M!PermissionReadOnly
    BY <1>13, <1>14, <1>16
  <1>18. QED
    BY <1>1, <1>2, <1>3, <1>11, <1>14, <1>17 DEF writes, runs

LEMMA AggregateItStep == ASSUME FilterKept, M!AggregateIt PROVE CommandKept'
  <1> DEFINE n == 2 * mongoSteps + 4
             match == M!Doc(<<M!F("$match", doc)>>)
  <1>1. M!Submit
    BY DEF M!AggregateIt
  <1>2. n = 2 * mongoSteps + 4
    OBVIOUS
  <1> HIDE DEF n
  <1>3. /\ Quiet(doc, n) /\ n \in Nat /\ 4 <= n /\ n <= 2 * MaxDepth /\ n + 1 \in Nat
        /\ (n + 1) + 1 <= 2 * MaxDepth /\ (n + 1) + 2 = n + 3
    BY <1>1, <1>2, Depths, SubmitFacts
  <1>4. Plain("$match")
    BY DEF Plain, M!CodeOperators, M!WriteStages
  <1>5. Quiet(match, n + 1) /\ (Runs(match) <=> Runs(doc))
    BY <1>3, <1>4, QuietDoc
  <1> HIDE DEF match
  <1>6. CASE doc' = Aggregation(<<match>>) /\ UNCHANGED <<mongoNeed, mongoSeen>>
    <2> DEFINE stages == <<match>>
               d == Aggregation(stages)
    <2>1. DOMAIN stages = {1} /\ stages[1] = match
      OBVIOUS
    <2>2. doc' = d
      BY <1>6
    <2> HIDE DEF stages
    <2>3. \A i \in DOMAIN stages : Nested(stages[i], n + 1) /\ ~M!FindKey(stages[i], M!WriteStages)
      BY <1>5, <2>1 DEF Quiet
    <2>4. /\ Nested(d, n + 3) /\ Bottom(d, 0) /\ d.type = "doc" /\ d.fields # <<>>
          /\ d.fields[1].key = "aggregate"
          /\ LevelOf(d) = IF \E i \in DOMAIN stages : Runs(stages[i])
                          THEN M!PermissionFull ELSE M!PermissionReadOnly
      BY <1>3, <2>3, AggregationIs
    <2> HIDE DEF d
    <2>5. LevelOf(d) = IF Runs(doc) THEN M!PermissionFull ELSE M!PermissionReadOnly
      BY <1>5, <2>1, <2>4
    <2>6. Gated(LevelOf(d), mongoSeen', pinned) /\ NothingHides'
      BY <1>1, <1>6, <2>5, AskedFacts, ReadIsGated
    <2>7. QED
      BY <1>1, <1>2, <2>2, <2>4, <2>6, CommandMade
  <1>7. CASE doc' = Aggregation(<<match, Inner>>) /\ M!WritesAnything
    <2> DEFINE stages == <<match, Inner>>
               d == Aggregation(stages)
    <2>1. DOMAIN stages = {1, 2} /\ stages[1] = match /\ stages[2] = Inner
      OBVIOUS
    <2>2. doc' = d
      BY <1>7
    <2> HIDE DEF stages
    <2>3. Nested(Inner, n + 1) /\ 5 <= n + 1
      BY <1>3, InnerWrites, NestedDeeper
    <2>4. /\ \A i \in DOMAIN stages : Nested(stages[i], n + 1)
          /\ \E i \in DOMAIN stages : M!FindKey(stages[i], M!WriteStages)
      BY <1>5, <2>1, <2>3, InnerWrites DEF Quiet
    <2>5. /\ Nested(d, n + 3) /\ Bottom(d, 0) /\ d.type = "doc" /\ d.fields # <<>>
          /\ d.fields[1].key = "aggregate" /\ LevelOf(d) = M!PermissionFull
      BY <1>3, <2>4, AggregationIs
    <2> HIDE DEF d
    <2>6. Gated(LevelOf(d), mongoSeen', pinned) /\ NothingHides'
      BY <1>1, <1>7, <2>5, AskedFacts, FullIsGated
    <2>7. QED
      BY <1>1, <1>2, <2>2, <2>5, <2>6, CommandMade
  <1>8. QED
    BY <1>6, <1>7 DEF M!AggregateIt, Aggregation, Inner, match

-----------------------------------------------------------------------------

\* What stays true: a filter, or a command and its level.
MongoInv ==
  \/ mongoPhase = "filter" /\ FilterKept /\ M!NarrowsAndWidens
  \/ mongoPhase = "command" /\ CommandKept

LEMMA MongoInitial == M!Init => MongoInv
  BY InitFilter DEF M!Init, MongoInv

LEMMA MongoStep == MongoInv /\ [M!Next]_(M!vars) => MongoInv'
  <1> SUFFICES ASSUME MongoInv, [M!Next]_(M!vars) PROVE MongoInv'
    OBVIOUS
  <1>1. ASSUME NEW c \in M!Clauses, M!AddField(c) \/ M!AndWith(c) \/ M!OrWith(c)
        PROVE  MongoInv'
    <2>1. mongoPhase = "filter" /\ mongoPhase' = mongoPhase
      BY <1>1 DEF M!AddField, M!AndWith, M!OrWith, M!Combine
    <2>2. FilterKept
      BY <2>1 DEF MongoInv
    <2>3. FilterKept' /\ M!NarrowsAndWidens'
      BY <1>1, <2>2, AddFieldStep, AndWithStep, OrWithStep
    <2>4. QED
      BY <2>1, <2>3 DEF MongoInv
  <1>2. CASE M!Nor
    <2>1. mongoPhase = "filter" /\ mongoPhase' = mongoPhase
      BY <1>2 DEF M!Nor, M!Combine
    <2>2. FilterKept
      BY <2>1 DEF MongoInv
    <2>3. QED
      BY <1>2, <2>1, <2>2, NorStep DEF MongoInv
  <1>3. CASE M!FindIt \/ M!AggregateIt \/ M!DeleteIt \/ M!UpdateIt \/ M!FindAndModify
    <2>1. mongoPhase = "filter" /\ mongoPhase' = "command"
      BY <1>3 DEF M!FindIt, M!AggregateIt, M!DeleteIt, M!UpdateIt, M!FindAndModify, M!Submit
    <2>2. FilterKept
      BY <2>1 DEF MongoInv
    <2>3. CommandKept'
      BY <1>3, <2>2, FindItStep, AggregateItStep, DeleteItStep, UpdateItStep, FindAndModifyStep
    <2>4. QED
      BY <2>1, <2>3 DEF MongoInv
  <1>4. ASSUME NEW c \in M!Clauses, M!AnotherEntry(c) PROVE MongoInv'
    <2>1. mongoPhase = "command" /\ mongoPhase' = mongoPhase
      BY <1>4 DEF M!AnotherEntry
    <2>2. CommandKept
      BY <2>1 DEF MongoInv
    <2>3. QED
      BY <1>4, <2>1, <2>2, AnotherEntryStep DEF MongoInv
  <1>5. CASE M!Explain
    <2>1. mongoPhase = "command" /\ mongoPhase' = mongoPhase
      BY <1>5 DEF M!Explain
    <2>2. CommandKept
      BY <2>1 DEF MongoInv
    <2>3. QED
      BY <1>5, <2>1, <2>2, ExplainStep DEF MongoInv
  <1>6. CASE UNCHANGED M!vars
    <2>1. UNCHANGED <<doc, mongoPhase, reached, pinned, hidden, mongoNeed, mongoSeen,
                      mongoFloor, joined, mongoSteps>>
      BY <1>6 DEF M!vars
    <2>2. MongoInv' <=> MongoInv
      BY <2>1
      DEF MongoInv, FilterKept, FilterHolds, FilterIs, CommandKept, CommandHolds, NothingHides,
          M!NarrowsAndWidens
    <2>3. QED
      BY <2>2
  <1>7. QED
    BY <1>1, <1>2, <1>3, <1>4, <1>5, <1>6 DEF M!Next

LEMMA MongoInvGates == MongoInv => GatedByReach
  <1>1. ASSUME mongoPhase = "filter", M!NarrowsAndWidens PROVE GatedByReach
    BY <1>1 DEF GatedByReach, M!CommandsAreGated
  <1>2. ASSUME mongoPhase = "command", CommandKept PROVE GatedByReach
    BY <1>2, KeptIsGated DEF GatedByReach, M!CommandsAreGated, M!NarrowsAndWidens
  <1>3. QED
    BY <1>1, <1>2 DEF MongoInv

\* Whatever filter is grown from the clauses and whatever command is made of it,
\* in any number of steps, the gate of AnalyzeMongo is at least the level the
\* documents it reaches call for, but for the reach of a filter with null in a
\* set of values or as a bound; it is that very level where the clauses pin
\* values.  One more AND never makes a selective filter one that matches
\* everything, and one more branch of an OR never makes a filter selective
\* (mongo_analyze.go:76-133, :138-349).
THEOREM MongoGatedByReach == M!Spec => []GatedByReach
  <1>1. M!Spec => []MongoInv
    BY MongoInitial, MongoStep, PTL DEF M!Spec
  <1>2. QED
    BY <1>1, MongoInvGates, PTL

-----------------------------------------------------------------------------
(****************************************************************************)
(* CQL: a text is gated at exactly the level it needs.                     *)
(*                                                                         *)
(* A batch is a header before a body of statements; whatever ends it, its  *)
(* members are those of the body.                                          *)
(***************************************************************************)

(* What a batch is made of. *)

Token == STRING \cup {"apply", "batch"}
Line == Seq(Token)

Closing == <<"apply", "batch">>

LEMMA ClosingIs ==
  Closing \in Line /\ Len(Closing) = 2 /\ Closing[1] = "apply" /\ Closing[2] = "batch"
  BY DEF Closing, Line, Token

LEMMA Strings == Seq(STRING) \subseteq Line
  BY DEF Line, Token

\* One text behind another.
Glued(v, w) == v \o w

LEMMA GluedIs ==
  ASSUME NEW v \in Line, NEW w \in Line
  PROVE  /\ Glued(v, w) \in Line /\ Len(Glued(v, w)) = Len(v) + Len(w)
         /\ \A i \in 1..Len(v) : Glued(v, w)[i] = v[i]
         /\ \A i \in 1..Len(w) : Glued(v, w)[Len(v) + i] = w[i]
  <1> DEFINE x == v \o w
             m == Len(v)
             n == Len(w)
  <1>1. /\ x \in Line /\ Len(x) = m + n
        /\ \A i \in 1..(m + n) : x[i] = IF i <= m THEN v[i] ELSE w[i - m]
    BY ConcatProperties DEF Line
  <1>2. m \in Nat /\ n \in Nat
    BY LenProperties DEF Line
  <1> HIDE DEF x, m, n
  <1>3. \A i \in 1..m : x[i] = v[i]
    BY <1>1, <1>2
  <1>4. ASSUME NEW i \in 1..n PROVE x[m + i] = w[i]
    <2>1. m + i \in 1..(m + n) /\ ~(m + i <= m) /\ (m + i) - m = i
      BY <1>2
    <2>2. QED
      BY <1>1, <2>1
  <1>5. QED
    BY <1>1, <1>3, <1>4 DEF x, m, n, Glued

LEMMA Lines ==
  ASSUME NEW v \in Line
  PROVE  Len(v) \in Nat /\ DOMAIN v = 1..Len(v) /\ (v # <<>> <=> Len(v) >= 1)
  BY LenProperties, EmptySeq DEF Line

\* What is behind the first of two texts.
LEMMA BackOf ==
  ASSUME NEW v \in Line, NEW w \in Line, NEW n, n = Len(v) + 1
  PROVE  SubSeq(Glued(v, w), n, Len(Glued(v, w))) = w
  <1> DEFINE x == Glued(v, w)
             y == SubSeq(x, n, Len(x))
  <1>1. /\ x \in Line /\ Len(x) = Len(v) + Len(w)
        /\ \A i \in 1..Len(w) : x[Len(v) + i] = w[i]
    BY GluedIs
  <1>2. Len(v) \in Nat /\ Len(w) \in Nat /\ DOMAIN x = 1..Len(x) /\ Len(x) \in Int /\ n \in Int
    BY <1>1, Lines
  <1> HIDE DEF x
  <1>3. \A i \in n..Len(x) : x[i] \in Token
    BY <1>1, <1>2, ElementOfSeq DEF Line
  <1>4. /\ y \in Line /\ Len(y) = IF n <= Len(x) THEN Len(x) - n + 1 ELSE 0
        /\ \A i \in 1..(Len(x) - n + 1) : y[i] = x[n + i - 1]
    BY <1>2, <1>3, SubSeqProperties DEF Line
  <1> HIDE DEF y
  <1>5. Len(y) = Len(w)
    BY <1>1, <1>2, <1>4
  <1>6. ASSUME NEW i \in 1..Len(w) PROVE y[i] = w[i]
    <2>1. i \in 1..(Len(x) - n + 1) /\ n + i - 1 = Len(v) + i
      BY <1>1, <1>2
    <2>2. QED
      BY <1>1, <1>4, <2>1
  <1>7. y = w
    BY <1>4, <1>5, <1>6, SeqEqual DEF Line
  <1>8. QED
    BY <1>7 DEF x, y

\* What is before the second of two texts.
LEMMA FrontOf ==
  ASSUME NEW v \in Line, NEW w \in Line, NEW n, n = Len(w)
  PROVE  SubSeq(Glued(v, w), 1, Len(Glued(v, w)) - n) = v
  <1> DEFINE x == Glued(v, w)
             m == Len(x) - n
             y == SubSeq(x, 1, m)
  <1>1. /\ x \in Line /\ Len(x) = Len(v) + Len(w) /\ \A i \in 1..Len(v) : x[i] = v[i]
    BY GluedIs
  <1>2. Len(v) \in Nat /\ Len(w) \in Nat /\ DOMAIN x = 1..Len(x)
    BY <1>1, Lines
  <1> HIDE DEF x
  <1>3. m = Len(v) /\ m \in Int /\ m <= Len(x) /\ Len(x) \in Nat
    BY <1>1, <1>2
  <1> HIDE DEF m
  <1>4. \A i \in 1..m : x[i] \in Token
    BY <1>1, <1>2, <1>3, ElementOfSeq DEF Line
  <1>5. /\ y \in Line /\ Len(y) = IF 1 <= m THEN m - 1 + 1 ELSE 0
        /\ \A i \in 1..(m - 1 + 1) : y[i] = x[1 + i - 1]
    BY <1>3, <1>4, SubSeqProperties DEF Line
  <1> HIDE DEF y
  <1>6. Len(y) = Len(v) /\ \A i \in 1..Len(v) : y[i] = v[i]
    BY <1>1, <1>2, <1>3, <1>5
  <1>7. y = v
    BY <1>5, <1>6, SeqEqual DEF Line
  <1>8. QED
    BY <1>7 DEF x, y, m

\* A text that closes a batch, as the analysis sees it.
Closes(ts) == Len(ts) >= 2 /\ SubSeq(ts, Len(ts) - 1, Len(ts)) = Closing

LEMMA GluedCloses == ASSUME NEW v \in Line PROVE Closes(Glued(v, Closing))
  <1> DEFINE x == Glued(v, Closing)
  <1>1. Len(x) = Len(v) + 2 /\ Len(v) \in Nat
    <2>1. Closing \in Line /\ Len(Closing) = 2 /\ Len(v) \in Nat
      BY ClosingIs, Lines
    <2>2. Len(x) = Len(v) + Len(Closing)
      BY <2>1, GluedIs
    <2>3. QED
      BY <2>1, <2>2
  <1>2. SubSeq(x, Len(v) + 1, Len(x)) = Closing
    BY BackOf, ClosingIs
  <1> HIDE DEF x
  <1>3. Len(x) - 1 = Len(v) + 1 /\ Len(x) >= 2
    BY <1>1
  <1>4. QED
    BY <1>2, <1>3 DEF Closes, x

LEMMA ClosesLast ==
  ASSUME NEW ts \in Line, Closes(ts)
  PROVE  Len(ts) >= 2 /\ ts[Len(ts) - 1] = "apply" /\ ts[Len(ts)] = "batch"
  <1> DEFINE n == Len(ts)
             y == SubSeq(ts, n - 1, n)
  <1>1. n \in Nat /\ n >= 2 /\ DOMAIN ts = 1..n /\ y = Closing
    BY Lines DEF Closes
  <1>2. \A i \in (n - 1)..n : ts[i] \in Token
    BY <1>1, ElementOfSeq DEF Line
  <1>3. \A i \in 1..(n - (n - 1) + 1) : y[i] = ts[(n - 1) + i - 1]
    BY <1>1, <1>2, SubSeqProperties
  <1> HIDE DEF y
  <1>4. y[1] = ts[n - 1] /\ y[2] = ts[n]
    <2>1. n - (n - 1) + 1 = 2 /\ (n - 1) + 1 - 1 = n - 1 /\ (n - 1) + 2 - 1 = n
      BY <1>1
    <2>2. QED
      BY <1>3, <2>1
  <1>5. QED
    BY <1>1, <1>4, ClosingIs DEF n

\* A text that closes a batch has APPLY BATCH inside.
LEMMA ClosesApplies ==
  ASSUME NEW ts \in Line, Closes(ts) PROVE C!AppliesInside(ts)
  <1>1. Len(ts) >= 2 /\ ts[Len(ts) - 1] = "apply" /\ ts[Len(ts)] = "batch" /\ Len(ts) \in Nat
    BY ClosesLast, Lines
  <1>2. Len(ts) \in 2..Len(ts)
    BY <1>1
  <1>3. QED
    BY <1>1, <1>2 DEF C!AppliesInside

-----------------------------------------------------------------------------
(* The analysis of a statement, of the header of a batch, and of a member. *)

LEMMA StatementFacts ==
  ASSUME NEW s \in CqlStatements
  PROVE  /\ s.text \in Line /\ s.text # <<>>
         /\ s.text[1] \notin C!BatchHeader /\ ~C!AppliesInside(s.text)
         /\ s.need = IF C!AnalyzeCQLStatement(s.text).refused THEN C!Never
                     ELSE C!RequiredPermission(C!AnalyzeCQLStatement(s.text))
  BY StatementsAssumption, Strings

LEMMA HeaderFacts ==
  ASSUME NEW h \in CqlHeaders
  PROVE  /\ h.text \in Line /\ h.text # <<>> /\ C!OpensBatchText(h.text)
         /\ \A i \in DOMAIN h.text : h.text[i] \notin C!WriteVerbs
         /\ h.good <=> \A i \in DOMAIN h.text : h.text[i] \in C!BatchHeader
  BY HeadersAssumption, Strings

\* A statement that may stand in a batch, and one that has all of a table to write.
Sound(ts) == ts[1] \in C!Members /\ ~C!AppliesInside(ts)
Wild(ts) == C!AnalyzeCQLStatement(ts).unbounded

LEMMA MemberLevel ==
  ASSUME NEW s \in CqlStatements, s.text[1] \in C!Members
  PROVE  s.need = IF Wild(s.text) THEN C!PermissionFull ELSE C!PermissionSafeWrite
  <1> DEFINE a == C!AnalyzeCQLStatement(s.text)
  <1>1. a = C!Unbounded("write") \/ a = C!Bounded("write")
    BY DEF C!AnalyzeCQLStatement, C!Members, C!SchemaVerbs, C!AnalyzeCQLUpdateDelete
  <1>2. s.need = IF a.refused THEN C!Never ELSE C!RequiredPermission(a)
    BY StatementFacts
  <1> HIDE DEF a
  <1>3. s.need = IF a.unbounded THEN C!PermissionFull ELSE C!PermissionSafeWrite
    BY <1>1, <1>2 DEF C!Unbounded, C!Bounded, C!RequiredPermission
  <1>4. QED
    BY <1>3 DEF Wild, a

LEMMA HeadOpens ==
  ASSUME NEW h \in CqlHeaders, NEW t \in Line
  PROVE  C!OpensBatchText(Glued(h.text, t))
  <1> DEFINE w == h.text
             x == Glued(w, t)
  <1>1. /\ x \in Line /\ Len(x) = Len(w) + Len(t) /\ w \in Line /\ C!OpensBatchText(w) /\ w # <<>>
        /\ \A i \in 1..Len(w) : x[i] = w[i]
    BY HeaderFacts, GluedIs
  <1>2. /\ DOMAIN x = 1..Len(x) /\ DOMAIN w = 1..Len(w) /\ Len(w) >= 1
        /\ Len(w) \in Nat /\ Len(t) \in Nat
    BY <1>1, Lines
  <1> HIDE DEF x, w
  <1>3. PICK i \in {2, 3} \cap DOMAIN w : w[i] = "batch"
    BY <1>1 DEF C!OpensBatchText
  <1>4. x[i] = "batch" /\ i \in DOMAIN x /\ x[1] = w[1]
    BY <1>1, <1>2, <1>3
  <1>5. C!OpensBatchText(x)
    BY <1>1, <1>3, <1>4 DEF C!OpensBatchText
  <1>6. QED
    BY <1>5 DEF x, w

LEMMA LeastNumber ==
  ASSUME NEW S, S \subseteq Nat, S # {}
  PROVE  C!Min(S) \in S /\ \A i \in S : C!Min(S) <= i
  <1>1. IsWellFoundedOn(OpToRel(<, Nat), Nat)
    BY NatLessThanWellFounded
  <1>2. PICK x \in S : \A y \in S : <<y, x>> \notin OpToRel(<, Nat)
    BY <1>1, WFMin
  <1>3. \A y \in S : x <= y
    <2>1. \A y \in S : ~(y < x)
      BY <1>2 DEF OpToRel
    <2>2. QED
      BY <2>1
  <1>4. QED
    BY <1>2, <1>3 DEF C!Min

\* The header of a batch is good when its words are and a write comes next.
LEMMA HeadIsGood ==
  ASSUME NEW h \in CqlHeaders, NEW t \in Line, t # <<>>, t[1] \notin C!BatchHeader
  PROVE  LET x == Glued(h.text, t)
         IN  /\ C!OpensWell(x) <=> h.good /\ t[1] \in C!WriteVerbs
             /\ t[1] \in C!WriteVerbs
                  => C!Min({i \in DOMAIN x : x[i] \in C!WriteVerbs}) = Len(h.text) + 1
  <1> DEFINE w == h.text
             n == Len(w)
             x == Glued(w, t)
             writes == {i \in DOMAIN x : x[i] \in C!WriteVerbs}
  <1>1. /\ x \in Line /\ Len(x) = n + Len(t) /\ w \in Line
        /\ \A i \in 1..n : x[i] = w[i]
        /\ \A i \in 1..Len(t) : x[n + i] = t[i]
    BY HeaderFacts, GluedIs
  <1>2. DOMAIN x = 1..Len(x) /\ DOMAIN w = 1..n /\ n \in Nat /\ Len(t) \in Nat /\ Len(t) >= 1
    BY <1>1, Lines
  <1>3. /\ \A i \in 1..n : w[i] \notin C!WriteVerbs
        /\ h.good <=> \A i \in 1..n : w[i] \in C!BatchHeader
    BY <1>2, HeaderFacts
  <1> HIDE DEF x, w, n
  <1>4. x[n + 1] = t[1] /\ n + 1 \in DOMAIN x
    <2>1. 1 \in 1..Len(t) /\ n + 1 \in 1..(n + Len(t))
      BY <1>2
    <2>2. x[n + 1] = t[1]
      <3>1. \A i \in 1..Len(t) : x[n + i] = t[i]
        BY <1>1
      <3>2. QED
        BY <2>1, <3>1
    <2>3. QED
      BY <1>1, <1>2, <2>1, <2>2
  <1>5. writes \subseteq Nat /\ \A i \in writes : i >= n + 1
    BY <1>1, <1>2, <1>3
  <1>6. writes # {} => C!Min(writes) \in writes /\ \A i \in writes : C!Min(writes) <= i
    BY <1>5, LeastNumber
  <1>7. C!OpensWell(x) <=> writes # {} /\ \A i \in 1..(C!Min(writes) - 1) : x[i] \in C!BatchHeader
    BY DEF C!OpensWell
  <1>8. CASE t[1] \in C!WriteVerbs
    <2>1. n + 1 \in writes
      BY <1>4, <1>8
    <2>2. C!Min(writes) = n + 1
      <3> DEFINE least == C!Min(writes)
      <3>1. least \in writes /\ least <= n + 1
        BY <1>6, <2>1
      <3>2. least \in Nat /\ least >= n + 1
        BY <1>5, <3>1
      <3> HIDE DEF least
      <3>3. least = n + 1
        BY <1>2, <3>1, <3>2
      <3>4. QED
        BY <3>3 DEF least
    <2> HIDE DEF writes
    <2>3. C!OpensWell(x) <=> \A i \in 1..n : x[i] \in C!BatchHeader
      BY <1>2, <1>7, <2>1, <2>2
    <2>4. C!OpensWell(x) <=> h.good
      BY <1>1, <1>3, <2>3
    <2>5. QED
      BY <1>8, <2>2, <2>4 DEF writes, x, w, n
  <1>9. CASE t[1] \notin C!WriteVerbs
    <2>1. n + 1 \notin writes
      BY <1>4, <1>9
    <2>2. writes # {} => C!Min(writes) > n + 1
      BY <1>2, <1>5, <1>6, <2>1
    <2>3. writes # {} => n + 1 \in 1..(C!Min(writes) - 1)
      BY <1>2, <1>5, <1>6, <2>2
    <2> HIDE DEF writes
    <2>4. ~C!OpensWell(x)
      BY <1>4, <1>7, <2>3
    <2>5. QED
      BY <1>9, <2>4 DEF writes, x, w, n
  <1>10. QED
    BY <1>8, <1>9

-----------------------------------------------------------------------------
(* The verdict on a batch. *)

Texts == Seq(Line)

\* The statements a batch is made of, without its header.
IsBody(b) ==
  /\ b \in Texts /\ b # <<>> /\ \A k \in DOMAIN b : b[k] # <<>>
  /\ b[1][1] \notin C!BatchHeader

Headed(h, b) == [b EXCEPT ![1] = Glued(h.text, @)]

\* APPLY BATCH behind a semicolon, and behind the last statement.
Behind(b) == Append(b, Closing)
Ending(b) == [b EXCEPT ![Len(b)] = Glued(@, Closing)]

\* What a batch needs.
Worth(h, b) ==
  IF h.good /\ \A k \in DOMAIN b : Sound(b[k])
  THEN IF \E k \in DOMAIN b : Wild(b[k]) THEN C!PermissionFull ELSE C!PermissionSafeWrite
  ELSE C!Never

Gate(ss) == IF C!AnalyzeCQL(ss).refused THEN C!Never ELSE C!RequiredPermission(C!AnalyzeCQL(ss))

LEMMA BodyIs ==
  ASSUME NEW b, IsBody(b)
  PROVE  /\ b \in Texts /\ Len(b) \in Nat /\ Len(b) >= 1 /\ DOMAIN b = 1..Len(b)
         /\ \A k \in 1..Len(b) : b[k] \in Line /\ b[k] # <<>>
         /\ b[1] \in Line /\ b[1] # <<>> /\ b[1][1] \notin C!BatchHeader
         /\ b[Len(b)] \in Line /\ b[Len(b)] # <<>>
  <1> DEFINE n == Len(b)
  <1>1. n \in Nat /\ n >= 1 /\ DOMAIN b = 1..n
    BY LenProperties, EmptySeq DEF IsBody, Texts
  <1>2. \A k \in 1..n : b[k] \in Line /\ b[k] # <<>>
    BY <1>1, ElementOfSeq DEF IsBody, Texts
  <1>3. 1 \in 1..n /\ n \in 1..n
    BY <1>1
  <1>4. QED
    BY <1>1, <1>2, <1>3 DEF IsBody

LEMMA HeadedIs ==
  ASSUME NEW h \in CqlHeaders, NEW b, IsBody(b)
  PROVE  LET ss == Headed(h, b)
         IN  /\ ss \in Texts /\ Len(ss) = Len(b) /\ DOMAIN ss = 1..Len(b)
             /\ ss[1] = Glued(h.text, b[1])
             /\ \A k \in 2..Len(b) : ss[k] = b[k]
  <1> DEFINE g == Glued(h.text, b[1])
             ss == [b EXCEPT ![1] = g]
  <1>1. g \in Line
    BY BodyIs, HeaderFacts, GluedIs
  <1>2. Headed(h, b) = ss
    BY DEF Headed
  <1>3. b \in Texts /\ Len(b) \in Nat /\ 1 \in 1..Len(b)
    BY BodyIs
  <1> HIDE DEF g
  <1>4. /\ ss \in Texts /\ Len(ss) = Len(b)
        /\ \A k \in 1..Len(b) : ss[k] = IF k = 1 THEN g ELSE b[k]
    BY <1>1, <1>3, ExceptSeq DEF Texts
  <1> HIDE DEF ss
  <1>5. DOMAIN ss = 1..Len(b)
    BY <1>4, LenProperties DEF Texts
  <1>6. QED
    BY <1>2, <1>3, <1>4, <1>5 DEF g

\* The last statement of a batch ends it, header or not.
LEMMA HeadedCloses ==
  ASSUME NEW h \in CqlHeaders, NEW b, IsBody(b)
  PROVE  Closes(Headed(h, b)[Len(b)]) => Closes(b[Len(b)])
  <1> DEFINE ss == Headed(h, b)
             n == Len(b)
             t == b[1]
  <1>1. /\ n \in Nat /\ n >= 1 /\ t \in Line /\ t # <<>> /\ t[1] \notin C!BatchHeader
    BY BodyIs
  <1>2. ss[1] = Glued(h.text, t) /\ \A k \in 2..n : ss[k] = b[k]
    BY HeadedIs
  <1> HIDE DEF ss
  <1>3. CASE n >= 2
    <2>1. ss[n] = b[n]
      BY <1>1, <1>2, <1>3
    <2>2. QED
      BY <2>1 DEF ss, n
  <1>4. CASE n = 1
    <2> SUFFICES ASSUME Closes(ss[1]) PROVE Closes(t)
      BY <1>4 DEF ss
    <2> DEFINE x == Glued(h.text, t)
               m == Len(h.text)
               l == Len(t)
    <2>1. /\ x \in Line /\ Len(x) = m + l /\ h.text \in Line /\ m \in Nat /\ l \in Nat /\ l >= 1
          /\ \A i \in 1..l : x[m + i] = t[i]
      BY <1>1, HeaderFacts, GluedIs, Lines
    <2>2. Closes(x)
      BY <1>2
    <2> HIDE DEF x, m, l, t
    <2>3. x[m + l] = "batch" /\ x[(m + l) - 1] = "apply" /\ m + l >= 2
      BY <2>1, <2>2, ClosesLast
    <2>4. t[l] = "batch"
      <3>1. l \in 1..l
        BY <2>1
      <3>2. QED
        BY <2>1, <2>3, <3>1
    <2>5. l # 1
      BY <1>1, <2>4 DEF C!BatchHeader
    <2>6. t[l - 1] = "apply"
      <3>1. l - 1 \in 1..l /\ m + (l - 1) = (m + l) - 1
        BY <2>1, <2>5
      <3>2. QED
        BY <2>1, <2>3, <3>1
    <2>7. SubSeq(t, l - 1, l) = Closing
      <3> DEFINE y == SubSeq(t, l - 1, l)
      <3>1. \A i \in (l - 1)..l : t[i] \in Token
        <4>1. \A i \in 1..l : t[i] \in Token
          BY <1>1, ElementOfSeq DEF Line, l
        <4>2. QED
          BY <2>1, <2>5, <4>1
      <3>2. /\ y \in Line /\ Len(y) = l - (l - 1) + 1
            /\ \A i \in 1..(l - (l - 1) + 1) : y[i] = t[(l - 1) + i - 1]
        BY <2>1, <3>1, SubSeqProperties DEF Line
      <3> HIDE DEF y
      <3>3. l - (l - 1) + 1 = 2 /\ (l - 1) + 1 - 1 = l - 1 /\ (l - 1) + 2 - 1 = l
        BY <2>1
      <3>4. Len(y) = 2 /\ y[1] = "apply" /\ y[2] = "batch"
        BY <2>4, <2>6, <3>2, <3>3
      <3>5. \A i \in 1..2 : y[i] = Closing[i]
        BY <3>4, ClosingIs
      <3>6. y = Closing
        BY <3>2, <3>4, <3>5, ClosingIs, SeqEqual DEF Line
      <3>7. QED
        BY <3>6 DEF y
    <2>8. l >= 2
      BY <2>1, <2>5
    <2>9. QED
      BY <2>7, <2>8 DEF Closes, l
  <1>5. n >= 2 \/ n = 1
    <2>1. n \in Nat /\ n >= 1
      BY <1>1
    <2> HIDE DEF n
    <2>2. QED
      BY <2>1
  <1>6. QED
    BY <1>3, <1>4, <1>5

LEMMA BatchIs ==
  ASSUME NEW h \in CqlHeaders, NEW b, IsBody(b)
  PROVE  C!AnalyzeCQL(Headed(h, b)) = C!AnalyzeCQLBatch(Headed(h, b))
  <1> DEFINE ss == Headed(h, b)
  <1>1. ss[1] = Glued(h.text, b[1]) /\ Len(ss) = Len(b) /\ Len(b) >= 1 /\ ss \in Texts
    BY HeadedIs, BodyIs
  <1>2. C!OpensBatchText(ss[1])
    BY <1>1, BodyIs, HeadOpens
  <1>3. ss # <<>>
    BY <1>1, EmptySeq DEF Texts
  <1> HIDE DEF ss
  <1>4. C!AnalyzeCQL(ss) = C!AnalyzeCQLBatch(ss)
    BY <1>2, <1>3 DEF C!AnalyzeCQL
  <1>5. QED
    BY <1>4 DEF ss

LEMMA RefusedGate ==
  ASSUME NEW ss, C!AnalyzeCQL(ss) = C!Refused("unknown") PROVE Gate(ss) = C!Never
  BY DEF Gate, C!Refused

\* A batch that does not end is refused.
LEMMA OpenVerdict ==
  ASSUME NEW h \in CqlHeaders, NEW b, IsBody(b), ~Closes(b[Len(b)])
  PROVE  Gate(Headed(h, b)) = C!Never
  <1> DEFINE ss == Headed(h, b)
             last == ss[Len(b)]
  <1>1. ~Closes(last)
    BY HeadedCloses
  <1>2. C!Last(ss) = last
    BY HeadedIs DEF C!Last
  <1>3. last \in Line
    BY HeadedIs, BodyIs, ElementOfSeq DEF Texts
  <1>4. C!AnalyzeCQL(ss) = C!AnalyzeCQLBatch(ss)
    BY BatchIs
  <1> HIDE DEF ss, last
  <1>5. Len(last) < 2 \/ SubSeq(last, Len(last) - 1, Len(last)) # <<"apply", "batch">>
    <2>1. Len(last) \in Nat
      BY <1>3, Lines
    <2>2. QED
      BY <1>1, <2>1 DEF Closes, Closing
  <1>6. C!AnalyzeCQLBatch(ss) = C!Refused("unknown")
    BY <1>2, <1>5 DEF C!AnalyzeCQLBatch
  <1>7. QED
    BY <1>4, <1>6, RefusedGate DEF ss

\* The pieces of a body without an APPLY BATCH that ends it.
Cut(e) == [e EXCEPT ![Len(e)] = SubSeq(@, 1, Len(@) - 2)]
Pieces(e) == {Cut(e)[k] : k \in DOMAIN Cut(e)} \ {<<>>}

LEMMA MembersAre ==
  ASSUME NEW h \in CqlHeaders, NEW e, IsBody(e), e[1][1] \in C!WriteVerbs
  PROVE  C!BatchMembers(Headed(h, e)) = Pieces(e)
  <1> DEFINE ss == Headed(h, e)
             t == e[1]
             first == C!Min({i \in DOMAIN ss[1] : ss[1][i] \in C!WriteVerbs})
             behind == SubSeq(ss[1], first, Len(ss[1]))
  <1>1. /\ e \in Texts /\ 1 \in 1..Len(e) /\ DOMAIN e = 1..Len(e)
        /\ t \in Line /\ t # <<>> /\ t[1] \notin C!BatchHeader
    BY BodyIs
  <1>2. ss[1] = Glued(h.text, t)
    BY HeadedIs
  <1>3. first = Len(h.text) + 1
    BY <1>1, <1>2, HeadIsGood
  <1>4. behind = t
    <2>1. h.text \in Line
      BY HeaderFacts
    <2> HIDE DEF t, first
    <2>2. QED
      BY <1>1, <1>2, <1>3, <2>1, BackOf
  <1>5. [ss EXCEPT ![1] = t] = e
    <2> DEFINE g == Glued(h.text, t)
               f == [ss EXCEPT ![1] = t]
    <2>1. ss = [e EXCEPT ![1] = g]
      BY DEF Headed
    <2>2. g \in Line
      BY <1>1, HeaderFacts, GluedIs
    <2> HIDE DEF g, ss
    <2>3. /\ ss \in Texts /\ Len(ss) = Len(e)
          /\ \A k \in 1..Len(e) : ss[k] = IF k = 1 THEN g ELSE e[k]
      BY <1>1, <2>1, <2>2, ExceptSeq DEF Texts
    <2>4. /\ f \in Texts /\ Len(f) = Len(e)
          /\ \A k \in 1..Len(e) : f[k] = IF k = 1 THEN t ELSE ss[k]
      BY <1>1, <2>3, ExceptSeq DEF Texts
    <2> HIDE DEF f
    <2>5. \A k \in 1..Len(e) : f[k] = e[k]
      BY <2>3, <2>4
    <2>6. f = e
      BY <1>1, <2>4, <2>5, SeqEqual DEF Texts
    <2>7. QED
      BY <2>6 DEF f
  <1>6. C!BatchMembers(ss)
        = LET body == [ss EXCEPT ![1] = behind]
              pieces == [body EXCEPT ![Len(body)] = SubSeq(@, 1, Len(@) - 2)]
          IN  {pieces[k] : k \in DOMAIN pieces} \ {<<>>}
    BY DEF C!BatchMembers
  <1> HIDE DEF behind, t, ss
  <1>7. C!BatchMembers(ss) = Pieces(e)
    BY <1>4, <1>5, <1>6 DEF Pieces, Cut
  <1>8. QED
    BY <1>7 DEF ss

\* The verdict on a batch that ends, from the pieces in it.
LEMMA EndedGate ==
  ASSUME NEW h \in CqlHeaders, NEW e, IsBody(e), Closes(Headed(h, e)[Len(e)]),
         NEW b, IsBody(b), b[1][1] = e[1][1],
         e[1][1] \in C!WriteVerbs => Pieces(e) = {b[k] : k \in DOMAIN b}
  PROVE  Gate(Headed(h, e)) = Worth(h, b)
  <1> DEFINE ss == Headed(h, e)
             last == ss[Len(e)]
             all == {b[k] : k \in DOMAIN b}
  <1>1. C!AnalyzeCQL(ss) = C!AnalyzeCQLBatch(ss)
    BY BatchIs
  <1>2. C!Last(ss) = last /\ ss[1] = Glued(h.text, e[1])
    BY HeadedIs DEF C!Last
  <1>3. ~(Len(last) < 2) /\ SubSeq(last, Len(last) - 1, Len(last)) = <<"apply", "batch">>
    <2>1. last \in Line
      BY HeadedIs, BodyIs, ElementOfSeq DEF Texts
    <2>2. Closes(last)
      OBVIOUS
    <2> HIDE DEF last
    <2>3. Len(last) \in Nat
      BY <2>1, Lines
    <2>4. QED
      BY <2>2, <2>3 DEF Closes, Closing
  <1>4. C!OpensWell(ss[1]) <=> h.good /\ e[1][1] \in C!WriteVerbs
    BY <1>2, BodyIs, HeadIsGood
  <1>5. \A ts \in all : C!AnalyzeCQLStatement(ts).unbounded <=> Wild(ts)
    BY DEF Wild
  <1>6. /\ (\E ts \in all : ts[1] \notin C!Members \/ C!AppliesInside(ts))
             <=> ~\A k \in DOMAIN b : Sound(b[k])
        /\ (\E ts \in all : C!AnalyzeCQLStatement(ts).unbounded) <=> \E k \in DOMAIN b : Wild(b[k])
    BY DEF Sound, Wild
  <1> HIDE DEF ss, last, all
  <1>7. CASE ~(h.good /\ e[1][1] \in C!WriteVerbs)
    <2>1. C!AnalyzeCQLBatch(ss) = C!Refused("unknown")
      BY <1>2, <1>3, <1>4, <1>7 DEF C!AnalyzeCQLBatch
    <2>2. Gate(ss) = C!Never
      BY <1>1, <2>1, RefusedGate
    <2>3. 1 \in DOMAIN b
      BY BodyIs
    <2>4. b[1][1] \notin C!WriteVerbs => ~Sound(b[1])
      BY DEF Sound, C!Members, C!WriteVerbs
    <2>5. Worth(h, b) = C!Never
      BY <1>7, <2>3, <2>4 DEF Worth
    <2>6. QED
      BY <2>2, <2>5 DEF ss
  <1>8. CASE h.good /\ e[1][1] \in C!WriteVerbs
    <2>1. C!BatchMembers(ss) = all
      BY <1>8, MembersAre DEF ss, all
    <2>2. C!AnalyzeCQLBatch(ss)
          = IF \E ts \in all : ts[1] \notin C!Members \/ C!AppliesInside(ts)
            THEN C!Refused("unknown")
            ELSE [C!Bounded("write") EXCEPT
                    !.unbounded = \E ts \in all : C!AnalyzeCQLStatement(ts).unbounded]
      BY <1>2, <1>3, <1>4, <1>8, <2>1 DEF C!AnalyzeCQLBatch
    <2>3. CASE \A k \in DOMAIN b : Sound(b[k])
      <3> DEFINE wild == \E k \in DOMAIN b : Wild(b[k])
                 a == C!AnalyzeCQL(ss)
      <3>1. a = IF wild THEN C!Unbounded("write") ELSE C!Bounded("write")
        <4>1. a = [C!Bounded("write") EXCEPT
                     !.unbounded = \E ts \in all : C!AnalyzeCQLStatement(ts).unbounded]
          BY <1>1, <1>6, <2>2, <2>3
        <4>2. CASE wild
          <5>1. (\E ts \in all : C!AnalyzeCQLStatement(ts).unbounded) = TRUE
            BY <1>6, <4>2
          <5>2. QED
            BY <4>1, <4>2, <5>1 DEF C!Bounded, C!Unbounded
        <4>3. CASE ~wild
          <5>1. (\E ts \in all : C!AnalyzeCQLStatement(ts).unbounded) = FALSE
            BY <1>6, <4>3
          <5>2. QED
            BY <4>1, <4>3, <5>1 DEF C!Bounded
        <4>4. QED
          BY <4>2, <4>3
      <3> HIDE DEF wild, a
      <3>2. ~a.refused /\ C!RequiredPermission(a) = IF wild THEN C!PermissionFull ELSE C!PermissionSafeWrite
        BY <3>1 DEF C!Unbounded, C!Bounded, C!RequiredPermission
      <3>3. Gate(ss) = IF wild THEN C!PermissionFull ELSE C!PermissionSafeWrite
        BY <3>2 DEF Gate, a
      <3>4. QED
        BY <1>8, <2>3, <3>3 DEF Worth, wild, ss
    <2>4. CASE ~\A k \in DOMAIN b : Sound(b[k])
      <3>1. C!AnalyzeCQL(ss) = C!Refused("unknown")
        BY <1>1, <1>6, <2>2, <2>4
      <3>2. Gate(ss) = C!Never
        BY <3>1, RefusedGate
      <3>3. QED
        BY <2>4, <3>2 DEF Worth, ss
    <2>5. QED
      BY <2>3, <2>4
  <1>9. QED
    BY <1>7, <1>8

-----------------------------------------------------------------------------
(* A batch grows. *)

\* One more statement.
LEMMA MoreIs ==
  ASSUME NEW b, IsBody(b), NEW t \in Line, t # <<>>
  PROVE  LET e == Append(b, t)
         IN  /\ IsBody(e) /\ Len(e) = Len(b) + 1 /\ e[Len(b) + 1] = t
             /\ \A k \in 1..Len(b) : e[k] = b[k]
  <1> DEFINE e == Append(b, t)
             n == Len(b)
  <1>1. /\ b \in Texts /\ n \in Nat /\ n >= 1 /\ 1 \in 1..n /\ b[1][1] \notin C!BatchHeader
        /\ \A k \in 1..n : b[k] # <<>>
    BY BodyIs
  <1>2. /\ e \in Texts /\ e # <<>> /\ Len(e) = n + 1 /\ e[n + 1] = t
        /\ \A k \in 1..n : e[k] = b[k]
    BY <1>1, AppendProperties DEF Texts
  <1> HIDE DEF e, n
  <1>3. DOMAIN e = 1..(n + 1)
    BY <1>2, LenProperties DEF Texts
  <1>4. \A k \in 1..(n + 1) : k \in 1..n \/ k = n + 1
    BY <1>1
  <1>5. \A k \in DOMAIN e : e[k] # <<>>
    BY <1>1, <1>2, <1>3, <1>4
  <1>6. e[1][1] \notin C!BatchHeader
    BY <1>1, <1>2
  <1>7. IsBody(e)
    BY <1>2, <1>5, <1>6 DEF IsBody
  <1>8. QED
    BY <1>2, <1>7 DEF e, n

LEMMA HeadedMore ==
  ASSUME NEW h \in CqlHeaders, NEW b, IsBody(b), NEW t \in Line, t # <<>>
  PROVE  Append(Headed(h, b), t) = Headed(h, Append(b, t))
  <1> DEFINE e == Append(b, t)
             n == Len(b)
             x == Append(Headed(h, b), t)
             y == Headed(h, e)
             g == Glued(h.text, b[1])
  <1>1. /\ IsBody(e) /\ Len(e) = n + 1 /\ e[n + 1] = t
        /\ \A k \in 1..n : e[k] = b[k]
    BY MoreIs
  <1>2. n \in Nat /\ n >= 1 /\ 1 \in 1..n
    BY BodyIs
  <1>3. /\ Headed(h, b) \in Texts /\ Len(Headed(h, b)) = n /\ Headed(h, b)[1] = g
        /\ \A k \in 2..n : Headed(h, b)[k] = b[k]
    BY HeadedIs
  <1>4. /\ x \in Texts /\ Len(x) = n + 1 /\ x[n + 1] = t
        /\ \A k \in 1..n : x[k] = Headed(h, b)[k]
    BY <1>3, AppendProperties DEF Texts
  <1> HIDE DEF e, n, x
  <1>5. /\ y \in Texts /\ Len(y) = n + 1 /\ y[1] = Glued(h.text, e[1])
        /\ \A k \in 2..(n + 1) : y[k] = e[k]
    BY <1>1, HeadedIs
  <1> HIDE DEF y
  <1>6. x[1] = y[1]
    BY <1>1, <1>2, <1>3, <1>4, <1>5
  <1>7. ASSUME NEW k \in 2..n PROVE x[k] = y[k]
    <2>1. k \in 1..n /\ k \in 2..(n + 1)
      BY <1>2
    <2>2. QED
      BY <1>1, <1>3, <1>4, <1>5, <2>1
  <1>8. x[n + 1] = y[n + 1]
    <2>1. n + 1 \in 2..(n + 1)
      BY <1>2
    <2>2. QED
      BY <1>1, <1>4, <1>5, <2>1
  <1>9. \A k \in 1..(n + 1) : k = 1 \/ k \in 2..n \/ k = n + 1
    BY <1>2
  <1>10. \A k \in 1..(n + 1) : x[k] = y[k]
    BY <1>6, <1>7, <1>8, <1>9
  <1>11. x = y
    BY <1>4, <1>5, <1>10, SeqEqual DEF Texts
  <1>12. QED
    BY <1>11 DEF x, y, e

\* The worth of a batch with a statement more.
LEMMA WorthOfMore ==
  ASSUME NEW h, NEW b, IsBody(b), NEW t \in Line, t # <<>>
  PROVE  Worth(h, Append(b, t))
         = IF Worth(h, b) = C!Never \/ ~Sound(t) THEN C!Never
           ELSE C!Worst(Worth(h, b), IF Wild(t) THEN C!PermissionFull ELSE C!PermissionSafeWrite)
  <1> DEFINE e == Append(b, t)
             n == Len(b)
  <1>1. /\ IsBody(e) /\ Len(e) = n + 1 /\ e[n + 1] = t
        /\ \A k \in 1..n : e[k] = b[k]
    BY MoreIs
  <1>2. n \in Nat /\ DOMAIN b = 1..n /\ DOMAIN e = 1..Len(e)
    BY <1>1, BodyIs
  <1> HIDE DEF e, n
  <1>3. \A k \in 1..(n + 1) : k \in 1..n \/ k = n + 1
    BY <1>2
  <1>4. 1..n \subseteq 1..(n + 1) /\ n + 1 \in 1..(n + 1)
    BY <1>2
  <1>5. (\A k \in DOMAIN e : Sound(e[k])) <=> (\A k \in DOMAIN b : Sound(b[k])) /\ Sound(t)
    BY <1>1, <1>2, <1>3, <1>4
  <1>6. (\E k \in DOMAIN e : Wild(e[k])) <=> (\E k \in DOMAIN b : Wild(b[k])) \/ Wild(t)
    BY <1>1, <1>2, <1>3, <1>4
  <1>7. Worth(h, e)
         = IF Worth(h, b) = C!Never \/ ~Sound(t) THEN C!Never
           ELSE C!Worst(Worth(h, b), IF Wild(t) THEN C!PermissionFull ELSE C!PermissionSafeWrite)
    BY <1>5, <1>6 DEF Worth, C!Never, C!Worst, C!PermissionFull, C!PermissionSafeWrite
  <1>8. QED
    BY <1>7 DEF e

\* No batch closes with a statement that stands before the end of it.
LEMMA ClosedIsUnsound ==
  ASSUME NEW h, NEW e, IsBody(e), Closes(e[Len(e)]) PROVE Worth(h, e) = C!Never
  <1>1. Len(e) \in DOMAIN e /\ e[Len(e)] \in Line
    BY BodyIs
  <1>2. ~Sound(e[Len(e)])
    BY <1>1, ClosesApplies DEF Sound
  <1>3. QED
    BY <1>1, <1>2 DEF Worth

LEMMA ClosingCloses == Closes(Closing) /\ SubSeq(Closing, 1, Len(Closing) - 2) = <<>> /\ Closing # <<>>
  <1>1. <<>> \in Line
    BY DEF Line
  <1>2. Glued(<<>>, Closing) = Closing
    BY ClosingIs, ConcatEmptySeq DEF Glued, Line
  <1>3. Closes(Closing)
    BY <1>1, <1>2, GluedCloses
  <1>4. SubSeq(Closing, 1, Len(Closing) - 2) = <<>>
    BY <1>1, <1>2, ClosingIs, FrontOf
  <1>5. QED
    BY <1>3, <1>4 DEF Closing

\* A body that ends, as it stands in a batch.
Ended(h, e, b) ==
  /\ IsBody(e) /\ Closes(e[Len(e)]) /\ Closes(Headed(h, e)[Len(e)])
  /\ b[1][1] = e[1][1] /\ Pieces(e) = {b[k] : k \in DOMAIN b}

LEMMA BehindIs ==
  ASSUME NEW h \in CqlHeaders, NEW b, IsBody(b)
  PROVE  Ended(h, Behind(b), b) /\ Behind(Headed(h, b)) = Headed(h, Behind(b))
  <1> DEFINE e == Behind(b)
             n == Len(b)
             m == n + 1
             cut == Cut(e)
  <1>1. /\ IsBody(e) /\ Len(e) = m /\ e[m] = Closing
        /\ \A k \in 1..n : e[k] = b[k]
    BY ClosingIs, ClosingCloses, MoreIs DEF Behind
  <1>2. /\ n \in Nat /\ n >= 1 /\ DOMAIN b = 1..n /\ e \in Texts /\ m \in 1..m /\ m \in 2..m
        /\ 1 \in 1..n /\ \A k \in 1..n : b[k] # <<>>
    BY <1>1, BodyIs
  <1>3. \A k \in 1..m : k \in 1..n \/ k = m
    BY <1>2
  <1>4. 1..n \subseteq 1..m /\ \A k \in 1..n : k # m
    BY <1>2
  <1>5. Headed(h, e)[m] = Closing
    BY <1>1, <1>2, HeadedIs
  <1> HIDE DEF e, n, m
  <1>6. cut = [e EXCEPT ![m] = <<>>]
    BY <1>1, ClosingCloses DEF Cut
  <1>7. <<>> \in Line
    BY DEF Line
  <1> HIDE DEF cut
  <1>8. /\ cut \in Texts /\ Len(cut) = m
        /\ \A k \in 1..m : cut[k] = IF k = m THEN <<>> ELSE e[k]
    BY <1>1, <1>2, <1>6, <1>7, ExceptSeq DEF Texts
  <1>9. DOMAIN cut = 1..m
    BY <1>8, LenProperties DEF Texts
  <1>10. cut[m] = <<>> /\ \A k \in 1..n : cut[k] = b[k]
    BY <1>1, <1>2, <1>4, <1>8
  <1>11. Pieces(e) = {b[k] : k \in DOMAIN b}
    BY <1>2, <1>3, <1>4, <1>9, <1>10 DEF Pieces, cut
  <1>12. Ended(h, e, b)
    BY <1>1, <1>2, <1>5, <1>11, ClosingCloses DEF Ended
  <1>13. Behind(Headed(h, b)) = Headed(h, e)
    BY ClosingIs, ClosingCloses, HeadedMore DEF Behind, e
  <1>14. QED
    BY <1>12, <1>13 DEF e

LEMMA GluedAgain ==
  ASSUME NEW v \in Line, NEW w \in Line, NEW x \in Line
  PROVE  Glued(Glued(v, w), x) = Glued(v, Glued(w, x))
  BY ConcatAssociative DEF Glued, Line

LEMMA ClosedText ==
  ASSUME NEW v \in Line, v # <<>>
  PROVE  LET x == Glued(v, Closing)
         IN  /\ x \in Line /\ Closes(x) /\ SubSeq(x, 1, Len(x) - 2) = v
             /\ x # <<>> /\ x[1] = v[1]
  <1> DEFINE x == Glued(v, Closing)
  <1>1. Closing \in Line /\ Len(Closing) = 2
    BY ClosingIs
  <1>2. /\ x \in Line /\ Len(x) = Len(v) + 2
        /\ \A i \in 1..Len(v) : x[i] = v[i]
    <2>1. /\ x \in Line /\ Len(x) = Len(v) + Len(Closing)
          /\ \A i \in 1..Len(v) : x[i] = v[i]
      BY <1>1, GluedIs
    <2> HIDE DEF x
    <2>2. QED
      BY <1>1, <2>1
  <1>3. Len(v) \in Nat /\ Len(v) >= 1
    BY Lines
  <1>4. Closes(x)
    BY GluedCloses
  <1>5. SubSeq(x, 1, Len(x) - 2) = v
    BY <1>1, FrontOf
  <1> HIDE DEF x
  <1>6. x # <<>> /\ x[1] = v[1]
    BY <1>2, <1>3, Lines
  <1>7. QED
    BY <1>2, <1>4, <1>5, <1>6 DEF x

LEMMA EndingIs ==
  ASSUME NEW h \in CqlHeaders, NEW b, IsBody(b)
  PROVE  Ended(h, Ending(b), b) /\ Ending(Headed(h, b)) = Headed(h, Ending(b))
  <1> DEFINE n == Len(b)
             last == Glued(b[n], Closing)
             e == [b EXCEPT ![n] = last]
             cut == Cut(e)
             ss == Headed(h, b)
             end == Glued(ss[n], Closing)
             x == [ss EXCEPT ![n] = end]
             y == Headed(h, e)
             g == Glued(h.text, b[1])
  <1>1. /\ b \in Texts /\ n \in Nat /\ n >= 1 /\ DOMAIN b = 1..n /\ 1 \in 1..n /\ n \in 1..n
        /\ \A k \in 1..n : b[k] \in Line /\ b[k] # <<>>
    BY BodyIs
  <1>2. b[1] \in Line /\ b[n] \in Line /\ b[1] # <<>> /\ b[1][1] \notin C!BatchHeader
    BY BodyIs
  <1>3. /\ last \in Line /\ Closes(last) /\ SubSeq(last, 1, Len(last) - 2) = b[n]
        /\ last # <<>> /\ last[1] = b[n][1]
    <2>1. b[n] \in Line /\ b[n] # <<>>
      BY <1>1
    <2> HIDE DEF n
    <2>2. QED
      BY <2>1, ClosedText
  <1>4. e = Ending(b) /\ x = Ending(ss)
    <2>1. Len(ss) = n
      BY HeadedIs
    <2>2. QED
      BY <2>1 DEF Ending
  <1> HIDE DEF last, n
  <1>5. /\ e \in Texts /\ Len(e) = n
        /\ \A k \in 1..n : e[k] = IF k = n THEN last ELSE b[k]
    BY <1>1, <1>3, ExceptSeq DEF Texts
  <1>6. DOMAIN e = 1..n
    BY <1>5, LenProperties DEF Texts
  <1> HIDE DEF e
  <1>7. e[1][1] = b[1][1] /\ e[n] = last
    BY <1>1, <1>3, <1>5
  <1>8. IsBody(e)
    <2>1. \A k \in DOMAIN e : e[k] # <<>>
      BY <1>1, <1>3, <1>5, <1>6
    <2>2. e # <<>>
      BY <1>1, <1>6
    <2>3. QED
      BY <1>2, <1>5, <1>7, <2>1, <2>2 DEF IsBody
  <1>9. Pieces(e) = {b[k] : k \in DOMAIN b}
    <2>1. cut = [e EXCEPT ![n] = b[n]]
      BY <1>3, <1>5, <1>7 DEF Cut
    <2> HIDE DEF cut
    <2>2. /\ cut \in Texts /\ Len(cut) = n
          /\ \A k \in 1..n : cut[k] = IF k = n THEN b[n] ELSE e[k]
      BY <1>1, <1>2, <1>5, <2>1, ExceptSeq DEF Texts
    <2>3. DOMAIN cut = 1..n
      BY <2>2, LenProperties DEF Texts
    <2>4. \A k \in 1..n : cut[k] = b[k]
      BY <1>5, <2>2
    <2>5. QED
      BY <1>1, <2>3, <2>4 DEF Pieces, cut
  <1>10. /\ ss \in Texts /\ Len(ss) = n /\ ss[1] = g
         /\ \A k \in 2..n : ss[k] = b[k]
    BY HeadedIs DEF n
  <1>11. /\ y \in Texts /\ Len(y) = n /\ y[1] = Glued(h.text, e[1])
         /\ \A k \in 2..n : y[k] = e[k]
    BY <1>5, <1>8, HeadedIs
  <1>12. h.text \in Line /\ g \in Line
    BY <1>2, HeaderFacts, GluedIs
  <1>13. ss[n] \in Line
    BY <1>1, <1>10, ElementOfSeq DEF Texts
  <1>14. end \in Line /\ Closes(end)
    BY <1>13, ClosingIs, GluedIs, GluedCloses
  <1>15. y[n] = end
    <2>1. CASE n = 1
      <3>1. y[1] = Glued(h.text, Glued(b[1], Closing)) /\ end = Glued(Glued(h.text, b[1]), Closing)
        BY <1>7, <1>10, <1>11, <2>1 DEF last
      <3>2. QED
        BY <1>2, <1>12, <2>1, <3>1, ClosingIs, GluedAgain
    <2>2. CASE n # 1
      <3>1. n \in 2..n
        BY <1>1, <2>2
      <3>2. QED
        BY <1>7, <1>10, <1>11, <3>1 DEF last
    <2>3. QED
      BY <2>1, <2>2
  <1> HIDE DEF end, ss, y, g
  <1>16. /\ x \in Texts /\ Len(x) = n
         /\ \A k \in 1..n : x[k] = IF k = n THEN end ELSE ss[k]
    BY <1>1, <1>10, <1>14, ExceptSeq DEF Texts
  <1> HIDE DEF x
  <1>17. ASSUME NEW k \in 1..n PROVE x[k] = y[k]
    <2>1. CASE k = n
      BY <1>15, <1>16, <2>1
    <2>2. CASE k # n /\ k = 1
      <3>1. e[1] = b[1]
        BY <1>1, <1>5, <2>2
      <3>2. QED
        BY <1>10, <1>11, <1>16, <2>2, <3>1 DEF g
    <2>3. CASE k # n /\ k # 1
      <3>1. k \in 2..n
        BY <1>1, <2>3
      <3>2. QED
        BY <1>5, <1>10, <1>11, <1>16, <2>3, <3>1
    <2>4. QED
      BY <2>1, <2>2, <2>3
  <1>18. x = y
    BY <1>11, <1>16, <1>17, SeqEqual DEF Texts
  <1>19. Ended(h, e, b)
    BY <1>3, <1>5, <1>7, <1>8, <1>9, <1>14, <1>15 DEF Ended, y
  <1>20. x = Headed(h, e)
    BY <1>18 DEF y
  <1> HIDE DEF e, x
  <1>21. QED
    BY <1>4, <1>19, <1>20 DEF ss

\* What an ended batch needs.
LEMMA EndedVerdict ==
  ASSUME NEW h \in CqlHeaders, NEW b, IsBody(b), NEW e, Ended(h, e, b)
  PROVE  Gate(Headed(h, e)) = Worth(h, b) /\ IsBody(e) /\ Worth(h, e) = C!Never
  <1>1. /\ IsBody(e) /\ Closes(Headed(h, e)[Len(e)]) /\ b[1][1] = e[1][1] /\ Closes(e[Len(e)])
        /\ Pieces(e) = {b[k] : k \in DOMAIN b}
    BY DEF Ended
  <1>2. Worth(h, e) = C!Never
    BY <1>1, ClosedIsUnsound
  <1>3. Gate(Headed(h, e)) = Worth(h, b)
    BY <1>1, EndedGate
  <1>4. QED
    BY <1>1, <1>2, <1>3

-----------------------------------------------------------------------------
(* The invariant. *)

\* Statements that no header stands before.
Alone ==
  /\ batch = "none" /\ statements \in Texts
  /\ \E s \in CqlStatements :
       /\ statements # <<>> /\ statements[1] = s.text
       /\ cqlNeed = IF Len(statements) = 1 THEN s.need ELSE C!Never
       /\ Len(statements) = 1 => members = IF s.text[1] \in C!Members THEN s.need ELSE C!Never

\* A batch that nothing closes; or something did before its end.
Open(h, b) ==
  /\ statements = Headed(h, b) /\ ~Closes(b[Len(b)])
  /\ cqlNeed = C!Never
  /\ batch = "open" \/ (batch = "closed" /\ members = C!Never)

Shut(h, b) ==
  /\ statements \in {Behind(Headed(h, b)), Ending(Headed(h, b))}
  /\ batch = "closed" /\ cqlNeed = members

Batch(h, b) == IsBody(b) /\ members = Worth(h, b) /\ (Open(h, b) \/ Shut(h, b))

CqlInv == Alone \/ \E h \in CqlHeaders, b \in Texts : Batch(h, b)

LEMMA ClosedIs ==
  ASSUME NEW h \in CqlHeaders, NEW b, IsBody(b), Shut(h, b)
  PROVE  \E e : /\ IsBody(e) /\ Worth(h, e) = C!Never
                /\ statements = Headed(h, e) /\ Gate(statements) = Worth(h, b)
  <1>1. CASE statements = Behind(Headed(h, b))
    BY <1>1, BehindIs, EndedVerdict
  <1>2. CASE statements = Ending(Headed(h, b))
    BY <1>2, EndingIs, EndedVerdict
  <1>3. QED
    BY <1>1, <1>2 DEF Shut

\* Statements without a header: one, or too many.
LEMMA AloneGate ==
  ASSUME NEW s \in CqlStatements, NEW ss \in Texts, ss # <<>>, ss[1] = s.text
  PROVE  Gate(ss) = IF Len(ss) = 1 THEN s.need ELSE C!Never
  <1>1. s.text[1] \notin C!BatchHeader /\ "begin" \in C!BatchHeader
    BY StatementFacts DEF C!BatchHeader
  <1>2. ~C!OpensBatchText(ss[1])
    BY <1>1 DEF C!OpensBatchText
  <1>3. Len(ss) \in Nat /\ Len(ss) >= 1
    BY LenProperties, EmptySeq DEF Texts
  <1>4. CASE Len(ss) = 1
    <2>1. C!AnalyzeCQL(ss) = C!AnalyzeCQLStatement(s.text)
      BY <1>2, <1>4 DEF C!AnalyzeCQL
    <2>2. QED
      BY <1>4, <2>1, StatementFacts DEF Gate
  <1>5. CASE Len(ss) # 1
    <2>1. Len(ss) > 1
      <3> DEFINE n == Len(ss)
      <3>1. n \in Nat /\ n >= 1 /\ n # 1
        BY <1>3, <1>5
      <3> HIDE DEF n
      <3>2. n > 1
        BY <3>1
      <3>3. QED
        BY <3>2 DEF n
    <2>2. C!AnalyzeCQL(ss) = C!Refused("unknown")
      BY <1>2, <2>1 DEF C!AnalyzeCQL
    <2>3. QED
      BY <1>5, <2>2, RefusedGate
  <1>6. QED
    BY <1>4, <1>5

LEMMA CqlGated == CqlInv => BatchAsItsWorst
  <1> SUFFICES ASSUME CqlInv PROVE Gate(statements) = cqlNeed
    BY DEF BatchAsItsWorst, C!BatchAsItsWorst, C!Level, Gate
  <1>1. CASE Alone
    BY <1>1, AloneGate DEF Alone
  <1>2. ASSUME NEW h \in CqlHeaders, NEW b \in Texts, Batch(h, b) PROVE Gate(statements) = cqlNeed
    <2>1. CASE Open(h, b)
      BY <1>2, <2>1, OpenVerdict DEF Batch, Open
    <2>2. CASE Shut(h, b)
      BY <1>2, <2>2, ClosedIs DEF Batch, Shut
    <2>3. QED
      BY <1>2, <2>1, <2>2 DEF Batch
  <1>3. QED
    BY <1>1, <1>2 DEF CqlInv

LEMMA CqlInitial == C!Init => CqlInv
  <1> SUFFICES ASSUME C!Init PROVE CqlInv
    OBVIOUS
  <1>1. PICK s \in CqlStatements :
          /\ statements = <<s.text>> /\ batch = "none" /\ cqlNeed = s.need
          /\ members = IF s.text[1] \in C!Members THEN s.need ELSE C!Never
    BY DEF C!Init
  <1>2. s.text \in Line
    BY StatementFacts
  <1>3. statements \in Texts /\ statements # <<>> /\ Len(statements) = 1 /\ statements[1] = s.text
    BY <1>1, <1>2 DEF Texts
  <1>4. QED
    BY <1>1, <1>3 DEF CqlInv, Alone

\* A batch starts with a header before a statement.
LEMMA OpenStep ==
  ASSUME Alone, NEW h \in CqlHeaders, C!Open(h) PROVE CqlInv'
  <1>1. PICK s \in CqlStatements :
          /\ statements[1] = s.text /\ Len(statements) = 1
          /\ members = IF s.text[1] \in C!Members THEN s.need ELSE C!Never
    BY DEF Alone, C!Open
  <1>2. /\ statements' = <<h.text \o statements[1]>> /\ batch' = "open"
        /\ members' = (IF h.good THEN members ELSE C!Never) /\ cqlNeed' = C!Never
    BY DEF C!Open
  <1> DEFINE t == s.text
             b == <<t>>
  <1>3. t \in Line /\ t # <<>> /\ t[1] \notin C!BatchHeader /\ ~C!AppliesInside(t)
    BY StatementFacts
  <1>4. Len(b) = 1 /\ b[1] = t /\ DOMAIN b = {1} /\ b # <<>>
    OBVIOUS
  <1>5. b \in Texts
    BY <1>3 DEF Texts
  <1>6. statements' = Headed(h, b)
    <2>1. Headed(h, b) = <<Glued(h.text, t)>>
      BY DEF Headed
    <2>2. QED
      BY <1>1, <1>2, <2>1 DEF Glued
  <1> HIDE DEF b, t
  <1>7. IsBody(b)
    BY <1>3, <1>4, <1>5 DEF IsBody
  <1>8. ~Closes(b[Len(b)])
    BY <1>3, <1>4, ClosesApplies
  <1>9. members' = Worth(h, b)
    <2>1. Sound(t) <=> t[1] \in C!Members
      BY <1>3 DEF Sound
    <2>2. t[1] \in C!Members => s.need = IF Wild(t) THEN C!PermissionFull ELSE C!PermissionSafeWrite
      BY MemberLevel DEF t
    <2>3. (\A k \in DOMAIN b : Sound(b[k])) <=> Sound(t)
      BY <1>4
    <2>4. (\E k \in DOMAIN b : Wild(b[k])) <=> Wild(t)
      BY <1>4
    <2>5. members = IF t[1] \in C!Members THEN s.need ELSE C!Never
      BY <1>1 DEF t
    <2>6. QED
      BY <1>2, <2>1, <2>2, <2>3, <2>4, <2>5 DEF Worth
  <1>10. Batch(h, b)'
    BY <1>2, <1>6, <1>7, <1>8, <1>9 DEF Batch, Open
  <1>11. QED
    BY <1>5, <1>10 DEF CqlInv

\* Another statement.
LEMMA AnotherStep ==
  ASSUME CqlInv, NEW s \in CqlStatements, C!Another(s) PROVE CqlInv'
  <1> DEFINE t == s.text
  <1>1. /\ statements' = Append(statements, t) /\ batch' = batch /\ cqlNeed' = C!Never
        /\ members' = IF batch = "closed" \/ t[1] \notin C!Members THEN C!Never
                      ELSE C!Worst(members, s.need)
    BY DEF C!Another
  <1>2. t \in Line /\ t # <<>> /\ ~C!AppliesInside(t)
    BY StatementFacts
  <1>3. t[1] \in C!Members => s.need = IF Wild(t) THEN C!PermissionFull ELSE C!PermissionSafeWrite
    BY MemberLevel
  <1> HIDE DEF t
  <1>4. ~Closes(t) /\ (Sound(t) <=> t[1] \in C!Members)
    BY <1>2, ClosesApplies DEF Sound
  <1>5. CASE Alone
    <2>1. PICK u \in CqlStatements : statements[1] = u.text /\ statements # <<>>
      BY <1>5 DEF Alone
    <2>2. statements \in Texts /\ batch = "none" /\ Len(statements) \in Nat /\ Len(statements) >= 1
      BY <1>5, <2>1, LenProperties, EmptySeq DEF Alone, Texts
    <2>3. /\ statements' \in Texts /\ statements' # <<>> /\ Len(statements') = Len(statements) + 1
          /\ \A k \in 1..Len(statements) : statements'[k] = statements[k]
      BY <1>1, <1>2, <2>2, AppendProperties DEF Texts
    <2>4. Len(statements') # 1 /\ statements'[1] = u.text
      BY <2>1, <2>2, <2>3
    <2>5. Alone'
      BY <1>1, <2>2, <2>3, <2>4 DEF Alone
    <2>6. QED
      BY <2>5 DEF CqlInv
  <1>6. ASSUME NEW h \in CqlHeaders, NEW b \in Texts, Batch(h, b) PROVE CqlInv'
    <2>1. ASSUME NEW e, IsBody(e), statements = Headed(h, e), members' = Worth(h, Append(e, t)),
                 batch = "open" \/ batch = "closed"
          PROVE  CqlInv'
      <3> DEFINE f == Append(e, t)
      <3>1. IsBody(f) /\ f[Len(f)] = t
        BY <1>2, <2>1, MoreIs
      <3>2. statements' = Headed(h, f)
        BY <1>1, <1>2, <2>1, HeadedMore
      <3>3. members' = Worth(h, f)
        BY <2>1
      <3> HIDE DEF f
      <3>4. batch' = "open" \/ (batch' = "closed" /\ members' = C!Never)
        BY <1>1, <2>1
      <3>5. Batch(h, f)'
        BY <1>1, <1>4, <3>1, <3>2, <3>3, <3>4 DEF Batch, Open
      <3>6. f \in Texts
        BY <3>1 DEF IsBody
      <3>7. QED
        BY <3>5, <3>6 DEF CqlInv
    <2>2. CASE Open(h, b)
      <3>1. /\ IsBody(b) /\ members = Worth(h, b) /\ statements = Headed(h, b)
            /\ batch = "open" \/ (batch = "closed" /\ members = C!Never)
        BY <1>6, <2>2 DEF Batch, Open
      <3>2. members = C!Never \/ members \in {C!PermissionFull, C!PermissionSafeWrite}
        BY <3>1 DEF Worth
      <3>3. members' = Worth(h, Append(b, t))
        <4>1. Worth(h, Append(b, t))
              = IF members = C!Never \/ ~Sound(t) THEN C!Never
                ELSE C!Worst(members, IF Wild(t) THEN C!PermissionFull ELSE C!PermissionSafeWrite)
          BY <1>2, <3>1, WorthOfMore
        <4>2. CASE batch = "closed" \/ ~Sound(t)
          BY <1>1, <1>4, <3>1, <4>1, <4>2
        <4>3. CASE batch = "open" /\ Sound(t)
          <5>1. members' = C!Worst(members, IF Wild(t) THEN C!PermissionFull ELSE C!PermissionSafeWrite)
            BY <1>1, <1>3, <1>4, <4>3
          <5>2. members = C!Never => members' = C!Never
            BY <5>1 DEF C!Worst, C!Never, C!PermissionFull, C!PermissionSafeWrite
          <5>3. QED
            BY <4>1, <4>3, <5>1, <5>2
        <4>4. QED
          BY <3>1, <4>2, <4>3
      <3>4. QED
        BY <2>1, <3>1, <3>3
    <2>3. CASE Shut(h, b)
      <3>1. IsBody(b) /\ batch = "closed"
        BY <1>6, <2>3 DEF Batch, Shut
      <3>2. PICK e : IsBody(e) /\ Worth(h, e) = C!Never /\ statements = Headed(h, e)
        BY <2>3, <3>1, ClosedIs
      <3>3. members' = C!Never
        BY <1>1, <3>1
      <3>4. Worth(h, Append(e, t)) = C!Never
        BY <1>2, <3>2, WorthOfMore
      <3>5. QED
        BY <2>1, <3>1, <3>2, <3>3, <3>4
    <2>4. QED
      BY <1>6, <2>2, <2>3 DEF Batch
  <1>7. QED
    BY <1>5, <1>6 DEF CqlInv

\* APPLY BATCH.
LEMMA ApplyStep == ASSUME CqlInv, C!Apply PROVE CqlInv'
  <1>1. /\ batch # "none" /\ batch' = "closed" /\ cqlNeed' = members'
        /\ members' = IF batch = "closed" THEN C!Never ELSE members
    BY DEF C!Apply
  <1>2. statements' \in {Behind(statements), Ending(statements)}
    BY DEF C!Apply, Behind, Ending, Glued, Closing
  <1>3. ASSUME NEW h \in CqlHeaders, NEW e, IsBody(e), statements = Headed(h, e), members' = Worth(h, e)
        PROVE  CqlInv'
    <2>1. Batch(h, e)'
      BY <1>1, <1>2, <1>3 DEF Batch, Shut
    <2>2. e \in Texts
      BY <1>3 DEF IsBody
    <2>3. QED
      BY <2>1, <2>2 DEF CqlInv
  <1>4. PICK h \in CqlHeaders, b \in Texts : Batch(h, b)
    BY <1>1 DEF CqlInv, Alone
  <1>5. IsBody(b) /\ members = Worth(h, b)
    BY <1>4 DEF Batch
  <1>6. CASE Open(h, b)
    <2>1. members' = Worth(h, b)
      BY <1>1, <1>5, <1>6 DEF Open
    <2>2. QED
      BY <1>3, <1>5, <1>6, <2>1 DEF Open
  <1>7. CASE Shut(h, b)
    <2>1. PICK e : IsBody(e) /\ Worth(h, e) = C!Never /\ statements = Headed(h, e)
      BY <1>5, <1>7, ClosedIs
    <2>2. members' = C!Never
      BY <1>1, <1>7 DEF Shut
    <2>3. QED
      BY <1>3, <2>1, <2>2
  <1>8. QED
    BY <1>4, <1>6, <1>7 DEF Batch

LEMMA CqlStep == CqlInv /\ [C!Next]_(C!vars) => CqlInv'
  <1> SUFFICES ASSUME CqlInv, [C!Next]_(C!vars) PROVE CqlInv'
    OBVIOUS
  <1>1. ASSUME NEW h \in CqlHeaders, C!Open(h) PROVE CqlInv'
    <2>1. batch = "none"
      BY <1>1 DEF C!Open
    <2>2. Alone
      BY <2>1 DEF CqlInv, Batch, Open, Shut
    <2>3. QED
      BY <1>1, <2>2, OpenStep
  <1>2. ASSUME NEW s \in CqlStatements, C!Another(s) PROVE CqlInv'
    BY <1>2, AnotherStep
  <1>3. CASE C!Apply
    BY <1>3, ApplyStep
  <1>4. CASE UNCHANGED C!vars
    <2>1. UNCHANGED <<statements, batch, cqlNeed, members>>
      BY <1>4 DEF C!vars
    <2>2. CqlInv' <=> CqlInv
      BY <2>1 DEF CqlInv, Alone, Batch, Open, Shut
    <2>3. QED
      BY <2>2
  <1>5. QED
    BY <1>1, <1>2, <1>3, <1>4 DEF C!Next

\* A text of CQL statements, in any number, with any header and with APPLY BATCH
\* wherever it stands, is gated at exactly the level it needs: a whole batch of
\* writes at that of its worst member, and what is neither a single statement nor
\* a whole batch at none (cql_analyze.go:18-33, :138-209).
THEOREM CqlBatchAsItsWorst == C!Spec => []BatchAsItsWorst
  <1>1. C!Spec => []CqlInv
    BY CqlInitial, CqlStep, PTL DEF C!Spec
  <1>2. QED
    BY <1>1, CqlGated, PTL

=============================================================================
