-------------------------- MODULE ConfigurationProofs --------------------------
(***************************************************************************)
(* What a pool makes of its settings, for every number in a configuration  *)
(* and every default; and what is mounted and selected of the endpoints,   *)
(* for any number of entries and any paths.                                *)
(***************************************************************************)
EXTENDS PoolSettings, Configuration, FiniteSetTheorems, SequenceTheorems, WellFoundedInduction, TLAPS

-----------------------------------------------------------------------------
(* Pools (PoolSettings). *)

\* Settings are numbers of the configuration.
PoolTyped == global \in [Field -> Setting] /\ own \in [Field -> Setting]

\* A configuration holds settings and nothing else.
LEMMA PoolTypes == PoolSpec => []PoolTyped
<1>1. PoolInit => PoolTyped
  BY PoolAssumption DEF PoolInit, PoolTyped, Unset
<1>2. PoolTyped /\ [PoolNext]_poolVars => PoolTyped'
  BY DEF PoolTyped, PoolNext, SetGlobal, SetOwn, poolVars
<1>. QED
  BY <1>1, <1>2, PTL DEF PoolSpec

\* The first setting that is not zero is the one merged, field by field.
LEMMA MergedSettings ==
  ASSUME PoolTyped
  PROVE  /\ Configured \in [Field -> Int]
         /\ \A f \in Field : Configured[f] = Asked(f)
BY PoolAssumption DEF PoolTyped, Configured, Merged, Asked

\* What is handed to database/sql, in terms of what was asked for.
AsHanded ==
  LET pool == WithDefaults(Configured)
  IN  /\ pool \in [Field -> Nat]
      /\ pool.MaxIdle > 0
      /\ \A f \in Field \ {"MaxIdle"} :
           pool[f] = IF Asked(f) = 0 THEN DefaultPool[f] ELSE LargerOf(Asked(f), 0)
      /\ pool.MaxIdle = IF Asked("MaxIdle") = 0 THEN DefaultPool.MaxIdle
                        ELSE IF Asked("MaxIdle") > 0 THEN Asked("MaxIdle")
                        ELSE IF pool.MaxOpen > 0 THEN pool.MaxOpen
                        ELSE DefaultPool.MaxIdle

\* What database/sql makes of it.
AsKept ==
  LET pool == WithDefaults(Configured)
  IN  /\ \A f \in Field \ {"MaxIdle"} : SQLPool[f] = pool[f]
      /\ SQLPool.MaxIdle = IF pool.MaxOpen > 0 /\ pool.MaxIdle > pool.MaxOpen
                           THEN pool.MaxOpen ELSE pool.MaxIdle

\* Both merges and the translation of a negative number, on one line each.
LEMMA Handed == PoolTyped => AsHanded
<1>. SUFFICES ASSUME PoolTyped PROVE AsHanded
  OBVIOUS
<1>. DEFINE out == Merged(Configured, DefaultPool)
<1>1. out \in [Field -> Int]
  BY MergedSettings, PoolAssumption DEF Merged
<1>2. \A f \in Field : out[f] = IF Asked(f) = 0 THEN DefaultPool[f] ELSE Asked(f)
  BY MergedSettings, PoolAssumption DEF Merged
<1>3. {"MaxOpen", "MaxIdle", "MaxLifetime", "MaxIdleTime"} = Field
  BY DEF Field
<1>4. Idle(out) \in Nat /\ Idle(out) > 0
  BY <1>1, <1>2, <1>3, PoolAssumption DEF Idle
<1>5. Idle(out) = IF Asked("MaxIdle") = 0 THEN DefaultPool.MaxIdle
                  ELSE IF Asked("MaxIdle") > 0 THEN Asked("MaxIdle")
                  ELSE IF out.MaxOpen > 0 THEN out.MaxOpen
                  ELSE DefaultPool.MaxIdle
  BY <1>1, <1>2, <1>3, PoolAssumption DEF Idle
<1>6. \A f \in Field : LargerOf(out[f], 0) \in Nat
  BY <1>1 DEF LargerOf
<1>7. WithDefaults(Configured) =
        [f \in Field |-> IF f = "MaxIdle" THEN Idle(out) ELSE LargerOf(out[f], 0)]
  BY DEF WithDefaults
<1>8. /\ LargerOf(out.MaxOpen, 0) > 0 <=> out.MaxOpen > 0
      /\ out.MaxOpen > 0 => LargerOf(out.MaxOpen, 0) = out.MaxOpen
  BY <1>1, <1>3 DEF LargerOf
<1>9. \A f \in Field : DefaultPool[f] \in Nat
  BY PoolAssumption
<1>10. \A f \in Field : Asked(f) = 0 => LargerOf(out[f], 0) = DefaultPool[f]
  BY <1>2, <1>9 DEF LargerOf
<1>. QED
  BY <1>2, <1>3, <1>4, <1>5, <1>6, <1>7, <1>8, <1>10 DEF AsHanded

\* database/sql lowers the number of idle connections and nothing else.
LEMMA Kept == PoolTyped => AsKept
BY Handed DEF SQLPool, Field, AsHanded, AsKept

\* The same, of the settings after a step.
LEMMA SettingsNext == PoolTyped' => AsHanded' /\ AsKept'
BY Handed, Kept, PTL

\* No pool is without a limit, in number or in time, that was not asked for it
\* or has none by default (config.go:60-61).
THEOREM LimitsAreKept == PoolSpec => []NoLimitOnlyIfAsked
<1>1. PoolTyped => NoLimitOnlyIfAsked
  <2>. SUFFICES ASSUME PoolTyped, NEW f \in Field \ {"MaxIdle"}
                PROVE  /\ SQLPool[f] = Unlimited
                            <=> Asked(f) < 0 \/ (Asked(f) = 0 /\ DefaultPool[f] = 0)
                       /\ Asked(f) > 0 => SQLPool[f] = Asked(f)
    BY DEF NoLimitOnlyIfAsked
  <2>1. SQLPool[f] = IF Asked(f) = 0 THEN DefaultPool[f] ELSE LargerOf(Asked(f), 0)
    BY Handed, Kept DEF AsHanded, AsKept
  <2>2. Asked(f) \in Int
    BY PoolAssumption DEF PoolTyped, Asked
  <2>. QED
    BY <2>1, <2>2 DEF LargerOf, Unlimited
<1>. QED
  BY <1>1, PoolTypes, PTL

\* No configuration makes database/sql close every connection it is given back
\* (db.go:85-93).
THEOREM PoolsReuse == PoolSpec => []SomeStayIdle
<1>1. PoolTyped => SomeStayIdle
  <2>. SUFFICES ASSUME PoolTyped PROVE SomeStayIdle
    OBVIOUS
  <2>1. SQLPool.MaxOpen = WithDefaults(Configured).MaxOpen
    BY Kept DEF Field, AsKept
  <2>. QED
    BY <2>1, Handed, Kept DEF SomeStayIdle, Unlimited, Field, AsHanded, AsKept
<1>. QED
  BY <1>1, PoolTypes, PTL

\* A setting changes the pool's settings of its own field, and the number of
\* idle connections only with the number that may be open (README.md:159).
THEOREM OverridesFieldByField == PoolSpec => FieldByField
<1>1. PoolTyped /\ PoolTyped' => OthersKept
  <2>. SUFFICES ASSUME PoolTyped, PoolTyped', NEW f \in Field,
                       own'[f] = own[f], global'[f] = global[f]
                PROVE  \/ SQLPool'[f] = SQLPool[f]
                       \/ f = "MaxIdle" /\ SQLPool'.MaxOpen # SQLPool.MaxOpen
    BY DEF OthersKept
  <2>1. Asked(f)' = Asked(f)
    BY DEF Asked
  <2>2. CASE f # "MaxIdle"
    <3>1. SQLPool[f] = IF Asked(f) = 0 THEN DefaultPool[f] ELSE LargerOf(Asked(f), 0)
      BY <2>2, Handed, Kept DEF AsHanded, AsKept
    <3>2. SQLPool'[f] = IF Asked(f)' = 0 THEN DefaultPool[f] ELSE LargerOf(Asked(f)', 0)
      BY <2>2, SettingsNext DEF AsHanded, AsKept
    <3>. QED
      BY <2>1, <3>1, <3>2
  <2>3. CASE f = "MaxIdle"
    <3>. SUFFICES ASSUME SQLPool'.MaxOpen = SQLPool.MaxOpen PROVE SQLPool'.MaxIdle = SQLPool.MaxIdle
      BY <2>3
    <3>1. WithDefaults(Configured).MaxOpen = WithDefaults(Configured)'.MaxOpen
      BY Kept, SettingsNext DEF Field, AsKept
    <3>2. WithDefaults(Configured).MaxIdle = WithDefaults(Configured)'.MaxIdle
      BY <2>1, <2>3, <3>1, Handed, SettingsNext DEF AsHanded
    <3>. QED
      BY <3>1, <3>2, Kept, SettingsNext DEF AsKept
  <2>. QED
    BY <2>2, <2>3
<1>. QED
  BY <1>1, PoolTypes, PTL DEF FieldByField

\* All of it together, which is what the run checks.
THEOREM PoolsFollowConfiguration == PoolSpec => PoolsAsConfigured
BY LimitsAreKept, PoolsReuse, OverridesFieldByField, PTL DEF PoolsAsConfigured

-----------------------------------------------------------------------------
(* Paths (Configuration). *)

\* What paths are made of.
Symbol == STRING \cup {Slash, "mcp"}

Ends == {<<>>, <<Slash>>}

\* The path with a slash, and another if it ends in one.
Slashed(path) == path \o <<Slash>>

EndsInSlash(path) == path # <<>> /\ path[Len(path)] = Slash

\* What is joined has the elements of both parts.
LEMMA Joined ==
  ASSUME NEW s \in Seq(Symbol), NEW t \in Seq(Symbol)
  PROVE  /\ s \o t \in Seq(Symbol) /\ Len(s \o t) = Len(s) + Len(t)
         /\ \A i \in 1..Len(s) : (s \o t)[i] = s[i]
         /\ \A i \in 1..Len(t) : (s \o t)[Len(s) + i] = t[i]
OBVIOUS

\* Sequences are the same if their elements are.
LEMMA SameElements ==
  ASSUME NEW s \in Seq(Symbol), NEW t \in Seq(Symbol), Len(s) = Len(t),
         \A i \in 1..Len(s) : s[i] = t[i]
  PROVE  s = t
OBVIOUS

\* The path of a single slash.
LEMMA OneSlash == <<Slash>> \in Seq(Symbol) /\ Len(<<Slash>>) = 1 /\ <<Slash>>[1] = Slash
<1>1. Slash \in Symbol
  BY DEF Symbol
<1>2. QED
  BY <1>1

\* A path with a slash more.
LEMMA SlashedType ==
  ASSUME NEW a \in Seq(Symbol)
  PROVE  /\ Slashed(a) \in Seq(Symbol) /\ Len(Slashed(a)) = Len(a) + 1
         /\ \A i \in 1..Len(a) : Slashed(a)[i] = a[i]
         /\ EndsInSlash(Slashed(a)) /\ Slashed(a) # a
         /\ a \o <<>> = a /\ Append(a, Slash) = Slashed(a)
<1>1. <<Slash>> \in Seq(Symbol) /\ Len(<<Slash>>) = 1 /\ <<Slash>>[1] = Slash
  BY OneSlash
<1>2. /\ Slashed(a) \in Seq(Symbol) /\ Len(Slashed(a)) = Len(a) + 1
      /\ \A i \in 1..Len(a) : Slashed(a)[i] = a[i]
      /\ \A i \in 1..1 : Slashed(a)[Len(a) + i] = <<Slash>>[i]
  BY <1>1, Joined DEF Slashed
<1>3. Slashed(a)[Len(a) + 1] = Slash /\ Slashed(a) # <<>> /\ Slashed(a) # a
  BY <1>1, <1>2
<1>4. a \o <<>> = a
  OBVIOUS
<1>5. Append(a, Slash) = Slashed(a)
  <2>1. /\ Append(a, Slash) \in Seq(Symbol) /\ Len(Append(a, Slash)) = Len(a) + 1
        /\ \A i \in 1..(Len(a) + 1) :
             Append(a, Slash)[i] = IF i = Len(a) + 1 THEN Slash ELSE a[i]
    BY DEF Symbol
  <2>2. \A i \in 1..(Len(a) + 1) : i \in 1..Len(a) \/ i = Len(a) + 1
    OBVIOUS
  <2>3. \A i \in 1..(Len(a) + 1) : Append(a, Slash)[i] = Slashed(a)[i]
    BY <1>2, <1>3, <2>1, <2>2
  <2>4. QED
    BY <1>2, <2>1, <2>3, SameElements
<1>6. QED
  BY <1>2, <1>3, <1>4, <1>5 DEF EndsInSlash

\* The slash more can be taken away again.
LEMMA SlashedOnceOnly ==
  ASSUME NEW a \in Seq(Symbol), NEW b \in Seq(Symbol), Slashed(a) = Slashed(b)
  PROVE  a = b
<1>1. Len(a) + 1 = Len(b) + 1 /\ Len(a) \in Nat /\ Len(b) \in Nat
  BY SlashedType
<1>2. Len(a) = Len(b)
  BY <1>1
<1>3. \A i \in 1..Len(a) : a[i] = b[i]
  <2>1. \A i \in 1..Len(a) : Slashed(a)[i] = a[i]
    BY SlashedType
  <2>2. \A i \in 1..Len(a) : Slashed(b)[i] = b[i]
    <3>1. \A i \in 1..Len(b) : Slashed(b)[i] = b[i]
      BY SlashedType
    <3>2. QED
      BY <1>2, <3>1
  <2>3. QED
    BY <2>1, <2>2
<1>4. QED
  BY <1>2, <1>3, SameElements

\* A path that is made to begin with a slash.
LEMMA Rooted ==
  ASSUME NEW path \in Seq(Symbol)
  PROVE  WithSlash(path) \in Seq(Symbol) /\ WithSlash(path) # <<>> /\ Len(WithSlash(path)) > 0
<1>1. /\ <<Slash>> \o path \in Seq(Symbol) /\ Len(<<Slash>> \o path) = 1 + Len(path)
  BY OneSlash, Joined
<1>2. <<Slash>> \o path # <<>> /\ Len(<<Slash>> \o path) > 0
  BY <1>1
<1>3. QED
  BY <1>1, <1>2 DEF WithSlash

\* Cleaning takes one slash from the end, if there is one.
LEMMA Cleaned ==
  ASSUME NEW path \in Seq(Symbol)
  PROVE  /\ CleanPath(path) \in Seq(Symbol)
         /\ EndsInSlash(WithSlash(path)) => WithSlash(path) = Slashed(CleanPath(path))
         /\ ~EndsInSlash(WithSlash(path)) => WithSlash(path) = CleanPath(path)
<1> DEFINE r == WithSlash(path)
           n == Len(r)
<1>1. r \in Seq(Symbol) /\ r # <<>> /\ Len(r) = n /\ n \in Nat /\ n > 0
  BY Rooted
<1>2. /\ CleanPath(path) = IF r[n] = Slash THEN Front(r) ELSE r
      /\ EndsInSlash(r) <=> r[n] = Slash
  BY <1>1 DEF CleanPath, Last, EndsInSlash
<1> HIDE DEF r
<1>3. CASE r[n] = Slash
  <2> DEFINE c == Front(r)
  <2> HIDE DEF n
  <2>1. /\ c \in Seq(Symbol) /\ Len(c) = n - 1
        /\ \A i \in 1..(n - 1) : c[i] = r[i]
    <3>1. n - 1 \in Nat /\ 1..(n - 1) \subseteq 1..n
      BY <1>1
    <3>2. \A i \in 1..(n - 1) : r[i] \in Symbol
      BY <1>1, <3>1
    <3>3. /\ SubSeq(r, 1, n - 1) \in Seq(Symbol)
          /\ Len(SubSeq(r, 1, n - 1)) = IF 1 <= n - 1 THEN (n - 1) - 1 + 1 ELSE 0
          /\ \A i \in 1..((n - 1) - 1 + 1) : SubSeq(r, 1, n - 1)[i] = r[1 + i - 1]
      <4>1. 1 \in Int /\ n - 1 \in Int
        BY <1>1
      <4>2. QED
        BY <3>2, <4>1, SubSeqProperties
    <3>4. Front(r) = SubSeq(r, 1, n - 1)
      BY <1>1 DEF Front
    <3>5. (IF 1 <= n - 1 THEN (n - 1) - 1 + 1 ELSE 0) = n - 1 /\ (n - 1) - 1 + 1 = n - 1
      BY <1>1
    <3>6. \A i \in 1..(n - 1) : 1 + i - 1 = i
      OBVIOUS
    <3>7. QED
      BY <3>3, <3>4, <3>5, <3>6
  <2> HIDE DEF c
  <2>2. r = Slashed(c)
    <3>1. Len(Slashed(c)) = n /\ Slashed(c) \in Seq(Symbol)
      BY <1>1, <2>1, SlashedType
    <3>2. Slashed(c)[n] = Slash
      <4>1. EndsInSlash(Slashed(c))
        BY <2>1, SlashedType
      <4>2. QED
        BY <3>1, <4>1 DEF EndsInSlash
    <3>3. \A i \in 1..(n - 1) : Slashed(c)[i] = r[i]
      BY <2>1, SlashedType
    <3>4. \A i \in 1..n : i \in 1..(n - 1) \/ i = n
      BY <1>1
    <3>5. \A i \in 1..n : Slashed(c)[i] = r[i]
      BY <1>3, <3>2, <3>3, <3>4
    <3>6. QED
      BY <1>1, <3>1, <3>5, SameElements
  <2>3. CleanPath(path) = c
    BY <1>2, <1>3 DEF c
  <2>4. QED
    BY <1>2, <1>3, <2>1, <2>2, <2>3 DEF r
<1>4. CASE r[n] # Slash
  BY <1>1, <1>2, <1>4 DEF r
<1>5. QED
  BY <1>3, <1>4

\* Paths overlap when what is left of one is what is left of the other and a slash.
LEMMA OverlapIs ==
  ASSUME NEW path \in Seq(Symbol), NEW other \in Seq(Symbol)
  PROVE  Overlap(path, other) <=> CleanPath(other) = Slashed(CleanPath(path))
<1> DEFINE r == WithSlash(path)
           c == CleanPath(path)
           w == WithSlash(other)
           d == CleanPath(other)
           slashed == IF Last(r) = Slash THEN r ELSE Append(r, Slash)
<1>1. /\ r \in Seq(Symbol) /\ r # <<>> /\ c \in Seq(Symbol)
      /\ w \in Seq(Symbol) /\ d \in Seq(Symbol)
      /\ EndsInSlash(r) => r = Slashed(c)
      /\ ~EndsInSlash(r) => r = c
      /\ EndsInSlash(w) => w = Slashed(d)
      /\ ~EndsInSlash(w) => w = d
  BY Rooted, Cleaned
<1>2. Overlap(path, other) <=> w = Append(slashed, Slash)
  BY DEF Overlap
<1>3. Last(r) = Slash <=> EndsInSlash(r)
  BY <1>1 DEF Last, EndsInSlash
<1> HIDE DEF r, c, w, d
<1>4. slashed = Slashed(c)
  BY <1>1, <1>3, SlashedType
<1> HIDE DEF slashed
<1>5. Slashed(c) \in Seq(Symbol) /\ Append(slashed, Slash) = Slashed(Slashed(c))
  BY <1>1, <1>4, SlashedType
<1>6. ASSUME w = Slashed(Slashed(c)) PROVE d = Slashed(c)
  <2>1. EndsInSlash(w)
    BY <1>5, <1>6, SlashedType
  <2>2. Slashed(d) = Slashed(Slashed(c))
    BY <1>1, <1>6, <2>1
  <2>3. QED
    BY <1>1, <1>5, <2>2, SlashedOnceOnly
<1>7. ASSUME d = Slashed(c) PROVE w = Slashed(Slashed(c))
  <2>1. EndsInSlash(d)
    BY <1>1, <1>7, SlashedType
  <2>2. EndsInSlash(w)
    BY <1>1, <2>1
  <2>3. QED
    BY <1>1, <1>7, <2>2
<1>8. QED
  BY <1>2, <1>5, <1>6, <1>7 DEF c, d

\* Some number of a set is the smallest.
LEMMA Smallest ==
  ASSUME NEW S \in SUBSET Nat, S # {}
  PROVE  \E m \in S : \A i \in S : m <= i
<1> DEFINE less == OpToRel(<, Nat)
<1>1. IsWellFoundedOn(less, Nat)
  BY NatLessThanWellFounded
<1>2. \A x, y \in Nat : <<x, y>> \in less <=> x < y
  BY DEF OpToRel
<1> HIDE DEF less
<1>3. PICK m \in S : \A i \in S : ~(<<i, m>> \in less)
  BY <1>1, WFMin
<1>4. \A i \in S : m <= i
  <2> SUFFICES ASSUME NEW i \in S PROVE m <= i
    OBVIOUS
  <2>1. i \in Nat /\ m \in Nat /\ ~(i < m)
    <3>1. i \in Nat /\ m \in Nat
      OBVIOUS
    <3>2. QED
      BY <1>2, <1>3, <3>1, Zenon
  <2>2. QED
    BY <2>1
<1>5. QED
  BY <1>4

\* What is between the slashes at the ends of a path does not end in a slash.
LEMMA Trimmed ==
  ASSUME NEW path \in Seq(Symbol)
  PROVE  TrimSlashes(path) \in Seq(Symbol) /\ ~EndsInSlash(TrimSlashes(path))
<1> DEFINE n == Len(path)
           names == {i \in DOMAIN path : path[i] # Slash}
<1>1. n \in Nat /\ DOMAIN path = 1..n
  OBVIOUS
<1>2. CASE names = {}
  <2>1. TrimSlashes(path) = <<>>
    BY <1>2 DEF TrimSlashes
  <2>2. QED
    BY <2>1 DEF EndsInSlash
<1>3. CASE names # {}
  <2> HIDE DEF n
  <2>1. names \in SUBSET Nat /\ \A i \in names : i \in 1..n /\ path[i] # Slash
    BY <1>1
  <2> HIDE DEF names
  <2>2. PICK lo \in names : \A i \in names : lo <= i
    BY <1>3, <2>1, Smallest
  <2>3. PICK hi \in names : \A i \in names : hi >= i
    <3> DEFINE rests == {n - i : i \in names}
    <3>1. rests \in SUBSET Nat /\ rests # {}
      BY <1>1, <1>3, <2>1
    <3>2. PICK rest \in rests : \A m \in rests : rest <= m
      BY <3>1, Smallest
    <3>3. PICK i \in names : rest = n - i
      BY <3>2
    <3>4. \A j \in names : n - i <= n - j
      BY <3>2, <3>3
    <3>5. QED
      BY <1>1, <2>1, <3>3, <3>4
  <2>4. Min(names) = lo
    <3>1. \A x \in names : (\A y \in names : x <= y) => x = lo
      BY <2>1, <2>2
    <3>2. QED
      BY <2>2, <3>1 DEF Min
  <2>5. Max(names) = hi
    <3>1. \A x \in names : (\A y \in names : x >= y) => x = hi
      BY <2>1, <2>3
    <3>2. QED
      BY <2>3, <3>1 DEF Max
  <2> DEFINE c == SubSeq(path, lo, hi)
  <2>6. lo \in 1..n /\ hi \in 1..n /\ lo <= hi /\ path[hi] # Slash /\ n = Len(path)
    BY <2>1, <2>2, <2>3 DEF n
  <2>7. /\ c \in Seq(Symbol) /\ Len(c) = hi - lo + 1
        /\ \A i \in 1..Len(c) : c[i] = path[lo + i - 1]
    BY <2>6
  <2>8. TrimSlashes(path) = c
    BY <1>3, <2>4, <2>5 DEF TrimSlashes, names
  <2> HIDE DEF c
  <2>9. c[Len(c)] = path[hi]
    <3>1. Len(c) \in 1..Len(c) /\ lo + Len(c) - 1 = hi
      BY <2>6, <2>7
    <3>2. QED
      BY <2>7, <3>1
  <2>10. QED
    BY <2>6, <2>7, <2>8, <2>9 DEF EndsInSlash
<1>4. QED
  BY <1>2, <1>3

\* Cleaning leaves what is looked for of the paths that are slashed once.
LEMMA FoundIf ==
  ASSUME NEW path \in Seq(Symbol)
  PROVE  CleanPath(path) = <<Slash>> \o TrimSlashes(path) <=> SlashedOnce(path)
<1> DEFINE asked == <<Slash>> \o TrimSlashes(path)
           r == WithSlash(path)
           c == CleanPath(path)
<1>1. /\ r \in Seq(Symbol) /\ c \in Seq(Symbol)
      /\ EndsInSlash(r) => r = Slashed(c)
      /\ ~EndsInSlash(r) => r = c
  BY Rooted, Cleaned
<1>2. asked \in Seq(Symbol) /\ (EndsInSlash(asked) <=> asked = <<Slash>>)
  <2> DEFINE t == TrimSlashes(path)
  <2>1. t \in Seq(Symbol) /\ ~EndsInSlash(t)
    BY Trimmed
  <2>2. <<Slash>> \in Seq(Symbol) /\ Len(<<Slash>>) = 1 /\ <<Slash>>[1] = Slash
    BY OneSlash
  <2>0. asked = <<Slash>> \o t
    OBVIOUS
  <2> HIDE DEF asked, t
  <2>3. /\ asked \in Seq(Symbol) /\ Len(asked) = 1 + Len(t)
        /\ \A i \in 1..Len(t) : asked[1 + i] = t[i]
    BY <2>1, <2>2, <2>0, Joined
  <2>4. CASE t = <<>>
    <3>1. asked = <<Slash>>
      BY <2>2, <2>4, <2>0
    <3>2. EndsInSlash(asked)
      BY <2>2, <3>1 DEF EndsInSlash
    <3>3. QED
      BY <2>3, <3>1, <3>2
  <2>5. CASE t # <<>>
    <3>1. Len(t) \in 1..Len(t) /\ Len(asked) # 1 /\ asked # <<>>
      BY <2>1, <2>3, <2>5
    <3>2. asked[Len(asked)] = t[Len(t)] /\ t[Len(t)] # Slash
      BY <2>1, <2>3, <2>5, <3>1 DEF EndsInSlash
    <3>3. asked # <<Slash>> /\ ~EndsInSlash(asked)
      BY <2>2, <3>1, <3>2 DEF EndsInSlash
    <3>4. QED
      BY <2>3, <3>3
  <2>6. QED
    BY <2>4, <2>5
<1>3. SlashedOnce(path) <=> (r = asked /\ asked # <<Slash>>) \/ r = Append(asked, Slash)
  BY DEF SlashedOnce
<1> HIDE DEF asked, r, c
<1>4. Append(asked, Slash) = Slashed(asked) /\ EndsInSlash(Slashed(asked))
  BY <1>2, SlashedType
<1>5. ASSUME c = asked PROVE (r = asked /\ asked # <<Slash>>) \/ r = Slashed(asked)
  BY <1>1, <1>2, <1>5
<1>6. ASSUME r = asked, asked # <<Slash>> PROVE c = asked
  BY <1>1, <1>2, <1>6
<1>7. ASSUME r = Slashed(asked) PROVE c = asked
  <2>1. Slashed(c) = Slashed(asked)
    BY <1>1, <1>4, <1>7
  <2>2. QED
    BY <1>1, <1>2, <2>1, SlashedOnceOnly
<1>8. QED
  BY <1>3, <1>4, <1>5, <1>6, <1>7 DEF asked, c

-----------------------------------------------------------------------------
(* Endpoints (Configuration). *)

\* What the mcp block holds.
Entry == [path : Path, permission : Text, allow : Allow, export : BOOLEAN]
BlockTyped == mcp \in [enabled : BOOLEAN, exportEnabled : BOOLEAN, endpoints : Seq(Entry)]

\* Entries are written whole.
LEMMA BlockTypes == Spec => []BlockTyped
<1>1. Init => BlockTyped
  <2>1. {<<>>} \subseteq Seq(Entry)
    OBVIOUS
  <2>2. [enabled : BOOLEAN, exportEnabled : BOOLEAN, endpoints : {<<>>}]
          \subseteq [enabled : BOOLEAN, exportEnabled : BOOLEAN, endpoints : Seq(Entry)]
    BY <2>1
  <2>3. QED
    BY <2>2 DEF Init, BlockTyped
<1>2. BlockTyped /\ [Next]_vars => BlockTyped'
  <2> SUFFICES ASSUME BlockTyped, [Next]_vars PROVE BlockTyped'
    OBVIOUS
  <2>1. CASE UNCHANGED vars
    BY <2>1 DEF vars, BlockTyped
  <2>2. ASSUME NEW name \in Connection, NEW disabled \in BOOLEAN, NEW text \in Text,
               WriteProfile(name, disabled, text)
        PROVE  BlockTyped'
    BY <2>2 DEF WriteProfile, BlockTyped
  <2>3. ASSUME NEW path \in Path, NEW text \in Text, NEW allow \in Allow, NEW export \in BOOLEAN,
               WriteEndpoint(path, text, allow, export)
        PROVE  BlockTyped'
    <3> DEFINE entry == [path |-> path, permission |-> text, allow |-> allow, export |-> export]
    <3>1. entry \in Entry
      BY <2>3 DEF Entry
    <3>2. Append(mcp.endpoints, entry) \in Seq(Entry)
      BY <3>1 DEF BlockTyped
    <3>3. mcp' = [mcp EXCEPT !.endpoints = Append(mcp.endpoints, entry)]
      BY <2>3 DEF WriteEndpoint, BlockTyped
    <3>4. QED
      BY <3>2, <3>3 DEF BlockTyped
  <2>4. QED
    BY <2>1, <2>2, <2>3 DEF Next
<1>3. QED
  BY <1>1, <1>2, PTL DEF Spec

\* An endpoint that is served is the entry of the same place, which was not refused.
LEMMA Resolution ==
  ASSUME NEW i \in DOMAIN ResolvedEndpoints(mcp)
  PROVE  /\ mcp.enabled /\ ~ResolutionFails(mcp)
         /\ i \in DOMAIN Endpoints(mcp) /\ ~EntryRefused(mcp, i)
         /\ DOMAIN ResolvedEndpoints(mcp) = DOMAIN Endpoints(mcp)
         /\ ResolvedEndpoints(mcp)[i] = ResolvedEndpoint(Endpoints(mcp)[i])
<1>1. CASE ~mcp.enabled \/ ResolutionFails(mcp)
  <2>1. ResolvedEndpoints(mcp) = <<>>
    BY <1>1 DEF ResolvedEndpoints
  <2>2. QED
    BY <2>1
<1>2. CASE ~(~mcp.enabled \/ ResolutionFails(mcp))
  <2>1. ResolvedEndpoints(mcp) =
          [k \in DOMAIN Endpoints(mcp) |-> ResolvedEndpoint(Endpoints(mcp)[k])]
    BY <1>2 DEF ResolvedEndpoints
  <2>2. QED
    BY <2>1, <1>2 DEF ResolutionFails
<1>3. QED
  BY <1>1, <1>2

\* What the entries hold, that of /mcp included.
LEMMA EntryTypes ==
  ASSUME BlockTyped, NEW i \in DOMAIN Endpoints(mcp)
  PROVE  /\ i \in Nat /\ i > 0 /\ Endpoints(mcp)[i] \in ToSet(Endpoints(mcp))
         /\ Endpoints(mcp)[i].path \in Seq(Symbol)
         /\ Endpoints(mcp)[i].export \in BOOLEAN
<1>1. CASE mcp.endpoints # <<>>
  <2>1. Endpoints(mcp) = mcp.endpoints /\ mcp.endpoints \in Seq(Entry)
    BY <1>1 DEF Endpoints, BlockTyped
  <2>2. i \in 1..Len(mcp.endpoints) /\ mcp.endpoints[i] \in Entry
    BY <2>1
  <2>3. mcp.endpoints[i].path \in Path /\ mcp.endpoints[i].export \in BOOLEAN
    BY <2>2 DEF Entry
  <2>4. mcp.endpoints[i].path \in Seq(Symbol)
    BY <2>3, PathAssumption DEF Symbol
  <2>5. QED
    BY <2>1, <2>2, <2>3, <2>4 DEF ToSet
<1>2. CASE mcp.endpoints = <<>>
  <2> DEFINE path == <<Slash, "mcp">>
  <2>1. i = 1 /\ Endpoints(mcp)[i].path = path /\ Endpoints(mcp)[i].export = mcp.exportEnabled
    BY <1>2 DEF Endpoints
  <2>2. Slash \in Symbol /\ "mcp" \in Symbol
    BY DEF Symbol
  <2>3. path \in Seq(Symbol) /\ mcp.exportEnabled \in BOOLEAN
    BY <2>2 DEF BlockTyped
  <2>4. Endpoints(mcp)[i] \in ToSet(Endpoints(mcp))
    BY DEF ToSet
  <2>5. QED
    BY <2>1, <2>3, <2>4
<1>3. QED
  BY <1>1, <1>2

\* The path of an endpoint is its entry's, cleaned, and no other's.
LEMMA ResolvedPaths ==
  ASSUME BlockTyped, NEW i \in DOMAIN ResolvedEndpoints(mcp)
  PROVE  /\ ResolvedEndpoints(mcp)[i].path \in Seq(Symbol)
         /\ ResolvedEndpoints(mcp)[i].path = CleanPath(Endpoints(mcp)[i].path)
         /\ \A j \in DOMAIN ResolvedEndpoints(mcp) :
              ResolvedEndpoints(mcp)[i].path = ResolvedEndpoints(mcp)[j].path => i = j
<1> DEFINE resolved == ResolvedEndpoints(mcp)
<1>1. ASSUME NEW k \in DOMAIN resolved
      PROVE  /\ resolved[k].path = CleanPath(Endpoints(mcp)[k].path) /\ k \in DOMAIN Endpoints(mcp)
             /\ Endpoints(mcp)[k].path \in Seq(Symbol) /\ k \in Nat /\ k > 0
             /\ ~EntryRefused(mcp, k)
  <2>1. k \in DOMAIN Endpoints(mcp) /\ resolved[k] = ResolvedEndpoint(Endpoints(mcp)[k])
        /\ ~EntryRefused(mcp, k)
    BY <1>1, Resolution
  <2>2. QED
    BY <2>1, EntryTypes DEF ResolvedEndpoint
<1>2. ASSUME NEW k \in DOMAIN resolved, NEW l \in DOMAIN resolved, k < l
      PROVE  resolved[k].path # resolved[l].path
  <2>1. k \in 1..(l - 1)
    BY <1>1, <1>2
  <2>2. CleanPath(Endpoints(mcp)[k].path) # CleanPath(Endpoints(mcp)[l].path)
    BY <1>1, <2>1 DEF EntryRefused
  <2>3. QED
    BY <1>1, <2>2
<1>3. \A j \in DOMAIN resolved : resolved[i].path = resolved[j].path => i = j
  <2> SUFFICES ASSUME NEW j \in DOMAIN resolved, resolved[i].path = resolved[j].path, i # j
               PROVE  FALSE
    OBVIOUS
  <2>1. i \in Nat /\ j \in Nat
    BY <1>1
  <2>2. i < j \/ j < i
    BY <2>1
  <2>3. QED
    BY <2>2, <1>2
<1>4. resolved[i].path \in Seq(Symbol) /\ resolved[i].path = CleanPath(Endpoints(mcp)[i].path)
  BY <1>1, Cleaned
<1>5. QED
  BY <1>3, <1>4

\* The pattern of an endpoint for what follows its path.
PatternOf(i, end) == ResolvedEndpoints(mcp)[i].path \o end

\* An endpoint's path is another's and a slash.
Follows(j, i) == ResolvedEndpoints(mcp)[j].path = Slashed(ResolvedEndpoints(mcp)[i].path)

\* That is so of the endpoints whose entries overlap.
LEMMA FollowsIs ==
  ASSUME BlockTyped, NEW i \in DOMAIN ResolvedEndpoints(mcp), NEW j \in DOMAIN ResolvedEndpoints(mcp)
  PROVE  Follows(j, i) <=> Overlap(Endpoints(mcp)[i].path, Endpoints(mcp)[j].path)
<1>1. i \in DOMAIN Endpoints(mcp) /\ j \in DOMAIN Endpoints(mcp)
  BY Resolution
<1>2. /\ Endpoints(mcp)[i].path \in Seq(Symbol) /\ Endpoints(mcp)[j].path \in Seq(Symbol)
      /\ ResolvedEndpoints(mcp)[i].path = CleanPath(Endpoints(mcp)[i].path)
      /\ ResolvedEndpoints(mcp)[j].path = CleanPath(Endpoints(mcp)[j].path)
  BY <1>1, EntryTypes, ResolvedPaths
<1>3. QED
  BY <1>2, OverlapIs DEF Follows

\* A pattern is mounted once, but for endpoints of which one follows the other.
LEMMA OneMount ==
  BlockTyped =>
    \A i, j \in DOMAIN ResolvedEndpoints(mcp), s, t \in Ends :
      PatternOf(i, s) = PatternOf(j, t) => (i = j /\ s = t) \/ Follows(i, j) \/ Follows(j, i)
<1> SUFFICES ASSUME BlockTyped,
                    NEW i \in DOMAIN ResolvedEndpoints(mcp), NEW j \in DOMAIN ResolvedEndpoints(mcp),
                    NEW s \in Ends, NEW t \in Ends,
                    PatternOf(i, s) = PatternOf(j, t)
             PROVE  (i = j /\ s = t) \/ Follows(i, j) \/ Follows(j, i)
  OBVIOUS
<1> DEFINE p == ResolvedEndpoints(mcp)[i].path
           q == ResolvedEndpoints(mcp)[j].path
<1>1. /\ p \in Seq(Symbol) /\ q \in Seq(Symbol)
      /\ p \o s = q \o t
      /\ p = q => i = j
      /\ Follows(i, j) <=> p = Slashed(q)
      /\ Follows(j, i) <=> q = Slashed(p)
  BY ResolvedPaths DEF PatternOf, Follows
<1> HIDE DEF p, q
<1>2. /\ p \o <<>> = p /\ q \o <<>> = q
      /\ Slashed(p) # p /\ Slashed(q) # q
  BY <1>1, SlashedType
<1>3. CASE s = <<>> /\ t = <<>>
  BY <1>1, <1>2, <1>3
<1>4. CASE s = <<>> /\ t = <<Slash>>
  BY <1>1, <1>2, <1>4 DEF Slashed
<1>5. CASE s = <<Slash>> /\ t = <<>>
  BY <1>1, <1>2, <1>5 DEF Slashed
<1>6. CASE s = <<Slash>> /\ t = <<Slash>>
  <2>1. Slashed(p) = Slashed(q)
    BY <1>1, <1>6 DEF Slashed
  <2>2. p = q
    BY <1>1, <2>1, SlashedOnceOnly
  <2>3. QED
    BY <1>1, <1>6, <2>2
<1>7. QED
  BY <1>3, <1>4, <1>5, <1>6 DEF Ends

\* What is mounted, in terms of the endpoint and what follows its path.
LEMMA MountOf ==
  /\ DOMAIN Mounted(mcp) = (DOMAIN ResolvedEndpoints(mcp)) \X Ends
  /\ DOMAIN Patterns = DOMAIN Mounted(mcp)
  /\ \A i \in DOMAIN ResolvedEndpoints(mcp), s \in Ends :
       /\ Mounted(mcp)[<<i, s>>].handler =
            [endpoint |-> ResolvedEndpoints(mcp)[i],
             store |-> ResolvedEndpoints(mcp)[i].export /\ HasStore(mcp)]
       /\ Patterns[<<i, s>>] = PatternOf(i, s)
<1> DEFINE resolved == ResolvedEndpoints(mcp)
<1>1. Mounted(mcp) =
        [mount \in (DOMAIN resolved) \X Ends |->
           [pattern |-> resolved[mount[1]].path \o mount[2],
            handler |-> [endpoint |-> resolved[mount[1]],
                         store |-> resolved[mount[1]].export /\ HasStore(mcp)]]]
  BY DEF Mounted, Ends
<1> HIDE DEF resolved
<1>2. DOMAIN Mounted(mcp) = (DOMAIN resolved) \X Ends
  BY <1>1
<1>3. ASSUME NEW i \in DOMAIN resolved, NEW s \in Ends
      PROVE  /\ <<i, s>> \in DOMAIN Mounted(mcp)
             /\ Mounted(mcp)[<<i, s>>].pattern = resolved[i].path \o s
             /\ Mounted(mcp)[<<i, s>>].handler =
                  [endpoint |-> resolved[i], store |-> resolved[i].export /\ HasStore(mcp)]
  <2> DEFINE mount == <<i, s>>
  <2>1. mount \in (DOMAIN resolved) \X Ends /\ mount[1] = i /\ mount[2] = s
    BY <1>3
  <2> HIDE DEF mount
  <2>2. /\ mount \in DOMAIN Mounted(mcp)
        /\ Mounted(mcp)[mount] =
             [pattern |-> resolved[mount[1]].path \o mount[2],
              handler |-> [endpoint |-> resolved[mount[1]],
                           store |-> resolved[mount[1]].export /\ HasStore(mcp)]]
    BY <1>1, <2>1
  <2>3. /\ Mounted(mcp)[mount].pattern = resolved[i].path \o s
        /\ Mounted(mcp)[mount].handler =
             [endpoint |-> resolved[i], store |-> resolved[i].export /\ HasStore(mcp)]
    BY <2>1, <2>2
  <2>4. QED
    BY <2>2, <2>3 DEF mount
<1>4. QED
  BY <1>2, <1>3 DEF Patterns, PatternOf, resolved

\* A request to a pattern finds the one handler that is mounted there, where no
\* endpoint follows another.
LEMMA HandlerOf ==
  ASSUME BlockTyped, NEW i \in DOMAIN ResolvedEndpoints(mcp), NEW s \in Ends,
         \A j \in DOMAIN ResolvedEndpoints(mcp) : ~Follows(i, j) /\ ~Follows(j, i)
  PROVE  HandlersOf(PatternOf(i, s)) = {Mounted(mcp)[<<i, s>>].handler}
<1> DEFINE pattern == PatternOf(i, s)
<1>1. {m \in DOMAIN Patterns : Patterns[m] = pattern} = {<<i, s>>}
  <2>1. <<i, s>> \in DOMAIN Patterns /\ Patterns[<<i, s>>] = pattern
    BY MountOf
  <2>2. ASSUME NEW m \in DOMAIN Patterns, Patterns[m] = pattern PROVE m = <<i, s>>
    <3>1. PICK j \in DOMAIN ResolvedEndpoints(mcp), t \in Ends : m = <<j, t>>
      BY MountOf
    <3>2. Patterns[m] = PatternOf(j, t)
      BY <3>1, MountOf
    <3>3. PatternOf(i, s) = PatternOf(j, t)
      BY <2>2, <3>2
    <3>4. i = j /\ s = t
      BY <3>3, OneMount
    <3>5. QED
      BY <3>1, <3>4
  <2>3. QED
    BY <2>1, <2>2
<1>2. QED
  BY <1>1 DEF HandlersOf

\* Nothing changes data that two entries do not let (config.go:259).
THEOREM WriteAsConfigured == Spec => []WriteIsConfigured
<1>1. BlockTyped => WriteIsConfigured
  <2> SUFFICES ASSUME BlockTyped, Serving, NEW mount \in DOMAIN Mounted(mcp)
               PROVE  LET endpoint == Mounted(mcp)[mount].handler.endpoint
                      IN  \A name \in Visible(endpoint, Defs) :
                            CanWrite(Effective(endpoint, Defs, name)) =>
                              /\ \E e \in ToSet(mcp.endpoints) :
                                   /\ e.permission \in {"safe-write", "full"}
                                   /\ CleanPath(e.path) = endpoint.path
                                   /\ e.allow = {} \/ name \in e.allow
                              /\ \/ name = adHocName /\ adHoc # "none"
                                 \/ /\ profiles[name].permission \in {"safe-write", "full"}
                                    /\ ~profiles[name].disabled
    BY DEF WriteIsConfigured
  <2> DEFINE endpoint == Mounted(mcp)[mount].handler.endpoint
  <2>1. PICK i \in DOMAIN ResolvedEndpoints(mcp), s \in Ends : mount = <<i, s>>
    BY MountOf
  <2> DEFINE e == Endpoints(mcp)[i]
  <2>2. /\ endpoint = ResolvedEndpoint(e) /\ i \in DOMAIN Endpoints(mcp)
        /\ Parses(e.permission)
    <3>1. /\ i \in DOMAIN Endpoints(mcp) /\ ~EntryRefused(mcp, i)
          /\ ResolvedEndpoints(mcp)[i] = ResolvedEndpoint(e)
      BY Resolution
    <3>2. Mounted(mcp)[<<i, s>>].handler.endpoint = ResolvedEndpoints(mcp)[i]
      <4>1. Mounted(mcp)[<<i, s>>].handler =
              [endpoint |-> ResolvedEndpoints(mcp)[i],
               store |-> ResolvedEndpoints(mcp)[i].export /\ HasStore(mcp)]
        BY MountOf
      <4>2. QED
        BY <4>1
    <3>3. Parses(e.permission)
      BY <3>1 DEF EntryRefused
    <3>4. QED
      BY <2>1, <3>1, <3>2, <3>3
  <2>3. /\ endpoint.path = CleanPath(e.path) /\ endpoint.allow = e.allow
        /\ endpoint.permission = Written[e.permission]
    BY <2>2 DEF ResolvedEndpoint, ParsePermission
  <2> HIDE DEF endpoint
  <2>4. SUFFICES ASSUME NEW name \in Visible(endpoint, Defs), CanWrite(Effective(endpoint, Defs, name))
                 PROVE  /\ \E f \in ToSet(mcp.endpoints) :
                             /\ f.permission \in {"safe-write", "full"}
                             /\ CleanPath(f.path) = endpoint.path
                             /\ f.allow = {} \/ name \in f.allow
                        /\ \/ name = adHocName /\ adHoc # "none"
                           \/ /\ profiles[name].permission \in {"safe-write", "full"}
                              /\ ~profiles[name].disabled
    BY DEF endpoint
  <2>5. ASSUME NEW text, Parses(text)
        PROVE  /\ Written[text] \in Int
               /\ Written[text] >= PermissionSafeWrite => text \in {"safe-write", "full"}
    <3>1. text \in {"", "read-only", "safe-write", "full"}
      BY <2>5 DEF Parses, Written
    <3>2. Written[text] = CASE text = "safe-write" -> PermissionSafeWrite
                            [] text = "full" -> PermissionFull
                            [] OTHER -> PermissionReadOnly
      BY <3>1 DEF Written
    <3>3. CASE text = "safe-write"
      BY <3>2, <3>3 DEF PermissionSafeWrite
    <3>4. CASE text = "full"
      BY <3>2, <3>4 DEF PermissionSafeWrite, PermissionFull
    <3>5. CASE text \notin {"safe-write", "full"}
      BY <3>2, <3>5 DEF PermissionReadOnly, PermissionSafeWrite
    <3>6. QED
      BY <3>3, <3>4, <3>5
  <2>6. /\ name \in DOMAIN Defs /\ (e.allow = {} \/ name \in e.allow)
        /\ LeastPermissive(endpoint.permission, Defs[name]) >= PermissionSafeWrite
    BY <2>3, <2>4 DEF Visible, Effective, CanWrite
  <2>7. /\ name \in DOMAIN Started /\ ~Started[name].disabled
        /\ Parses(Started[name].permission) /\ Defs[name] = Written[Started[name].permission]
    BY <2>6 DEF Defs, ConnectionDefs, Serving, ConnectionsAccepted, Enabled, ParsePermission
  <2>8. e.permission \in {"safe-write", "full"} /\ Started[name].permission \in {"safe-write", "full"}
    <3>1. /\ endpoint.permission \in Int /\ Defs[name] \in Int
          /\ endpoint.permission >= PermissionSafeWrite /\ Defs[name] >= PermissionSafeWrite
      BY <2>2, <2>3, <2>5, <2>6, <2>7 DEF LeastPermissive, PermissionSafeWrite
    <3>2. QED
      BY <3>1, <2>2, <2>3, <2>5, <2>7
  <2>9. \E f \in ToSet(mcp.endpoints) :
             /\ f.permission \in {"safe-write", "full"}
             /\ CleanPath(f.path) = endpoint.path
             /\ f.allow = {} \/ name \in f.allow
    <3>1. CASE mcp.endpoints = <<>>
      <4>1. Endpoints(mcp)[i].permission = "read-only"
        BY <3>1, <2>2 DEF Endpoints
      <4>2. QED
        BY <4>1, <2>8
    <3>2. CASE mcp.endpoints # <<>>
      <4>1. e \in ToSet(mcp.endpoints)
        BY <3>2, <2>2 DEF Endpoints, ToSet
      <4>2. QED
        BY <4>1, <2>3, <2>6, <2>8
    <3>3. QED
      BY <3>1, <3>2
  <2>10. \/ name = adHocName /\ adHoc # "none"
         \/ /\ profiles[name].permission \in {"safe-write", "full"}
            /\ ~profiles[name].disabled
    <3>1. CASE adHoc # "none" /\ name = adHocName
      BY <3>1
    <3>2. CASE ~(adHoc # "none" /\ name = adHocName)
      <4>1. Started[name] = profiles[name]
        BY <3>2, <2>7 DEF Started, ApplyAdHoc
      <4>2. QED
        BY <4>1, <2>7, <2>8
    <3>3. QED
      BY <3>1, <3>2
  <2>11. QED
    BY <2>9, <2>10
<1>2. QED
  BY <1>1, BlockTypes, PTL

\* Where an entry is served.
LEMMA Served ==
  ASSUME BlockTyped, mcp.enabled, ~ResolutionFails(mcp), NEW e \in ToSet(Endpoints(mcp))
  PROVE  \E i \in DOMAIN ResolvedEndpoints(mcp) :
           /\ i \in DOMAIN Endpoints(mcp) /\ e = Endpoints(mcp)[i] /\ ~EntryRefused(mcp, i)
           /\ ResolvedEndpoints(mcp)[i] = ResolvedEndpoint(e)
           /\ e.path \in Seq(Symbol) /\ e.export \in BOOLEAN
           /\ DOMAIN ResolvedEndpoints(mcp) = DOMAIN Endpoints(mcp)
<1>1. PICK i \in DOMAIN Endpoints(mcp) : e = Endpoints(mcp)[i]
  BY DEF ToSet
<1>2. ResolvedEndpoints(mcp) =
        [k \in DOMAIN Endpoints(mcp) |-> ResolvedEndpoint(Endpoints(mcp)[k])]
  BY DEF ResolvedEndpoints
<1>3. i \in DOMAIN ResolvedEndpoints(mcp)
  BY <1>1, <1>2
<1>4. QED
  BY <1>1, <1>2, <1>3, Resolution, EntryTypes

\* Patterns meet where paths overlap.
LEMMA PatternsMeet ==
  ASSUME BlockTyped, mcp.enabled, ~ResolutionFails(mcp)
  PROVE  IsInjective(Patterns) <=>
           \A e, f \in ToSet(Endpoints(mcp)) : ~Overlap(e.path, f.path)
<1>1. ASSUME IsInjective(Patterns),
             NEW e \in ToSet(Endpoints(mcp)), NEW f \in ToSet(Endpoints(mcp)),
             Overlap(e.path, f.path)
      PROVE  FALSE
  <2>1. PICK i \in DOMAIN ResolvedEndpoints(mcp) : e = Endpoints(mcp)[i]
    BY Served
  <2>2. PICK j \in DOMAIN ResolvedEndpoints(mcp) : f = Endpoints(mcp)[j]
    BY Served
  <2>3. Follows(j, i)
    BY <1>1, <2>1, <2>2, FollowsIs
  <2>4. PatternOf(j, <<>>) = PatternOf(i, <<Slash>>)
    <3>1. ResolvedEndpoints(mcp)[j].path \in Seq(Symbol)
      BY ResolvedPaths
    <3>2. PatternOf(j, <<>>) = ResolvedEndpoints(mcp)[j].path
      BY <3>1, SlashedType DEF PatternOf
    <3>3. QED
      BY <2>3, <3>2 DEF Follows, PatternOf, Slashed
  <2> DEFINE m == <<j, <<>> >>
             k == <<i, <<Slash>> >>
  <2>5. /\ <<>> \in Ends /\ <<Slash>> \in Ends
        /\ m \in DOMAIN Patterns /\ k \in DOMAIN Patterns
    BY MountOf DEF Ends
  <2>6. Patterns[m] = PatternOf(j, <<>>) /\ Patterns[k] = PatternOf(i, <<Slash>>)
    BY <2>5, MountOf
  <2>7. m # k
    <3>1. <<>> # <<Slash>>
      BY OneSlash
    <3>2. QED
      BY <3>1
  <2> HIDE DEF m, k
  <2>8. QED
    BY <1>1, <2>4, <2>5, <2>6, <2>7 DEF IsInjective
<1>2. ASSUME \A e, f \in ToSet(Endpoints(mcp)) : ~Overlap(e.path, f.path),
             NEW m \in DOMAIN Patterns, NEW k \in DOMAIN Patterns, Patterns[m] = Patterns[k]
      PROVE  m = k
  <2>1. PICK i \in DOMAIN ResolvedEndpoints(mcp), s \in Ends : m = <<i, s>>
    BY MountOf
  <2>2. PICK j \in DOMAIN ResolvedEndpoints(mcp), t \in Ends : k = <<j, t>>
    BY MountOf
  <2>3. PatternOf(i, s) = PatternOf(j, t)
    BY <1>2, <2>1, <2>2, MountOf
  <2>4. ~Follows(i, j) /\ ~Follows(j, i)
    <3>1. i \in DOMAIN Endpoints(mcp) /\ j \in DOMAIN Endpoints(mcp)
      BY Resolution
    <3>2. Endpoints(mcp)[i] \in ToSet(Endpoints(mcp)) /\ Endpoints(mcp)[j] \in ToSet(Endpoints(mcp))
      BY <3>1, EntryTypes
    <3>3. QED
      BY <1>2, <3>2, FollowsIs
  <2>5. i = j /\ s = t
    BY <2>3, <2>4, OneMount
  <2>6. QED
    BY <2>1, <2>2, <2>5
<1>3. QED
  BY <1>1, <1>2 DEF IsInjective

\* A request over HTTP is answered by the endpoint its path is written for, which
\* creates exports if its entry says so, where that path overlaps with no other
\* (server.go:127-129, config.go:296-300).
LEMMA MountsAsWritten == BlockTyped => MountedAsWritten
<1> SUFFICES ASSUME BlockTyped PROVE MountedAsWritten
  OBVIOUS
<1>1. ASSUME mcp.enabled, ~ResolutionFails(mcp), NEW e \in ToSet(Endpoints(mcp)),
             \A f \in ToSet(Endpoints(mcp)) : ~Overlap(e.path, f.path) /\ ~Overlap(f.path, e.path)
      PROVE  LET handlers == HandlersOf(WithSlash(e.path))
             IN  /\ Cardinality(handlers) = 1
                 /\ \A h \in handlers :
                      /\ h.endpoint.permission = ParsePermission(e.permission)
                      /\ h.endpoint.allow = e.allow
                      /\ h.store = e.export
  <2>1. PICK i \in DOMAIN ResolvedEndpoints(mcp) :
          /\ i \in DOMAIN Endpoints(mcp) /\ e = Endpoints(mcp)[i] /\ ~EntryRefused(mcp, i)
          /\ ResolvedEndpoints(mcp)[i] = ResolvedEndpoint(e)
          /\ e.path \in Seq(Symbol) /\ e.export \in BOOLEAN
    BY <1>1, Served
  <2>2. \A j \in DOMAIN ResolvedEndpoints(mcp) : ~Follows(i, j) /\ ~Follows(j, i)
    <3> SUFFICES ASSUME NEW j \in DOMAIN ResolvedEndpoints(mcp)
                 PROVE  ~Follows(i, j) /\ ~Follows(j, i)
      OBVIOUS
    <3>1. Endpoints(mcp)[j] \in ToSet(Endpoints(mcp))
      BY Resolution, EntryTypes
    <3>2. QED
      BY <1>1, <2>1, <3>1, FollowsIs
  <2>3. PICK end \in Ends : WithSlash(e.path) = CleanPath(e.path) \o end
    <3> DEFINE c == CleanPath(e.path)
    <3>1. /\ c \in Seq(Symbol)
          /\ WithSlash(e.path) = Slashed(c) \/ WithSlash(e.path) = c
      BY <2>1, Cleaned
    <3>2. c \o <<>> = c /\ c \o <<Slash>> = Slashed(c)
      BY <3>1, SlashedType DEF Slashed
    <3> HIDE DEF c
    <3>3. \E end \in {<<>>, <<Slash>>} : WithSlash(e.path) = c \o end
      BY <3>1, <3>2
    <3>4. QED
      BY <3>3 DEF c, Ends
  <2>4. WithSlash(e.path) = PatternOf(i, end)
    BY <2>1, <2>3 DEF ResolvedEndpoint, PatternOf
  <2> DEFINE h == [endpoint |-> ResolvedEndpoint(e), store |-> ResolvedEndpoint(e).export /\ HasStore(mcp)]
  <2>5. HandlersOf(WithSlash(e.path)) = {h}
    <3>1. HandlersOf(PatternOf(i, end)) = {Mounted(mcp)[<<i, end>>].handler}
      BY <2>2, HandlerOf
    <3>2. Mounted(mcp)[<<i, end>>].handler = h
      BY <2>1, MountOf
    <3> HIDE DEF h
    <3>3. QED
      BY <2>4, <3>1, <3>2, Zenon
  <2>6. h.store = e.export
    <3>1. e.export \in BOOLEAN /\ (e.export => mcp.exportEnabled)
      BY <2>1 DEF EntryRefused
    <3>2. ResolvedEndpoint(e).export = e.export
      BY DEF ResolvedEndpoint
    <3>3. (e.export /\ HasStore(mcp)) = e.export
      BY <3>1, <1>1 DEF HasStore
    <3>4. QED
      BY <3>2, <3>3
  <2>7. /\ h.endpoint.permission = ParsePermission(e.permission)
        /\ h.endpoint.allow = e.allow
    BY DEF ResolvedEndpoint
  <2> HIDE DEF h
  <2>8. Cardinality({h}) = 1
    BY FS_Singleton
  <2>9. QED
    BY <2>5, <2>6, <2>7, <2>8
<1>2. QED
  BY <1>1, PatternsMeet DEF MountedAsWritten

\* An endpoint is found over stdio by the path that is written for it, and alone,
\* where that is slashed once, and not otherwise (cli/mcp.go:30-34, :103).
LEMMA StdioAsWritten == BlockTyped => FoundOverStdio
<1> SUFFICES ASSUME BlockTyped, mcp.enabled, ~ResolutionFails(mcp), NEW e \in ToSet(Endpoints(mcp))
             PROVE  IF SlashedOnce(e.path)
                    THEN Selected(mcp, e.path) = {ResolvedEndpoint(e)}
                    ELSE ResolvedEndpoint(e) \notin Selected(mcp, e.path)
  BY DEF FoundOverStdio
<1> DEFINE asked == <<Slash>> \o TrimSlashes(e.path)
<1>1. PICK i \in DOMAIN ResolvedEndpoints(mcp) :
        ResolvedEndpoints(mcp)[i] = ResolvedEndpoint(e) /\ e.path \in Seq(Symbol)
  BY Served
<1>2. ResolvedEndpoint(e).path = CleanPath(e.path)
  BY DEF ResolvedEndpoint
<1>3. ResolvedEndpoint(e).path = asked <=> SlashedOnce(e.path)
  BY <1>1, <1>2, FoundIf
<1>4. \A x : x \in Selected(mcp, e.path) <=>
               \E j \in DOMAIN ResolvedEndpoints(mcp) :
                 x = ResolvedEndpoints(mcp)[j] /\ ResolvedEndpoints(mcp)[j].path = asked
  BY DEF Selected, ToSet
<1> HIDE DEF asked
<1>5. CASE SlashedOnce(e.path)
  <2>1. ResolvedEndpoint(e) \in Selected(mcp, e.path)
    BY <1>1, <1>3, <1>4, <1>5
  <2>2. ASSUME NEW x \in Selected(mcp, e.path) PROVE x = ResolvedEndpoint(e)
    <3>1. PICK j \in DOMAIN ResolvedEndpoints(mcp) :
            x = ResolvedEndpoints(mcp)[j] /\ ResolvedEndpoints(mcp)[j].path = asked
      BY <1>4
    <3>2. i = j
      BY <1>1, <1>3, <1>5, <3>1, ResolvedPaths
    <3>3. QED
      BY <1>1, <3>1, <3>2
  <2>3. QED
    BY <1>5, <2>1, <2>2
<1>6. CASE ~SlashedOnce(e.path)
  BY <1>3, <1>4, <1>6
<1>7. QED
  BY <1>5, <1>6

\* Two endpoints meet at a pattern where one path is the other and a slash more, and
\* nowhere else; over HTTP a path of its own is answered as its entry says.  Over
\* stdio an endpoint is found, alone, by its path, but for the root and paths with
\* two slashes at one of their ends, which never are (server.go:127-129,
\* config.go:287-304, cli/mcp.go:30-34, :103).
THEOREM AnswersAsWritten == Spec => []AnsweredAsWritten
<1>1. BlockTyped => AnsweredAsWritten
  BY MountsAsWritten, StdioAsWritten DEF AnsweredAsWritten
<1>2. QED
  BY <1>1, BlockTypes, PTL

=============================================================================
