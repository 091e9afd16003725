--------------------------- MODULE ModSyncProofs ---------------------------
(***************************************************************************)
(* Finding and downloading outdated mods, for any mods, files and times:   *)
(* the parser of override files finds the mods a user left on, whatever    *)
(* else their entries hold; the list is exact; patching the setup file     *)
(* settles; a probe that finds nothing is right, and an update leaves      *)
(* nothing out.                                                            *)
(***************************************************************************)
EXTENDS ModSync, FiniteSetTheorems, FunctionTheorems, SequenceTheorems, WellFoundedInduction, TLAPS

-----------------------------------------------------------------------------
(* Elements at a set of places                                             *)

\* Every place of a set has one number, and every number up to its size a place.
LEMMA Numbered ==
    ASSUME NEW I \in SUBSET Nat, IsFiniteSet(I)
    PROVE  /\ Cardinality(I) \in Nat
           /\ \A k \in 1 .. Cardinality(I) : Nth(I, k) \in I
           /\ \A k, l \in 1 .. Cardinality(I) : Nth(I, k) = Nth(I, l) => k = l
           /\ \A i \in I : \E k \in 1 .. Cardinality(I) : Nth(I, k) = i
<1> DEFINE UpTo(i) == {j \in I : j <= i}
           n == Cardinality(I)
           rank == [i \in I |-> Cardinality(UpTo(i))]
<1>1. n \in Nat /\ IsFiniteSet(1 .. n) /\ Cardinality(1 .. n) = n
  BY FS_CardinalityType, FS_Interval
<1>2. \A i \in I : UpTo(i) \in SUBSET I /\ i \in UpTo(i)
  OBVIOUS
<1>3. \A i \in I : IsFiniteSet(UpTo(i)) /\ Cardinality(UpTo(i)) \in 1 .. n
  <2> SUFFICES ASSUME NEW i \in I PROVE IsFiniteSet(UpTo(i)) /\ Cardinality(UpTo(i)) \in 1 .. n
    OBVIOUS
  <2>1. IsFiniteSet(UpTo(i)) /\ Cardinality(UpTo(i)) <= n
    BY <1>2, FS_Subset
  <2>2. Cardinality(UpTo(i)) \in Nat /\ Cardinality(UpTo(i)) # 0
    BY <1>2, <2>1, FS_CardinalityType, FS_EmptySet
  <2> HIDE DEF UpTo, n
  <2> QED
    BY <1>1, <2>1, <2>2
<1>4. ASSUME NEW i \in I, NEW j \in I, i < j
      PROVE  Cardinality(UpTo(i)) # Cardinality(UpTo(j))
  <2>1. UpTo(i) \in SUBSET UpTo(j) /\ UpTo(i) # UpTo(j)
    <3>1. UpTo(i) \subseteq UpTo(j)
      <4>1. \A k \in I : k \in Nat
        OBVIOUS
      <4>2. \A k \in I : k <= i => k <= j
        BY <1>4, <4>1
      <4> QED
        BY <4>2
    <3>2. j \in UpTo(j) /\ j \notin UpTo(i)
      BY <1>4
    <3> QED
      BY <3>1, <3>2
  <2> HIDE DEF UpTo
  <2> QED
    BY <1>3, <2>1, FS_Subset
<1>5. rank \in Injection(I, 1 .. n)
  <2>1. \A i, j \in I : rank[i] = rank[j] => i = j
    BY <1>4
  <2>2. rank \in [I -> 1 .. n]
    BY <1>3
  <2> HIDE DEF rank, n
  <2> QED
    BY <2>1, <2>2, Fun_IsInj
<1>6. \A k \in 1 .. n : \E i \in I : rank[i] = k
  <2> HIDE DEF rank
  <2>1. rank \in Surjection(I, 1 .. n)
    BY <1>1, <1>5, FS_Injection
  <2> QED
    BY <2>1, Fun_SurjectionProperties
<1>7. \A k \in 1 .. n : Nth(I, k) \in I /\ rank[Nth(I, k)] = k
  BY <1>6 DEF Nth
<1>8. \A i \in I : rank[i] \in 1 .. n /\ Nth(I, rank[i]) = i
  <2>1. \A i \in I : rank[i] \in 1 .. n
    BY <1>3
  <2>2. \A i, j \in I : rank[i] = rank[j] => i = j
    BY <1>4
  <2> HIDE DEF rank, n
  <2> QED
    BY <1>7, <2>1, <2>2
<1> HIDE DEF rank, n
<1> QED
  BY <1>1, <1>7, <1>8 DEF n

\* What At takes from a sequence: the elements at the places and no others, one
\* for each place.
LEMMA Taken ==
    ASSUME NEW S, NEW s \in Seq(S), NEW I \in SUBSET DOMAIN s
    PROVE  /\ At(s, I) \in Seq(S)
           /\ Range(At(s, I)) = {s[i] : i \in I}
           /\ (\A i, j \in I : s[i] = s[j] => i = j) => IsInjective(At(s, I))
<1> DEFINE n == Cardinality(I)
           t == At(s, I)
<1>1. I \in SUBSET Nat /\ DOMAIN s = 1 .. Len(s) /\ Len(s) \in Nat /\ \A i \in I : s[i] \in S
  OBVIOUS
<1>2. IsFiniteSet(I)
  <2>1. IsFiniteSet(1 .. Len(s))
    BY <1>1, FS_Interval
  <2> QED
    BY <1>1, <2>1, FS_Subset
<1>3. /\ n \in Nat
      /\ \A k \in 1 .. n : Nth(I, k) \in I
      /\ \A k, l \in 1 .. n : Nth(I, k) = Nth(I, l) => k = l
      /\ \A i \in I : \E k \in 1 .. n : Nth(I, k) = i
  BY <1>1, <1>2, Numbered
<1>4. DOMAIN t = 1 .. n /\ \A k \in 1 .. n : t[k] = s[Nth(I, k)]
  BY DEF At
<1>5. t \in Seq(S)
  BY <1>1, <1>3 DEF At
<1> HIDE DEF n, t
<1>6. Range(t) = {s[i] : i \in I}
  BY <1>3, <1>4 DEF Range
<1>7. (\A i, j \in I : s[i] = s[j] => i = j) => IsInjective(t)
  BY <1>3, <1>4 DEF IsInjective
<1> QED
  BY <1>5, <1>6, <1>7 DEF t

\* Every non-empty set of places has a first one.
LEMMA FirstPlace ==
    ASSUME NEW I \in SUBSET Nat, I # {}
    PROVE  \E i \in I : \A j \in I : i <= j
<1>1. PICK i \in I : \A j \in I : <<j, i>> \notin OpToRel(<, Nat)
  BY NatLessThanWellFounded, WFMin
<1>2. \A j \in I : ~(j < i)
  BY <1>1 DEF OpToRel
<1> QED
  BY <1>2

\* The first of equal elements: nothing is lost, nothing is there twice.
LEMMA OnceTaken ==
    ASSUME NEW S, NEW s \in Seq(S), NEW I \in SUBSET DOMAIN s
    PROVE  /\ Once(s, I) \in Seq(S)
           /\ Range(Once(s, I)) = {s[i] : i \in I}
           /\ IsInjective(Once(s, I))
<1> DEFINE J == {i \in I : \A j \in I : s[j] = s[i] => i <= j}
<1>1. J \in SUBSET DOMAIN s /\ Once(s, I) = At(s, J) /\ I \subseteq Nat
  BY DEF Once
<1>2. \A i, j \in J : s[i] = s[j] => i = j
  BY <1>1
<1>3. ASSUME NEW i \in I PROVE s[i] \in {s[j] : j \in J}
  <2> DEFINE E == {j \in I : s[j] = s[i]}
  <2>1. E \in SUBSET Nat /\ E # {}
    BY <1>1
  <2>2. PICK j \in E : \A k \in E : j <= k
    BY <2>1, FirstPlace
  <2>3. j \in J /\ s[j] = s[i]
    BY <2>2
  <2> HIDE DEF J
  <2> QED
    BY <2>3
<1>4. {s[j] : j \in J} = {s[i] : i \in I}
  BY <1>3
<1> HIDE DEF J
<1>5. /\ At(s, J) \in Seq(S) /\ IsInjective(At(s, J))
      /\ Range(At(s, J)) = {s[j] : j \in J}
  BY <1>1, <1>2, Taken
<1> QED
  BY <1>1, <1>4, <1>5, Zenon

LEMMA Kept ==
    ASSUME NEW S, NEW s \in Seq(S), NEW T
    PROVE  /\ Keep(s, T) \in Seq(S)
           /\ Range(Keep(s, T)) = Range(s) \cap T
           /\ IsInjective(s) => IsInjective(Keep(s, T))
<1> DEFINE I == {i \in DOMAIN s : s[i] \in T}
<1>1. I \in SUBSET DOMAIN s /\ Keep(s, T) = At(s, I)
  BY DEF Keep
<1>2. {s[i] : i \in I} = Range(s) \cap T
  BY DEF Range
<1>3. IsInjective(s) => \A i, j \in I : s[i] = s[j] => i = j
  BY DEF IsInjective
<1> HIDE DEF I
<1> QED
  BY <1>1, <1>2, <1>3, Taken

\* Two lists without repetitions are merged into one.
LEMMA Merged ==
    ASSUME NEW S, NEW s \in Seq(S), NEW t \in Seq(S), IsInjective(s), IsInjective(t)
    PROVE  /\ Merge(s, t) \in Seq(S)
           /\ Range(Merge(s, t)) = Range(s) \cup Range(t)
           /\ IsInjective(Merge(s, t))
<1> DEFINE u == Keep(t, Range(t) \ Range(s))
           m == s \o u
<1>1. u \in Seq(S) /\ Range(u) = Range(t) \ Range(s) /\ IsInjective(u)
  BY Kept
<1>2. Merge(s, t) = m
  BY DEF Merge
<1> HIDE DEF u
<1>3. /\ m \in Seq(S) /\ Len(m) = Len(s) + Len(u)
      /\ \A i \in 1 .. Len(s) + Len(u) : m[i] = IF i <= Len(s) THEN s[i] ELSE u[i - Len(s)]
  BY <1>1, ConcatProperties
<1>4. /\ DOMAIN m = 1 .. Len(s) + Len(u) /\ DOMAIN s = 1 .. Len(s) /\ DOMAIN u = 1 .. Len(u)
      /\ Len(s) \in Nat /\ Len(u) \in Nat
  BY <1>1, <1>3
<1> HIDE DEF m
<1>5. \A i \in DOMAIN s : i \in DOMAIN m /\ m[i] = s[i]
  BY <1>3, <1>4
<1>6. \A i \in DOMAIN u : i + Len(s) \in DOMAIN m /\ m[i + Len(s)] = u[i]
  BY <1>3, <1>4
<1>7. \A i \in DOMAIN m : \/ i \in DOMAIN s /\ m[i] = s[i]
                          \/ i - Len(s) \in DOMAIN u /\ m[i] = u[i - Len(s)]
  BY <1>3, <1>4
<1>8. Range(m) = Range(s) \cup Range(u)
  BY <1>5, <1>6, <1>7 DEF Range
<1>9. IsInjective(m)
  <2> SUFFICES ASSUME NEW i \in DOMAIN m, NEW j \in DOMAIN m, m[i] = m[j] PROVE i = j
    BY DEF IsInjective
  <2>1. \A k \in DOMAIN s, l \in DOMAIN u : s[k] # u[l]
    BY <1>1 DEF Range
  <2>2. CASE i \in DOMAIN s /\ m[i] = s[i] /\ j \in DOMAIN s /\ m[j] = s[j]
    BY <2>2 DEF IsInjective
  <2>3. CASE /\ i - Len(s) \in DOMAIN u /\ m[i] = u[i - Len(s)]
             /\ j - Len(s) \in DOMAIN u /\ m[j] = u[j - Len(s)]
    <3>1. i - Len(s) = j - Len(s)
      BY <1>1, <2>3 DEF IsInjective
    <3> QED
      BY <1>4, <3>1
  <2> QED
    BY <1>7, <2>1, <2>2, <2>3
<1> QED
  BY <1>1, <1>2, <1>3, <1>8, <1>9

LEMMA Narrowed ==
    ASSUME NEW S, NEW s \in Seq(S), NEW T, Range(s) \subseteq T
    PROVE  s \in Seq(T)
<1>1. Len(s) \in Nat /\ DOMAIN s = 1 .. Len(s)
  OBVIOUS
<1>2. \A i \in 1 .. Len(s) : s[i] \in T
  BY <1>1 DEF Range
<1>3. s \in [1 .. Len(s) -> S]
  OBVIOUS
<1>4. s \in [1 .. Len(s) -> T]
  BY <1>2, <1>3
<1> QED
  BY <1>1, <1>4

\* A list without repetitions is as long as its set is large.
LEMMA LongAsItsSet ==
    ASSUME NEW S, NEW s \in Seq(S), IsInjective(s)
    PROVE  Len(s) = Cardinality(Range(s))
<1>1. s \in [1 .. Len(s) -> S] /\ DOMAIN s = 1 .. Len(s) /\ Len(s) \in Nat
  OBVIOUS
<1>2. s \in Bijection(1 .. Len(s), Range(s))
  <2>1. s \in Injection(1 .. Len(s), S)
    BY <1>1 DEF Injection
  <2> QED
    BY <2>1, Fun_InjMeansBijImage
<1>3. \A n \in Nat : IsFiniteSet(1 .. n) /\ Cardinality(1 .. n) = n
  BY FS_Interval
<1> QED
  BY <1>2, <1>3, FS_Bijection DEF ExistsBijection

-----------------------------------------------------------------------------
(* The parser of override files                                            *)

Entries == [id : Mods, enabled : Enablings, nested : Enablings, first : BOOLEAN]

\* Where the r-th token of the k-th entry is, and how deep an entry is there.
Place(k, r) == 7 * k - 6 + r
Level(e, r) == IF e.first THEN <<1, 1, 2, 3, 3, 2, 2>>[r] ELSE <<1, 1, 2, 2, 3, 3, 2>>[r]
OwnField(e) == IF e.first THEN 6 ELSE 3

LEMMA FieldTokens ==
    ASSUME NEW v \in Enablings
    PROVE  /\ Field(v).k \in {"space", "enabled"}
           /\ Field(v).k = "enabled" /\ ~Field(v).on <=> v = "false"
BY DEF Enablings, Field, Token

\* The tokens of an entry that has its own field before the nested table, and of
\* one that has it behind.
LEMMA LateEntry ==
    ASSUME NEW e \in Entries, e.first
    PROVE  LET et == EntryTokens(e)
           IN  /\ et[1].k = "id" /\ et[1].id = e.id /\ et[2].k = "open" /\ et[3].k = "open"
               /\ et[4].k = Field(e.nested).k /\ et[5].k = "close"
               /\ et[6] = Field(e.enabled) /\ et[7].k = "close"
BY DEF Entries, EntryTokens, Token, Open, Close

LEMMA EarlyEntry ==
    ASSUME NEW e \in Entries, ~e.first
    PROVE  LET et == EntryTokens(e)
           IN  /\ et[1].k = "id" /\ et[1].id = e.id /\ et[2].k = "open"
               /\ et[3] = Field(e.enabled) /\ et[4].k = "open"
               /\ et[5].k = Field(e.nested).k /\ et[6].k = "close" /\ et[7].k = "close"
BY DEF Entries, EntryTokens, Token, Open, Close

\* Where each token of a file is.
LEMMA FilePlaces ==
    ASSUME NEW file \in Seq(Entries)
    PROVE  LET ts == Tokens(file)
               end == 7 * Len(file) + 2
           IN  /\ DOMAIN ts = 1 .. end /\ end \in Nat
               /\ ts[1].k = "open" /\ ts[end].k = "close"
               /\ \A k \in 1 .. Len(file), r \in 1 .. 7 :
                      /\ Place(k, r) \in 2 .. end - 1
                      /\ ts[Place(k, r)] = EntryTokens(file[k])[r]
               /\ \A n \in 2 .. end - 1 :
                      \E k \in 1 .. Len(file), r \in 1 .. 7 : n = Place(k, r)
<1> DEFINE L == Len(file)
           ts == Tokens(file)
           end == 7 * L + 2
<1>1. L \in Nat
  OBVIOUS
<1> HIDE DEF L
<1>2. end \in Nat /\ end >= 2
  BY <1>1
<1>3. DOMAIN ts = 1 .. end
  BY DEF Tokens, L
<1>4. \A n \in 1 .. end :
          ts[n] = IF n = 1 THEN Open
                  ELSE IF n = end THEN Close
                  ELSE EntryTokens(file[((n - 2) \div 7) + 1])[((n - 2) % 7) + 1]
  BY DEF Tokens, L
<1> HIDE DEF ts
<1>5. ts[1].k = "open" /\ ts[end].k = "close"
  BY <1>2, <1>4 DEF Open, Close, Token
<1>6. ASSUME NEW k \in 1 .. L, NEW r \in 1 .. 7
      PROVE  /\ Place(k, r) \in 2 .. end - 1
             /\ ts[Place(k, r)] = EntryTokens(file[k])[r]
  <2>1. Place(k, r) \in 2 .. end - 1
    BY <1>1 DEF Place
  <2>2. (Place(k, r) - 2) \div 7 = k - 1 /\ (Place(k, r) - 2) % 7 = r - 1
    BY <1>1 DEF Place
  <2>3. ((Place(k, r) - 2) \div 7) + 1 = k /\ ((Place(k, r) - 2) % 7) + 1 = r
    BY <1>1, <2>2
  <2>4. Place(k, r) \in 1 .. end /\ Place(k, r) # 1 /\ Place(k, r) # end
    BY <1>2, <2>1
  <2>5. ts[Place(k, r)] =
            EntryTokens(file[((Place(k, r) - 2) \div 7) + 1])[((Place(k, r) - 2) % 7) + 1]
    BY <1>4, <2>4
  <2> QED
    BY <2>1, <2>3, <2>5, Zenon
<1>7. ASSUME NEW n \in 2 .. end - 1
      PROVE  \E k \in 1 .. L, r \in 1 .. 7 : n = Place(k, r)
  <2> DEFINE k == ((n - 2) \div 7) + 1
             r == ((n - 2) % 7) + 1
  <2>1. k \in 1 .. L /\ r \in 1 .. 7 /\ n = Place(k, r)
    BY <1>1, <1>2 DEF Place
  <2> HIDE DEF k, r
  <2> QED
    BY <2>1
<1> QED
  BY <1>2, <1>3, <1>5, <1>6, <1>7, Zenon DEF L, ts

\* Each brace moves the depth by one.
LEMMA DepthMoves ==
    ASSUME NEW ts, NEW i \in Nat \ {0}
    PROVE  /\ Depth(ts, i) \in Int
           /\ Depth(ts, 1) = 0
           /\ ts[i].k = "open" => Depth(ts, i + 1) = Depth(ts, i) + 1
           /\ ts[i].k = "close" => Depth(ts, i + 1) = Depth(ts, i) - 1
           /\ ts[i].k \notin {"open", "close"} => Depth(ts, i + 1) = Depth(ts, i)
<1> DEFINE Before(n, kind) == {j \in 1 .. n - 1 : ts[j].k = kind}
<1>1. ASSUME NEW n \in Nat, NEW kind
      PROVE  IsFiniteSet(Before(n, kind)) /\ Cardinality(Before(n, kind)) \in Nat
  <2>1. IsFiniteSet(1 .. n - 1)
    BY FS_Interval
  <2>2. Before(n, kind) \in SUBSET (1 .. n - 1)
    OBVIOUS
  <2> HIDE DEF Before
  <2> QED
    BY <2>1, <2>2, FS_Subset, FS_CardinalityType
<1>2. ASSUME NEW kind, ts[i].k = kind
      PROVE  Cardinality(Before(i + 1, kind)) = Cardinality(Before(i, kind)) + 1
  <2>1. Before(i + 1, kind) = Before(i, kind) \cup {i} /\ i \notin Before(i, kind)
    BY <1>2
  <2> HIDE DEF Before
  <2> QED
    BY <1>1, <2>1, FS_AddElement
<1>3. ASSUME NEW kind, ts[i].k # kind
      PROVE  Before(i + 1, kind) = Before(i, kind)
  BY <1>3
<1>4. \A n \in Nat : Depth(ts, n) = Cardinality(Before(n, "open")) - Cardinality(Before(n, "close"))
  BY DEF Depth
<1>5. Before(1, "open") = {} /\ Before(1, "close") = {}
  OBVIOUS
<1> HIDE DEF Before
<1>6. Depth(ts, 1) = 0
  BY <1>4, <1>5, FS_EmptySet
<1>7. Depth(ts, i) \in Int
  BY <1>1, <1>4
<1>8. i \in Nat /\ i + 1 \in Nat
  OBVIOUS
<1>9. CASE ts[i].k = "open"
  <2>1. Cardinality(Before(i + 1, "open")) = Cardinality(Before(i, "open")) + 1
    BY <1>2, <1>9
  <2>2. Before(i + 1, "close") = Before(i, "close")
    BY <1>3, <1>9
  <2> QED
    BY <1>1, <1>4, <1>6, <1>7, <1>8, <1>9, <2>1, <2>2
<1>10. CASE ts[i].k = "close"
  <2>1. Cardinality(Before(i + 1, "close")) = Cardinality(Before(i, "close")) + 1
    BY <1>2, <1>10
  <2>2. Before(i + 1, "open") = Before(i, "open")
    BY <1>3, <1>10
  <2> QED
    BY <1>1, <1>4, <1>6, <1>7, <1>8, <1>10, <2>1, <2>2
<1>11. CASE ts[i].k \notin {"open", "close"}
  <2>1. Before(i + 1, "open") = Before(i, "open") /\ Before(i + 1, "close") = Before(i, "close")
    BY <1>3, <1>11
  <2> QED
    BY <1>4, <1>6, <1>7, <1>8, <1>11, <2>1
<1> QED
  BY <1>9, <1>10, <1>11

\* An entry that begins at depth one goes through its levels and ends at depth one.
LEMMA EntryLevels ==
    ASSUME NEW file \in Seq(Entries), NEW k \in 1 .. Len(file),
           Depth(Tokens(file), Place(k, 1)) = 1
    PROVE  /\ \A r \in 1 .. 7 : Depth(Tokens(file), Place(k, r)) = Level(file[k], r)
           /\ Depth(Tokens(file), Place(k, 7) + 1) = 1
<1> DEFINE ts == Tokens(file)
           e == file[k]
           d(r) == Depth(ts, Place(k, r))
<1>1. e \in Entries
  OBVIOUS
<1>2. /\ \A r \in 1 .. 7 : ts[Place(k, r)] = EntryTokens(e)[r]
      /\ \A r \in 1 .. 7 : Place(k, r) \in Nat \ {0} /\ Place(k, r) + 1 = Place(k, r + 1)
  <2>1. \A r \in 1 .. 7 : ts[Place(k, r)] = EntryTokens(e)[r]
    BY FilePlaces
  <2>2. k \in Nat /\ k >= 1
    OBVIOUS
  <2> HIDE DEF ts, e
  <2> QED
    BY <2>1, <2>2 DEF Place
<1>3. \A r \in 1 .. 7 :
          /\ EntryTokens(e)[r].k = "open" => d(r + 1) = d(r) + 1
          /\ EntryTokens(e)[r].k = "close" => d(r + 1) = d(r) - 1
          /\ EntryTokens(e)[r].k \notin {"open", "close"} => d(r + 1) = d(r)
  <2> SUFFICES ASSUME NEW r \in 1 .. 7
               PROVE /\ EntryTokens(e)[r].k = "open" => d(r + 1) = d(r) + 1
                     /\ EntryTokens(e)[r].k = "close" => d(r + 1) = d(r) - 1
                     /\ EntryTokens(e)[r].k \notin {"open", "close"} => d(r + 1) = d(r)
    OBVIOUS
  <2> DEFINE n == Place(k, r)
  <2>1. n \in Nat \ {0} /\ Place(k, r + 1) = n + 1 /\ ts[n] = EntryTokens(e)[r]
    BY <1>2
  <2> HIDE DEF n, ts, e
  <2>2. /\ ts[n].k = "open" => Depth(ts, n + 1) = Depth(ts, n) + 1
        /\ ts[n].k = "close" => Depth(ts, n + 1) = Depth(ts, n) - 1
        /\ ts[n].k \notin {"open", "close"} => Depth(ts, n + 1) = Depth(ts, n)
    BY <2>1, DepthMoves
  <2> QED
    BY <2>1, <2>2, Zenon DEF n
<1>4. d(1) = 1 /\ Depth(ts, Place(k, 7) + 1) = d(8)
  BY <1>2
<1>5. e.enabled \in Enablings /\ e.nested \in Enablings
  BY <1>1 DEF Entries
<1>6. Field(e.enabled).k \notin {"open", "close"} /\ Field(e.nested).k \notin {"open", "close"}
  BY <1>5, FieldTokens
<1> HIDE DEF d, e
<1>7. /\ \A r \in 1 .. 7 : d(r) = Level(e, r)
      /\ d(8) = 1
  <2>1. CASE e.first
    <3> DEFINE et == EntryTokens(e)
    <3>1. /\ et[1].k = "id" /\ et[2].k = "open" /\ et[3].k = "open"
          /\ et[4].k \notin {"open", "close"} /\ et[5].k = "close"
          /\ et[6].k \notin {"open", "close"} /\ et[7].k = "close"
      BY <1>1, <1>6, <2>1, LateEntry
    <3> HIDE DEF et
    <3>2. d(2) = 1 /\ d(3) = 2 /\ d(4) = 3 /\ d(5) = 3 /\ d(6) = 2 /\ d(7) = 2 /\ d(8) = 1
      BY <1>3, <1>4, <3>1 DEF et
    <3> QED
      BY <1>4, <2>1, <3>2 DEF Level
  <2>2. CASE ~e.first
    <3> DEFINE et == EntryTokens(e)
    <3>1. /\ et[1].k = "id" /\ et[2].k = "open" /\ et[3].k \notin {"open", "close"}
          /\ et[4].k = "open" /\ et[5].k \notin {"open", "close"}
          /\ et[6].k = "close" /\ et[7].k = "close"
      BY <1>1, <1>6, <2>2, EarlyEntry
    <3> HIDE DEF et
    <3>2. d(2) = 1 /\ d(3) = 2 /\ d(4) = 2 /\ d(5) = 3 /\ d(6) = 3 /\ d(7) = 2 /\ d(8) = 1
      BY <1>3, <1>4, <3>1 DEF et
    <3> QED
      BY <1>4, <2>2, <3>2 DEF Level
  <2> QED
    BY <2>1, <2>2
<1> QED
  BY <1>4, <1>7 DEF d, e

\* Every entry begins at depth one: the first does, and each ends where it began.
LEMMA EntriesBegin ==
    ASSUME NEW file \in Seq(Entries)
    PROVE  \A k \in 1 .. Len(file) : Depth(Tokens(file), Place(k, 1)) = 1
<1> DEFINE ts == Tokens(file)
           L == Len(file)
           Bad == {k \in 1 .. L : Depth(ts, Place(k, 1)) # 1}
<1>1. SUFFICES ASSUME Bad # {} PROVE FALSE
  OBVIOUS
<1>2. L \in Nat /\ Bad \in SUBSET Nat
  OBVIOUS
<1>3. PICK k \in Bad : \A j \in Bad : k <= j
  BY <1>1, <1>2, FirstPlace
<1>4. CASE k = 1
  <2>1. ts[1].k = "open"
    BY FilePlaces
  <2>2. Depth(ts, 2) = 1
    <3>1. Depth(ts, 1) = 0 /\ Depth(ts, 1 + 1) = Depth(ts, 1) + 1
      BY <2>1, DepthMoves
    <3> QED
      BY <3>1
  <2>3. Place(1, 1) = 2
    BY DEF Place
  <2> QED
    BY <1>3, <1>4, <2>2, <2>3
<1>5. CASE k # 1
  <2>1. k - 1 \in 1 .. L /\ k - 1 \notin Bad
    BY <1>2, <1>3, <1>5
  <2>2. Depth(ts, Place(k - 1, 1)) = 1
    BY <2>1
  <2>3. Depth(ts, Place(k - 1, 7) + 1) = 1
    BY <2>1, <2>2, EntryLevels
  <2>4. Place(k - 1, 7) + 1 = Place(k, 1)
    BY <1>2, <1>3 DEF Place
  <2> QED
    BY <1>3, <2>3, <2>4
<1> QED
  BY <1>4, <1>5

\* The kind and the depth of a token of an entry.
LEMMA TokenOf ==
    ASSUME NEW file \in Seq(Entries), NEW k \in 1 .. Len(file), NEW r \in 1 .. 7
    PROVE  /\ Tokens(file)[Place(k, r)] = EntryTokens(file[k])[r]
           /\ Depth(Tokens(file), Place(k, r)) = Level(file[k], r)
BY EntriesBegin, EntryLevels, FilePlaces

\* Only the first token of an entry opens it, only its last closes it, and only its
\* own field can disable it.
LEMMA EntryParts ==
    ASSUME NEW e \in Entries, NEW r \in 1 .. 7
    PROVE  LET et == EntryTokens(e)
           IN  /\ et[r].k = "id" <=> r = 1
               /\ Level(e, 1) = 1 /\ et[1].id = e.id
               /\ et[r].k = "close" /\ Level(e, r) = 2 <=> r = 7
               /\ et[r].k = "enabled" /\ ~et[r].on /\ Level(e, r) = 2
                      <=> r = OwnField(e) /\ e.enabled = "false"
<1> DEFINE et == EntryTokens(e)
<1>1. e.enabled \in Enablings /\ e.nested \in Enablings
  BY DEF Entries
<1>2. /\ Field(e.enabled).k \in {"space", "enabled"} /\ Field(e.nested).k \in {"space", "enabled"}
      /\ Field(e.enabled).k = "enabled" /\ ~Field(e.enabled).on <=> e.enabled = "false"
  BY <1>1, FieldTokens
<1>3. r \in {1, 2, 3, 4, 5, 6, 7}
  OBVIOUS
<1>4. CASE e.first
  <2>1. /\ et[1].k = "id" /\ et[1].id = e.id /\ et[2].k = "open" /\ et[3].k = "open"
        /\ et[4].k = Field(e.nested).k /\ et[5].k = "close"
        /\ et[6] = Field(e.enabled) /\ et[7].k = "close"
    BY <1>4, LateEntry
  <2>2. /\ Level(e, 1) = 1 /\ Level(e, 2) = 1 /\ Level(e, 3) = 2 /\ Level(e, 4) = 3
        /\ Level(e, 5) = 3 /\ Level(e, 6) = 2 /\ Level(e, 7) = 2 /\ OwnField(e) = 6
    BY <1>4 DEF Level, OwnField
  <2> HIDE DEF et
  <2> QED
    BY <1>2, <1>3, <2>1, <2>2 DEF et
<1>5. CASE ~e.first
  <2>1. /\ et[1].k = "id" /\ et[1].id = e.id /\ et[2].k = "open"
        /\ et[3] = Field(e.enabled) /\ et[4].k = "open"
        /\ et[5].k = Field(e.nested).k /\ et[6].k = "close" /\ et[7].k = "close"
    BY <1>5, EarlyEntry
  <2>2. /\ Level(e, 1) = 1 /\ Level(e, 2) = 1 /\ Level(e, 3) = 2 /\ Level(e, 4) = 2
        /\ Level(e, 5) = 3 /\ Level(e, 6) = 3 /\ Level(e, 7) = 2 /\ OwnField(e) = 3
    BY <1>5 DEF Level, OwnField
  <2> HIDE DEF et
  <2> QED
    BY <1>2, <1>3, <2>1, <2>2 DEF et
<1> QED
  BY <1>4, <1>5

\* The entries of a file are what the parser takes for entries.
LEMMA FileOpens ==
    ASSUME NEW file \in Seq(Entries), NEW i \in DOMAIN Tokens(file)
    PROVE  Opens(Tokens(file), i) <=> \E k \in 1 .. Len(file) : i = Place(k, 1)
<1> DEFINE ts == Tokens(file)
           L == Len(file)
           end == 7 * L + 2
<1>1. ASSUME NEW k \in 1 .. L PROVE Opens(ts, Place(k, 1))
  <2>1. file[k] \in Entries
    OBVIOUS
  <2>2. ts[Place(k, 1)] = EntryTokens(file[k])[1] /\ Depth(ts, Place(k, 1)) = Level(file[k], 1)
    BY TokenOf
  <2>3. EntryTokens(file[k])[1].k = "id" /\ Level(file[k], 1) = 1
    BY <2>1, EntryParts
  <2> QED
    BY <2>2, <2>3 DEF Opens
<1>2. ASSUME Opens(ts, i) PROVE \E k \in 1 .. L : i = Place(k, 1)
  <2>1. ts[i].k = "id"
    BY <1>2 DEF Opens
  <2>2. i \in 2 .. end - 1
    <3>1. i \in 1 .. end /\ end \in Nat /\ ts[1].k = "open" /\ ts[end].k = "close"
      BY FilePlaces
    <3>2. i # 1 /\ i # end
      BY <2>1, <3>1
    <3> HIDE DEF end, ts
    <3> QED
      BY <3>1, <3>2
  <2>3. PICK k \in 1 .. L, r \in 1 .. 7 : i = Place(k, r)
    BY <2>2, FilePlaces
  <2>4. file[k] \in Entries
    OBVIOUS
  <2>5. ts[i] = EntryTokens(file[k])[r]
    BY <2>3, TokenOf
  <2>6. r = 1
    BY <2>1, <2>4, <2>5, EntryParts
  <2> QED
    BY <2>3, <2>6
<1> QED
  BY <1>1, <1>2

\* An entry is disabled by its own field and by nothing else: not by a field of its
\* nested table, and not by the field of another entry.
LEMMA FileDisables ==
    ASSUME NEW file \in Seq(Entries), NEW k \in 1 .. Len(file), NEW j \in DOMAIN Tokens(file)
    PROVE  Disables(Tokens(file), Place(k, 1), j)
               <=> j = Place(k, OwnField(file[k])) /\ file[k].enabled = "false"
<1> DEFINE ts == Tokens(file)
           L == Len(file)
           e == file[k]
           end == 7 * L + 2
<1>1. e \in Entries /\ OwnField(e) \in {3, 6} /\ k \in Nat /\ L \in Nat
  BY DEF OwnField
<1>2. ASSUME Disables(ts, Place(k, 1), j)
      PROVE  j = Place(k, OwnField(e)) /\ e.enabled = "false"
  <2>1. ts[j].k = "enabled" /\ ~ts[j].on /\ Depth(ts, j) = 2 /\ Within(ts, Place(k, 1), j)
    BY <1>2 DEF Disables
  <2>2. j \in 2 .. end - 1
    <3>1. j \in 1 .. end /\ end \in Nat /\ ts[1].k = "open" /\ ts[end].k = "close"
      BY FilePlaces
    <3>2. j # 1 /\ j # end
      BY <2>1, <3>1
    <3> HIDE DEF end, ts
    <3> QED
      BY <3>1, <3>2
  <2>3. PICK l \in 1 .. L, r \in 1 .. 7 : j = Place(l, r)
    BY <2>2, FilePlaces
  <2>4. ts[j] = EntryTokens(file[l])[r] /\ Depth(ts, j) = Level(file[l], r) /\ file[l] \in Entries
    BY <2>3, TokenOf
  <2>5. r = OwnField(file[l]) /\ file[l].enabled = "false"
    BY <2>1, <2>4, EntryParts
  <2>6. ~(l < k)
    <3>1. Place(k, 1) < j
      BY <2>1 DEF Within
    <3> QED
      BY <1>1, <2>3, <3>1 DEF Place
  <2>7. ~(k < l)
    <3>1. SUFFICES ASSUME k < l PROVE FALSE
      OBVIOUS
    <3>2. Place(k, 7) \in Place(k, 1) .. j - 1
      BY <1>1, <2>3, <3>1 DEF Place
    <3>3. ts[Place(k, 7)] = EntryTokens(e)[7] /\ Depth(ts, Place(k, 7)) = Level(e, 7)
      BY TokenOf
    <3>4. EntryTokens(e)[7].k = "close" /\ Level(e, 7) = 2
      BY <1>1, EntryParts
    <3> QED
      BY <2>1, <3>2, <3>3, <3>4 DEF Within
  <2>8. l = k
    BY <1>1, <2>6, <2>7
  <2> QED
    BY <2>3, <2>5, <2>8
<1>3. ASSUME j = Place(k, OwnField(e)), e.enabled = "false"
      PROVE  Disables(ts, Place(k, 1), j)
  <2>1. ts[j] = EntryTokens(e)[OwnField(e)] /\ Depth(ts, j) = Level(e, OwnField(e))
    BY <1>1, <1>3, TokenOf
  <2>2. ts[j].k = "enabled" /\ ~ts[j].on /\ Depth(ts, j) = 2
    BY <1>1, <1>3, <2>1, EntryParts
  <2>3. Place(k, 1) < j
    BY <1>1, <1>3 DEF Place
  <2>4. ASSUME NEW c \in Place(k, 1) .. j - 1
        PROVE  ~(ts[c].k = "close" /\ Depth(ts, c) = 2)
    <3> DEFINE r == c - Place(k, 0)
    <3>1. r \in 1 .. 7 /\ r # 7 /\ c = Place(k, r)
      BY <1>1, <1>3 DEF Place
    <3>2. ts[c] = EntryTokens(e)[r] /\ Depth(ts, c) = Level(e, r)
      BY <3>1, TokenOf
    <3> QED
      BY <1>1, <3>1, <3>2, EntryParts
  <2> QED
    BY <2>2, <2>3, <2>4 DEF Disables, Within
<1> QED
  BY <1>2, <1>3

\* The parser of override files is exact: it finds the mods whose own field does
\* not say false, each once, for any file (update.go:708-840).
LEMMA ParserExact ==
    ASSUME NEW file \in Seq(Entries)
    PROVE  /\ ParseOverrides(Tokens(file)) \in Seq(Mods)
           /\ Range(ParseOverrides(Tokens(file))) = Enabled(file)
           /\ IsInjective(ParseOverrides(Tokens(file)))
<1> DEFINE ts == Tokens(file)
           L == Len(file)
           On(i) == Opens(ts, i) /\ \A j \in DOMAIN ts : ~Disables(ts, i, j)
           I == {i \in DOMAIN ts : On(i)}
           ids == Ids(ts)
<1>1. /\ DOMAIN ts = 1 .. 7 * L + 2 /\ 7 * L + 2 \in Nat
      /\ \A k \in 1 .. L, r \in 1 .. 7 : Place(k, r) \in DOMAIN ts
  <2>1. /\ DOMAIN ts = 1 .. 7 * L + 2 /\ 7 * L + 2 \in Nat
        /\ \A k \in 1 .. L, r \in 1 .. 7 : Place(k, r) \in 2 .. (7 * L + 2) - 1
    BY FilePlaces
  <2> HIDE DEF ts, L
  <2> QED
    BY <2>1
<1>2. \A k \in 1 .. L : On(Place(k, 1)) <=> file[k].enabled # "false"
  <2> SUFFICES ASSUME NEW k \in 1 .. L PROVE On(Place(k, 1)) <=> file[k].enabled # "false"
    OBVIOUS
  <2>1. OwnField(file[k]) \in 1 .. 7
    BY DEF OwnField
  <2>2. Place(k, 1) \in DOMAIN ts /\ Place(k, OwnField(file[k])) \in DOMAIN ts
    BY <1>1, <2>1
  <2>3. Opens(ts, Place(k, 1))
    BY <2>2, FileOpens
  <2>4. \A j \in DOMAIN ts :
            Disables(ts, Place(k, 1), j)
                <=> j = Place(k, OwnField(file[k])) /\ file[k].enabled = "false"
    BY FileDisables
  <2> HIDE DEF ts
  <2> QED
    BY <2>2, <2>3, <2>4
<1>3. \A i \in I : \E k \in 1 .. L : i = Place(k, 1)
  BY FileOpens
<1>4. \A k \in 1 .. L : ts[Place(k, 1)].id = file[k].id /\ file[k].id \in Mods
  <2> SUFFICES ASSUME NEW k \in 1 .. L
               PROVE ts[Place(k, 1)].id = file[k].id /\ file[k].id \in Mods
    OBVIOUS
  <2>1. file[k] \in Entries
    OBVIOUS
  <2>2. ts[Place(k, 1)] = EntryTokens(file[k])[1]
    BY TokenOf
  <2>3. EntryTokens(file[k])[1].id = file[k].id
    BY <2>1, EntryParts
  <2> QED
    BY <2>1, <2>2, <2>3 DEF Entries
<1>5. Enabled(file) = {file[k].id : k \in {j \in 1 .. L : file[j].enabled # "false"}}
  BY DEF Enabled
<1> HIDE DEF On, L, ts
<1>6. {ts[i].id : i \in I} = Enabled(file)
  <2>1. ASSUME NEW k \in 1 .. L, file[k].enabled # "false"
        PROVE  file[k].id \in {ts[i].id : i \in I}
    <3>1. Place(k, 1) \in I /\ ts[Place(k, 1)].id = file[k].id
      BY <1>1, <1>2, <1>4, <2>1
    <3> QED
      BY <3>1
  <2>2. ASSUME NEW i \in I PROVE ts[i].id \in Enabled(file)
    <3>1. PICK k \in 1 .. L : i = Place(k, 1)
      BY <1>3
    <3>2. file[k].enabled # "false" /\ ts[i].id = file[k].id
      BY <1>2, <1>4, <3>1
    <3> QED
      BY <1>5, <3>2
  <2> QED
    BY <1>5, <2>1, <2>2
<1>7. ParseOverrides(ts) = Once(ids, I)
  BY DEF ParseOverrides, On
<1>8. /\ DOMAIN ids = DOMAIN ts /\ \A i \in DOMAIN ids : ids[i] = ts[i].id
      /\ ids \in Seq({ts[i].id : i \in DOMAIN ts})
  <2>1. DOMAIN ids = DOMAIN ts /\ \A i \in DOMAIN ids : ids[i] = ts[i].id
    BY DEF Ids
  <2>2. ids = [i \in 1 .. 7 * L + 2 |-> ts[i].id]
    BY <1>1 DEF Ids
  <2> QED
    BY <1>1, <2>1, <2>2
<1>9. I \in SUBSET DOMAIN ids
  BY <1>8
<1> HIDE DEF ids
<1>10. /\ Once(ids, I) \in Seq({ts[i].id : i \in DOMAIN ts})
       /\ Range(Once(ids, I)) = {ids[i] : i \in I}
       /\ IsInjective(Once(ids, I))
  BY <1>8, <1>9, OnceTaken
<1>11. {ids[i] : i \in I} = {ts[i].id : i \in I}
  BY <1>8
<1>12. Enabled(file) \subseteq Mods
  BY <1>4, <1>5
<1>13. Once(ids, I) \in Seq(Mods)
  <2>1. Range(Once(ids, I)) \subseteq Mods
    BY <1>6, <1>10, <1>11, <1>12
  <2> QED
    BY <1>10, <2>1, Narrowed
<1> QED
  BY <1>6, <1>7, <1>10, <1>11, <1>13 DEF ts

-----------------------------------------------------------------------------
(* The list                                                                *)

SetupLines == [id : Mods, code : BOOLEAN]

LEMMA SetupParsed ==
    ASSUME NEW lines \in Seq(SetupLines)
    PROVE  /\ ParseSetup(lines) \in Seq(Mods)
           /\ Range(ParseSetup(lines)) = SetupIds(lines)
           /\ IsInjective(ParseSetup(lines))
<1> DEFINE I == {i \in DOMAIN lines : lines[i].code}
           ids == Ids(lines)
<1>1. \A i \in DOMAIN lines : lines[i].id \in Mods
  <2>1. \A i \in DOMAIN lines : lines[i] \in SetupLines
    OBVIOUS
  <2> QED
    BY <2>1 DEF SetupLines
<1>2. ids \in Seq(Mods) /\ I \in SUBSET DOMAIN ids /\ \A i \in DOMAIN ids : ids[i] = lines[i].id
  BY <1>1 DEF Ids
<1>3. {ids[i] : i \in I} = SetupIds(lines)
  BY <1>2 DEF SetupIds
<1>4. ParseSetup(lines) = Once(ids, I)
  BY DEF ParseSetup
<1> HIDE DEF I, ids
<1> QED
  BY <1>2, <1>3, <1>4, OnceTaken

LEMMA OverridesParsed ==
    ASSUME NEW file \in Configs
    PROVE  /\ ModsOn(file) \in Seq(Mods)
           /\ Range(ModsOn(file)) = Enabled(file)
           /\ IsInjective(ModsOn(file))
<1>1. file \in Seq(Entries)
  BY FilesAssumption DEF Entries
<1>2. ModsOn(file) = ParseOverrides(Tokens(file))
  <2>1. <<file, ParseOverrides(Tokens(file))>> \in Parsed
    BY DEF Parsed
  <2>2. \A p \in Parsed : p[1] = file => p[2] = ParseOverrides(Tokens(file))
    BY DEF Parsed
  <2>3. \E p \in Parsed : p[1] = file
    BY <2>1
  <2> QED
    BY <2>2, <2>3, Zenon DEF ModsOn
<1> QED
  BY <1>1, <1>2, ParserExact

\* The list without repetitions of the mods of the files that could be read.
LEMMA ListedExact ==
    ASSUME setup \in Seq(SetupLines), over \in [{"master", "caves"} -> Configs], NEW skipped
    PROVE  /\ Listed(skipped) \in Seq(Mods)
           /\ IsInjective(Listed(skipped))
           /\ Range(Listed(skipped)) =
                 (IF "setup" \in skipped THEN {} ELSE SetupIds(setup))
                 \cup UNION {Enabled(over[s]) : s \in {"master", "caves"} \ skipped}
<1> DEFINE first == IF "setup" \in skipped THEN <<>> ELSE ParseSetup(setup)
           more(s) == IF s \in skipped THEN <<>> ELSE ModsOn(over[s])
           both == Merge(first, more("master"))
           found == Merge(both, more("caves"))
           Found(s) == IF s \in skipped THEN {} ELSE Enabled(over[s])
<1>1. <<>> \in Seq(Mods) /\ Range(<<>>) = {} /\ IsInjective(<<>>)
  BY DEF Range, IsInjective
<1>2. /\ first \in Seq(Mods) /\ IsInjective(first)
      /\ Range(first) = IF "setup" \in skipped THEN {} ELSE SetupIds(setup)
  BY <1>1, SetupParsed
<1>3. ASSUME NEW s \in {"master", "caves"}
      PROVE  more(s) \in Seq(Mods) /\ IsInjective(more(s)) /\ Range(more(s)) = Found(s)
  <2>1. over[s] \in Configs
    OBVIOUS
  <2> QED
    BY <1>1, <2>1, OverridesParsed
<1>4. Listed(skipped) = found
  BY DEF Listed
<1> HIDE DEF first, more
<1>5. both \in Seq(Mods) /\ IsInjective(both) /\ Range(both) = Range(first) \cup Range(more("master"))
  BY <1>2, <1>3, Merged
<1> HIDE DEF both
<1>6. found \in Seq(Mods) /\ IsInjective(found) /\ Range(found) = Range(both) \cup Range(more("caves"))
  BY <1>3, <1>5, Merged
<1> HIDE DEF found
<1>7. UNION {Enabled(over[s]) : s \in {"master", "caves"} \ skipped} = Found("master") \cup Found("caves")
  OBVIOUS
<1> HIDE DEF Found
<1>8. Range(found) = Range(first) \cup Found("master") \cup Found("caves")
  BY <1>3, <1>5, <1>6
<1> QED
  BY <1>2, <1>4, <1>6, <1>7, <1>8

-----------------------------------------------------------------------------
(* The answer of the workshop                                              *)

\* Of a mod that is not removed and does not stand behind a removed one the parser
\* reads the time that was published (update.go:1007-1047).
LEMMA AnswerRead ==
    ASSUME NEW list \in Seq(Mods), NEW m \in Legible(list)
    PROVE  m \in DOMAIN ParseAnswer(Answer(list)) /\ ParseAnswer(Answer(list))[m] = remote[m]
<1> DEFINE records == Answer(list)
           Match(p) == p \in Matches(records) /\ records[p[1]].id = m
<1>1. PICK j \in DOMAIN list : list[j] = m /\ m \notin removed /\ (j = 1 \/ list[j - 1] \notin removed)
  BY DEF Legible
<1>2. /\ DOMAIN records = DOMAIN list
      /\ \A i \in DOMAIN list :
             /\ records[i].id = list[i] /\ records[i].time = remote[list[i]]
             /\ records[i].timed <=> list[i] \notin removed
  BY DEF Answer
<1>3. DOMAIN list = 1 .. Len(list) /\ Len(list) \in Nat
  OBVIOUS
<1> HIDE DEF records
<1>4. Match(<<j, j>>)
  <2>1. j = 1 \/ (j - 1 \in DOMAIN list /\ records[j - 1].timed)
    BY <1>1, <1>2, <1>3
  <2>2. <<j, j>> \in (DOMAIN records) \X (DOMAIN records)
    BY <1>2
  <2>3. records[j].timed /\ records[j].id = m /\ j .. j - 1 = {} /\ j <= j
    BY <1>1, <1>2, <1>3
  <2>4. <<j, j>>[1] = j /\ <<j, j>>[2] = j
    OBVIOUS
  <2> QED
    BY <2>1, <2>2, <2>3, <2>4 DEF Matches
<1>5. ASSUME NEW p, Match(p) PROVE records[p[2]].time = remote[m]
  <2>1. /\ p[1] \in DOMAIN list /\ p[2] \in DOMAIN list /\ p[1] <= p[2]
        /\ records[p[1]].id = m /\ \A k \in p[1] .. p[2] - 1 : ~records[k].timed
    BY <1>2, <1>5 DEF Matches
  <2>2. list[p[1]] = m /\ records[p[1]].timed
    BY <1>1, <1>2, <2>1
  <2>3. ~(p[1] < p[2])
    <3>1. p[1] < p[2] => p[1] \in p[1] .. p[2] - 1
      BY <1>3, <2>1
    <3> QED
      BY <2>1, <2>2, <3>1
  <2>4. p[1] = p[2]
    BY <1>3, <2>1, <2>3
  <2> QED
    BY <1>2, <2>1, <2>2, <2>4
<1> DEFINE q == CHOOSE p \in Matches(records) : records[p[1]].id = m
<1>6. Match(q)
  BY <1>4
<1>7. m \in {records[p[1]].id : p \in Matches(records)}
  BY <1>6
<1>8. ParseAnswer(records)[m] = records[q[2]].time
  BY <1>7 DEF ParseAnswer
<1>9. DOMAIN ParseAnswer(records) = {records[p[1]].id : p \in Matches(records)}
  BY DEF ParseAnswer
<1> HIDE DEF Match, q
<1> QED
  BY <1>5, <1>6, <1>7, <1>8, <1>9 DEF records

-----------------------------------------------------------------------------
(* The invariant                                                           *)

ModTypes ==
    /\ setup \in Seq(SetupLines)
    /\ over \in [{"master", "caves"} -> Configs]
    /\ local \in [Mods -> Nat] /\ remote \in [Mods -> Nat] /\ asked \in [Mods -> Nat]
    /\ targets \in Seq(Mods)
    /\ \A m \in DOMAIN localTime : localTime[m] \in Nat

\* What the comparison reads: of the mods on the list the local table holds the
\* times of the copies, unless that query failed, ...
Recorded ==
    pc \in {"remote", "done"} /\ "local" \notin failed =>
        \A m \in Range(targets) : LocalTime(m) = local[m]

\* ... and the remote table the times when the workshop was asked, unless that one
\* failed.  Both may have moved on since.
Answered ==
    pc \in {"done", "judged"} /\ "remote" \notin failed =>
        \A m \in Legible(targets) : m \in DOMAIN remoteTime /\ remoteTime[m] = asked[m]

\* What the verdict rests on.
Judged == pc = "judged" /\ verdict = "none" => "remote" \notin failed /\ Outdated = <<>>

ModInv == ModTypes /\ Recorded /\ Answered /\ Judged

LEMMA ModStart == Init => ModInv
<1> SUFFICES ASSUME Init PROVE ModInv
  OBVIOUS
<1>1. ModTypes
  <2>1. setup \in Seq(SetupLines)
    BY FilesAssumption DEF Init, SetupLines
  <2>2. targets \in Seq(Mods)
    BY DEF Init
  <2>3. local \in [Mods -> Nat] /\ remote \in [Mods -> Nat] /\ asked \in [Mods -> Nat]
    BY DEF Init
  <2>4. \A m \in DOMAIN localTime : localTime[m] \in Nat
    BY DEF Init, Empty
  <2>5. over \in [{"master", "caves"} -> Configs]
    BY DEF Init
  <2> QED
    BY <2>1, <2>2, <2>3, <2>4, <2>5 DEF ModTypes
<1> QED
  BY <1>1 DEF Init, ModInv, Recorded, Answered, Judged

\* A line added to the setup file calls for a mod.
LEMMA LinesTyped ==
    ASSUME NEW ids \in Seq(Mods)
    PROVE  /\ Lines(ids) \in Seq(SetupLines) /\ Len(Lines(ids)) = Len(ids)
           /\ \A i \in 1 .. Len(ids) : Lines(ids)[i].id = ids[i] /\ Lines(ids)[i].code
<1>1. Len(ids) \in Nat /\ DOMAIN ids = 1 .. Len(ids) /\ \A i \in 1 .. Len(ids) : ids[i] \in Mods
  OBVIOUS
<1>2. Lines(ids) = [i \in 1 .. Len(ids) |-> [id |-> ids[i], code |-> TRUE]]
  BY <1>1 DEF Lines
<1>3. \A i \in 1 .. Len(ids) : [id |-> ids[i], code |-> TRUE] \in SetupLines
  BY <1>1 DEF SetupLines
<1> QED
  BY <1>1, <1>2, <1>3

LEMMA AppendedTyped ==
    ASSUME setup \in Seq(SetupLines), NEW added \in Seq(SetupLines)
    PROVE  Appended(added) \in Seq(SetupLines)
<1>1. setup \o added \in Seq(SetupLines)
  BY ConcatProperties
<1>2. CASE added # <<>>
  <2>1. Tail(added) \in Seq(SetupLines)
    BY <1>2
  <2>2. setup \o Tail(added) \in Seq(SetupLines)
    BY <2>1, ConcatProperties
  <2> QED
    BY <1>1, <2>2 DEF Appended
<1>3. CASE added = <<>>
  BY <1>1, <1>3 DEF Appended
<1> QED
  BY <1>2, <1>3

\* What a reading adds: mods it found that the setup file does not call for.
LEMMA MissingTyped ==
    ASSUME NEW found \in Seq(Mods), NEW known
    PROVE  /\ Unlisted(found, known) \in Seq(Mods)
           /\ Range(Unlisted(found, known)) = Range(found) \ known
<1>1. /\ Keep(found, Range(found) \ known) \in Seq(Mods)
      /\ Range(Keep(found, Range(found) \ known)) = Range(found) \cap (Range(found) \ known)
  BY Kept
<1> QED
  BY <1>1 DEF Unlisted

\* What a reading does, with its choices given.
LEMMA ReadingDone ==
    ASSUME ModTypes, ReadLines
    PROVE  /\ targets' = Listed(unread') /\ targets' \in Seq(Mods)
           /\ setup' \in Seq(SetupLines) /\ pc' \in {"idle", "local"}
           /\ \/ /\ setup' = Appended(Lines(Unlisted(targets',
                                IF "setup" \in unread' THEN {} ELSE SetupIds(setup))))
                 /\ cut' = (cut /\ Unlisted(targets',
                                IF "setup" \in unread' THEN {} ELSE SetupIds(setup)) = <<>>)
              \/ setup' = setup /\ ~written'
<1>1. /\ targets' = Listed(unread') /\ pc' \in {"idle", "local"}
      /\ \/ /\ setup' = Appended(Lines(Unlisted(targets',
                           IF "setup" \in unread' THEN {} ELSE SetupIds(setup))))
            /\ cut' = (cut /\ Unlisted(targets',
                           IF "setup" \in unread' THEN {} ELSE SetupIds(setup)) = <<>>)
         \/ setup' = setup /\ ~written'
  BY DEF ReadLines
<1>2. setup \in Seq(SetupLines) /\ targets' \in Seq(Mods)
  BY <1>1, ListedExact DEF ModTypes
<1> DEFINE missing == Unlisted(targets', IF "setup" \in unread' THEN {} ELSE SetupIds(setup))
<1>3. missing \in Seq(Mods)
  BY <1>2, MissingTyped
<1> HIDE DEF missing
<1>4. Appended(Lines(missing)) \in Seq(SetupLines)
  BY <1>2, <1>3, LinesTyped, AppendedTyped
<1> QED
  BY <1>1, <1>2, <1>4 DEF missing

LEMMA ModStep == ModInv /\ [Next]_vars => ModInv'
<1> SUFFICES ASSUME ModInv, [Next]_vars PROVE ModInv'
  OBVIOUS
<1> USE DEF ModInv
<1>1. CASE ReadLines
  <2>1. /\ targets' \in Seq(Mods) /\ setup' \in Seq(SetupLines) /\ pc' \in {"idle", "local"}
    BY <1>1, ReadingDone
  <2>2. UNCHANGED <<over, local, remote, asked, localTime>>
    BY <1>1 DEF ReadLines, timeVars, tableVars
  <2> QED
    BY <2>1, <2>2 DEF ModTypes, Recorded, Answered, Judged
<1>2. CASE ReadLocal
  <2>1. /\ pc' = "remote" /\ UNCHANGED <<setup, over, local, remote, asked, targets>>
        /\ \/ /\ localTime' = [m \in {m \in Range(targets) : local[m] > 0} |-> local[m]]
              /\ failed' = {}
           \/ localTime' = Empty /\ failed' = {"local"}
    BY <1>2 DEF ReadLocal, fileVars, timeVars
  <2>2. Range(targets) \subseteq Mods
    BY DEF ModTypes, Range
  <2>3. \A m \in DOMAIN localTime' : localTime'[m] \in Nat
    BY <2>1, <2>2 DEF ModTypes, Empty
  <2>4. ModTypes'
    BY <2>1, <2>3 DEF ModTypes
  <2>5. Recorded'
    <3> SUFFICES ASSUME "local" \notin failed', NEW m \in Range(targets)
                 PROVE  LocalTime(m)' = local[m]
      BY <2>1 DEF Recorded
    <3>1. localTime' = [k \in {k \in Range(targets) : local[k] > 0} |-> local[k]]
      BY <2>1
    <3>2. local[m] \in Nat
      BY <2>2 DEF ModTypes
    <3> QED
      BY <3>1, <3>2 DEF LocalTime
  <2> QED
    BY <2>1, <2>4, <2>5 DEF Answered, Judged
<1>3. CASE ReadRemote
  <2>1. /\ pc' = "done" /\ asked' = remote
        /\ UNCHANGED <<setup, over, local, remote, removed, targets, localTime>>
        /\ \/ remoteTime' = ParseAnswer(Answer(targets)) /\ failed' = failed
           \/ failed' = failed \cup {"remote"}
        /\ pc = "remote"
    BY <1>3 DEF ReadRemote, fileVars, timeVars
  <2>2. ModTypes'
    BY <2>1 DEF ModTypes
  <2>3. Recorded'
    BY <2>1 DEF Recorded, LocalTime
  <2>4. Answered'
    <3> SUFFICES ASSUME "remote" \notin failed', NEW m \in Legible(targets)'
                 PROVE  m \in DOMAIN remoteTime' /\ remoteTime'[m] = asked'[m]
      BY DEF Answered
    <3>1. m \in Legible(targets)
      BY <2>1 DEF Legible
    <3>2. remoteTime' = ParseAnswer(Answer(targets))
      BY <2>1
    <3>3. m \in DOMAIN ParseAnswer(Answer(targets)) /\ ParseAnswer(Answer(targets))[m] = remote[m]
      BY <3>1, AnswerRead DEF ModTypes
    <3> QED
      BY <2>1, <3>2, <3>3
  <2> QED
    BY <2>1, <2>2, <2>3, <2>4 DEF Judged
<1>4. CASE Judge
  <2>1. /\ pc = "done" /\ pc' = "judged"
        /\ verdict' = "none" => "remote" \notin failed /\ Outdated = <<>>
        /\ UNCHANGED <<setup, over, local, remote, removed, asked, targets, localTime, remoteTime, failed>>
    BY <1>4 DEF Judge, fileVars, timeVars, tableVars
  <2>2. ModTypes' /\ Recorded'
    BY <2>1 DEF ModTypes, Recorded
  <2>3. Answered'
    BY <2>1 DEF Answered, Legible
  <2>4. Judged'
    BY <2>1 DEF Judged, Outdated, LocalTime
  <2> QED
    BY <2>2, <2>3, <2>4
<1>5. CASE Return \/ Finish
  <2>1. Done /\ UNCHANGED <<setup, over, local, remote>>
    BY <1>5 DEF Return, Finish, fileVars, timeVars
  <2>2. pc' = "idle" /\ targets' \in Seq(Mods) /\ asked' \in [Mods -> Nat] /\ localTime' = Empty
    BY <2>1 DEF Done
  <2> QED
    BY <2>1, <2>2 DEF ModTypes, Empty, Recorded, Answered, Judged
<1>6. CASE Plan
  <2>1. pc' = "fetch" /\ UNCHANGED <<setup, over, local, remote, asked, targets, localTime>>
    BY <1>6 DEF Plan, fileVars, timeVars, tableVars
  <2> QED
    BY <2>1 DEF ModTypes, Recorded, Answered, Judged
<1>7. CASE Fetch
  <2>1. /\ pc = "fetch" /\ pc' = pc
        /\ local' = IF Head(plan) \in removed THEN local
                    ELSE [local EXCEPT ![Head(plan)] = remote[Head(plan)]]
        /\ UNCHANGED <<setup, over, remote, asked, targets, localTime>>
    BY <1>7 DEF Fetch, fileVars, tableVars
  <2>2. local' \in [Mods -> Nat]
    BY <2>1 DEF ModTypes
  <2> QED
    BY <2>1, <2>2 DEF ModTypes, Recorded, Answered, Judged
<1>8. ASSUME NEW m \in Mods, Publish(m) PROVE ModInv'
  <2>1. /\ remote' = [remote EXCEPT ![m] = @ + 1]
        /\ UNCHANGED <<setup, over, local, removed, asked, targets, pc, verdict, localTime, remoteTime, failed>>
    BY <1>8 DEF Publish, fileVars, tableVars
  <2>2. remote' \in [Mods -> Nat]
    BY <2>1 DEF ModTypes
  <2> QED
    BY <2>1, <2>2 DEF ModTypes, Recorded, Answered, Legible, Judged, Outdated, LocalTime
<1>9. ASSUME NEW m \in Mods, Withdraw(m) PROVE ModInv'
  <2>1. /\ removed \subseteq removed'
        /\ UNCHANGED <<setup, over, local, remote, asked, targets, pc, verdict, localTime, remoteTime, failed>>
    BY <1>9 DEF Withdraw, fileVars, tableVars
  <2>2. Legible(targets)' \subseteq Legible(targets)
    BY <2>1 DEF Legible
  <2>3. Answered'
    BY <2>1, <2>2 DEF Answered
  <2> QED
    BY <2>1, <2>3 DEF ModTypes, Recorded, Judged, Outdated, LocalTime
<1>10. ASSUME NEW s \in {"master", "caves"}, Edit(s) PROVE ModInv'
  <2>1. /\ over' \in [{"master", "caves"} -> Configs]
        /\ UNCHANGED <<setup, local, remote, removed, asked, targets, pc, verdict, localTime, remoteTime, failed>>
    BY <1>10 DEF Edit, timeVars, tableVars, ModTypes
  <2> QED
    BY <2>1 DEF ModTypes, Recorded, Answered, Legible, Judged, Outdated, LocalTime
<1>11. CASE CalmDown \/ UNCHANGED vars
  <2>1. UNCHANGED <<setup, over, local, remote, removed, asked, targets, pc, verdict, localTime, remoteTime, failed>>
    BY <1>11 DEF CalmDown, vars, fileVars, timeVars, tableVars
  <2> QED
    BY <2>1 DEF ModTypes, Recorded, Answered, Legible, Judged, Outdated, LocalTime
<1>12. CASE Start
  <2>1. pc' = "lines" /\ UNCHANGED <<setup, over, local, remote, asked, targets, localTime>>
    BY <1>12 DEF Start, fileVars, timeVars, tableVars
  <2> QED
    BY <2>1 DEF ModTypes, Recorded, Answered, Judged
<1> HIDE DEF ModInv
<1> QED
  BY <1>1, <1>2, <1>3, <1>4, <1>5, <1>6, <1>7, <1>8, <1>9, <1>10, <1>11, <1>12 DEF Next, Work

LEMMA ModInvariant == Spec => []ModInv
BY ModStart, ModStep, PTL DEF Spec

-----------------------------------------------------------------------------
(* The verdict and the plan                                                *)

LEMMA OutdatedExact ==
    ASSUME ModTypes
    PROVE  \A m \in Range(targets) :
               m \in DOMAIN remoteTime /\ remoteTime[m] > LocalTime(m) => m \in Range(Outdated)
<1>1. Range(Outdated) = Range(targets) \cap {m \in DOMAIN remoteTime : remoteTime[m] > LocalTime(m)}
  BY Kept DEF ModTypes, Outdated
<1> QED
  BY <1>1

LEMMA LegibleListed == ModTypes => Legible(targets) \subseteq Range(targets) /\ Range(targets) \subseteq Mods
BY DEF Legible, Range, ModTypes

\* A probe that says nothing is outdated is right, whatever mods are listed, published
\* or removed and whatever the parsers met, but for a mod behind a removed one in the
\* answer (update.go:164-199).
THEOREM ProbeIsSound == Spec => []ProbeSound
<1>1. ModInv => ProbeSound
  <2> SUFFICES ASSUME ModInv, pc = "judged", verdict = "none", NEW m \in Legible(targets)
               PROVE  asked[m] <= LocalTime(m)
    BY DEF ProbeSound
  <2>1. m \in Range(targets) /\ m \in Mods
    BY LegibleListed DEF ModInv
  <2>2. Outdated = <<>> /\ "remote" \notin failed
    BY DEF ModInv, Judged
  <2>3. Range(Outdated) = {}
    BY <2>2 DEF Range
  <2>4. m \in DOMAIN remoteTime /\ remoteTime[m] = asked[m]
    BY <2>2 DEF ModInv, Answered
  <2>5. ~(remoteTime[m] > LocalTime(m))
    BY <2>1, <2>3, <2>4, OutdatedExact DEF ModInv
  <2>6. asked[m] \in Nat /\ LocalTime(m) \in Nat
    BY <2>1 DEF ModInv, ModTypes, LocalTime
  <2> QED
    BY <2>4, <2>5, <2>6
<1> QED
  BY <1>1, ModInvariant, PTL

\* An update downloads every mod that was out of date when the workshop was asked
\* (update.go:262-292), but for the same mods.
LEMMA PlanStep == ModInv /\ Plan => \A m \in Legible(targets) : asked[m] > local[m] => m \in Range(plan')
<1> SUFFICES ASSUME ModInv, Plan, NEW m \in Legible(targets), asked[m] > local[m]
             PROVE  m \in Range(plan')
  OBVIOUS
<1>1. m \in Range(targets)
  BY LegibleListed DEF ModInv
<1>2. pc = "done" /\ plan' = IF failed = {} /\ Outdated # <<>> THEN Outdated ELSE targets
  BY DEF Plan
<1>3. CASE plan' = targets
  BY <1>1, <1>3
<1>4. CASE failed = {} /\ plan' = Outdated
  <2>1. m \in DOMAIN remoteTime /\ remoteTime[m] = asked[m] /\ LocalTime(m) = local[m]
    BY <1>1, <1>2, <1>4 DEF ModInv, Answered, Recorded
  <2> QED
    BY <1>1, <1>4, <2>1, OutdatedExact DEF ModInv
<1> QED
  BY <1>2, <1>3, <1>4

THEOREM PlanIsComplete == Spec => PlanCovers
<1>1. ModInv /\ [Next]_vars =>
          [Plan => \A m \in Legible(targets) : asked[m] > local[m] => m \in Range(plan')]_vars
  BY PlanStep
<1> QED
  BY <1>1, ModInvariant, PTL DEF Spec, PlanCovers

-----------------------------------------------------------------------------
(* The list and the setup file                                             *)

LEMMA ListStep ==
    ASSUME ModInv, ReadLines
    PROVE  /\ Range(targets') =
                 (IF "setup" \in unread' THEN {} ELSE SetupIds(setup))
                 \cup UNION {Enabled(over[s]) : s \in {"master", "caves"} \ unread'}
           /\ Len(targets') = Cardinality(Range(targets'))
<1>1. targets' = Listed(unread') /\ setup \in Seq(SetupLines) /\ over \in [{"master", "caves"} -> Configs]
  BY ReadingDone DEF ModInv, ModTypes
<1>2. /\ Listed(unread') \in Seq(Mods) /\ IsInjective(Listed(unread'))
      /\ Range(Listed(unread')) =
            (IF "setup" \in unread' THEN {} ELSE SetupIds(setup))
            \cup UNION {Enabled(over[s]) : s \in {"master", "caves"} \ unread'}
  BY <1>1, ListedExact
<1>3. Len(Listed(unread')) = Cardinality(Range(Listed(unread')))
  BY <1>2, LongAsItsSet
<1> QED
  BY <1>1, <1>2, <1>3

\* A reading finds exactly the mods of the files it could read, each of them once, for
\* any files and mods (update.go:642-877).
THEOREM ListIsExact == Spec => ListExact
<1>1. ModInv /\ [Next]_vars =>
          [ReadLines =>
             /\ Range(targets') =
                   (IF "setup" \in unread' THEN {} ELSE SetupIds(setup))
                   \cup UNION {Enabled(over[s]) : s \in {"master", "caves"} \ unread'}
             /\ Len(targets') = Cardinality(Range(targets'))]_vars
  BY ListStep
<1> QED
  BY <1>1, ModInvariant, PTL DEF Spec, ListExact

\* What appending lines leaves: the old ones, and of the new ones all or all but the
\* first.
LEMMA AppendedLines ==
    ASSUME setup \in Seq(SetupLines), NEW ids \in Seq(Mods)
    PROVE  LET new == Appended(Lines(ids))
           IN  /\ \A i \in Len(setup) + 1 .. Len(new) : new[i].id \in Range(ids)
               /\ SetupIds(setup) \subseteq SetupIds(new)
               /\ \/ Range(ids) \subseteq SetupIds(new)
                  \/ /\ cut /\ ~Last(setup).code /\ ids # <<>>
                     /\ \E m \in Range(ids) : Range(ids) \ {m} \subseteq SetupIds(new)
<1> DEFINE added == Lines(ids)
           whole == setup \o added
           n == Len(setup)
           k == Len(ids)
<1>1. /\ added \in Seq(SetupLines) /\ Len(added) = k
      /\ \A i \in 1 .. k : added[i].id = ids[i] /\ added[i].code
  BY LinesTyped
<1>2. n \in Nat /\ k \in Nat /\ DOMAIN setup = 1 .. n /\ DOMAIN ids = 1 .. k
  OBVIOUS
<1> HIDE DEF added, n, k
<1>3. /\ whole \in Seq(SetupLines) /\ Len(whole) = n + k
      /\ \A i \in 1 .. n + k : whole[i] = IF i <= n THEN setup[i] ELSE added[i - n]
  BY <1>1, ConcatProperties DEF n
<1> HIDE DEF whole
<1>4. DOMAIN whole = 1 .. n + k
  BY <1>3
<1>5. CASE Appended(added) = whole
  <2>1. ASSUME NEW i \in n + 1 .. n + k PROVE whole[i].id \in Range(ids)
    <3>1. whole[i] = added[i - n] /\ i - n \in 1 .. k
      BY <1>2, <1>3, <2>1
    <3> QED
      BY <1>1, <1>2, <3>1 DEF Range
  <2>2. ASSUME NEW m \in SetupIds(setup) PROVE m \in SetupIds(whole)
    <3>1. PICK i \in 1 .. n : setup[i].code /\ setup[i].id = m
      BY <1>2 DEF SetupIds
    <3>2. i \in 1 .. n + k /\ whole[i] = setup[i]
      BY <1>2, <1>3, <3>1
    <3> QED
      BY <1>4, <3>1, <3>2 DEF SetupIds
  <2>3. ASSUME NEW m \in Range(ids) PROVE m \in SetupIds(whole)
    <3>1. PICK i \in 1 .. k : ids[i] = m
      BY <1>2 DEF Range
    <3>2. i + n \in 1 .. n + k /\ whole[i + n] = added[i]
      BY <1>2, <1>3, <3>1
    <3> QED
      BY <1>1, <1>4, <3>1, <3>2 DEF SetupIds
  <2> QED
    BY <1>3, <1>5, <2>1, <2>2, <2>3 DEF added, n
<1>6. CASE /\ cut /\ ~Last(setup).code /\ added # <<>>
           /\ Appended(added) = setup \o Tail(added)
  <2> DEFINE rest == Tail(added)
             short == setup \o rest
  <2>1. /\ k >= 1 /\ rest \in Seq(SetupLines) /\ Len(rest) = k - 1
        /\ \A i \in 1 .. k - 1 : rest[i] = added[i + 1]
    BY <1>1, <1>2, <1>6
  <2> HIDE DEF rest
  <2>2. /\ Len(short) = n + (k - 1)
        /\ \A i \in 1 .. n + (k - 1) : short[i] = IF i <= n THEN setup[i] ELSE rest[i - n]
    <3>1. /\ Len(setup \o rest) = Len(setup) + Len(rest)
          /\ \A i \in 1 .. Len(setup) + Len(rest) :
                 (setup \o rest)[i] = IF i <= Len(setup) THEN setup[i] ELSE rest[i - Len(setup)]
      BY <2>1, ConcatProperties
    <3> QED
      BY <2>1, <3>1 DEF n
  <2> HIDE DEF short
  <2>3. ASSUME NEW i \in n + 1 .. n + (k - 1) PROVE short[i].id \in Range(ids)
    <3>1. short[i] = added[i - n + 1] /\ i - n + 1 \in 1 .. k
      BY <1>2, <2>1, <2>2, <2>3
    <3> QED
      BY <1>1, <1>2, <3>1 DEF Range
  <2>4. ids # <<>> /\ ids[1] \in Range(ids)
    BY <1>2, <2>1 DEF k, Range
  <2>5. DOMAIN short = 1 .. n + (k - 1)
    BY <1>6, <2>2 DEF short
  <2>6. ASSUME NEW m \in SetupIds(setup) PROVE m \in SetupIds(short)
    <3>1. PICK i \in 1 .. n : setup[i].code /\ setup[i].id = m
      BY <1>2 DEF SetupIds
    <3>2. i \in 1 .. n + (k - 1) /\ short[i] = setup[i]
      BY <1>2, <2>1, <2>2, <3>1
    <3> QED
      BY <2>5, <3>1, <3>2 DEF SetupIds
  <2>7. ASSUME NEW m \in Range(ids) \ {ids[1]} PROVE m \in SetupIds(short)
    <3>1. PICK i \in 1 .. k : ids[i] = m /\ i # 1
      BY <1>2 DEF Range
    <3>2. /\ n + i - 1 \in 1 .. n + (k - 1) /\ short[n + i - 1] = added[i]
          /\ n + i - 1 > n
      BY <1>2, <2>1, <2>2, <3>1
    <3> QED
      BY <1>1, <2>5, <3>1, <3>2 DEF SetupIds
  <2> QED
    BY <1>6, <2>2, <2>3, <2>4, <2>6, <2>7 DEF added, n, short, rest
<1>7. \/ Appended(added) = whole
      \/ /\ cut /\ ~Last(setup).code /\ added # <<>>
         /\ Appended(added) = setup \o Tail(added)
  BY DEF Appended, whole
<1> QED
  BY <1>5, <1>6, <1>7

LEMMA PatchStep ==
    ASSUME ModInv, ReadLines, "setup" \notin unread'
    PROVE  /\ \A i \in Len(setup) + 1 .. Len(setup') : setup'[i].id \notin SetupIds(setup)
           /\ \/ Range(targets') \subseteq SetupIds(setup')
              \/ /\ cut /\ ~cut' /\ ~Last(setup).code
                 /\ \E m \in Range(targets') : Range(targets') \ {m} \subseteq SetupIds(setup')
              \/ ~written'
<1> DEFINE missing == Unlisted(targets', SetupIds(setup))
<1>1. /\ targets' \in Seq(Mods)
      /\ \/ setup' = Appended(Lines(missing)) /\ cut' = (cut /\ missing = <<>>)
         \/ setup' = setup /\ ~written'
  BY ReadingDone DEF ModInv
<1>2. missing \in Seq(Mods) /\ Range(missing) = Range(targets') \ SetupIds(setup)
  BY <1>1, MissingTyped
<1> HIDE DEF missing
<1>3. setup \in Seq(SetupLines)
  BY DEF ModInv, ModTypes
<1>4. CASE setup' = Appended(Lines(missing)) /\ cut' = (cut /\ missing = <<>>)
  <2>1. /\ \A i \in Len(setup) + 1 .. Len(setup') : setup'[i].id \in Range(missing)
        /\ SetupIds(setup) \subseteq SetupIds(setup')
        /\ \/ Range(missing) \subseteq SetupIds(setup')
           \/ /\ cut /\ ~Last(setup).code /\ missing # <<>>
              /\ \E m \in Range(missing) : Range(missing) \ {m} \subseteq SetupIds(setup')
    BY <1>2, <1>3, <1>4, AppendedLines
  <2> QED
    BY <1>2, <1>4, <2>1
<1>5. CASE setup' = setup /\ ~written'
  <2>1. Len(setup) \in Nat
    BY <1>3
  <2> QED
    BY <1>5, <2>1
<1> QED
  BY <1>1, <1>4, <1>5

\* Patching the setup file adds no line twice and settles, for any setup file
\* (update.go:853-900).
THEOREM PatchingSettles == Spec => PatchSettles
<1>1. ModInv /\ [Next]_vars =>
          [ReadLines /\ "setup" \notin unread' =>
             /\ \A i \in Len(setup) + 1 .. Len(setup') : setup'[i].id \notin SetupIds(setup)
             /\ \/ Range(targets') \subseteq SetupIds(setup')
                \/ /\ cut /\ ~cut' /\ ~Last(setup).code
                   /\ \E m \in Range(targets') : Range(targets') \ {m} \subseteq SetupIds(setup')
                \/ ~written']_vars
  BY PatchStep
<1> QED
  BY <1>1, ModInvariant, PTL DEF Spec, PatchSettles

=============================================================================
