---------------------------- MODULE LogHubProofs ----------------------------
(***************************************************************************)
(* The log broadcast of a shard, for any number of streamers, clients and  *)
(* blocks and any capacities: its reference counts are exact, and the hub  *)
(* sends on a closed channel only when a departure overtook the            *)
(* subscription it ends.                                                   *)
(***************************************************************************)
EXTENDS LogHub, FiniteSetTheorems, TLAPS

-----------------------------------------------------------------------------
(* The invariant                                                           *)

Queue(S, q, cap) == q \in Seq(S) /\ Len(q) <= cap

\* TypeOK but for the number of connections, and what follows from the control
\* state: the hub has a block while it fans out, a handler while it writes.
Typed ==
    /\ free \subseteq Blocks
    /\ ref \in [Blocks -> Int]
    /\ mine \in [Streamers -> Blocks \cup {NoBlock}]
    /\ Queue(Blocks, central, HubCap)
    /\ Queue(Clients, subQ, SubCap)
    /\ Queue(Clients, unsubQ, SubCap)
    /\ subs \subseteq Clients
    /\ hub \in {"select", "fan", "done", "panic"}
    /\ hubBlock \in Blocks \cup {NoBlock}
    /\ todo \subseteq Clients
    /\ offering \in Clients \cup {NoClient}
    /\ chan = [c \in Clients |-> chan[c]]
    /\ \A c \in Clients : Queue(Blocks, chan[c], ChanCap)
    /\ closed \in [Clients -> BOOLEAN]
    /\ overtaken \subseteq Clients
    /\ cpc \in [Clients -> {"off", "sub", "serve", "write", "leave", "unsub", "drain"}]
    /\ cur \in [Clients -> Blocks \cup {NoBlock}]
    /\ hub \in {"select", "done"} => hubBlock = NoBlock /\ todo = {} /\ offering = NoClient
    /\ hub = "fan" => hubBlock \in Blocks
    /\ \A c \in Clients : cpc[c] = "write" <=> cur[c] # NoBlock

\* The count of connections is exact (api.go:852 and 860).
Connected == {c \in Clients : cpc[c] \in {"sub", "serve", "write", "leave"}}
Counted == connCount = Cardinality(Connected)

\* The channels the hub may still send on.
Known(c) == c \in subs \cup todo \cup {offering} \/ \E i \in DOMAIN subQ : subQ[i] = c

\* A channel is closed once, after its handler has said so; its slot is used again
\* when the hub no longer knows it.
Leaving ==
    /\ \A i \in DOMAIN unsubQ : cpc[unsubQ[i]] = "drain" /\ ~closed[unsubQ[i]]
    /\ \A i, j \in DOMAIN unsubQ : unsubQ[i] = unsubQ[j] => i = j
ClosedLate == \A c \in Clients : closed[c] => cpc[c] \in {"drain", "off"}
Reusable == \A c \in Clients : cpc[c] = "off" => chan[c] = <<>> /\ (closed[c] \/ ~Known(c))
Overtaking == \A c \in Clients : closed[c] /\ Known(c) => overtaken # {}
Departures == Leaving /\ ClosedLate /\ Reusable /\ Overtaking

\* What HubSurvives says.
Survival == hub = "panic" => overtaken # {}

\* What a streamer fills nobody else sees.
Elsewhere(b) ==
    \/ hubBlock = b
    \/ \E i \in DOMAIN central : central[i] = b
    \/ \E c \in Clients : cur[c] = b \/ \E i \in DOMAIN chan[c] : chan[c][i] = b
Exclusive(s, b) ==
    /\ b \notin free
    /\ \A t \in Streamers \ {s} : mine[t] # b
    /\ ~Elsewhere(b)
Filling == \A s \in Streamers : mine[s] # NoBlock => Exclusive(s, mine[s])

Exact == \A b \in Blocks : Holders(b) = IF b \in free THEN 0 ELSE ref[b]

HubInv == Typed /\ Counted /\ Departures /\ Survival /\ (Alive => Filling /\ Exact)

-----------------------------------------------------------------------------
(* Counting                                                                *)

One(p) == IF p THEN 1 ELSE 0

\* A set that may lose or gain one element.
LEMMA CountOne ==
    ASSUME NEW S, NEW T, NEW a, IsFiniteSet(S), S \ {a} = T \ {a}
    PROVE  /\ IsFiniteSet(T)
           /\ Cardinality(S) \in Nat /\ Cardinality(T) \in Nat
           /\ Cardinality(T) = Cardinality(S) + One(a \in T) - One(a \in S)
<1> DEFINE R == S \ {a}
<1>1. IsFiniteSet(R) /\ Cardinality(R) \in Nat
  BY FS_RemoveElement, FS_CardinalityType
<1>2. S = R \/ S = R \cup {a}
  OBVIOUS
<1>3. T = R \/ T = R \cup {a}
  OBVIOUS
<1>4. a \notin R
  OBVIOUS
<1>5. IsFiniteSet(R \cup {a}) /\ Cardinality(R \cup {a}) = Cardinality(R) + 1
  BY <1>1, <1>4, FS_AddElement
<1>6. Cardinality(S) = Cardinality(R) + One(a \in S)
  <2>1. CASE a \in S
    BY <1>1, <1>2, <1>4, <1>5, <2>1 DEF One
  <2>2. CASE a \notin S
    <3>1. S = R /\ One(a \in S) = 0
      BY <1>2, <2>2 DEF One
    <3> HIDE DEF R
    <3> QED
      BY <1>1, <3>1
  <2> QED
    BY <2>1, <2>2
<1>7. IsFiniteSet(T) /\ Cardinality(T) = Cardinality(R) + One(a \in T)
  <2>1. CASE a \in T
    BY <1>1, <1>3, <1>4, <1>5, <2>1 DEF One
  <2>2. CASE a \notin T
    <3>1. T = R /\ One(a \in T) = 0
      BY <1>3, <2>2 DEF One
    <3> HIDE DEF R
    <3> QED
      BY <1>1, <3>1
  <2> QED
    BY <2>1, <2>2
<1>8. One(a \in S) \in Nat /\ One(a \in T) \in Nat
  BY DEF One
<1> QED
  BY <1>1, <1>6, <1>7, <1>8

\* How often a value is taken, when a function changes at one place.
LEMMA CountChange ==
    ASSUME NEW S, IsFiniteSet(S), NEW f, NEW g, NEW a \in S, NEW b,
           \A x \in S \ {a} : g[x] = f[x]
    PROVE  /\ Cardinality({x \in S : f[x] = b}) \in Nat
           /\ Cardinality({x \in S : g[x] = b})
                 = Cardinality({x \in S : f[x] = b}) + One(g[a] = b) - One(f[a] = b)
<1> DEFINE F == {x \in S : f[x] = b}
           G == {x \in S : g[x] = b}
<1>1. IsFiniteSet(F)
  BY FS_Subset
<1>2. F \ {a} = G \ {a}
  OBVIOUS
<1>3. (a \in F <=> f[a] = b) /\ (a \in G <=> g[a] = b)
  OBVIOUS
<1> HIDE DEF F, G
<1>4. /\ Cardinality(F) \in Nat
      /\ Cardinality(G) = Cardinality(F) + One(a \in G) - One(a \in F)
  BY <1>1, <1>2, CountOne
<1>5. One(a \in G) = One(g[a] = b) /\ One(a \in F) = One(f[a] = b)
  BY <1>3 DEF One
<1> QED
  BY <1>4, <1>5 DEF F, G

\* How often a block is in a queue.
InQueue(q, b) == {i \in DOMAIN q : q[i] = b}

LEMMA QueueFinite ==
    ASSUME NEW q, NEW b, NEW S, q \in Seq(S)
    PROVE  IsFiniteSet(InQueue(q, b)) /\ Cardinality(InQueue(q, b)) \in Nat
<1>1. IsFiniteSet(1 .. Len(q)) /\ DOMAIN q = 1 .. Len(q)
  BY FS_Interval
<1>2. InQueue(q, b) \subseteq 1 .. Len(q)
  BY <1>1 DEF InQueue
<1> QED
  BY <1>1, <1>2, FS_Subset, FS_CardinalityType

LEMMA CountAppend ==
    ASSUME NEW S, NEW q \in Seq(S), NEW x \in S, NEW b
    PROVE  Cardinality(InQueue(Append(q, x), b)) = Cardinality(InQueue(q, b)) + One(x = b)
<1> DEFINE n == Len(q) + 1
<1>1. /\ DOMAIN Append(q, x) = 1 .. n /\ DOMAIN q = 1 .. Len(q) /\ Len(q) \in Nat
      /\ \A i \in 1 .. Len(q) : Append(q, x)[i] = q[i]
      /\ Append(q, x)[n] = x
  OBVIOUS
<1>2. InQueue(q, b) \ {n} = InQueue(Append(q, x), b) \ {n}
  BY <1>1 DEF InQueue
<1>3. n \notin InQueue(q, b) /\ (n \in InQueue(Append(q, x), b) <=> x = b)
  BY <1>1 DEF InQueue
<1>4. IsFiniteSet(InQueue(q, b))
  BY QueueFinite
<1> HIDE DEF n
<1>5. /\ Cardinality(InQueue(q, b)) \in Nat
      /\ Cardinality(InQueue(Append(q, x), b))
            = Cardinality(InQueue(q, b)) + One(n \in InQueue(Append(q, x), b))
              - One(n \in InQueue(q, b))
  BY <1>2, <1>4, CountOne
<1>6. One(n \in InQueue(q, b)) = 0 /\ One(n \in InQueue(Append(q, x), b)) = One(x = b)
      /\ One(x = b) \in Nat
  BY <1>3 DEF One
<1> QED
  BY <1>5, <1>6

LEMMA CountTail ==
    ASSUME NEW S, NEW q \in Seq(S), q # <<>>, NEW b
    PROVE  Cardinality(InQueue(Tail(q), b)) = Cardinality(InQueue(q, b)) - One(Head(q) = b)
<1> DEFINE R == InQueue(q, b) \ {1}
           T == InQueue(Tail(q), b)
           f == [i \in R |-> i - 1]
<1>1. /\ DOMAIN q = 1 .. Len(q) /\ Len(q) \in Nat \ {0} /\ Head(q) = q[1]
      /\ DOMAIN Tail(q) = 1 .. Len(q) - 1
      /\ \A i \in 1 .. Len(q) - 1 : Tail(q)[i] = q[i + 1]
  OBVIOUS
<1>2. f \in Bijection(R, T)
  <2>1. \A i \in R : i - 1 \in T /\ i \in Nat
    BY <1>1 DEF InQueue
  <2>2. \A j \in T : j + 1 \in R /\ f[j + 1] = j
    BY <1>1 DEF InQueue
  <2>3. f \in [R -> T] /\ \A i, j \in R : f[i] = f[j] => i = j
    BY <2>1
  <2>4. \A j \in T : \E i \in R : f[i] = j
    BY <2>2
  <2> HIDE DEF f, R, T
  <2> QED
    BY <2>3, <2>4 DEF Bijection, Injection, Surjection, IsInjective
<1>3. IsFiniteSet(InQueue(q, b)) /\ Cardinality(InQueue(q, b)) \in Nat
  BY QueueFinite
<1>4. IsFiniteSet(R) /\ Cardinality(R) = Cardinality(InQueue(q, b)) - One(1 \in InQueue(q, b))
  <2>1. 1 \in InQueue(q, b) => Cardinality(R) = Cardinality(InQueue(q, b)) - 1
    BY <1>3, FS_RemoveElement
  <2>2. 1 \notin InQueue(q, b) => Cardinality(R) = Cardinality(InQueue(q, b))
    BY <1>3, FS_RemoveElement
  <2>3. IsFiniteSet(R)
    BY <1>3, FS_RemoveElement
  <2> QED
    BY <1>3, <2>1, <2>2, <2>3 DEF One
<1>5. Cardinality(T) = Cardinality(R)
  <2> HIDE DEF R, T, f
  <2>1. ExistsBijection(R, T)
    BY <1>2 DEF ExistsBijection
  <2> QED
    BY <1>4, <2>1, FS_Bijection
<1>6. One(1 \in InQueue(q, b)) = One(Head(q) = b)
  BY <1>1 DEF InQueue, One
<1> QED
  BY <1>4, <1>5, <1>6

\* How often a block is in the channels.
Slots(ch, b) == {p \in Clients \X (1 .. ChanCap) :
                    p[2] \in DOMAIN ch[p[1]] /\ ch[p[1]][p[2]] = b}

Channels(ch) == DOMAIN ch = Clients /\ \A c \in Clients : Queue(Blocks, ch[c], ChanCap)

LEMMA SlotsFinite ==
    ASSUME NEW ch, NEW b
    PROVE  IsFiniteSet(Slots(ch, b)) /\ Cardinality(Slots(ch, b)) \in Nat
<1>1. IsFiniteSet(Clients \X (1 .. ChanCap))
  <2>1. ChanCap \in Int
    BY CapsAssumption
  <2> QED
    BY <2>1, FiniteAssumption, FS_Interval, FS_Product
<1>2. Slots(ch, b) \in SUBSET (Clients \X (1 .. ChanCap))
  BY DEF Slots
<1> QED
  BY <1>1, <1>2, FS_Subset, FS_CardinalityType

LEMMA CountSend ==
    ASSUME NEW ch, NEW new, Channels(ch), NEW c \in Clients, NEW x \in Blocks, NEW b,
           Len(ch[c]) < ChanCap, new[c] = Append(ch[c], x),
           \A d \in Clients \ {c} : new[d] = ch[d]
    PROVE  Cardinality(Slots(new, b)) = Cardinality(Slots(ch, b)) + One(x = b)
<1> DEFINE n == Len(ch[c]) + 1
           a == <<c, n>>
<1>1. /\ ch[c] \in Seq(Blocks) /\ Len(ch[c]) \in Nat /\ n \in 1 .. ChanCap
      /\ new[c] = Append(ch[c], x)
      /\ \A d \in Clients \ {c} : new[d] = ch[d]
  BY CapsAssumption DEF Channels, Queue
<1>2. /\ DOMAIN new[c] = 1 .. n /\ DOMAIN ch[c] = 1 .. Len(ch[c])
      /\ \A i \in 1 .. Len(ch[c]) : new[c][i] = ch[c][i]
      /\ new[c][n] = x
  BY <1>1
<1>3. ASSUME NEW p \in Clients \X (1 .. ChanCap), p # a
      PROVE  (p[2] \in DOMAIN new[p[1]] <=> p[2] \in DOMAIN ch[p[1]])
             /\ (p[2] \in DOMAIN ch[p[1]] => new[p[1]][p[2]] = ch[p[1]][p[2]])
  <2>1. CASE p[1] # c
    BY <1>1, <2>1
  <2>2. CASE p[1] = c
    <3>1. p[2] # n /\ p[2] \in Nat
      BY <1>3, <2>2
    <3> QED
      BY <1>1, <1>2, <2>2, <3>1
  <2> QED
    BY <2>1, <2>2
<1>4. a \in Clients \X (1 .. ChanCap) /\ a[1] = c /\ a[2] = n
  BY <1>1
<1>5. a \notin Slots(ch, b) /\ (a \in Slots(new, b) <=> x = b)
  <2>1. n \notin DOMAIN ch[c] /\ n \in DOMAIN new[c]
    BY <1>1, <1>2
  <2> HIDE DEF n, a
  <2> QED
    BY <1>2, <1>4, <2>1 DEF Slots
<1>6. Slots(ch, b) \ {a} = Slots(new, b) \ {a}
  <2> HIDE DEF n, a
  <2> QED
    BY <1>3 DEF Slots
<1> HIDE DEF n, a
<1>7. /\ Cardinality(Slots(ch, b)) \in Nat
      /\ Cardinality(Slots(new, b))
            = Cardinality(Slots(ch, b)) + One(a \in Slots(new, b)) - One(a \in Slots(ch, b))
  BY <1>6, SlotsFinite, CountOne
<1>8. One(a \in Slots(ch, b)) = 0 /\ One(a \in Slots(new, b)) = One(x = b) /\ One(x = b) \in Nat
  BY <1>5 DEF One
<1> QED
  BY <1>7, <1>8

LEMMA CountTake ==
    ASSUME NEW ch, NEW new, Channels(ch), NEW c \in Clients, NEW b, ch[c] # <<>>,
           new[c] = Tail(ch[c]), \A d \in Clients \ {c} : new[d] = ch[d]
    PROVE  Cardinality(Slots(new, b)) = Cardinality(Slots(ch, b)) - One(Head(ch[c]) = b)
<1> DEFINE a == <<c, 1>>
           R == Slots(ch, b) \ {a}
           T == Slots(new, b)
           f == [p \in R |-> IF p[1] = c THEN <<c, p[2] - 1>> ELSE p]
<1>1. /\ ch[c] \in Seq(Blocks) /\ Len(ch[c]) \in Nat \ {0} /\ Len(ch[c]) <= ChanCap
      /\ new[c] = Tail(ch[c]) /\ Head(ch[c]) = ch[c][1]
      /\ \A d \in Clients \ {c} : new[d] = ch[d]
      /\ ChanCap \in Nat
  BY CapsAssumption DEF Channels, Queue
<1>2. /\ DOMAIN ch[c] = 1 .. Len(ch[c]) /\ DOMAIN new[c] = 1 .. Len(ch[c]) - 1
      /\ \A i \in 1 .. Len(ch[c]) - 1 : new[c][i] = ch[c][i + 1]
  <2> DEFINE q == ch[c]
  <2>1. q \in Seq(Blocks) /\ Len(q) \in Nat \ {0}
    BY <1>1
  <2> HIDE DEF q
  <2>2. /\ DOMAIN q = 1 .. Len(q) /\ DOMAIN Tail(q) = 1 .. Len(q) - 1
        /\ \A i \in 1 .. Len(q) - 1 : Tail(q)[i] = q[i + 1]
    BY <2>1
  <2> QED
    BY <1>1, <2>2 DEF q
<1>3. ASSUME NEW p \in R
      PROVE  f[p] \in T /\ (p[1] = c => f[p] = <<c, p[2] - 1>>) /\ (p[1] # c => f[p] = p)
             /\ p = <<p[1], p[2]>> /\ p[2] \in Nat
  <2>1. p \in Clients \X (1 .. ChanCap) /\ p[2] \in DOMAIN ch[p[1]] /\ ch[p[1]][p[2]] = b
        /\ p # a /\ p = <<p[1], p[2]>> /\ p[2] \in Nat
    BY <1>1 DEF Slots
  <2>2. CASE p[1] # c
    BY <1>1, <2>1, <2>2 DEF Slots
  <2>3. CASE p[1] = c
    <3>1. p[2] - 1 \in 1 .. Len(ch[c]) - 1
      BY <1>1, <1>2, <2>1, <2>3
    <3>2. new[c][p[2] - 1] = b /\ p[2] - 1 \in 1 .. ChanCap
      BY <1>1, <1>2, <2>1, <2>3, <3>1
    <3>3. <<c, p[2] - 1>> \in T
      BY <1>2, <3>1, <3>2 DEF Slots
    <3> QED
      BY <2>1, <2>3, <3>3
  <2> QED
    BY <2>2, <2>3
<1>4. ASSUME NEW q \in T
      PROVE  \E p \in R : f[p] = q
  <2>1. q \in Clients \X (1 .. ChanCap) /\ q[2] \in DOMAIN new[q[1]] /\ new[q[1]][q[2]] = b
        /\ q = <<q[1], q[2]>> /\ q[2] \in Nat
    BY <1>1 DEF Slots
  <2>2. CASE q[1] # c
    <3>1. q \in R
      BY <1>1, <2>1, <2>2 DEF Slots
    <3> QED
      BY <2>2, <3>1
  <2>3. CASE q[1] = c
    <3>0. q[2] \in 1 .. Len(ch[c]) - 1 /\ new[c][q[2]] = b
      BY <1>2, <2>1, <2>3
    <3>1. q[2] + 1 \in DOMAIN ch[c] /\ ch[c][q[2] + 1] = b /\ q[2] + 1 \in 1 .. ChanCap
      <4> HIDE DEF R, T, f
      <4> QED
        BY <1>1, <1>2, <3>0
    <3>2. <<c, q[2] + 1>> \in R
      BY <2>1, <3>1 DEF Slots
    <3>3. f[<<c, q[2] + 1>>] = <<c, q[2]>>
      BY <2>1, <3>2
    <3> QED
      BY <2>1, <2>3, <3>2, <3>3
  <2> QED
    BY <2>2, <2>3
<1>5. f \in Bijection(R, T)
  <2>1. \A p, q \in R : f[p] = f[q] => p = q
    <3> SUFFICES ASSUME NEW p \in R, NEW q \in R, f[p] = f[q] PROVE p = q
      OBVIOUS
    <3>1. /\ p[1] = c => f[p] = <<c, p[2] - 1>>
          /\ p[1] # c => f[p] = p
          /\ p = <<p[1], p[2]>> /\ p[2] \in Nat
      BY <1>3
    <3>2. /\ q[1] = c => f[q] = <<c, q[2] - 1>>
          /\ q[1] # c => f[q] = q
          /\ q = <<q[1], q[2]>> /\ q[2] \in Nat
      BY <1>3
    <3> HIDE DEF f, R
    <3> QED
      BY <3>1, <3>2
  <2>2. f \in [R -> T]
    BY <1>3
  <2> HIDE DEF f, R, T
  <2> QED
    BY <1>4, <2>1, <2>2 DEF Bijection, Injection, Surjection, IsInjective
<1>6. Cardinality(Slots(ch, b)) \in Nat /\ IsFiniteSet(Slots(ch, b))
  BY SlotsFinite
<1>7. IsFiniteSet(R) /\ Cardinality(R) = Cardinality(Slots(ch, b)) - One(a \in Slots(ch, b))
  <2>1. a \in Slots(ch, b) => Cardinality(R) = Cardinality(Slots(ch, b)) - 1
    BY <1>6, FS_RemoveElement
  <2>2. a \notin Slots(ch, b) => Cardinality(R) = Cardinality(Slots(ch, b))
    BY <1>6, FS_RemoveElement
  <2>3. IsFiniteSet(R)
    BY <1>6, FS_RemoveElement
  <2> HIDE DEF R, a
  <2> QED
    BY <1>6, <2>1, <2>2, <2>3 DEF One
<1>8. Cardinality(T) = Cardinality(R)
  <2> HIDE DEF R, T, f
  <2>1. ExistsBijection(R, T)
    BY <1>5 DEF ExistsBijection
  <2> QED
    BY <1>7, <2>1, FS_Bijection
<1>9. One(a \in Slots(ch, b)) = One(Head(ch[c]) = b)
  <2>1. a \in Clients \X (1 .. ChanCap) /\ 1 \in DOMAIN ch[c] /\ a[1] = c /\ a[2] = 1
    BY <1>1, <1>2
  <2> HIDE DEF a
  <2> QED
    BY <1>1, <2>1 DEF Slots, One
<1> QED
  BY <1>7, <1>8, <1>9

-----------------------------------------------------------------------------
(* Types                                                                   *)

LEMMA QueueAppend ==
    ASSUME NEW S, NEW q, NEW cap \in Nat, Queue(S, q, cap), NEW x \in S, Len(q) < cap
    PROVE  Queue(S, Append(q, x), cap)
BY DEF Queue

LEMMA QueueTail ==
    ASSUME NEW S, NEW q, NEW cap \in Nat, Queue(S, q, cap), q # <<>>
    PROVE  Queue(S, Tail(q), cap) /\ Head(q) \in S
<1>1. Tail(q) \in Seq(S) /\ Len(Tail(q)) = Len(q) - 1 /\ Head(q) \in S /\ Len(q) \in Nat
  BY DEF Queue
<1> QED
  BY <1>1 DEF Queue

LEMMA FlagSet ==
    ASSUME NEW S, NEW f \in [S -> BOOLEAN], NEW a, NEW v \in BOOLEAN
    PROVE  [f EXCEPT ![a] = v] \in [S -> BOOLEAN]
<1> DEFINE B == BOOLEAN
<1>1. f \in [S -> B] /\ v \in B
  OBVIOUS
<1> HIDE DEF B
<1>2. [f EXCEPT ![a] = v] \in [S -> B]
  BY <1>1
<1> QED
  BY <1>2 DEF B

\* What a release does to the pool.
LEMMA ReleaseTyped ==
    ASSUME free \subseteq Blocks, ref \in [Blocks -> Int], NEW b \in Blocks, Release(b)
    PROVE  free' \subseteq Blocks /\ ref' \in [Blocks -> Int]
BY DEF Release

LEMMA TypedStreams == ASSUME Typed, NEW s \in Streamers, Fill(s) \/ Offer(s) PROVE Typed'
<1> USE CapsAssumption DEF Typed, poolVars, hubVars, clientVars
<1>1. CASE Fill(s)
  BY <1>1 DEF Fill
<1>2. CASE Offer(s)
  <2>1. mine[s] \in Blocks
    BY <1>2 DEF Offer
  <2>2. Queue(Blocks, central', HubCap)
    <3>1. Queue(Blocks, central, HubCap) /\ HubCap \in Nat
      OBVIOUS
    <3>2. Len(central) < HubCap => Queue(Blocks, Append(central, mine[s]), HubCap)
      BY <2>1, <3>1, QueueAppend
    <3>3. CASE Len(central) < HubCap
      BY <1>2, <3>2, <3>3 DEF Offer
    <3>4. CASE ~(Len(central) < HubCap)
      BY <1>2, <3>1, <3>4 DEF Offer
    <3> QED
      BY <3>3, <3>4
  <2> QED
    BY <1>2, <2>1, <2>2 DEF Offer
<1> QED
  BY <1>1, <1>2

LEMMA TypedHub == ASSUME Typed, Hub \/ HubDone PROVE Typed'
<1> USE CapsAssumption DEF Typed, poolVars, hubVars, clientVars
<1>1. CASE HubSub
  BY <1>1, QueueTail DEF HubSub
<1>2. CASE HubUnsub
  <2>1. Queue(Clients, unsubQ', SubCap) /\ Head(unsubQ) \in Clients
    BY <1>2, QueueTail DEF HubUnsub
  <2>2. closed' \in [Clients -> BOOLEAN]
    BY <1>2, FlagSet DEF HubUnsub
  <2> QED
    BY <1>2, <2>1, <2>2 DEF HubUnsub
<1>3. CASE HubTake
  BY <1>3, QueueTail DEF HubTake
<1>4. CASE HubRef
  BY <1>4 DEF HubRef
<1>5. CASE HubSend
  <2>1. offering \in Clients /\ hubBlock \in Blocks
    BY <1>5 DEF HubSend
  <2>2. chan' = [d \in Clients |-> chan'[d]] /\ \A c \in Clients : Queue(Blocks, chan'[c], ChanCap)
    <3>1. /\ chan = [c \in Clients |-> chan[c]] /\ \A c \in Clients : Queue(Blocks, chan[c], ChanCap)
          /\ ChanCap \in Nat
      OBVIOUS
    <3>2. Len(chan[offering]) < ChanCap => Queue(Blocks, Append(chan[offering], hubBlock), ChanCap)
      BY <2>1, <3>1, QueueAppend
    <3>3. CASE ~closed[offering] /\ Len(chan[offering]) < ChanCap
      <4> DEFINE q == Append(chan[offering], hubBlock)
      <4>1. chan' = [chan EXCEPT ![offering] = q]
        BY <1>5, <3>3 DEF HubSend
      <4>2. Queue(Blocks, q, ChanCap)
        BY <3>2, <3>3
      <4> HIDE DEF q, Typed
      <4> QED
        BY <2>1, <3>1, <4>1, <4>2
    <3>4. CASE closed[offering] \/ ~(Len(chan[offering]) < ChanCap)
      <4>1. chan' = chan
        BY <1>5, <3>4 DEF HubSend
      <4> QED
        BY <3>1, <4>1
    <3> QED
      BY <3>3, <3>4
  <2>3. ref' \in [Blocks -> Int]
    BY <1>5, <2>1 DEF HubSend
  <2>4. hub' \in {"fan", "panic"} /\ offering' = NoClient
    BY <1>5 DEF HubSend
  <2>5. UNCHANGED <<free, mine, connCount, central, subQ, unsubQ, subs, hubBlock, todo,
                    closed, cpc, cur>>
    BY <1>5 DEF HubSend
  <2>6. overtaken' = overtaken
    BY <1>5 DEF HubSend
  <2> QED
    BY <2>1, <2>2, <2>3, <2>4, <2>5, <2>6
<1>6. CASE HubRelease
  <2>1. free' \subseteq Blocks /\ ref' \in [Blocks -> Int]
    BY <1>6, ReleaseTyped DEF HubRelease
  <2> QED
    BY <1>6, <2>1 DEF HubRelease
<1>7. CASE HubDone
  BY <1>7 DEF HubDone
<1> QED
  BY <1>1, <1>2, <1>3, <1>4, <1>5, <1>6, <1>7 DEF Hub

LEMMA TypedHandler ==
    ASSUME Typed, NEW c \in Clients, Connect(c) \/ HangUp(c) \/ Handler(c)
    PROVE  Typed'
<1> USE CapsAssumption DEF Typed, poolVars, hubVars, Goes
<1>1. CASE Connect(c)
  <2>1. closed' \in [Clients -> BOOLEAN]
    BY <1>1, FlagSet DEF Connect
  <2>2. chan' = [d \in Clients |-> chan'[d]] /\ \A d \in Clients : Queue(Blocks, chan'[d], ChanCap)
    <3>1. Queue(Blocks, <<>>, ChanCap)
      BY DEF Queue
    <3> QED
      BY <1>1, <3>1 DEF Connect
  <2> QED
    BY <1>1, <2>1, <2>2 DEF Connect
<1>2. CASE Subscribe(c)
  BY <1>2, QueueAppend DEF Subscribe
<1>3. CASE Receive(c)
  <2>1. Queue(Blocks, Tail(chan[c]), ChanCap) /\ Head(chan[c]) \in Blocks
    BY <1>3, QueueTail DEF Receive
  <2> QED
    BY <1>3, <2>1, NamesAssumption DEF Receive
<1>4. CASE Written(c)
  <2>1. cur[c] \in Blocks
    BY <1>4 DEF Written
  <2>2. free' \subseteq Blocks /\ ref' \in [Blocks -> Int]
    BY <1>4, <2>1, ReleaseTyped DEF Written
  <2> QED
    BY <1>4, <2>2 DEF Written
<1>5. CASE CountDown(c)
  BY <1>5 DEF CountDown
<1>6. CASE Unsubscribe(c)
  BY <1>6, QueueAppend DEF Unsubscribe
<1>7. CASE DrainOne(c)
  <2>1. Queue(Blocks, Tail(chan[c]), ChanCap) /\ Head(chan[c]) \in Blocks
    BY <1>7, QueueTail DEF DrainOne
  <2>2. free' \subseteq Blocks /\ ref' \in [Blocks -> Int]
    BY <1>7, <2>1, ReleaseTyped DEF DrainOne
  <2> QED
    BY <1>7, <2>1, <2>2 DEF DrainOne
<1>8. CASE Drained(c) \/ HangUp(c)
  BY <1>8 DEF Drained, HangUp
<1> QED
  BY <1>1, <1>2, <1>3, <1>4, <1>5, <1>6, <1>7, <1>8 DEF Handler

LEMMA TypedStep == Typed /\ [Next]_vars => Typed'
<1>1. Typed /\ UNCHANGED vars => Typed'
  BY DEF Typed, Queue, vars, poolVars, hubVars, clientVars
<1> QED
  BY <1>1, TypedStreams, TypedHub, TypedHandler DEF Next

LEMMA BoundedQueue ==
    ASSUME NEW S, NEW q, NEW cap \in Nat, Queue(S, q, cap)
    PROVE  q \in BoundedSeq(S, cap)
<1> DEFINE n == Len(q)
<1>1. n \in 0 .. cap /\ q \in [1 .. n -> S]
  BY DEF Queue
<1> HIDE DEF n
<1> QED
  BY <1>1, Zenon DEF BoundedSeq, SeqOf

LEMMA CountedTyped == Typed /\ Counted => TypeOK
<1> SUFFICES ASSUME Typed, Counted PROVE TypeOK
  OBVIOUS
<1>1. connCount \in 0 .. Cardinality(Clients)
  <2>1. Connected \in SUBSET Clients
    BY DEF Connected
  <2>2. Cardinality(Connected) <= Cardinality(Clients) /\ Cardinality(Connected) \in Nat
        /\ Cardinality(Clients) \in Nat
    BY <2>1, FiniteAssumption, FS_Subset, FS_CardinalityType
  <2> QED
    BY <2>2 DEF Counted
<1>2. /\ central \in BoundedSeq(Blocks, HubCap)
      /\ subQ \in BoundedSeq(Clients, SubCap)
      /\ unsubQ \in BoundedSeq(Clients, SubCap)
  BY CapsAssumption, BoundedQueue DEF Typed
<1>3. chan \in [Clients -> BoundedSeq(Blocks, ChanCap)]
  <2>1. \A c \in Clients : chan[c] \in BoundedSeq(Blocks, ChanCap)
    BY CapsAssumption, BoundedQueue DEF Typed
  <2>2. chan = [c \in Clients |-> chan[c]]
    BY DEF Typed
  <2> QED
    BY <2>1, <2>2
<1> QED
  BY <1>1, <1>2, <1>3 DEF Typed, TypeOK

LEMMA CountedStep == Typed /\ Counted /\ [Next]_vars => Counted'
<1> SUFFICES ASSUME Typed, Counted, [Next]_vars PROVE Counted'
  OBVIOUS
<1> DEFINE Inside(c) == cpc[c] \in {"sub", "serve", "write", "leave"}
<1>1. IsFiniteSet(Connected) /\ Cardinality(Connected) \in Nat
  <2>1. Connected \in SUBSET Clients
    BY DEF Connected
  <2> QED
    BY <2>1, FiniteAssumption, FS_Subset, FS_CardinalityType
<1>2. ASSUME NEW c \in Clients, cpc' = [cpc EXCEPT ![c] = cpc'[c]]
      PROVE  Cardinality(Connected')
                = Cardinality(Connected) + One(c \in Connected') - One(c \in Connected)
  <2>1. Connected \ {c} = Connected' \ {c}
    BY <1>2 DEF Typed, Connected
  <2> HIDE DEF Connected
  <2> QED
    BY <1>1, <2>1, CountOne
<1>3. ASSUME NEW c \in Clients, Connect(c) PROVE Counted'
  <2>1. cpc' = [cpc EXCEPT ![c] = cpc'[c]] /\ c \in Connected' /\ c \notin Connected
        /\ connCount' = connCount + 1
    BY <1>3 DEF Connect, Goes, Connected, Typed
  <2>2. One(c \in Connected') = 1 /\ One(c \in Connected) = 0
    BY <2>1 DEF One
  <2> QED
    BY <1>1, <1>2, <2>1, <2>2 DEF Counted
<1>4. ASSUME NEW c \in Clients, CountDown(c) PROVE Counted'
  <2>1. cpc' = [cpc EXCEPT ![c] = cpc'[c]] /\ c \notin Connected' /\ c \in Connected
        /\ connCount' = connCount - 1
    BY <1>4 DEF CountDown, Goes, Connected, Typed
  <2>2. One(c \in Connected') = 0 /\ One(c \in Connected) = 1
    BY <2>1 DEF One
  <2> QED
    BY <1>1, <1>2, <2>1, <2>2 DEF Counted
<1>5. CASE connCount' = connCount /\ Connected' = Connected
  BY <1>5 DEF Counted
<1>6. ASSUME NEW c \in Clients,
             \/ HangUp(c) \/ Subscribe(c) \/ Receive(c) \/ Written(c)
             \/ Unsubscribe(c) \/ DrainOne(c) \/ Drained(c)
      PROVE  connCount' = connCount /\ Connected' = Connected
  BY <1>6 DEF HangUp, Subscribe, Receive, Written, Unsubscribe, DrainOne, Drained, Goes,
       Connected, Typed
<1>7. ASSUME (\E s \in Streamers : Fill(s) \/ Offer(s)) \/ Hub \/ HubDone \/ UNCHANGED vars
      PROVE  connCount' = connCount /\ Connected' = Connected
  BY <1>7 DEF Fill, Offer, Hub, HubSub, HubUnsub, HubTake, HubRef, HubSend, HubRelease, HubDone,
       vars, clientVars, Connected
<1> QED
  BY <1>3, <1>4, <1>5, <1>6, <1>7 DEF Next, Handler

-----------------------------------------------------------------------------
(* Departures                                                              *)

LEMMA TailIndex ==
    ASSUME NEW S, NEW q \in Seq(S), q # <<>>
    PROVE  /\ 1 \in DOMAIN q /\ Head(q) = q[1] /\ Head(q) \in S
           /\ \A i \in DOMAIN Tail(q) : i \in Nat /\ i + 1 \in DOMAIN q /\ Tail(q)[i] = q[i + 1]
OBVIOUS

LEMMA AppendIndex ==
    ASSUME NEW S, NEW q \in Seq(S), NEW x \in S
    PROVE  \A i \in DOMAIN Append(q, x) :
               \/ i \in DOMAIN q /\ Append(q, x)[i] = q[i]
               \/ i = Len(q) + 1 /\ i \notin DOMAIN q /\ Append(q, x)[i] = x
OBVIOUS

\* Steps that leave the control state of the connections alone.
LEMMA DeparturesKept ==
    ASSUME Typed, Departures,
           UNCHANGED <<subQ, unsubQ, subs, todo, offering, chan, closed, overtaken, cpc>>
    PROVE  Departures'
BY DEF Departures, Leaving, ClosedLate, Reusable, Overtaking, Known

\* Steps of the hub but for a departure: it knows no more channels than before,
\* and sends on none that is reusable.
LEMMA DeparturesHub ==
    ASSUME Typed, Departures, UNCHANGED <<unsubQ, closed, overtaken, cpc>>,
           \A c \in Clients : Known(c)' => Known(c),
           \A c \in Clients : cpc[c] = "off" => chan'[c] = chan[c]
    PROVE  Departures'
<1>1. Leaving' /\ ClosedLate'
  BY DEF Departures, Leaving, ClosedLate
<1>2. Reusable' /\ Overtaking'
  BY DEF Departures, Reusable, Overtaking
<1> QED
  BY <1>1, <1>2 DEF Departures

LEMMA DeparturesHubSteps ==
    ASSUME Typed, Departures, HubSub \/ HubTake \/ HubRef \/ HubSend
    PROVE  Departures'
<1>1. CASE HubSub
  <2>1. subQ \in Seq(Clients) /\ subQ # <<>> /\ subs' = subs \cup {Head(subQ)}
        /\ subQ' = Tail(subQ) /\ UNCHANGED <<todo, offering, chan, unsubQ, closed, overtaken, cpc>>
    BY <1>1 DEF HubSub, Typed, Queue, hubVars, clientVars
  <2>2. \A c \in Clients : Known(c)' => Known(c)
    BY <2>1, TailIndex DEF Known
  <2> QED
    BY <2>1, <2>2, DeparturesHub
<1>2. CASE HubTake \/ HubRef
  <2>1. UNCHANGED <<subQ, subs, chan, unsubQ, closed, overtaken, cpc>>
    BY <1>2 DEF HubTake, HubRef, hubVars, clientVars
  <2>2. \A c \in Clients : Known(c)' => Known(c)
    BY <1>2, <2>1 DEF Known, HubTake, HubRef
  <2> QED
    BY <2>1, <2>2, DeparturesHub
<1>3. CASE HubSend
  <2>1. UNCHANGED <<subQ, subs, todo, unsubQ, closed, overtaken, cpc>> /\ offering' = NoClient
        /\ offering \in Clients
    BY <1>3 DEF HubSend, hubVars, clientVars, Typed
  <2>2. \A c \in Clients : Known(c)' => Known(c)
    BY <2>1, NamesAssumption DEF Known
  <2>3. cpc[offering] = "off" => chan' = chan
    <3>1. Known(offering)
      BY DEF Known
    <3>2. cpc[offering] = "off" => closed[offering]
      BY <2>1, <3>1 DEF Departures, Reusable
    <3> QED
      BY <1>3, <3>2 DEF HubSend
  <2>4. \A c \in Clients : cpc[c] = "off" => chan'[c] = chan[c]
    BY <1>3, <2>3 DEF HubSend, Typed
  <2> QED
    BY <2>1, <2>2, <2>4, DeparturesHub
<1> QED
  BY <1>1, <1>2, <1>3

LEMMA DeparturesUnsub == ASSUME Typed, Departures, HubUnsub PROVE Departures'
<1> DEFINE d == Head(unsubQ)
<1>1. /\ unsubQ \in Seq(Clients) /\ unsubQ # <<>> /\ d \in Clients /\ d = unsubQ[1]
      /\ 1 \in DOMAIN unsubQ /\ todo = {} /\ offering = NoClient
      /\ \A i \in DOMAIN Tail(unsubQ) : i \in Nat /\ i + 1 \in DOMAIN unsubQ
                                        /\ Tail(unsubQ)[i] = unsubQ[i + 1]
  BY TailIndex DEF HubUnsub, Typed, Queue
<1>2. /\ unsubQ' = Tail(unsubQ) /\ subs' = subs \ {d}
      /\ UNCHANGED <<subQ, todo, offering, chan, cpc>>
      /\ closed' = [closed EXCEPT ![d] = TRUE]
      /\ overtaken' = IF d \in Range(subQ) THEN overtaken \cup {d} ELSE overtaken
  BY DEF HubUnsub, hubVars, clientVars
<1> HIDE DEF d
<1>3. \A c \in Clients \ {d} : closed'[c] = closed[c]
  BY <1>2 DEF Typed
<1>4. closed'[d]
  BY <1>1, <1>2 DEF Typed
<1>5. Leaving'
  <2>1. \A i \in DOMAIN Tail(unsubQ) : Tail(unsubQ)[i] # d
    BY <1>1 DEF Departures, Leaving
  <2>2. ASSUME NEW i \in DOMAIN unsubQ'
        PROVE  cpc'[unsubQ'[i]] = "drain" /\ ~closed'[unsubQ'[i]]
    <3>1. unsubQ'[i] = unsubQ[i + 1] /\ i + 1 \in DOMAIN unsubQ /\ unsubQ'[i] # d
      BY <1>1, <1>2, <2>1, <2>2
    <3>2. unsubQ[i + 1] \in Clients
      BY <1>1, <3>1
    <3> QED
      BY <1>2, <1>3, <3>1, <3>2 DEF Departures, Leaving
  <2>3. ASSUME NEW i \in DOMAIN unsubQ', NEW j \in DOMAIN unsubQ', unsubQ'[i] = unsubQ'[j]
        PROVE  i = j
    <3>1. /\ i \in Nat /\ i + 1 \in DOMAIN unsubQ /\ unsubQ'[i] = unsubQ[i + 1]
          /\ j \in Nat /\ j + 1 \in DOMAIN unsubQ /\ unsubQ'[j] = unsubQ[j + 1]
      BY <1>1, <1>2, <2>3
    <3>2. i + 1 = j + 1
      BY <2>3, <3>1 DEF Departures, Leaving
    <3> QED
      BY <3>1, <3>2
  <2> QED
    BY <2>2, <2>3 DEF Leaving
<1>6. cpc[d] = "drain"
  BY <1>1 DEF Departures, Leaving
<1>7. \A c \in Clients : Known(c)' => Known(c)
  BY <1>2 DEF Known
<1>8. ClosedLate'
  BY <1>2, <1>3, <1>6 DEF Departures, ClosedLate
<1>9. Reusable'
  BY <1>2, <1>3, <1>4, <1>7 DEF Departures, Reusable
<1>10. Overtaking'
  <2> SUFFICES ASSUME NEW c \in Clients, closed'[c], Known(c)'
               PROVE  overtaken' # {}
    BY DEF Overtaking
  <2>1. CASE c # d
    BY <1>2, <1>3, <1>7, <2>1 DEF Departures, Overtaking
  <2>2. CASE c = d
    <3>1. \E i \in DOMAIN subQ : subQ[i] = d
      BY <1>1, <1>2, <2>2, NamesAssumption DEF Known
    <3>2. d \in Range(subQ)
      BY <3>1 DEF Range
    <3> QED
      BY <1>2, <3>2
  <2> QED
    BY <2>1, <2>2
<1> QED
  BY <1>5, <1>8, <1>9, <1>10 DEF Departures

LEMMA DeparturesHandler ==
    ASSUME Typed, Departures, NEW c \in Clients, Connect(c) \/ HangUp(c) \/ Handler(c)
    PROVE  Departures'
<1> USE DEF Typed, hubVars, Goes
<1>1. CASE Connect(c)
  <2>1. Leaving'
    BY <1>1 DEF Connect, Departures, Leaving, Queue
  <2>2. ClosedLate'
    BY <1>1 DEF Connect, Departures, ClosedLate
  <2>3. Reusable' /\ Overtaking'
    BY <1>1 DEF Connect, Departures, Reusable, Overtaking, Known
  <2> QED
    BY <2>1, <2>2, <2>3 DEF Departures
<1>2. CASE Subscribe(c)
  <2>1. \A d \in Clients \ {c} : Known(d)' => Known(d)
    BY <1>2, AppendIndex DEF Subscribe, Known, Queue
  <2>2. ~closed[c]
    BY <1>2 DEF Subscribe, Departures, ClosedLate
  <2>3. Leaving' /\ ClosedLate'
    BY <1>2 DEF Subscribe, Departures, Leaving, ClosedLate, Queue
  <2>4. Reusable' /\ Overtaking'
    BY <1>2, <2>1, <2>2 DEF Subscribe, Departures, Reusable, Overtaking
  <2> QED
    BY <2>3, <2>4 DEF Departures
<1>3. CASE Receive(c) \/ Written(c) \/ HangUp(c) \/ CountDown(c)
  <2>1. \A d \in Clients : Known(d)' => Known(d)
    BY <1>3 DEF Receive, Written, HangUp, CountDown, Known
  <2>2. /\ cpc[c] \in {"serve", "write", "leave"} /\ UNCHANGED <<unsubQ, closed>>
        /\ \A d \in Clients \ {c} : cpc'[d] = cpc[d]
    BY <1>3 DEF Receive, Written, HangUp, CountDown
  <2>3. \A i \in DOMAIN unsubQ : unsubQ[i] \in Clients
    BY DEF Queue
  <2>4. Leaving'
    <3> HIDE DEF Typed
    <3> QED
      BY <2>2, <2>3 DEF Departures, Leaving
  <2>5. ClosedLate'
    <3>1. ~closed[c]
      BY <2>2 DEF Departures, ClosedLate
    <3> QED
      BY <2>2, <3>1 DEF Departures, ClosedLate
  <2>6. Leaving' /\ ClosedLate'
    BY <2>4, <2>5
  <2>7. Reusable' /\ Overtaking'
    BY <1>3, <2>1 DEF Receive, Written, HangUp, CountDown, Departures, Reusable, Overtaking
  <2> QED
    BY <2>6, <2>7 DEF Departures
<1>4. CASE Unsubscribe(c)
  <2>1. unsubQ \in Seq(Clients) /\ unsubQ' = Append(unsubQ, c)
        /\ UNCHANGED <<subQ, subs, todo, offering, chan, closed, overtaken>>
    BY <1>4 DEF Unsubscribe, Queue
  <2>2. \A i \in DOMAIN unsubQ' :
            \/ i \in DOMAIN unsubQ /\ unsubQ'[i] = unsubQ[i]
            \/ i = Len(unsubQ) + 1 /\ i \notin DOMAIN unsubQ /\ unsubQ'[i] = c
    BY <2>1, AppendIndex
  <2>3. cpc[c] = "unsub" /\ ~closed[c]
    BY <1>4 DEF Unsubscribe, Departures, ClosedLate
  <2>4. \A i \in DOMAIN unsubQ : unsubQ[i] # c /\ unsubQ[i] \in Clients
    BY <2>1, <2>3 DEF Departures, Leaving
  <2>5. cpc'[c] = "drain" /\ \A d \in Clients \ {c} : cpc'[d] = cpc[d]
    BY <1>4 DEF Unsubscribe
  <2>6. Leaving'
    <3> HIDE DEF Typed
    <3> QED
      BY <2>1, <2>2, <2>3, <2>4, <2>5 DEF Departures, Leaving
  <2>7. ClosedLate' /\ Reusable' /\ Overtaking'
    BY <2>1, <2>5 DEF Departures, ClosedLate, Reusable, Overtaking, Known
  <2> QED
    BY <2>6, <2>7 DEF Departures
<1>5. CASE DrainOne(c)
  <2>1. \A d \in Clients : Known(d)' => Known(d)
    BY <1>5 DEF DrainOne, Known
  <2>2. Leaving' /\ ClosedLate'
    BY <1>5 DEF DrainOne, Departures, Leaving, ClosedLate, Queue
  <2>3. Reusable' /\ Overtaking'
    BY <1>5, <2>1 DEF DrainOne, Departures, Reusable, Overtaking
  <2> QED
    BY <2>2, <2>3 DEF Departures
<1>6. CASE Drained(c)
  <2>1. \A d \in Clients : Known(d)' => Known(d)
    BY <1>6 DEF Drained, Known
  <2>2. Leaving' /\ ClosedLate'
    BY <1>6 DEF Drained, Departures, Leaving, ClosedLate, Queue
  <2>3. Reusable' /\ Overtaking'
    BY <1>6, <2>1 DEF Drained, Departures, Reusable, Overtaking
  <2> QED
    BY <2>2, <2>3 DEF Departures
<1> QED
  BY <1>1, <1>2, <1>3, <1>4, <1>5, <1>6 DEF Handler

LEMMA DeparturesStep ==
    ASSUME Typed, Departures, [Next]_vars
    PROVE  Departures'
<1>1. ASSUME \/ \E s \in Streamers : Fill(s) \/ Offer(s)
             \/ HubRelease \/ HubDone \/ UNCHANGED vars
      PROVE  UNCHANGED <<subQ, unsubQ, subs, todo, offering, chan, closed, overtaken, cpc>>
  BY <1>1 DEF Fill, Offer, HubRelease, HubDone, vars, hubVars, clientVars
<1> QED
  BY <1>1, DeparturesKept, DeparturesHubSteps, DeparturesUnsub, DeparturesHandler DEF Next, Hub

LEMMA SurvivalStep ==
    ASSUME Typed, Departures, Survival, [Next]_vars
    PROVE  Survival'
<1>1. CASE HubSend
  <2>1. offering \in Clients /\ Known(offering)
    BY <1>1 DEF HubSend, Typed, Known
  <2>2. closed[offering] => overtaken # {}
    BY <2>1 DEF Departures, Overtaking
  <2> QED
    BY <1>1, <2>2 DEF HubSend, Survival
<1>2. ASSUME \/ \E s \in Streamers : Fill(s) \/ Offer(s)
             \/ HubSub \/ HubUnsub \/ HubTake \/ HubRef \/ HubRelease \/ HubDone
             \/ \E c \in Clients : Connect(c) \/ HangUp(c) \/ Handler(c)
             \/ UNCHANGED vars
      PROVE  Survival'
  BY <1>2 DEF Survival, Fill, Offer, HubSub, HubUnsub, HubTake, HubRef, HubRelease, HubDone,
       Connect, HangUp, Handler, Subscribe, Receive, Written, CountDown, Unsubscribe, DrainOne,
       Drained, vars, hubVars
<1> QED
  BY <1>1, <1>2 DEF Next, Hub

-----------------------------------------------------------------------------
(* The references                                                          *)

InMine(b) == {s \in Streamers : mine[s] = b}
InHands(b) == {c \in Clients : cur[c] = b}

LEMMA HoldersParts ==
    ASSUME Typed, NEW b
    PROVE  /\ InCentral(b) = InQueue(central, b) /\ InChannels(b) = Slots(chan, b)
           /\ IsFiniteSet(InMine(b)) /\ Cardinality(InMine(b)) \in Nat
           /\ IsFiniteSet(InHands(b)) /\ Cardinality(InHands(b)) \in Nat
           /\ IsFiniteSet(InCentral(b)) /\ Cardinality(InCentral(b)) \in Nat
           /\ IsFiniteSet(InChannels(b)) /\ Cardinality(InChannels(b)) \in Nat
           /\ InHub(b) \in Nat
           /\ Holders(b) = Cardinality(InMine(b)) + Cardinality(InCentral(b)) + InHub(b)
                           + Cardinality(InChannels(b)) + Cardinality(InHands(b))
           /\ Holders(b) \in Nat
<1>1. InMine(b) \in SUBSET Streamers /\ InHands(b) \in SUBSET Clients
  BY DEF InMine, InHands
<1>2. IsFiniteSet(InMine(b)) /\ Cardinality(InMine(b)) \in Nat
  BY <1>1, FiniteAssumption, FS_Subset, FS_CardinalityType
<1>3. IsFiniteSet(InHands(b)) /\ Cardinality(InHands(b)) \in Nat
  BY <1>1, FiniteAssumption, FS_Subset, FS_CardinalityType
<1>4. InCentral(b) = InQueue(central, b) /\ InChannels(b) = Slots(chan, b)
  BY DEF InCentral, InQueue, InChannels, Slots
<1>5. IsFiniteSet(InCentral(b)) /\ Cardinality(InCentral(b)) \in Nat
  BY <1>4, QueueFinite DEF Typed, Queue
<1>6. IsFiniteSet(InChannels(b)) /\ Cardinality(InChannels(b)) \in Nat
  BY <1>4, SlotsFinite
<1>7. InHub(b) \in Nat
  BY DEF InHub
<1>8. Holders(b) = Cardinality(InMine(b)) + Cardinality(InCentral(b)) + InHub(b)
                   + Cardinality(InChannels(b)) + Cardinality(InHands(b))
  BY DEF Holders, InMine, InHands
<1> QED
  BY <1>2, <1>3, <1>4, <1>5, <1>6, <1>7, <1>8

\* A block has no holder exactly when it is in none of the places.
LEMMA Unheld ==
    ASSUME Typed, NEW b \in Blocks
    PROVE  Holders(b) = 0 <=> ~Elsewhere(b) /\ \A s \in Streamers : mine[s] # b
<1>1. Holders(b) = 0 <=> /\ Cardinality(InMine(b)) = 0 /\ Cardinality(InCentral(b)) = 0
                         /\ InHub(b) = 0 /\ Cardinality(InChannels(b)) = 0
                         /\ Cardinality(InHands(b)) = 0
  <2> DEFINE m == Cardinality(InMine(b))
             n == Cardinality(InCentral(b))
             h == InHub(b)
             k == Cardinality(InChannels(b))
             w == Cardinality(InHands(b))
  <2>1. m \in Nat /\ n \in Nat /\ h \in Nat /\ k \in Nat /\ w \in Nat
        /\ Holders(b) = m + n + h + k + w
    BY HoldersParts
  <2> HIDE DEF m, n, h, k, w
  <2>2. Holders(b) = 0 <=> m = 0 /\ n = 0 /\ h = 0 /\ k = 0 /\ w = 0
    BY <2>1
  <2> QED
    BY <2>2 DEF m, n, h, k, w
<1>2. /\ Cardinality(InMine(b)) = 0 <=> InMine(b) = {}
      /\ Cardinality(InCentral(b)) = 0 <=> InCentral(b) = {}
      /\ Cardinality(InChannels(b)) = 0 <=> InChannels(b) = {}
      /\ Cardinality(InHands(b)) = 0 <=> InHands(b) = {}
  BY HoldersParts, FS_EmptySet
<1>3. InMine(b) = {} <=> \A s \in Streamers : mine[s] # b
  BY DEF InMine
<1>4. InCentral(b) = {} <=> \A i \in DOMAIN central : central[i] # b
  BY DEF InCentral
<1>5. InHands(b) = {} <=> \A c \in Clients : cur[c] # b
  BY DEF InHands
<1>6. InChannels(b) = {} <=> \A c \in Clients : \A i \in DOMAIN chan[c] : chan[c][i] # b
  <2>1. \A c \in Clients : DOMAIN chan[c] \subseteq 1 .. ChanCap
    BY CapsAssumption DEF Typed, Queue
  <2>2. ASSUME NEW c \in Clients, NEW i \in DOMAIN chan[c], chan[c][i] = b
        PROVE  <<c, i>> \in InChannels(b)
    <3>1. <<c, i>> \in Clients \X (1 .. ChanCap)
      BY <2>1
    <3> QED
      BY <2>2, <3>1 DEF InChannels
  <2>3. \A p \in InChannels(b) : p[1] \in Clients /\ p[2] \in DOMAIN chan[p[1]]
                                 /\ chan[p[1]][p[2]] = b
    BY DEF InChannels
  <2> QED
    BY <2>2, <2>3
<1>7. InHub(b) = 0 <=> hubBlock # b
  BY DEF InHub
<1> QED
  BY <1>1, <1>2, <1>3, <1>4, <1>5, <1>6, <1>7 DEF Elsewhere

LEMMA UnheldNext ==
    ASSUME Typed', NEW b \in Blocks
    PROVE  (Holders(b) = 0 <=> ~Elsewhere(b) /\ \A s \in Streamers : mine[s] # b)'
BY Unheld, PTL

\* A block that moves from one holder to another.
LEMMA ExactMoved ==
    ASSUME Exact, UNCHANGED <<free, ref>>, \A b \in Blocks : Holders(b)' = Holders(b)
    PROVE  Exact'
BY DEF Exact

\* A holder that releases a block.
LEMMA ExactReleased ==
    ASSUME Typed, Typed', Exact, NEW x \in Blocks, Release(x),
           \A b \in Blocks : Holders(b)' = Holders(b) - One(x = b)
    PROVE  Exact'
<1> SUFFICES ASSUME NEW b \in Blocks
             PROVE  Holders(b)' = IF b \in free' THEN 0 ELSE ref'[b]
  BY DEF Exact
<1>1. Holders(b) \in Nat /\ Holders(b)' \in Nat
  <2>1. Holders(b) \in Nat
    BY HoldersParts
  <2>2. (Holders(b) \in Nat)'
    BY HoldersParts, PTL
  <2> QED
    BY <2>1, <2>2
<1>2. Holders(b) = IF b \in free THEN 0 ELSE ref[b]
  BY DEF Exact
<1>3. CASE x = b
  <2>1. Holders(b)' = Holders(b) - 1
    BY <1>3 DEF One
  <2>2. b \notin free /\ Holders(b) = ref[b]
    BY <1>1, <1>2, <2>1
  <2>3. ref'[b] = ref[b] - 1 /\ (b \in free' <=> ref[b] = 1)
    BY <1>3, <2>2 DEF Release, Typed
  <2> QED
    BY <1>1, <2>1, <2>2, <2>3
<1>4. CASE x # b
  <2>1. Holders(b)' = Holders(b)
    BY <1>1, <1>4 DEF One
  <2>2. ref'[b] = ref[b] /\ (b \in free' <=> b \in free)
    BY <1>4 DEF Release, Typed
  <2> QED
    BY <1>2, <2>1, <2>2
<1> QED
  BY <1>3, <1>4

\* What the streamers fill stays theirs when no block comes to a new place.
LEMMA FillingKept ==
    ASSUME Typed, Filling, UNCHANGED mine,
           \A b \in Blocks : Elsewhere(b)' => Elsewhere(b),
           \A b \in Blocks : b \in free' => b \in free \/ Elsewhere(b)
    PROVE  Filling'
<1> SUFFICES ASSUME NEW s \in Streamers, mine'[s] # NoBlock
             PROVE  Exclusive(s, mine[s])'
  BY DEF Filling
<1>1. mine[s] \in Blocks /\ mine'[s] = mine[s] /\ Exclusive(s, mine[s])
  BY DEF Typed, Filling
<1> QED
  BY <1>1 DEF Exclusive

\* The holders change by what the places change.
LEMMA HoldersDelta ==
    ASSUME Typed, Typed', NEW b
    PROVE  /\ Cardinality(InMine(b)) \in Nat /\ Cardinality(InMine(b))' \in Nat
           /\ Cardinality(InCentral(b)) \in Nat /\ Cardinality(InCentral(b))' \in Nat
           /\ InHub(b) \in Nat /\ InHub(b)' \in Nat
           /\ Cardinality(InChannels(b)) \in Nat /\ Cardinality(InChannels(b))' \in Nat
           /\ Cardinality(InHands(b)) \in Nat /\ Cardinality(InHands(b))' \in Nat
           /\ Holders(b) \in Nat
           /\ Holders(b)' = Holders(b)
                + (Cardinality(InMine(b))' - Cardinality(InMine(b)))
                + (Cardinality(InCentral(b))' - Cardinality(InCentral(b)))
                + (InHub(b)' - InHub(b))
                + (Cardinality(InChannels(b))' - Cardinality(InChannels(b)))
                + (Cardinality(InHands(b))' - Cardinality(InHands(b)))
<1> DEFINE m == Cardinality(InMine(b))
           n == Cardinality(InCentral(b))
           h == InHub(b)
           k == Cardinality(InChannels(b))
           w == Cardinality(InHands(b))
<1>1. m \in Nat /\ n \in Nat /\ h \in Nat /\ k \in Nat /\ w \in Nat
      /\ Holders(b) = m + n + h + k + w
  BY HoldersParts
<1>2. (m \in Nat /\ n \in Nat /\ h \in Nat /\ k \in Nat /\ w \in Nat
       /\ Holders(b) = m + n + h + k + w)'
  BY HoldersParts, PTL
<1> HIDE DEF m, n, h, k, w
<1>3. Holders(b) \in Nat
      /\ Holders(b)' = Holders(b) + (m' - m) + (n' - n) + (h' - h) + (k' - k) + (w' - w)
  BY <1>1, <1>2
<1> QED
  BY <1>1, <1>2, <1>3 DEF m, n, h, k, w

\* How the parts change with the places.
LEMMA PartsKept ==
    ASSUME Typed, Typed', NEW b
    PROVE  /\ mine' = mine => Cardinality(InMine(b))' = Cardinality(InMine(b)) + 0
           /\ central' = central => Cardinality(InCentral(b))' = Cardinality(InCentral(b)) + 0
           /\ UNCHANGED <<hubBlock, offering>> => InHub(b)' = InHub(b) + 0
           /\ chan' = chan => Cardinality(InChannels(b))' = Cardinality(InChannels(b)) + 0
           /\ cur' = cur => Cardinality(InHands(b))' = Cardinality(InHands(b)) + 0
<1>1. /\ mine' = mine => InMine(b)' = InMine(b)
      /\ central' = central => InCentral(b)' = InCentral(b)
      /\ UNCHANGED <<hubBlock, offering>> => InHub(b)' = InHub(b)
      /\ chan' = chan => InChannels(b)' = InChannels(b)
      /\ cur' = cur => InHands(b)' = InHands(b)
  BY DEF InMine, InCentral, InHub, InChannels, InHands
<1>2. /\ Cardinality(InMine(b)) \in Nat /\ Cardinality(InCentral(b)) \in Nat /\ InHub(b) \in Nat
      /\ Cardinality(InChannels(b)) \in Nat /\ Cardinality(InHands(b)) \in Nat
  BY HoldersParts
<1> DEFINE m == Cardinality(InMine(b))
           n == Cardinality(InCentral(b))
           k == Cardinality(InChannels(b))
           w == Cardinality(InHands(b))
<1>3. /\ mine' = mine => m' = m
      /\ central' = central => n' = n
      /\ chan' = chan => k' = k
      /\ cur' = cur => w' = w
  BY <1>1
<1> QED
  BY <1>1, <1>2, <1>3

LEMMA OneInt == ASSUME NEW p PROVE One(p) \in {0, 1} /\ (p => One(p) = 1) /\ (~p => One(p) = 0)
BY DEF One

LEMMA MineChanged ==
    ASSUME Typed, NEW b, NEW s \in Streamers, NEW v, mine'[s] = v,
           \A t \in Streamers \ {s} : mine'[t] = mine[t]
    PROVE  Cardinality(InMine(b))' = Cardinality(InMine(b)) + (One(v = b) - One(mine[s] = b))
<1> DEFINE F == InMine(b)
           G == InMine(b)'
<1>1. F \ {s} = G \ {s}
  BY DEF Typed, InMine
<1>2. (s \in G <=> v = b) /\ (s \in F <=> mine[s] = b)
  BY DEF Typed, InMine
<1>3. IsFiniteSet(F)
  BY HoldersParts
<1> HIDE DEF F, G
<1>4. Cardinality(F) \in Nat /\ Cardinality(G) = Cardinality(F) + One(s \in G) - One(s \in F)
  BY <1>1, <1>3, CountOne
<1>5. Cardinality(G) = Cardinality(F) + (One(v = b) - One(mine[s] = b))
  BY <1>2, <1>4 DEF One
<1> QED
  BY <1>5 DEF F, G

LEMMA HandsChanged ==
    ASSUME Typed, NEW b, NEW c \in Clients, NEW v, cur'[c] = v,
           \A d \in Clients \ {c} : cur'[d] = cur[d]
    PROVE  Cardinality(InHands(b))' = Cardinality(InHands(b)) + (One(v = b) - One(cur[c] = b))
<1> DEFINE F == InHands(b)
           G == InHands(b)'
<1>1. F \ {c} = G \ {c}
  BY DEF Typed, InHands
<1>2. (c \in G <=> v = b) /\ (c \in F <=> cur[c] = b)
  BY DEF Typed, InHands
<1>3. IsFiniteSet(F)
  BY HoldersParts
<1> HIDE DEF F, G
<1>4. Cardinality(F) \in Nat /\ Cardinality(G) = Cardinality(F) + One(c \in G) - One(c \in F)
  BY <1>1, <1>3, CountOne
<1>5. Cardinality(G) = Cardinality(F) + (One(v = b) - One(cur[c] = b))
  BY <1>2, <1>4 DEF One
<1> QED
  BY <1>5 DEF F, G

LEMMA CentralAppended ==
    ASSUME Typed, NEW b, NEW x \in Blocks, central' = Append(central, x)
    PROVE  Cardinality(InCentral(b))' = Cardinality(InCentral(b)) + One(x = b)
<1>1. Cardinality(InQueue(central', b)) = Cardinality(InQueue(central, b)) + One(x = b)
  BY CountAppend DEF Typed, Queue
<1> QED
  BY <1>1 DEF InCentral, InQueue

LEMMA CentralTaken ==
    ASSUME Typed, NEW b, central # <<>>, central' = Tail(central)
    PROVE  Cardinality(InCentral(b))' = Cardinality(InCentral(b)) + (0 - One(Head(central) = b))
<1> DEFINE n == Cardinality(InQueue(central, b))
           m == Cardinality(InQueue(central', b))
           p == Head(central) = b
<1>1. m = n - One(p)
  BY CountTail DEF Typed, Queue
<1>2. n \in Nat
  BY QueueFinite DEF Typed, Queue
<1>3. m = n + (0 - One(p))
  <2> HIDE DEF m, n, p
  <2> QED
    BY <1>1, <1>2, OneInt
<1>4. InCentral(b) = InQueue(central, b) /\ InCentral(b)' = InQueue(central', b)
  BY DEF InCentral, InQueue
<1> QED
  BY <1>3, <1>4

LEMMA ChannelSent ==
    ASSUME Typed, NEW b, NEW c \in Clients, NEW x \in Blocks, Len(chan[c]) < ChanCap,
           chan'[c] = Append(chan[c], x), \A d \in Clients \ {c} : chan'[d] = chan[d]
    PROVE  Cardinality(InChannels(b))' = Cardinality(InChannels(b)) + One(x = b)
<1>1. Channels(chan)
  BY DEF Typed, Channels
<1>2. Cardinality(Slots(chan', b)) = Cardinality(Slots(chan, b)) + One(x = b)
  BY <1>1, CountSend
<1>3. InChannels(b) = Slots(chan, b) /\ InChannels(b)' = Slots(chan', b)
  BY DEF InChannels, Slots
<1> QED
  BY <1>2, <1>3

LEMMA ChannelTaken ==
    ASSUME Typed, NEW b, NEW c \in Clients, chan[c] # <<>>,
           chan'[c] = Tail(chan[c]), \A d \in Clients \ {c} : chan'[d] = chan[d]
    PROVE  Cardinality(InChannels(b))' = Cardinality(InChannels(b)) + (0 - One(Head(chan[c]) = b))
<1> DEFINE n == Cardinality(Slots(chan, b))
           m == Cardinality(Slots(chan', b))
           p == Head(chan[c]) = b
<1>1. Channels(chan)
  BY DEF Typed, Channels
<1>2. m = n - One(p)
  BY <1>1, CountTake
<1>3. n \in Nat
  BY SlotsFinite
<1>4. m = n + (0 - One(p))
  <2> HIDE DEF m, n, p
  <2> QED
    BY <1>2, <1>3, OneInt
<1>5. InChannels(b) = Slots(chan, b) /\ InChannels(b)' = Slots(chan', b)
  BY DEF InChannels, Slots
<1> QED
  BY <1>4, <1>5

\* The pool gives a block to a streamer: it was nobody's.
LEMMA ExactFill ==
    ASSUME Typed, Typed', Filling, Exact, NEW s \in Streamers, Fill(s)
    PROVE  Filling' /\ Exact'
<1>1. PICK x \in free : /\ free' = free \ {x}
                         /\ ref' = [ref EXCEPT ![x] = 1]
                         /\ mine' = [mine EXCEPT ![s] = x]
  BY DEF Fill
<1>2. /\ x \in Blocks /\ mine[s] = NoBlock
      /\ UNCHANGED <<central, hubBlock, offering, chan, cur>>
      /\ mine'[s] = x /\ \A t \in Streamers \ {s} : mine'[t] = mine[t]
  BY <1>1 DEF Fill, Typed, hubVars, clientVars
<1>3. ~Elsewhere(x) /\ \A t \in Streamers : mine[t] # x
  <2>1. Holders(x) = 0
    BY <1>1, <1>2 DEF Exact
  <2> QED
    BY <1>2, <2>1, Unheld
<1>4. Filling'
  <2>1. \A b : Elsewhere(b)' <=> Elsewhere(b)
    BY <1>2 DEF Elsewhere
  <2> QED
    BY <1>1, <1>2, <1>3, <2>1 DEF Filling, Exclusive
<1>5. \A b \in Blocks : Holders(b)' = Holders(b) + One(x = b)
  <2> SUFFICES ASSUME NEW b \in Blocks PROVE Holders(b)' = Holders(b) + One(x = b)
    OBVIOUS
  <2>1. Cardinality(InMine(b))' = Cardinality(InMine(b)) + (One(x = b) - One(mine[s] = b))
    BY <1>2, MineChanged
  <2>2. One(mine[s] = b) = 0
    BY <1>2, NamesAssumption DEF One
  <2>3. /\ Cardinality(InCentral(b))' = Cardinality(InCentral(b)) + 0
        /\ InHub(b)' = InHub(b) + 0
        /\ Cardinality(InChannels(b))' = Cardinality(InChannels(b)) + 0
        /\ Cardinality(InHands(b))' = Cardinality(InHands(b)) + 0
    BY <1>2, PartsKept
  <2> QED
    BY <2>1, <2>2, <2>3, HoldersDelta, OneInt
<1>6. Exact'
  <2> SUFFICES ASSUME NEW b \in Blocks
               PROVE  Holders(b)' = IF b \in free' THEN 0 ELSE ref'[b]
    BY DEF Exact
  <2>1. CASE b = x
    <3>1. Holders(b) = 0
      BY <1>1, <2>1 DEF Exact
    <3>2. Holders(b)' = 1
      BY <1>5, <2>1, <3>1 DEF One
    <3> QED
      BY <1>1, <2>1, <3>2 DEF Typed
  <2>2. CASE b # x
    <3>1. Holders(b)' = Holders(b)
      BY <1>5, <2>2, HoldersDelta DEF One
    <3> QED
      BY <1>1, <2>2, <3>1 DEF Exact, Typed
  <2> QED
    BY <2>1, <2>2
<1> QED
  BY <1>4, <1>6

\* The streamer hands its block over, or puts it back: nobody else had it.
LEMMA ExactOffer ==
    ASSUME Typed, Typed', Filling, Exact, NEW s \in Streamers, Offer(s)
    PROVE  Filling' /\ Exact'
<1> PICK x : x = mine[s]
  OBVIOUS
<1>1. /\ x \in Blocks /\ Exclusive(s, x)
      /\ mine' = [mine EXCEPT ![s] = NoBlock]
      /\ UNCHANGED <<ref, hubBlock, offering, chan, cur>>
  BY DEF Offer, Typed, Filling, hubVars, clientVars
<1>2. central \in Seq(Blocks)
  BY DEF Typed, Queue
<1>3. mine'[s] = NoBlock /\ \A t \in Streamers \ {s} : mine'[t] = mine[t] /\ mine[t] # x
  BY <1>1 DEF Typed, Exclusive
<1>4. /\ Len(central) < HubCap => central' = Append(central, x) /\ free' = free
      /\ ~(Len(central) < HubCap) => central' = central /\ free' = free \cup {x}
  BY DEF Offer
<1>5. Filling'
  <2>1. \A b \in Blocks \ {x} : Elsewhere(b)' => Elsewhere(b)
    BY <1>1, <1>2, <1>4, AppendIndex DEF Elsewhere
  <2>2. \A b \in Blocks \ {x} : b \in free' => b \in free
    BY <1>4
  <2> SUFFICES ASSUME NEW t \in Streamers, mine'[t] # NoBlock PROVE Exclusive(t, mine[t])'
    BY DEF Filling
  <2>3. t # s /\ mine'[t] = mine[t] /\ mine[t] \in Blocks \ {x} /\ Exclusive(t, mine[t])
    BY <1>3 DEF Typed, Filling
  <2> QED
    BY <1>3, <2>1, <2>2, <2>3 DEF Exclusive
<1>6. \A b \in Blocks : /\ InHub(b)' = InHub(b) + 0
                        /\ Cardinality(InChannels(b))' = Cardinality(InChannels(b)) + 0
                        /\ Cardinality(InHands(b))' = Cardinality(InHands(b)) + 0
                        /\ Cardinality(InMine(b))' = Cardinality(InMine(b)) + (0 - One(x = b))
  <2> SUFFICES ASSUME NEW b \in Blocks
               PROVE  /\ InHub(b)' = InHub(b) + 0
                      /\ Cardinality(InChannels(b))' = Cardinality(InChannels(b)) + 0
                      /\ Cardinality(InHands(b))' = Cardinality(InHands(b)) + 0
                      /\ Cardinality(InMine(b))' = Cardinality(InMine(b)) + (0 - One(x = b))
    OBVIOUS
  <2>1. Cardinality(InMine(b))' = Cardinality(InMine(b)) + (One(NoBlock = b) - One(mine[s] = b))
    BY <1>3, MineChanged
  <2>2. One(NoBlock = b) = 0 /\ One(mine[s] = b) = One(x = b)
    BY NamesAssumption DEF One
  <2> QED
    BY <1>1, <2>1, <2>2, PartsKept
<1>7. CASE Len(central) < HubCap
  <2>1. ASSUME NEW b \in Blocks PROVE Holders(b)' = Holders(b)
    <3>1. Cardinality(InCentral(b))' = Cardinality(InCentral(b)) + One(x = b)
      BY <1>1, <1>4, <1>7, CentralAppended
    <3> QED
      BY <1>6, <3>1, HoldersDelta, OneInt
  <2> QED
    BY <1>1, <1>4, <1>5, <1>7, <2>1, ExactMoved
<1>8. CASE ~(Len(central) < HubCap)
  <2>1. ASSUME NEW b \in Blocks \ {x} PROVE Holders(b)' = Holders(b)
    <3>1. Cardinality(InCentral(b))' = Cardinality(InCentral(b)) + 0
      BY <1>4, <1>8, PartsKept
    <3>2. One(x = b) = 0
      BY DEF One
    <3> QED
      BY <1>6, <3>1, <3>2, HoldersDelta
  <2>2. Holders(x)' = 0
    <3>1. ~Elsewhere(x)'
      BY <1>1, <1>4, <1>8 DEF Elsewhere, Exclusive
    <3>2. \A t \in Streamers : mine'[t] # x
      BY <1>1, <1>3, NamesAssumption
    <3>3. (Holders(x) = 0 <=> ~Elsewhere(x) /\ \A t \in Streamers : mine[t] # x)'
      BY <1>1, UnheldNext
    <3> QED
      BY <1>1, <3>1, <3>2, <3>3
  <2>3. Exact'
    BY <1>1, <1>4, <1>8, <2>1, <2>2 DEF Exact
  <2> QED
    BY <1>5, <2>3
<1> QED
  BY <1>7, <1>8

\* The hub takes a block from the pipe.
LEMMA ExactTake ==
    ASSUME Typed, Typed', Filling, Exact, HubTake
    PROVE  Filling' /\ Exact'
<1>1. /\ central \in Seq(Blocks) /\ central # <<>> /\ central' = Tail(central)
      /\ hubBlock = NoBlock /\ hubBlock' = Head(central)
      /\ offering = NoClient /\ offering' = NoClient
      /\ UNCHANGED <<mine, chan, cur, free, ref>>
  BY DEF HubTake, Typed, Queue, poolVars, clientVars
<1>2. \A b \in Blocks : Elsewhere(b)' => Elsewhere(b)
  <2>1. /\ 1 \in DOMAIN central /\ Head(central) = central[1]
        /\ \A i \in DOMAIN Tail(central) : i + 1 \in DOMAIN central
                                            /\ Tail(central)[i] = central[i + 1]
    BY <1>1, TailIndex
  <2> QED
    BY <1>1, <2>1 DEF Elsewhere
<1>3. ASSUME NEW b \in Blocks PROVE Holders(b)' = Holders(b)
  <2>1. Cardinality(InCentral(b))' = Cardinality(InCentral(b)) + (0 - One(Head(central) = b))
    BY <1>1, CentralTaken
  <2>2. InHub(b) = 0 /\ InHub(b)' = One(Head(central) = b)
    BY <1>1, NamesAssumption DEF InHub, One
  <2>3. /\ Cardinality(InMine(b))' = Cardinality(InMine(b)) + 0
        /\ Cardinality(InChannels(b))' = Cardinality(InChannels(b)) + 0
        /\ Cardinality(InHands(b))' = Cardinality(InHands(b)) + 0
    BY <1>1, PartsKept
  <2> DEFINE o == One(Head(central) = b)
  <2>4. o \in Int
    BY OneInt
  <2> HIDE DEF o
  <2> QED
    BY <2>1, <2>2, <2>3, <2>4, HoldersDelta DEF o
<1> QED
  BY <1>1, <1>2, <1>3, FillingKept, ExactMoved

\* A holder is added, or one that is not the last gives up: the count follows.
LEMMA ExactCounted ==
    ASSUME Typed, Typed', Exact, NEW x \in Blocks, NEW d \in Int, Holders(x) # 0,
           free' = free, ref'[x] = ref[x] + d, \A b \in Blocks \ {x} : ref'[b] = ref[b],
           \A b \in Blocks : Holders(b)' = Holders(b) + (IF x = b THEN d ELSE 0)
    PROVE  Exact'
<1> SUFFICES ASSUME NEW b \in Blocks
             PROVE  Holders(b)' = IF b \in free' THEN 0 ELSE ref'[b]
  BY DEF Exact
<1>1. Holders(b) \in Nat
  BY HoldersParts
<1>2. CASE x = b
  <2>1. b \notin free /\ Holders(b) = ref[b]
    BY <1>2 DEF Exact
  <2>2. Holders(b)' = Holders(b) + d /\ ref'[b] = ref[b] + d
    BY <1>2
  <2> QED
    BY <2>1, <2>2
<1>3. CASE x # b
  <2>1. Holders(b)' = Holders(b) /\ ref'[b] = ref[b]
    BY <1>1, <1>3
  <2> QED
    BY <2>1 DEF Exact
<1> QED
  BY <1>2, <1>3

\* A block the hub has in hand is held.
LEMMA HubHolds ==
    ASSUME Typed, hubBlock \in Blocks
    PROVE  Holders(hubBlock) # 0
<1> PICK x : x = hubBlock
  OBVIOUS
<1>1. Elsewhere(x)
  BY DEF Elsewhere
<1> QED
  BY <1>1, Unheld

LEMMA ExactRef ==
    ASSUME Typed, Typed', Filling, Exact, HubRef
    PROVE  Filling' /\ Exact'
<1> PICK x : x = hubBlock
  OBVIOUS
<1>1. /\ x \in Blocks /\ hubBlock' = x /\ offering = NoClient /\ offering' # NoClient
      /\ ref' = [ref EXCEPT ![x] = @ + 1]
      /\ UNCHANGED <<mine, central, chan, cur, free>>
  BY NamesAssumption DEF HubRef, Typed, clientVars
<1>2. \A b \in Blocks : Elsewhere(b)' => Elsewhere(b)
  BY <1>1 DEF Elsewhere
<1>3. ASSUME NEW b \in Blocks PROVE Holders(b)' = Holders(b) + (IF x = b THEN 1 ELSE 0)
  <2>1. InHub(b)' = InHub(b) + (IF x = b THEN 1 ELSE 0)
    BY <1>1 DEF InHub
  <2>2. /\ Cardinality(InMine(b))' = Cardinality(InMine(b)) + 0
        /\ Cardinality(InCentral(b))' = Cardinality(InCentral(b)) + 0
        /\ Cardinality(InChannels(b))' = Cardinality(InChannels(b)) + 0
        /\ Cardinality(InHands(b))' = Cardinality(InHands(b)) + 0
    BY <1>1, PartsKept
  <2> QED
    BY <2>1, <2>2, HoldersDelta
<1>4. Filling'
  BY <1>1, <1>2, FillingKept
<1>5. Exact'
  <2>1. Holders(x) # 0
    BY <1>1, HubHolds
  <2>2. ref'[x] = ref[x] + 1 /\ \A b \in Blocks \ {x} : ref'[b] = ref[b]
    BY <1>1 DEF Typed
  <2>3. free' = free
    BY <1>1
  <2> QED
    BY <1>1, <1>3, <2>1, <2>2, <2>3, ExactCounted
<1> QED
  BY <1>4, <1>5

\* The reference the hub has added goes to the channel, or is taken back.
LEMMA ExactSend ==
    ASSUME Typed, Typed', Filling, Exact, HubSend, Alive'
    PROVE  Filling' /\ Exact'
<1> PICK x, c : x = hubBlock /\ c = offering
  OBVIOUS
<1>1. /\ x \in Blocks /\ hubBlock' = x /\ c \in Clients /\ offering # NoClient
      /\ offering' = NoClient
      /\ UNCHANGED <<mine, central, cur, free>>
  BY DEF HubSend, Typed, clientVars
<1>2. \/ /\ Len(chan[c]) < ChanCap
         /\ chan' = [chan EXCEPT ![c] = Append(@, x)] /\ ref' = ref
      \/ /\ chan' = chan /\ ref' = [ref EXCEPT ![x] = @ - 1]
  BY DEF HubSend, Alive
<1>3. \A b \in Blocks : InHub(b)' = InHub(b) + (0 - One(x = b))
  BY <1>1 DEF InHub, One
<1>4. \A b \in Blocks : /\ Cardinality(InMine(b))' = Cardinality(InMine(b)) + 0
                        /\ Cardinality(InCentral(b))' = Cardinality(InCentral(b)) + 0
                        /\ Cardinality(InHands(b))' = Cardinality(InHands(b)) + 0
  BY <1>1, PartsKept
<1>5. CASE Len(chan[c]) < ChanCap /\ chan' = [chan EXCEPT ![c] = Append(@, x)] /\ ref' = ref
  <2>1. chan'[c] = Append(chan[c], x) /\ \A d \in Clients \ {c} : chan'[d] = chan[d]
    BY <1>1, <1>5 DEF Typed
  <2>2. chan[c] \in Seq(Blocks)
    BY <1>1 DEF Typed, Queue
  <2>3. \A i \in DOMAIN chan'[c] :
            \/ i \in DOMAIN chan[c] /\ chan'[c][i] = chan[c][i]
            \/ chan'[c][i] = x
    BY <1>1, <2>1, <2>2, AppendIndex
  <2>4. \A b \in Blocks : Elsewhere(b)' => Elsewhere(b)
    BY <1>1, <2>1, <2>3 DEF Elsewhere
  <2>5. ASSUME NEW b \in Blocks PROVE Holders(b)' = Holders(b)
    <3>1. Cardinality(InChannels(b))' = Cardinality(InChannels(b)) + One(x = b)
      <4> QED
        BY <1>1, <1>5, <2>1, ChannelSent
    <3> QED
      BY <1>3, <1>4, <3>1, HoldersDelta, OneInt
  <2> QED
    BY <1>1, <1>5, <2>4, <2>5, FillingKept, ExactMoved
<1>6. CASE chan' = chan /\ ref' = [ref EXCEPT ![x] = @ - 1]
  <2>1. \A b \in Blocks : Elsewhere(b)' => Elsewhere(b)
    BY <1>1, <1>6 DEF Elsewhere
  <2>2. ASSUME NEW b \in Blocks PROVE Holders(b)' = Holders(b) + (IF x = b THEN -1 ELSE 0)
    <3>1. Cardinality(InChannels(b))' = Cardinality(InChannels(b)) + 0
      BY <1>6, PartsKept
    <3>2. (0 - One(x = b)) = (IF x = b THEN -1 ELSE 0)
      BY DEF One
    <3> QED
      BY <1>3, <1>4, <3>1, <3>2, HoldersDelta
  <2>3. Holders(x) # 0
    BY <1>1, HubHolds
  <2>4. ref'[x] = ref[x] + (-1) /\ \A b \in Blocks \ {x} : ref'[b] = ref[b]
    BY <1>1, <1>6 DEF Typed
  <2>5. Exact'
    BY <1>1, <2>2, <2>3, <2>4, ExactCounted
  <2> QED
    BY <1>1, <2>1, <2>5, FillingKept
<1> QED
  BY <1>2, <1>5, <1>6

LEMMA ExactRelease ==
    ASSUME Typed, Typed', Filling, Exact, HubRelease
    PROVE  Filling' /\ Exact'
<1> PICK x : x = hubBlock
  OBVIOUS
<1>1. /\ x \in Blocks /\ hubBlock' = NoBlock /\ offering = NoClient /\ Release(x)
      /\ UNCHANGED <<mine, central, chan, cur>>
  BY DEF HubRelease, Typed, clientVars
<1>2. \A b \in Blocks : Elsewhere(b)' => Elsewhere(b)
  BY <1>1, NamesAssumption DEF Elsewhere
<1>3. \A b \in Blocks : b \in free' => b \in free \/ Elsewhere(b)
  BY <1>1 DEF Release, Elsewhere
<1>4. ASSUME NEW b \in Blocks PROVE Holders(b)' = Holders(b) - One(x = b)
  <2>1. InHub(b)' = InHub(b) + (0 - One(x = b))
    BY <1>1, NamesAssumption DEF InHub, One
  <2>2. /\ Cardinality(InMine(b))' = Cardinality(InMine(b)) + 0
        /\ Cardinality(InCentral(b))' = Cardinality(InCentral(b)) + 0
        /\ Cardinality(InChannels(b))' = Cardinality(InChannels(b)) + 0
        /\ Cardinality(InHands(b))' = Cardinality(InHands(b)) + 0
    BY <1>1, PartsKept
  <2> QED
    BY <2>1, <2>2, HoldersDelta, OneInt
<1> QED
  BY <1>1, <1>2, <1>3, <1>4, FillingKept, ExactReleased

\* What the handlers do to the blocks: a block moves from the channel to the hand
\* of its handler, and is released from either.
LEMMA ExactHandlers ==
    ASSUME Typed, Typed', Departures, Filling, Exact, NEW c \in Clients,
           Connect(c) \/ Receive(c) \/ Written(c) \/ DrainOne(c)
    PROVE  Filling' /\ Exact'
<1>1. UNCHANGED <<mine, central, hubBlock, offering>>
  BY DEF Connect, Receive, Written, DrainOne, hubVars
<1>2. \A b \in Blocks : /\ Cardinality(InMine(b))' = Cardinality(InMine(b)) + 0
                        /\ Cardinality(InCentral(b))' = Cardinality(InCentral(b)) + 0
                        /\ InHub(b)' = InHub(b) + 0
  BY <1>1, PartsKept
<1>3. CASE Connect(c)
  <2>1. UNCHANGED <<free, ref, chan, cur>>
    BY <1>3 DEF Connect, Goes, poolVars, Departures, Reusable, Typed
  <2>2. \A b \in Blocks : Elsewhere(b)' => Elsewhere(b)
    BY <1>1, <2>1 DEF Elsewhere
  <2>3. ASSUME NEW b \in Blocks PROVE Holders(b)' = Holders(b)
    BY <1>2, <2>1, PartsKept, HoldersDelta
  <2> QED
    BY <1>1, <2>1, <2>2, <2>3, FillingKept, ExactMoved
<1>4. ASSUME chan[c] # <<>>
      PROVE  /\ \A i \in DOMAIN Tail(chan[c]) :
                    i + 1 \in DOMAIN chan[c] /\ Tail(chan[c])[i] = chan[c][i + 1]
             /\ 1 \in DOMAIN chan[c] /\ Head(chan[c]) = chan[c][1] /\ Head(chan[c]) \in Blocks
  BY <1>4, TailIndex DEF Typed, Queue
<1>5. CASE Receive(c)
  <2> PICK x : x = Head(chan[c])
    OBVIOUS
  <2>1. /\ chan[c] # <<>> /\ cur[c] = NoBlock /\ x \in Blocks
        /\ cur'[c] = x /\ \A d \in Clients \ {c} : cur'[d] = cur[d]
        /\ chan'[c] = Tail(chan[c]) /\ \A d \in Clients \ {c} : chan'[d] = chan[d]
        /\ UNCHANGED <<free, ref>>
    BY <1>4, <1>5 DEF Receive, Goes, Typed, poolVars
  <2>2. \A b \in Blocks : Elsewhere(b)' => Elsewhere(b)
    <3>1. \A i \in DOMAIN chan'[c] : \E j \in DOMAIN chan[c] : chan'[c][i] = chan[c][j]
      BY <1>4, <2>1
    <3>2. \E j \in DOMAIN chan[c] : chan[c][j] = x
      BY <1>4, <2>1
    <3>3. \A d \in Clients \ {c} : chan'[d] = chan[d]
      BY <2>1
    <3>4. \A d \in Clients : \A i \in DOMAIN chan'[d] :
              \E j \in DOMAIN chan[d] : chan'[d][i] = chan[d][j]
      BY <3>1, <3>3
    <3>5. \A d \in Clients : cur'[d] = cur[d] \/ cur'[d] = x
      BY <2>1
    <3> QED
      BY <1>1, <3>2, <3>4, <3>5 DEF Elsewhere
  <2>3. ASSUME NEW b \in Blocks PROVE Holders(b)' = Holders(b)
    <3>1. Cardinality(InChannels(b))' = Cardinality(InChannels(b)) + (0 - One(x = b))
      BY <2>1, ChannelTaken
    <3>2. Cardinality(InHands(b))' = Cardinality(InHands(b)) + (One(x = b) - One(cur[c] = b))
      BY <2>1, HandsChanged
    <3>3. One(cur[c] = b) = 0
      BY <2>1, NamesAssumption DEF One
    <3> QED
      BY <1>2, <3>1, <3>2, <3>3, HoldersDelta, OneInt
  <2> QED
    BY <1>1, <2>1, <2>2, <2>3, FillingKept, ExactMoved
<1>6. CASE Written(c)
  <2> PICK x : x = cur[c]
    OBVIOUS
  <2>1. /\ x \in Blocks /\ Release(x) /\ chan' = chan
        /\ cur'[c] = NoBlock /\ \A d \in Clients \ {c} : cur'[d] = cur[d]
    BY <1>6 DEF Written, Goes, Typed
  <2>2. \A b \in Blocks : Elsewhere(b)' => Elsewhere(b)
    BY <1>1, <2>1, NamesAssumption DEF Elsewhere
  <2>3. \A b \in Blocks : b \in free' => b \in free \/ Elsewhere(b)
    BY <2>1 DEF Release, Elsewhere
  <2>4. ASSUME NEW b \in Blocks PROVE Holders(b)' = Holders(b) - One(x = b)
    <3>1. Cardinality(InHands(b))' = Cardinality(InHands(b)) + (One(NoBlock = b) - One(cur[c] = b))
      BY <2>1, HandsChanged
    <3>2. One(NoBlock = b) = 0 /\ One(cur[c] = b) = One(x = b)
      BY NamesAssumption DEF One
    <3>3. Cardinality(InChannels(b))' = Cardinality(InChannels(b)) + 0
      BY <2>1, PartsKept
    <3> QED
      BY <1>2, <3>1, <3>2, <3>3, HoldersDelta, OneInt
  <2> QED
    BY <1>1, <2>1, <2>2, <2>3, <2>4, FillingKept, ExactReleased
<1>7. CASE DrainOne(c)
  <2> PICK x : x = Head(chan[c])
    OBVIOUS
  <2>1. /\ chan[c] # <<>> /\ x \in Blocks /\ Release(x) /\ cur' = cur
        /\ chan'[c] = Tail(chan[c]) /\ \A d \in Clients \ {c} : chan'[d] = chan[d]
    BY <1>4, <1>7 DEF DrainOne, Goes, Typed
  <2>2. \A b \in Blocks : Elsewhere(b)' => Elsewhere(b)
    <3>1. \A i \in DOMAIN chan'[c] : \E j \in DOMAIN chan[c] : chan'[c][i] = chan[c][j]
      BY <1>4, <2>1
    <3>2. \E j \in DOMAIN chan[c] : chan[c][j] = x
      BY <1>4, <2>1
    <3>3. \A d \in Clients \ {c} : chan'[d] = chan[d]
      BY <2>1
    <3>4. \A d \in Clients : \A i \in DOMAIN chan'[d] :
              \E j \in DOMAIN chan[d] : chan'[d][i] = chan[d][j]
      BY <3>1, <3>3
    <3>5. \A d \in Clients : cur'[d] = cur[d] \/ cur'[d] = x
      BY <2>1
    <3> QED
      BY <1>1, <3>2, <3>4, <3>5 DEF Elsewhere
  <2>3. \A b \in Blocks : b \in free' => b \in free \/ Elsewhere(b)
    BY <1>4, <2>1 DEF Release, Elsewhere
  <2>4. ASSUME NEW b \in Blocks PROVE Holders(b)' = Holders(b) - One(x = b)
    <3>1. Cardinality(InChannels(b))' = Cardinality(InChannels(b)) + (0 - One(x = b))
      BY <2>1, ChannelTaken
    <3>2. Cardinality(InHands(b))' = Cardinality(InHands(b)) + 0
      BY <2>1, PartsKept
    <3> QED
      BY <1>2, <3>1, <3>2, HoldersDelta, OneInt
  <2> QED
    BY <1>1, <2>1, <2>2, <2>3, <2>4, FillingKept, ExactReleased
<1> QED
  BY <1>3, <1>5, <1>6, <1>7

\* Steps that leave the blocks where they are.
LEMMA ExactKept ==
    ASSUME Filling, Exact, UNCHANGED <<free, ref, mine, central, hubBlock, offering, chan, cur>>
    PROVE  Filling' /\ Exact'
<1>1. Filling'
  BY DEF Filling, Exclusive, Elsewhere
<1>2. \A b \in Blocks : Holders(b)' = Holders(b)
  BY DEF Holders, InCentral, InChannels, InHub
<1> QED
  BY <1>1, <1>2, ExactMoved

LEMMA ExactStep ==
    ASSUME Typed, Typed', Departures, Alive => Filling /\ Exact, [Next]_vars
    PROVE  Alive' => Filling' /\ Exact'
<1> SUFFICES ASSUME Alive' PROVE Filling' /\ Exact'
  OBVIOUS
<1>1. Alive
  BY DEF Alive, Next, Fill, Offer, Hub, HubSub, HubUnsub, HubTake, HubRef, HubSend, HubRelease,
      HubDone, Goes, Connect, HangUp, Handler, Subscribe, Receive, Written, CountDown,
      Unsubscribe, DrainOne, Drained, vars, hubVars
<1>2. Filling /\ Exact
  BY <1>1
<1>3. ASSUME \/ HubSub \/ HubUnsub \/ HubDone \/ UNCHANGED vars
             \/ \E c \in Clients : \/ HangUp(c) \/ Subscribe(c) \/ CountDown(c)
                                   \/ Unsubscribe(c) \/ Drained(c)
      PROVE  UNCHANGED <<free, ref, mine, central, hubBlock, offering, chan, cur>>
  BY <1>3 DEF HubSub, HubUnsub, HubDone, HangUp, Subscribe, CountDown, Unsubscribe, Drained,
      vars, poolVars, hubVars, clientVars
<1>4. CASE HubSub \/ HubUnsub \/ HubDone \/ UNCHANGED vars
  BY <1>2, <1>3, <1>4, ExactKept
<1>5. CASE Hub
  BY <1>1, <1>2, <1>4, <1>5, ExactTake, ExactRef, ExactSend, ExactRelease DEF Hub
<1>6. CASE \E s \in Streamers : Fill(s) \/ Offer(s)
  BY <1>2, <1>6, ExactFill, ExactOffer
<1>7. CASE \E c \in Clients : Connect(c) \/ HangUp(c) \/ Handler(c)
  BY <1>2, <1>3, <1>7, ExactHandlers, ExactKept DEF Handler
<1> QED
  BY <1>4, <1>5, <1>6, <1>7 DEF Next

-----------------------------------------------------------------------------
(* The theorems                                                            *)

LEMMA HubInit == Init => HubInv
<1> SUFFICES ASSUME Init PROVE HubInv
  OBVIOUS
<1>1. Typed
  <2>1. \A S, cap : cap \in Nat => Queue(S, <<>>, cap)
    BY DEF Queue
  <2>2. HubCap \in Nat /\ ChanCap \in Nat /\ SubCap \in Nat
    BY CapsAssumption
  <2>3. closed \in [Clients -> BOOLEAN]
    BY DEF Init
  <2> QED
    BY <2>1, <2>2, <2>3 DEF Init, Typed
<1>2. Counted
  <2>1. Connected = {}
    BY DEF Init, Connected
  <2> QED
    BY <2>1, FS_EmptySet DEF Init, Counted
<1>3. Departures
  BY NamesAssumption DEF Init, Departures, Leaving, ClosedLate, Reusable, Overtaking, Known
<1>4. Survival /\ Filling
  BY DEF Init, Survival, Filling
<1>5. Exact
  <2>1. \A b \in Blocks : ~Elsewhere(b) /\ \A s \in Streamers : mine[s] # b
    BY NamesAssumption DEF Init, Elsewhere
  <2> QED
    BY <1>1, <2>1, Unheld DEF Init, Exact
<1> QED
  BY <1>1, <1>2, <1>3, <1>4, <1>5 DEF HubInv

LEMMA HubStep == HubInv /\ [Next]_vars => HubInv'
<1> SUFFICES ASSUME HubInv, [Next]_vars PROVE HubInv'
  OBVIOUS
<1>1. Typed'
  BY TypedStep DEF HubInv
<1>2. Counted' /\ Departures' /\ Survival'
  BY CountedStep, DeparturesStep, SurvivalStep DEF HubInv
<1>3. Alive' => Filling' /\ Exact'
  BY <1>1, ExactStep DEF HubInv
<1> QED
  BY <1>1, <1>2, <1>3 DEF HubInv

\* The state of the broadcast stays in its types: the pipes and the channels within
\* their capacities, the number of connections between zero and the clients there
\* are.
THEOREM HubTyped == Spec => []TypeOK
<1>1. HubInv => TypeOK
  BY CountedTyped DEF HubInv
<1> QED
  BY HubInit, HubStep, <1>1, PTL DEF Spec

\* The reference count of every block is exact while the core runs (api.go:1163-1174,
\* api.go:882-891, game.go:681-692): a block in the pool is used by nobody, so no
\* line is overwritten while a handler writes it, and the last user of a block
\* returns it.
THEOREM ReferencesExact == Spec => []RefExact
<1>1. HubInv => RefExact
  BY DEF HubInv, RefExact, Exact
<1> QED
  BY HubInit, HubStep, <1>1, PTL DEF Spec

\* A line is not overwritten while anybody still has to send it: the block a streamer
\* fills (game.go:681-686) is in no pipe, no channel, not with the hub, not in the
\* hand of a handler that writes it (api.go:882), and no other streamer fills it.
THEOREM LinesAreStable ==
    Spec => [](Alive => \A s \in Streamers : mine[s] # NoBlock => Exclusive(s, mine[s]))
<1>1. HubInv => (Alive => \A s \in Streamers : mine[s] # NoBlock => Exclusive(s, mine[s]))
  BY DEF HubInv, Filling
<1> QED
  BY HubInit, HubStep, <1>1, PTL DEF Spec

\* The hub panics on a closed channel only if it took the departure of a handler
\* before its subscription (api.go:1156-1161): there is no other way.
THEOREM HubPanicsOnlyOvertaken == Spec => []HubSurvives
<1>1. HubInv => HubSurvives
  BY DEF HubInv, Survival, HubSurvives, Alive
<1> QED
  BY HubInit, HubStep, <1>1, PTL DEF Spec

=============================================================================
