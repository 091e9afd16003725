---------------------------- MODULE StreamProofs ----------------------------
(***************************************************************************)
(* The two streams of events of the API, for any number of clients: the    *)
(* ring of snapshots protects the readers of /api/status and /api/events   *)
(* and loses no wake-up, whatever its depth, and the epoch stream never    *)
(* goes back, over any connections.                                        *)
(***************************************************************************)
EXTENDS StatusRing, EpochLink, TLAPS

-----------------------------------------------------------------------------
(* The slots of the ring                                                   *)

LEMMA Remainder ==
    ASSUME NEW D \in Nat \ {0}, NEW a \in Nat
    PROVE  /\ a % D \in 0 .. D - 1
           /\ a \div D \in Int
           /\ a = D * (a \div D) + (a % D)
<1>1. a % D \in 0 .. D - 1 /\ a \div D \in Int
  OBVIOUS
<1>2. a = D * (a \div D) + (a % D)
  OBVIOUS
<1> QED
  BY <1>1, <1>2

LEMMA Multiple ==
    ASSUME NEW D \in Nat \ {0}, NEW k \in Int, D * k > 0
    PROVE  D * k >= D
OBVIOUS

LEMMA Distribution ==
    ASSUME NEW d \in Int, NEW p \in Int, NEW q \in Int
    PROVE  d * (p - q) = d * p - d * q
OBVIOUS

\* Numbers of one remainder are a whole multiple of the divisor apart.
LEMMA Apart ==
    ASSUME NEW D \in Nat \ {0}, NEW a \in Nat, NEW b \in Nat, a < b, b < a + D
    PROVE  a % D # b % D
<1> SUFFICES ASSUME a % D = b % D PROVE FALSE
  OBVIOUS
<1> DEFINE k == (b \div D) - (a \div D)
<1>1. k \in Int /\ D * k = b - a
  <2>1. a \div D \in Int /\ a % D \in Int /\ a = D * (a \div D) + (a % D)
    BY Remainder
  <2>2. b \div D \in Int /\ b % D \in Int /\ b = D * (b \div D) + (b % D)
    BY Remainder
  <2>3. D * k = D * (b \div D) - D * (a \div D)
    BY <2>1, <2>2, Distribution
  <2> QED
    BY <2>1, <2>2, <2>3
<1>2. D * k >= D
  <2> HIDE DEF k
  <2> QED
    BY <1>1, Multiple
<1> QED
  BY <1>1, <1>2

\* Two of any Depth consecutive snapshots never share a slot.
LEMMA SlotsDiffer ==
    ASSUME NEW m \in Nat \ {0}, NEW n \in Nat \ {0}, m < n, n < m + Depth
    PROVE  Slot(m) # Slot(n)
<1>1. m - 1 \in Nat /\ n - 1 \in Nat /\ m - 1 < n - 1 /\ n - 1 < (m - 1) + Depth
  BY DepthAssumption
<1> QED
  BY <1>1, Apart, DepthAssumption DEF Slot

LEMMA SlotType == ASSUME NEW n \in Nat \ {0} PROVE Slot(n) \in 0 .. Depth - 1
<1>1. n - 1 \in Nat
  OBVIOUS
<1> QED
  BY <1>1, Remainder, DepthAssumption DEF Slot

-----------------------------------------------------------------------------
(* The ring: the invariant                                                 *)

\* What the slots hold: the last Depth snapshots, the one being rendered
\* excepted.
Kept == \A n \in Nat \ {0} :
    n <= cursor /\ cursor < n + Depth /\ (n # cursor \/ ppc # "render") => slot[Slot(n)] = n

\* The published snapshot is the newest, or the one before while the newest is
\* made.
Newest == live = IF ppc \in {"rest", "notify"} THEN cursor ELSE cursor - 1

\* How far the cursor may have gone beyond the snapshot a reader is writing.
Reading == \A r \in Readers :
    rpc[r] = "write" => /\ got[r] <= live
                        /\ since[r] < Depth => cursor <= got[r] + 1 + since[r]

RingInv == TypeOK /\ Kept /\ Newest /\ Reading

LEMMA RingInit == Init => RingInv
BY DepthAssumption DEF Init, RingInv, TypeOK, Kept, Newest, Reading, None, Readers

LEMMA RingProbe == RingInv /\ Probe => RingInv'
<1> SUFFICES ASSUME RingInv, Probe PROVE RingInv'
  OBVIOUS
<1> USE DEF RingInv, TypeOK
<1>1. CASE Begin
  <2>1. ppc = "rest" /\ ppc' = "render" /\ cursor' = cursor + 1 /\ live' = live
    BY <1>1 DEF Begin
  <2>2. slot' = [slot EXCEPT ![Slot(cursor + 1)] = Torn]
    BY <1>1 DEF Begin
  <2>3. TypeOK'
    <3>1. slot' \in [0 .. Depth - 1 -> Int]
      <4>1. Torn \in Int /\ slot \in [0 .. Depth - 1 -> Int]
        BY DEF Torn
      <4> QED
        BY <2>2, <4>1
    <3>2. since' \in [Readers -> 0 .. Depth]
      BY <1>1, DepthAssumption DEF Begin
    <3> QED
      BY <1>1, <3>1, <3>2 DEF Begin
  <2>4. Kept'
    <3> SUFFICES ASSUME NEW n \in Nat \ {0}, n < cursor + 1, cursor + 1 < n + Depth
                 PROVE  slot'[Slot(n)] = n
      BY <2>1 DEF Kept
    <3>1. slot[Slot(n)] = n
      BY <2>1, DepthAssumption DEF Kept
    <3>2. Slot(n) # Slot(cursor + 1)
      BY SlotsDiffer
    <3> QED
      BY <2>2, <3>1, <3>2, SlotType
  <2>5. Newest'
    BY <2>1 DEF Newest
  <2>6. Reading'
    BY <1>1, DepthAssumption DEF Begin, Reading
  <2> QED
    BY <2>3, <2>4, <2>5, <2>6
<1>2. CASE Render
  <2>1. ppc = "render" /\ ppc' = "publish" /\ UNCHANGED <<cursor, live, got, since, rpc>>
    BY <1>2 DEF Render
  <2>2. slot' = [slot EXCEPT ![Slot(cursor)] = cursor]
    BY <1>2 DEF Render
  <2>3. cursor \in Nat \ {0}
    BY <2>1 DEF Newest
  <2>4. TypeOK'
    BY <1>2, <2>3, SlotType DEF Render
  <2>5. Kept'
    <3> SUFFICES ASSUME NEW n \in Nat \ {0}, n <= cursor, cursor < n + Depth
                 PROVE  slot'[Slot(n)] = n
      BY <2>1 DEF Kept
    <3>1. CASE n = cursor
      BY <2>2, <2>3, <3>1, SlotType
    <3>2. CASE n # cursor
      <4>1. slot[Slot(n)] = n
        BY <3>2 DEF Kept
      <4>2. Slot(n) # Slot(cursor)
        BY <2>3, <3>2, SlotsDiffer
      <4> QED
        BY <2>2, <4>1, <4>2, SlotType
    <3> QED
      BY <3>1, <3>2
  <2>6. Newest' /\ Reading'
    BY <2>1 DEF Newest, Reading
  <2> QED
    BY <2>4, <2>5, <2>6
<1>3. CASE Publish
  <2>1. TypeOK'
    BY <1>3 DEF Publish
  <2>2. Kept' /\ Newest' /\ Reading'
    BY <1>3 DEF Publish, Kept, Newest, Reading
  <2> QED
    BY <2>1, <2>2
<1>4. CASE Notify \/ Rest
  <2>1. TypeOK'
    BY <1>4 DEF Notify, Rest
  <2>2. Kept' /\ Newest' /\ Reading'
    BY <1>4 DEF Notify, Rest, Kept, Newest, Reading
  <2> QED
    BY <2>1, <2>2
<1> QED
  BY <1>1, <1>2, <1>3, <1>4 DEF Probe

LEMMA RingReaders ==
    ASSUME RingInv,
           \/ \E w \in Watchers : Register(w) \/ HangUp(w) \/ Watcher(w)
           \/ \E p \in Pollers : Poll(p) \/ Load(p) \/ Written(p)
    PROVE  RingInv'
<1> USE DEF RingInv, TypeOK, Readers, Goes, probeVars
<1>1. ASSUME NEW r \in Readers, Load(r) PROVE RingInv'
  <2>1. TypeOK'
    <3>1. 0 \in 0 .. Depth
      BY DepthAssumption
    <3> QED
      BY <1>1, <3>1 DEF Load
  <2>2. Kept' /\ Newest'
    BY <1>1 DEF Load, Kept, Newest
  <2>3. Reading'
    BY <1>1 DEF Load, Reading, Newest
  <2> QED
    BY <2>1, <2>2, <2>3
<1>2. ASSUME NEW r \in Readers, Written(r) PROVE RingInv'
  <2>1. TypeOK'
    BY <1>2 DEF Written
  <2>2. Kept' /\ Newest' /\ Reading'
    BY <1>2 DEF Written, Kept, Newest, Reading
  <2> QED
    BY <2>1, <2>2
<1>3. ASSUME NEW r \in Readers, Poll(r) PROVE RingInv'
  <2>1. TypeOK'
    BY <1>3 DEF Poll
  <2>2. Kept' /\ Newest' /\ Reading'
    BY <1>3 DEF Poll, Kept, Newest, Reading
  <2> QED
    BY <2>1, <2>2
<1>4. ASSUME NEW w \in Watchers, Register(w) \/ HangUp(w) \/ Wake(w) PROVE RingInv'
  <2>1. TypeOK'
    BY <1>4 DEF Register, HangUp, Wake
  <2>2. /\ UNCHANGED <<cursor, slot, live, ppc, got, since>>
        /\ \A r \in Readers : rpc'[r] = "write" => rpc[r] = "write"
    BY <1>4 DEF Register, HangUp, Wake
  <2>3. Kept' /\ Newest'
    BY <2>2 DEF Kept, Newest
  <2>4. Reading'
    BY <2>2 DEF Reading
  <2> QED
    BY <2>1, <2>3, <2>4
<1> HIDE DEF RingInv, TypeOK, Goes, probeVars
<1> QED
  BY <1>1, <1>2, <1>3, <1>4 DEF Watcher

LEMMA RingStep == RingInv /\ [Next]_vars => RingInv'
<1>1. RingInv /\ UNCHANGED vars => RingInv'
  BY DEF RingInv, TypeOK, Kept, Newest, Reading, vars, probeVars
<1> QED
  BY <1>1, RingProbe, RingReaders DEF Next

LEMMA RingInvariant == Spec => []RingInv
BY RingInit, RingStep, PTL DEF Spec

\* Every state of the ring is well typed, whatever its depth.
THEOREM RingTypes == Spec => []TypeOK
<1>1. RingInv => TypeOK
  BY DEF RingInv
<1> QED
  BY <1>1, RingInvariant, PTL

\* A reader that takes less time than Depth - 1 snapshots reads what was
\* published: the lock-free readers of api.go:154-161 and 197-204 need nothing
\* but the depth of the ring.
THEOREM SlotsAreStable == Spec => []SlotStable
<1>1. RingInv => SlotStable
  <2> SUFFICES ASSUME RingInv, NEW r \in Readers, rpc[r] = "write", since[r] < Depth - 1,
                      got[r] # None
               PROVE  slot[Slot(got[r])] = got[r]
    BY DEF SlotStable
  <2>1. got[r] \in Nat \ {0} /\ got[r] <= live /\ cursor \in Nat /\ since[r] \in Nat
    BY DepthAssumption DEF RingInv, TypeOK, Reading, None
  <2>2. cursor <= got[r] + 1 + since[r]
    BY <2>1, DepthAssumption DEF RingInv, Reading
  <2>3. got[r] <= cursor /\ (got[r] # cursor \/ ppc # "render")
    BY <2>1 DEF RingInv, TypeOK, Newest
  <2> QED
    BY <2>1, <2>2, <2>3, DepthAssumption DEF RingInv, Kept
<1> QED
  BY <1>1, RingInvariant, PTL

-----------------------------------------------------------------------------
(* The ring: wake-ups                                                      *)

\* The probe has still to wake a watcher.
Listed(w) == ppc = "notify" /\ w \in todo

\* What a watcher without a token has sent, or is sending, is what is published,
\* or was when it connected, or the probe has still to wake it.  One that is about to load needs nothing.
Owed == \A w \in Watchers :
    /\ rpc[w] = "off" <=> w \notin observers
    /\ ~token[w] /\ rpc[w] = "wait" => live \in {sent[w], joined[w]} \/ Listed(w)
    /\ ~token[w] /\ rpc[w] = "write" => got[w] = live \/ Listed(w)

LEMMA WakeInit == Init => Owed
BY DEF Init, Owed, Readers

LEMMA WakeProbe == TypeOK /\ Owed /\ Probe => Owed'
<1> SUFFICES ASSUME TypeOK, Owed, Probe, NEW w \in Watchers
             PROVE  /\ rpc'[w] = "off" <=> w \notin observers'
                    /\ ~token'[w] /\ rpc'[w] = "wait" => live' \in {sent'[w], joined'[w]} \/ Listed(w)'
                    /\ ~token'[w] /\ rpc'[w] = "write" => got'[w] = live' \/ Listed(w)'
  BY DEF Owed
<1>1. CASE Begin \/ Render
  BY <1>1 DEF Begin, Render, Owed, Listed
<1>2. CASE Publish
  BY <1>2 DEF Publish, Owed, Listed
<1>3. CASE Notify
  <2>1. PICK v \in todo : todo' = todo \ {v}
                          /\ token' = [token EXCEPT ![v] = v \in observers \/ @]
    BY <1>3 DEF Notify
  <2>2. ppc' = ppc /\ UNCHANGED <<live, observers, rpc, got, sent, joined>>
    BY <1>3 DEF Notify
  <2>3. CASE w = v
    <3>1. w \in observers => token'[w]
      BY <2>1, <2>3 DEF TypeOK
    <3> QED
      BY <2>2, <3>1 DEF Owed
  <2>4. CASE w # v
    <3>1. token'[w] = token[w] /\ (w \in todo => w \in todo')
      BY <2>1, <2>4 DEF TypeOK
    <3> QED
      BY <2>2, <3>1 DEF Owed, Listed
  <2> QED
    BY <2>3, <2>4
<1>4. CASE Rest
  BY <1>4 DEF Rest, Owed, Listed
<1> QED
  BY <1>1, <1>2, <1>3, <1>4 DEF Probe

LEMMA WakeReaders ==
    ASSUME TypeOK, Owed,
           \/ \E w \in Watchers : Register(w) \/ HangUp(w) \/ Watcher(w)
           \/ \E p \in Pollers : Poll(p) \/ Load(p) \/ Written(p)
    PROVE  Owed'
<1> USE ReadersAssumption DEF Readers, Goes, probeVars
<1>1. ASSUME NEW w \in Watchers, Register(w) \/ HangUp(w) PROVE Owed'
  BY <1>1 DEF Register, HangUp, Owed, Listed, TypeOK
<1>2. ASSUME NEW w \in Watchers, Wake(w) PROVE Owed'
  BY <1>2 DEF Wake, Owed, Listed, TypeOK
<1>3. ASSUME NEW r \in Readers, Load(r) PROVE Owed'
  BY <1>3 DEF Load, Owed, Listed, TypeOK
<1>4. ASSUME NEW r \in Readers, Written(r) PROVE Owed'
  BY <1>4 DEF Written, Owed, Listed, TypeOK
<1>5. ASSUME NEW p \in Pollers, Poll(p) PROVE Owed'
  BY <1>5 DEF Poll, Owed, Listed, TypeOK
<1> QED
  BY <1>1, <1>2, <1>3, <1>4, <1>5 DEF Watcher, Owed

LEMMA WakeStep == TypeOK /\ Owed /\ [Next]_vars => Owed'
<1>1. Owed /\ UNCHANGED vars => Owed'
  BY DEF Owed, Listed, vars, probeVars
<1> QED
  BY <1>1, WakeProbe, WakeReaders DEF Next

\* When the probe rests, a watcher that waits without a token has sent what is
\* published: a wake-up that finds its channel full (api_status.go:143-149), or
\* that comes in while the handler writes (api.go:196-204), is not lost.
THEOREM NothingIsMissed == Spec => []NothingMissed
<1>1. Owed => NothingMissed
  BY DEF Owed, Listed, NothingMissed
<1>2. Spec => []Owed
  BY RingTypes, WakeInit, WakeStep, PTL DEF Spec
<1> QED
  BY <1>1, <1>2, PTL

-----------------------------------------------------------------------------
(* The ring: order                                                         *)

\* What a watcher has sent is no newer than what it is sending, nor that than what
\* is published.
SentInOrder == \A w \in Watchers :
    /\ sent[w] <= live
    /\ rpc[w] = "write" => sent[w] <= got[w] /\ got[w] <= live

LEMMA SentStart == Init => SentInOrder
BY DEF Init, SentInOrder, None, Readers

LEMMA SentStep ==
    ASSUME RingInv, SentInOrder, [Next]_vars
    PROVE  SentInOrder' /\ \A w \in Watchers : sent'[w] >= sent[w]
<1>0. /\ \A w \in Watchers : w \in Readers /\ sent[w] \in Nat /\ got[w] \in Nat
      /\ live \in Nat /\ cursor \in Nat /\ rpc \in [Readers -> {"off", "wait", "load", "write"}]
      /\ got \in [Readers -> Nat] /\ sent \in [Watchers -> Nat]
  BY DEF RingInv, TypeOK, Readers
<1>1. CASE Probe \/ UNCHANGED vars
  <2>1. live' = live \/ live' = cursor
    BY <1>1 DEF Probe, Begin, Render, Publish, Notify, Rest, vars, probeVars
  <2>2. live <= cursor
    BY <1>0 DEF RingInv, Newest
  <2>3. UNCHANGED <<rpc, got, sent>>
    BY <1>1 DEF Probe, Begin, Render, Publish, Notify, Rest, vars
  <2> QED
    BY <1>0, <2>1, <2>2, <2>3 DEF SentInOrder
<1>2. ASSUME NEW r \in Readers, Load(r) \/ Poll(r)
      PROVE  SentInOrder' /\ \A w \in Watchers : sent'[w] >= sent[w]
  BY <1>0, <1>2 DEF Load, Poll, Goes, probeVars, SentInOrder
<1>3. ASSUME NEW r \in Readers, Written(r)
      PROVE  SentInOrder' /\ \A w \in Watchers : sent'[w] >= sent[w]
  <2>1. /\ rpc[r] = "write" /\ rpc' = [rpc EXCEPT ![r] = IF r \in Watchers THEN "wait" ELSE "off"]
        /\ \A w \in Watchers : sent'[w] = IF w = r THEN got[r] ELSE sent[w]
        /\ UNCHANGED <<live, got>>
    BY <1>3 DEF Written, Goes, probeVars
  <2>2. \A w \in Watchers : rpc'[w] = "write" => rpc[w] = "write" /\ w # r
    BY <1>0, <2>1
  <2> QED
    BY <1>0, <2>1, <2>2 DEF SentInOrder
<1>4. ASSUME NEW w \in Watchers, Register(w) \/ HangUp(w) \/ Wake(w)
      PROVE  SentInOrder' /\ \A v \in Watchers : sent'[v] >= sent[v]
  <2>1. \A v \in Watchers : sent'[v] = sent[v]
    BY <1>0, <1>4 DEF Register, HangUp, Wake
  <2>2. \A v \in Watchers : rpc'[v] = "write" => rpc[v] = "write" /\ sent'[v] = sent[v]
    BY <1>0, <1>4 DEF Register, HangUp, Wake, Goes
  <2>3. UNCHANGED <<live, got>>
    BY <1>4 DEF Register, HangUp, Wake, probeVars
  <2> QED
    BY <1>0, <2>1, <2>2, <2>3 DEF SentInOrder
<1> QED
  BY <1>0, <1>1, <1>2, <1>3, <1>4 DEF Next, Watcher, Readers

\* A watcher is never sent an older snapshot after a newer one, whatever it misses
\* while it writes or is away (api.go:182-206).
THEOREM WatchersNeverGoBack == Spec => [][\A w \in Watchers : sent'[w] >= sent[w]]_vars
<1>1. RingInv /\ SentInOrder /\ [Next]_vars => SentInOrder'
  BY SentStep
<1>2. RingInv /\ SentInOrder /\ [Next]_vars => [\A w \in Watchers : sent'[w] >= sent[w]]_vars
  BY SentStep
<1> QED
  BY <1>1, <1>2, SentStart, RingInvariant, PTL DEF Spec

-----------------------------------------------------------------------------
(* The epoch stream: sequences                                             *)

\* From a over the elements of a sequence to b it never goes down.
Ladder(a, s, b) ==
    /\ a <= b
    /\ \A i \in 1 .. Len(s) : a <= s[i] /\ s[i] <= b
    /\ \A i, j \in 1 .. Len(s) : i <= j => s[i] <= s[j]

LEMMA LadderGrows ==
    ASSUME NEW a \in Nat, NEW b \in Nat, NEW s \in Seq(Nat), Ladder(a, s, b)
    PROVE  Append(s, b) \in Seq(Nat) /\ Ladder(a, Append(s, b), b)
<1>1. Append(s, b) \in Seq(Nat) /\ Len(Append(s, b)) = Len(s) + 1 /\ Len(s) \in Nat
  OBVIOUS
<1>2. Append(s, b)[Len(s) + 1] = b /\ \A i \in 1 .. Len(s) : Append(s, b)[i] = s[i] /\ s[i] \in Nat
  OBVIOUS
<1> QED
  BY <1>1, <1>2 DEF Ladder

LEMMA LadderShrinks ==
    ASSUME NEW a \in Nat, NEW b \in Nat, NEW s \in Seq(Nat), Ladder(a, s, b), s # <<>>
    PROVE  /\ Tail(s) \in Seq(Nat) /\ Head(s) \in Nat
           /\ a <= Head(s)
           /\ Ladder(Head(s), Tail(s), b)
<1>1. Tail(s) \in Seq(Nat) /\ Len(Tail(s)) = Len(s) - 1 /\ Len(s) \in Nat /\ Len(s) # 0
  OBVIOUS
<1>2. Head(s) = s[1] /\ \A i \in 1 .. Len(Tail(s)) : Tail(s)[i] = s[i + 1]
  OBVIOUS
<1> QED
  BY <1>1, <1>2 DEF Ladder

LEMMA LadderRises ==
    ASSUME NEW a \in Nat, NEW b \in Nat, NEW c \in Nat, NEW s \in Seq(Nat), Ladder(a, s, b), b <= c
    PROVE  Ladder(a, s, c)
<1>1. \A i \in 1 .. Len(s) : s[i] \in Nat
  OBVIOUS
<1> QED
  BY <1>1 DEF Ladder

LEMMA LadderEmpty == ASSUME NEW a \in Nat, NEW b \in Nat, a <= b PROVE <<>> \in Seq(Nat) /\ Ladder(a, <<>>, b)
BY DEF Ladder

-----------------------------------------------------------------------------
(* The epoch stream: the invariant                                         *)

EpochTypes ==
    /\ stores \in Nat
    /\ sends \subseteq [to : Clients, n : Nat] /\ watched \subseteq Clients
    /\ chan \in [Clients -> Seq(Nat)]
    /\ hand \in [Clients -> {"off", "select", "write"}]
    /\ cur \in [Clients -> Nat]
    /\ net \in [Clients -> Seq(Nat)]
    /\ shown \in [Listeners -> Nat]

\* All that one beat still has to offer is one number: beats do not overlap.
OneBeat == \A s, t \in sends : s.n = t.n

\* On its way to a reader a number passes through the beat, the handler's
\* channel, the handler and the connection, and at every place there are only
\* numbers that are no smaller than those ahead of them.
NetOrder(r) == Ladder(shown[r], net[r], stores)

HandOrder(r) == hand[r] = "write" => Ladder(shown[r], net[r], cur[r]) /\ cur[r] <= stores

ChanOrder(r) ==
    chan[r] # <<>> => /\ Ladder(shown[r], net[r], Head(chan[r])) /\ Head(chan[r]) <= stores
                      /\ hand[r] = "write" => cur[r] <= Head(chan[r])

BeatOrder(r) ==
    \A s \in sends : s.to = r => /\ Ladder(shown[r], net[r], s.n) /\ s.n <= stores
                                 /\ hand[r] = "write" => cur[r] <= s.n
                                 /\ chan[r] # <<>> => Head(chan[r]) <= s.n

InOrder(r) == NetOrder(r) /\ HandOrder(r) /\ ChanOrder(r) /\ BeatOrder(r)

EpochInv == EpochTypes /\ OneBeat /\ \A r \in Listeners : InOrder(r)

LEMMA EpochInit == LinkInit => EpochInv
<1> SUFFICES ASSUME LinkInit PROVE EpochInv
  OBVIOUS
<1>1. EpochTypes /\ OneBeat
  BY EpochAssumption DEF LinkInit, EpochTypes, OneBeat
<1>2. ASSUME NEW r \in Listeners PROVE InOrder(r)
  <2>1. shown[r] = 0 /\ net[r] = <<>> /\ stores = 0 /\ hand[r] = "off" /\ chan[r] = <<>> /\ sends = {}
    BY DEF LinkInit, Clients
  <2>2. Ladder(0, <<>>, 0)
    BY LadderEmpty
  <2> QED
    BY <2>1, <2>2 DEF InOrder, NetOrder, HandOrder, ChanOrder, BeatOrder
<1> QED
  BY <1>1, <1>2 DEF EpochInv

LEMMA EpochTypesStep == EpochTypes /\ [LinkNext]_linkVars => EpochTypes'
<1> SUFFICES ASSUME EpochTypes, [LinkNext]_linkVars PROVE EpochTypes'
  OBVIOUS
<1> USE DEF EpochTypes, serverVars, netVars, sensorVars, Clients
<1>1. CASE UNCHANGED linkVars \/ Store \/ StartLife
  BY <1>1 DEF linkVars, Store, StartLife
<1>2. CASE Beat
  <2>1. \A s \in sends' : s \in [to : Clients, n : Nat]
    <3>1. sends' = {[to |-> c, n |-> stores] : c \in watched} /\ watched \subseteq Clients
      BY <1>2 DEF Beat
    <3> QED
      BY <3>1
  <2> QED
    BY <1>2, <2>1 DEF Beat
<1>3. CASE Offer
  BY <1>3 DEF Offer
<1>4. CASE EndLife
  <2>1. <<>> \in Seq(Nat) /\ net' = [net EXCEPT ![life] = <<>>]
    BY <1>4 DEF EndLife, Hangup
  <2>2. net' \in [Clients -> Seq(Nat)]
    BY <2>1
  <2> QED
    BY <1>4, <2>2 DEF EndLife
<1>5. ASSUME NEW c \in Clients, Handler(c) \/ Cut(c) PROVE EpochTypes'
  <2>1. CASE Take(c)
    <3>1. chan[c] \in Seq(Nat) /\ chan[c] # <<>>
      BY <2>1 DEF Take
    <3>2. Head(chan[c]) \in Nat
      BY <3>1
    <3> QED
      BY <2>1, <3>2 DEF Take
  <2>2. CASE Write(c)
    <3>1. Append(net[c], cur[c]) \in Seq(Nat)
      OBVIOUS
    <3> QED
      BY <2>2, <3>1 DEF Write
  <2>3. CASE Leave(c)
    BY <2>3 DEF Leave
  <2>4. CASE Cut(c)
    BY <2>4 DEF Cut, Hangup
  <2> QED
    BY <1>5, <2>1, <2>2, <2>3, <2>4 DEF Handler
<1>6. ASSUME NEW r \in Listeners, Connect(r) \/ Read(r) PROVE EpochTypes'
  <2>1. CASE Connect(r)
    BY <2>1 DEF Connect, Serve
  <2>2. CASE Read(r)
    <3>1. net[r] \in Seq(Nat) /\ net[r] # <<>>
      BY <2>2 DEF Read
    <3>2. Head(net[r]) \in Nat /\ Tail(net[r]) \in Seq(Nat)
      BY <3>1
    <3> QED
      BY <2>2, <3>2 DEF Read
  <2> QED
    BY <1>6, <2>1, <2>2
<1>7. ASSUME NEW l \in Lives, Sensor(l) PROVE EpochTypes'
  <2>1. CASE Dial(l)
    <3>1. l \in Clients /\ <<>> \in Seq(Nat)
      OBVIOUS
    <3> QED
      BY <2>1, <3>1 DEF Dial, Serve
  <2>2. CASE Arm(l) \/ GiveUp(l)
    BY <2>2 DEF Arm, GiveUp
  <2> QED
    BY <1>7, <2>1, <2>2 DEF Sensor
<1> QED
  BY <1>1, <1>2, <1>3, <1>4, <1>5, <1>6, <1>7 DEF LinkNext

LEMMA OneBeatStep == OneBeat /\ [LinkNext]_linkVars => OneBeat'
<1> SUFFICES ASSUME OneBeat, [LinkNext]_linkVars PROVE OneBeat'
  OBVIOUS
<1>1. CASE Beat
  BY <1>1 DEF Beat, OneBeat
<1>2. CASE ~Beat
  <2>1. sends' \subseteq sends
    BY <1>2 DEF LinkNext, linkVars, serverVars, Store, Offer, StartLife, EndLife, Handler, Take, Write, Leave,
                Cut, Connect, Read, Sensor, Arm, Dial, GiveUp
  <2> QED
    BY <2>1 DEF OneBeat
<1> QED
  BY <1>1, <1>2

-----------------------------------------------------------------------------
(* The epoch stream: the steps that touch a reader                         *)

\* Whatever leaves a reader's places alone but may let the stamp grow, drop
\* offers or lose what is on its way keeps the order.
LEMMA OrderLoses ==
    ASSUME NEW r \in Listeners, EpochTypes, EpochTypes', InOrder(r),
           stores' >= stores, sends' \subseteq sends,
           chan'[r] = chan[r] \/ chan'[r] = <<>>,
           hand'[r] = hand[r] \/ hand'[r] # "write",
           cur'[r] = cur[r] \/ hand'[r] # "write",
           shown'[r] = shown[r],
           net'[r] = net[r] \/ net'[r] = <<>>
    PROVE  InOrder(r)'
<1>1. r \in Clients /\ stores \in Nat /\ stores' \in Nat /\ shown[r] \in Nat /\ cur[r] \in Nat
      /\ net[r] \in Seq(Nat) /\ \A s \in sends : s.n \in Nat
  BY DEF EpochTypes, Clients
<1>2. chan[r] # <<>> => Head(chan[r]) \in Nat
  <2>1. chan[r] \in Seq(Nat)
    BY <1>1 DEF EpochTypes
  <2> QED
    BY <2>1
<1>3. ASSUME NEW b \in Nat, Ladder(shown[r], net[r], b) PROVE Ladder(shown'[r], net'[r], b)
  <2>1. shown[r] <= b
    BY <1>3 DEF Ladder
  <2> QED
    BY <1>1, <1>3, <2>1, LadderEmpty
<1>4. NetOrder(r)'
  <2>1. Ladder(shown[r], net[r], stores')
    BY <1>1, LadderRises DEF InOrder, NetOrder
  <2> QED
    BY <1>1, <1>3, <2>1 DEF NetOrder
<1>5. HandOrder(r)'
  BY <1>1, <1>3 DEF InOrder, HandOrder
<1>6. ChanOrder(r)'
  BY <1>1, <1>2, <1>3 DEF InOrder, ChanOrder
<1>7. BeatOrder(r)'
  BY <1>1, <1>2, <1>3 DEF InOrder, BeatOrder
<1> QED
  BY <1>4, <1>5, <1>6, <1>7 DEF InOrder

LEMMA OrderBeat ==
    ASSUME NEW r \in Listeners, EpochTypes, InOrder(r), Beat
    PROVE  InOrder(r)'
<1>1. UNCHANGED <<stores, chan, hand, cur, net, shown>> /\ \A s \in sends' : s.n = stores
  BY DEF Beat, netVars
<1>2. stores \in Nat
  BY DEF EpochTypes
<1> QED
  BY <1>1, <1>2 DEF InOrder, NetOrder, HandOrder, ChanOrder, BeatOrder

LEMMA OrderOffer ==
    ASSUME NEW r \in Listeners, EpochTypes, OneBeat, InOrder(r), Offer
    PROVE  InOrder(r)'
<1>1. PICK s \in sends :
          /\ sends' = sends \ {s}
          /\ chan' = IF s.to \in watched /\ chan[s.to] = <<>>
                     THEN [chan EXCEPT ![s.to] = <<s.n>>] ELSE chan
  BY DEF Offer
<1>2. UNCHANGED <<stores, hand, cur, net, shown>>
  BY DEF Offer, netVars
<1>3. CASE chan'[r] = chan[r]
  BY <1>1, <1>2, <1>3 DEF InOrder, NetOrder, HandOrder, ChanOrder, BeatOrder
<1>4. CASE chan'[r] # chan[r]
  <2>1. s.to = r /\ chan'[r] = <<s.n>> /\ s.n \in Nat
    BY <1>1, <1>4 DEF EpochTypes, Clients
  <2>2. Head(chan'[r]) = s.n
    BY <2>1
  <2>3. \A t \in sends : t.n = s.n
    BY DEF OneBeat
  <2>4. ChanOrder(r)'
    BY <1>2, <2>1, <2>2 DEF InOrder, BeatOrder, ChanOrder
  <2>5. BeatOrder(r)'
    BY <1>1, <1>2, <2>1, <2>2, <2>3 DEF InOrder, BeatOrder
  <2> QED
    BY <1>2, <2>4, <2>5 DEF InOrder, NetOrder, HandOrder
<1> QED
  BY <1>3, <1>4

LEMMA OrderTake ==
    ASSUME NEW r \in Listeners, EpochTypes, InOrder(r), Take(r)
    PROVE  InOrder(r)'
<1>1. r \in Clients
  BY DEF Clients
<1>2. chan[r] # <<>> /\ hand'[r] = "write" /\ cur'[r] = Head(chan[r]) /\ chan'[r] = <<>>
  BY <1>1 DEF Take, EpochTypes
<1>3. UNCHANGED <<stores, sends, net, shown>>
  BY DEF Take, netVars
<1> QED
  BY <1>2, <1>3 DEF InOrder, NetOrder, HandOrder, ChanOrder, BeatOrder

LEMMA OrderWrite ==
    ASSUME NEW r \in Listeners, EpochTypes, InOrder(r), Write(r)
    PROVE  InOrder(r)'
<1>1. r \in Clients /\ shown[r] \in Nat /\ net[r] \in Seq(Nat) /\ cur[r] \in Nat /\ stores \in Nat
      /\ \A s \in sends : s.n \in Nat
  BY DEF EpochTypes, Clients
<1>2. hand[r] = "write" /\ hand'[r] = "select" /\ UNCHANGED <<stores, sends, chan, shown>>
  BY <1>1 DEF Write, EpochTypes
<1>3. net'[r] = net[r] \/ net'[r] = Append(net[r], cur[r])
  BY <1>1 DEF Write, EpochTypes
<1>4. net'[r] \in Seq(Nat) /\ Ladder(shown[r], net'[r], cur[r])
  BY <1>1, <1>2, <1>3, LadderGrows DEF InOrder, HandOrder
<1>5. \A b \in Nat : cur[r] <= b => Ladder(shown[r], net'[r], b)
  BY <1>1, <1>4, LadderRises
<1>6. chan[r] # <<>> => Head(chan[r]) \in Nat
  <2>1. chan[r] \in Seq(Nat)
    BY <1>1 DEF EpochTypes
  <2> QED
    BY <2>1
<1> QED
  BY <1>1, <1>2, <1>5, <1>6 DEF InOrder, NetOrder, HandOrder, ChanOrder, BeatOrder

LEMMA OrderRead ==
    ASSUME NEW r \in Listeners, EpochTypes, InOrder(r), Read(r)
    PROVE  InOrder(r)' /\ shown'[r] >= shown[r]
<1>1. r \in Clients /\ shown[r] \in Nat /\ net[r] \in Seq(Nat) /\ net[r] # <<>> /\ cur[r] \in Nat
      /\ stores \in Nat /\ \A s \in sends : s.n \in Nat
  BY DEF EpochTypes, Clients, Read
<1>2. shown'[r] = Head(net[r]) /\ net'[r] = Tail(net[r])
      /\ UNCHANGED <<stores, sends, chan, hand, cur>>
  BY <1>1 DEF Read, EpochTypes, serverVars
<1>3. ASSUME NEW b \in Nat, Ladder(shown[r], net[r], b)
      PROVE  Ladder(shown'[r], net'[r], b) /\ shown[r] <= shown'[r]
  BY <1>1, <1>2, <1>3, LadderShrinks
<1>4. chan[r] # <<>> => Head(chan[r]) \in Nat
  <2>1. chan[r] \in Seq(Nat)
    BY <1>1 DEF EpochTypes
  <2> QED
    BY <2>1
<1>5. shown'[r] \in Nat
  BY <1>1, <1>2
<1>6. NetOrder(r)' /\ shown'[r] >= shown[r]
  BY <1>1, <1>2, <1>3, <1>5 DEF InOrder, NetOrder
<1>7. HandOrder(r)'
  BY <1>1, <1>2, <1>3 DEF InOrder, HandOrder
<1>8. ChanOrder(r)'
  BY <1>1, <1>2, <1>3, <1>4 DEF InOrder, ChanOrder
<1>9. BeatOrder(r)'
  BY <1>1, <1>2, <1>3, <1>4 DEF InOrder, BeatOrder
<1> QED
  BY <1>6, <1>7, <1>8, <1>9 DEF InOrder

-----------------------------------------------------------------------------
(* The epoch stream: all steps                                             *)

LEMMA OrderStep ==
    ASSUME NEW r \in Listeners, EpochTypes, EpochTypes', OneBeat, InOrder(r), [LinkNext]_linkVars
    PROVE  InOrder(r)' /\ shown'[r] >= shown[r]
<1> USE DEF serverVars, netVars, sensorVars
<1>0. shown[r] \in Nat /\ r \in Clients
  BY DEF EpochTypes, Clients
<1>1. CASE UNCHANGED linkVars \/ Store \/ StartLife \/ EndLife
  <2>1. stores' >= stores /\ UNCHANGED <<sends, chan, hand, cur, shown>>
        /\ (net'[r] = net[r] \/ net'[r] = <<>>)
    BY <1>0, <1>1 DEF linkVars, Store, StartLife, EndLife, Hangup, EpochTypes
  <2> QED
    BY <1>0, <2>1, OrderLoses
<1>2. CASE Beat
  <2>1. shown' = shown
    BY <1>2 DEF Beat
  <2> QED
    BY <1>0, <1>2, <2>1, OrderBeat
<1>3. CASE Offer
  <2>1. shown' = shown
    BY <1>3 DEF Offer
  <2> QED
    BY <1>0, <1>3, <2>1, OrderOffer
<1>4. ASSUME NEW c \in Clients, Handler(c) \/ Cut(c)
      PROVE  InOrder(r)' /\ shown'[r] >= shown[r]
  <2>1. CASE Take(c) /\ c = r
    <3>1. shown' = shown
      BY <2>1 DEF Take
    <3> QED
      BY <1>0, <2>1, <3>1, OrderTake
  <2>2. CASE Write(c) /\ c = r
    <3>1. shown' = shown
      BY <2>2 DEF Write
    <3> QED
      BY <1>0, <2>2, <3>1, OrderWrite
  <2>3. CASE Leave(c) \/ Cut(c) \/ (c # r /\ (Take(c) \/ Write(c)))
    <3>1. UNCHANGED <<stores, sends, shown>>
      BY <2>3 DEF Leave, Cut, Take, Write
    <3>2. (chan'[r] = chan[r] \/ chan'[r] = <<>>) /\ (hand'[r] = hand[r] \/ hand'[r] # "write")
          /\ (cur'[r] = cur[r] \/ hand'[r] # "write") /\ (net'[r] = net[r] \/ net'[r] = <<>>)
      BY <1>0, <2>3 DEF Leave, Cut, Hangup, Take, Write, EpochTypes
    <3>3. stores' >= stores
      BY <3>1 DEF EpochTypes
    <3> QED
      BY <1>0, <3>1, <3>2, <3>3, OrderLoses
  <2> QED
    BY <1>4, <2>1, <2>2, <2>3 DEF Handler
<1>5. ASSUME NEW q \in Listeners, Connect(q) \/ Read(q)
      PROVE  InOrder(r)' /\ shown'[r] >= shown[r]
  <2>1. CASE Read(q) /\ q = r
    BY <2>1, OrderRead
  <2>2. CASE Connect(q) \/ (q # r /\ Read(q))
    <3>1. UNCHANGED <<stores, sends, cur>> /\ shown'[r] = shown[r]
      BY <2>2 DEF Connect, Read, EpochTypes
    <3>2. (chan'[r] = chan[r] \/ chan'[r] = <<>>) /\ (hand'[r] = hand[r] \/ hand'[r] # "write")
          /\ (net'[r] = net[r] \/ net'[r] = <<>>)
      BY <1>0, <2>2 DEF Connect, Serve, Read, EpochTypes
    <3>3. stores' >= stores
      BY <3>1 DEF EpochTypes
    <3> QED
      BY <1>0, <3>1, <3>2, <3>3, OrderLoses
  <2> QED
    BY <1>5, <2>1, <2>2
<1>6. ASSUME NEW l \in Lives, Sensor(l)
      PROVE  InOrder(r)' /\ shown'[r] >= shown[r]
  <2>1. UNCHANGED <<stores, sends, cur, shown>>
    BY <1>6 DEF Sensor, Arm, Dial, GiveUp
  <2>2. l # r
    BY EpochAssumption
  <2>3. chan'[r] = chan[r] /\ hand'[r] = hand[r] /\ net'[r] = net[r]
    BY <1>0, <1>6, <2>2 DEF Sensor, Arm, Dial, GiveUp, Serve, EpochTypes
  <2>4. stores' >= stores
    BY <2>1 DEF EpochTypes
  <2> QED
    BY <1>0, <2>1, <2>3, <2>4, OrderLoses
<1> QED
  BY <1>1, <1>2, <1>3, <1>4, <1>5, <1>6 DEF LinkNext

LEMMA EpochStep == EpochInv /\ [LinkNext]_linkVars => EpochInv'
BY EpochTypesStep, OneBeatStep, OrderStep DEF EpochInv

\* No reader is ever shown an earlier start or end of the watched shard than
\* the one it was shown last, whatever is dropped, delayed or cut off
\* (api.go:209-237, 1116-1146).
THEOREM StreamNeverGoesBack == LinkSpec => NeverBack
<1>1. EpochInv /\ [LinkNext]_linkVars => [\A r \in Listeners : shown'[r] >= shown[r]]_linkVars
  BY EpochTypesStep, OrderStep DEF EpochInv
<1> QED
  BY <1>1, EpochInit, EpochStep, PTL DEF LinkSpec, NeverBack

=============================================================================
