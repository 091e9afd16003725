-------------------------- MODULE TelemetryProofs --------------------------
(***************************************************************************)
(* The telemetry of the worlds, whatever a world does within what the game *)
(* may tell the script: what the decoder stores is what the script packed. *)
(***************************************************************************)
EXTENDS Telemetry, SequenceTheorems, TLAPS

-----------------------------------------------------------------------------
(* The invariant                                                           *)

\* A line in the stream of a shard was packed from a state its world was in: the
\* environment by the master only, the bosses under the number of the shard.
EnvLine(state)     == [bytes |-> EnvPacket(state.env), of |-> World(state)]
BossLine(s, state) == [bytes |-> BossPacket(s, World(state).boss), of |-> World(state)]
Lines(s) ==
    {BossLine(s, state) : state \in States}
    \cup (IF s = "master" THEN {EnvLine(state) : state \in States} ELSE {})

Carried ==
    /\ world \in [Shards -> {World(state) : state \in States}]
    /\ DOMAIN out = Shards
    /\ \A s \in Shards : out[s] \in Seq(Lines(s))

\* What the decoder stores of the world w, and of the timer t of a boss, to the
\* last number: more than the properties claim of it.
Says(e, w) ==
    /\ e.cycles = Clamp(w.cycles, 0, 2097151) + 1
    /\ e.players = (IF w.players > 127 THEN 127 ELSE w.players)
    /\ e.season = SeasonCode[w.season]
    /\ e.moon = w.moon
    /\ e.temp = Clamp(w.temp, -8191, 8191)
    /\ e.phase = PhaseCode[w.phase]
    /\ e.rain = w.rain /\ e.snow = w.snow /\ e.awake = w.awake
    /\ e.nightmare = NightmareCode[w.nightmare]
    /\ e.rem = Clamp(w.rem, 0, 127)

Shown(b, t) ==
    CASE t = Unset -> Max32
      [] t = NoTimer -> 127
      [] t = Living -> IF b = "antlion" THEN 127 ELSE 0
      [] OTHER -> IF b = "antlion" THEN Clamp(t \div 60, 0, 126)
                  ELSE Clamp(CeilDiv(t, 480), 0, 126)

EnvExact    == \A w \in envOf : EnvTyped(w) /\ Says(env, w)
BossesExact == \A b \in BossNames : bossOf[b] \in Int /\ boss[b] = Shown(b, bossOf[b])

TelemetryInv == Carried /\ EnvExact /\ BossesExact

-----------------------------------------------------------------------------
(* Arithmetic of the packets                                               *)

Byte == 128 .. 255

LEMMA LowByte ==
    ASSUME NEW x \in 0 .. 127
    PROVE  Low(128 + x) = x /\ 128 + x \in Byte
BY SMT DEF Byte, Low

\* The three groups of seven bits hold any number of days the cap lets through.
LEMMA DayGroups ==
    ASSUME NEW c \in Nat, c < 16384 * 128
    PROVE  \E x, y, z \in Byte :
               /\ DayBytes(c) = <<x, y, z>>
               /\ Low(x) * 16384 + Low(y) * 128 + Low(z) = c
<1> DEFINE g == c \div 16384
           h == (c \div 128) % 128
           l == c % 128
<1>1. g \in 0 .. 127 /\ h \in 0 .. 127 /\ l \in 0 .. 127
  BY SMT
<1>2. g * 16384 + h * 128 + l = c
  <2> DEFINE q == c \div 128
  <2>1. c \div 16384 = q \div 128 /\ q \in Nat
    BY SMT
  <2>2. c - 128 * q = l
    BY SMT
  <2> HIDE DEF q
  <2>3. q - 128 * (q \div 128) = h
    BY <2>1, SMT DEF Byte, q
  <2> HIDE DEF g, h, l
  <2> QED
    BY <1>1, <2>1, <2>2, <2>3, SMT DEF Byte, g
<1>3. DayBytes(c) = <<128 + g, 128 + h, 128 + l>>
  BY SMT DEF Byte, DayBytes
<1> HIDE DEF g, h, l
<1>4. /\ Low(128 + g) = g /\ Low(128 + h) = h /\ Low(128 + l) = l
      /\ 128 + g \in Byte /\ 128 + h \in Byte /\ 128 + l \in Byte
  BY <1>1, LowByte, SMT
<1> DEFINE x == 128 + g
           y == 128 + h
           z == 128 + l
<1>5. x \in Byte /\ y \in Byte /\ z \in Byte /\ DayBytes(c) = <<x, y, z>>
      /\ Low(x) * 16384 + Low(y) * 128 + Low(z) = c
  BY <1>2, <1>3, <1>4, SMT
<1> HIDE DEF x, y, z
<1> QED
  BY <1>5, SMT

\* The sign bit and the thirteen bits of the temperature.
LEMMA TempGroups ==
    ASSUME NEW t \in Int
    PROVE  \E x, y \in Byte :
               /\ TempBytes(t) = <<x, y>>
               /\ ((x % 64) * 128 + Low(y)) * (1 - 2 * ((x \div 64) % 2)) = Clamp(t, -8191, 8191)
<1> DEFINE abs == IF t < 0 THEN -t ELSE t
           mag == IF abs > 8191 THEN 8191 ELSE abs
           g   == Bit(t < 0)
           hi  == 128 + 64 * g + mag \div 128
           lo  == 128 + (mag % 128)
<1>1. mag \in 0 .. 8191 /\ g \in {0, 1}
  BY SMT DEF Bit
<1>2. mag * (1 - 2 * g) = Clamp(t, -8191, 8191)
  BY SMT DEF Bit, Clamp
<1>3. TempBytes(t) = <<hi, lo>>
  BY SMT DEF TempBytes
<1> HIDE DEF mag, g
<1>4. /\ (hi % 64) * 128 + Low(lo) = mag
      /\ (hi \div 64) % 2 = g
      /\ hi \in Byte /\ lo \in Byte
  <2> DEFINE q == mag \div 128
             u == mag % 128
  <2>1. q \in 0 .. 63 /\ u \in 0 .. 127 /\ mag - 128 * q = u
    BY <1>1, SMT
  <2>2. hi = 128 + 64 * g + q /\ lo = 128 + u
    OBVIOUS
  <2> HIDE DEF q, u, hi, lo
  <2>3. hi % 64 = q /\ (hi \div 64) % 2 = g /\ hi \in Byte
    BY <1>1, <2>1, <2>2, SMT DEF Byte
  <2>4. Low(lo) = u /\ lo \in Byte
    BY <2>1, <2>2, LowByte, SMT
  <2> QED
    BY <1>1, <2>1, <2>3, <2>4, SMT
<1> HIDE DEF hi, lo
<1>5. ((hi % 64) * 128 + Low(lo)) * (1 - 2 * ((hi \div 64) % 2)) = Clamp(t, -8191, 8191)
  BY <1>2, <1>4, SMT
<1> QED
  BY <1>3, <1>4, <1>5, SMT

\* The season and the moon, and the phase, rain, snow and nightmare, share a byte.
LEMMA SeasonByte ==
    ASSUME NEW s \in 0 .. 3, NEW m \in 0 .. 31, NEW v, v = 128 + 32 * s + m
    PROVE  (v \div 32) % 4 = s /\ v % 32 = m /\ v \in Byte
BY SMT DEF Byte

LEMMA StateByte ==
    ASSUME NEW p \in 0 .. 2, NEW r \in {0, 1}, NEW s \in {0, 1}, NEW n \in 0 .. 4,
           NEW v, v = 128 + 32 * p + 16 * r + 8 * s + n
    PROVE  /\ (v \div 32) % 4 = p /\ (v \div 16) % 2 = r /\ (v \div 8) % 2 = s /\ v % 8 = n
           /\ v \in Byte
BY SMT DEF Byte

LEMMA BossShown ==
    ASSUME NEW b, NEW t \in Int \ {Unset}
    PROVE  BossByte(b, t) \in Byte /\ Low(BossByte(b, t)) = Shown(b, t)
<1>1. CASE t = NoTimer
  BY <1>1, SMT DEF Byte, BossByte, Shown, Low, NoTimer, Living, Unset, GetDays
<1>2. CASE t = Living
  BY <1>2, SMT DEF Byte, BossByte, Shown, Low, NoTimer, Living, Unset
<1>3. CASE t # NoTimer /\ t # Living /\ b = "antlion"
  <2>1. BossByte(b, t) = 128 + Clamp(t \div 60, 0, 126)
    BY <1>3, SMT DEF Byte, BossByte, M, Clamp
  <2>2. Shown(b, t) = Clamp(t \div 60, 0, 126)
    BY <1>3 DEF Shown
  <2>3. Clamp(t \div 60, 0, 126) \in 0 .. 126
    BY SMT DEF Byte, Clamp
  <2> QED
    BY <2>1, <2>2, <2>3, LowByte, SMT
<1>4. CASE t # NoTimer /\ t # Living /\ b # "antlion"
  <2> DEFINE d == CeilDiv(t, 480)
  <2>1. d \in Int /\ (t <= 0 => d <= 0) /\ (t > 0 => d > 0)
    BY SMT DEF Byte, CeilDiv
  <2>2. BossByte(b, t) = 128 + Clamp(d, 0, 126)
    <3>1. BossByte(b, t) = IF t <= 0 THEN 128 ELSE 128 + (IF d > 126 THEN 126 ELSE d)
      BY <1>4 DEF BossByte, GetDays
    <3> HIDE DEF d
    <3> QED
      BY <2>1, <3>1, SMT DEF Byte, Clamp
  <2>3. Shown(b, t) = Clamp(d, 0, 126)
    BY <1>4 DEF Shown
  <2> HIDE DEF d
  <2>4. Clamp(d, 0, 126) \in 0 .. 126
    BY <2>1, SMT DEF Byte, Clamp
  <2> QED
    BY <2>2, <2>3, <2>4, LowByte, SMT
<1> QED
  BY <1>1, <1>2, <1>3, <1>4

-----------------------------------------------------------------------------
(* Packets                                                                 *)

\* A first byte below 255 is the whole number of a packet; the rest is its data.
LEMMA NumberFirst ==
    ASSUME NEW p \in Seq(Byte), p # <<>>, p[1] # 255
    PROVE  /\ Number(p) = Low(p[1])
           /\ Len(Data(p)) = Len(p) - 1
           /\ \A i \in 1 .. Len(p) - 1 : Data(p)[i] = p[i + 1]
<1>1. /\ DOMAIN p = 1 .. Len(p) /\ Len(p) \in Nat /\ 1 \in DOMAIN p
      /\ p[1] \in Byte
  OBVIOUS
<1>2. NumberEnd(p) = 1
  <2> DEFINE First(i) == i \in DOMAIN p /\ p[i] # 255 /\ \A j \in 1 .. i - 1 : p[j] = 255
  <2>1. First(1)
    BY <1>1
  <2>2. \A i : First(i) => i = 1
    BY <1>1
  <2>3. NumberEnd(p) = CHOOSE i \in DOMAIN p : p[i] # 255 /\ \A j \in 1 .. i - 1 : p[j] = 255
    BY <1>1 DEF NumberEnd
  <2> QED
    BY <2>1, <2>2, <2>3
<1>3. Number(p) = Low(p[1])
  <2>1. Low(p[1]) \in Int /\ ~(p[1] < 128)
    <3>1. \A x \in Byte : Low(x) \in Int /\ ~(x < 128)
      BY SMT DEF Byte, Low
    <3> QED
      BY <1>1, <3>1
  <2>2. Number(p) = IF p[1] < 128 THEN -1 ELSE 127 * (1 - 1) + Low(p[1])
    BY <1>2, SMT DEF Byte, Number
  <2> QED
    BY <2>1, <2>2, SMT
<1>4. Data(p) = SubSeq(p, 2, Len(p))
  BY <1>2, SMT DEF Byte, Data
<1> QED
  BY <1>1, <1>3, <1>4, SMT

LEMMA EnvDecoded ==
    ASSUME NEW w, EnvTyped(w), NEW p, p = EnvPacket(w)
    PROVE  /\ p \in Seq(Byte) /\ Number(p) = 0 /\ Len(Data(p)) = 10
           /\ Says(DecodeEnv(Data(p)), w)
<1> DEFINE cyc == Clamp(w.cycles, 0, 2097151)
           day == DayBytes(cyc)
           pl  == IF w.players > 127 THEN 127 ELSE w.players
           sea == 128 + 32 * SeasonCode[w.season] + w.moon
           tmp == TempBytes(w.temp)
           sta == 128 + 32 * PhaseCode[w.phase] + 16 * Bit(w.rain) + 8 * Bit(w.snow)
                  + NightmareCode[w.nightmare]
           rem == Clamp(w.rem, 0, 127)
           d   == Data(p)
<1>1. /\ w.cycles \in Int /\ w.players \in Nat /\ w.temp \in Int /\ w.rem \in Int
      /\ w.moon \in 1 .. 20
      /\ w.rain \in BOOLEAN /\ w.snow \in BOOLEAN /\ w.awake \in BOOLEAN
  BY DEF EnvTyped
<1>2. /\ SeasonCode[w.season] \in 0 .. 3 /\ PhaseCode[w.phase] \in 0 .. 2
      /\ NightmareCode[w.nightmare] \in 0 .. 4
  BY DEF EnvTyped, SeasonCode, PhaseCode, NightmareCode
<1>3. cyc \in Nat /\ cyc < 16384 * 128
  BY <1>1, SMT DEF Byte, Clamp
<1>4. PICK a, b, c \in Byte : /\ day = <<a, b, c>>
                              /\ Low(a) * 16384 + Low(b) * 128 + Low(c) = cyc
  <2> HIDE DEF cyc
  <2> QED
    BY <1>3, DayGroups, SMT
<1>5. pl \in 0 .. 127 /\ Low(128 + pl) = pl /\ 128 + pl \in Byte
  BY <1>1, LowByte, SMT
<1>6. (sea \div 32) % 4 = SeasonCode[w.season] /\ sea % 32 = w.moon /\ sea \in Byte
  BY <1>1, <1>2, SeasonByte, SMT
<1>7. PICK f, g \in Byte :
          /\ tmp = <<f, g>>
          /\ ((f % 64) * 128 + Low(g)) * (1 - 2 * ((f \div 64) % 2)) = Clamp(w.temp, -8191, 8191)
  BY <1>1, TempGroups
<1>8. /\ (sta \div 32) % 4 = PhaseCode[w.phase] /\ (sta \div 16) % 2 = Bit(w.rain)
      /\ (sta \div 8) % 2 = Bit(w.snow) /\ sta % 8 = NightmareCode[w.nightmare]
      /\ sta \in Byte
  <2>1. Bit(w.rain) \in {0, 1} /\ Bit(w.snow) \in {0, 1}
    BY DEF Bit
  <2> QED
    BY <1>2, <2>1, StateByte, SMT
<1>9. rem \in 0 .. 127 /\ Low(128 + rem) = rem /\ 128 + rem \in Byte
  <2>1. rem \in 0 .. 127
    BY <1>1, SMT DEF Byte, Clamp
  <2> HIDE DEF rem
  <2> QED
    BY <2>1, LowByte, SMT
<1>10. Bit(w.awake) \in {0, 1} /\ Low(128 + Bit(w.awake)) = Bit(w.awake)
       /\ 128 + Bit(w.awake) \in Byte
  <2>1. Bit(w.awake) \in {0, 1}
    BY DEF Bit
  <2> QED
    BY <2>1, LowByte, SMT
<1>11. p = <<128>> \o day \o <<128 + pl, sea>> \o tmp \o <<sta, 128 + rem, 128 + Bit(w.awake)>>
  BY SMT DEF EnvPacket
<1> HIDE DEF cyc, day, pl, sea, tmp, sta, rem
<1>12. /\ p \in Seq(Byte) /\ Len(p) = 11 /\ p[1] = 128
       /\ p[2] = a /\ p[3] = b /\ p[4] = c /\ p[5] = 128 + pl /\ p[6] = sea
       /\ p[7] = f /\ p[8] = g /\ p[9] = sta /\ p[10] = 128 + rem
       /\ p[11] = 128 + Bit(w.awake)
  BY <1>4, <1>5, <1>6, <1>7, <1>8, <1>9, <1>10, <1>11, SMT DEF Byte
<1>13. /\ Number(p) = 0 /\ Len(d) = 10
       /\ d[1] = a /\ d[2] = b /\ d[3] = c /\ d[4] = 128 + pl /\ d[5] = sea
       /\ d[6] = f /\ d[7] = g /\ d[8] = sta /\ d[9] = 128 + rem
       /\ d[10] = 128 + Bit(w.awake)
  <2>1. /\ Number(p) = Low(128) /\ Len(d) = 10
        /\ \A i \in 1 .. 10 : d[i] = p[i + 1]
    <3>1. p # <<>> /\ p[1] # 255
      <4>1. p \in Seq(Byte) /\ Len(p) = 11 /\ p[1] = 128
        BY <1>12
      <4> QED
        BY <4>1, SMT
    <3> HIDE DEF d
    <3>2. /\ Number(p) = Low(p[1]) /\ Len(d) = Len(p) - 1
          /\ \A i \in 1 .. Len(p) - 1 : d[i] = p[i + 1]
      <4>1. p \in Seq(Byte)
        BY <1>12
      <4> QED
        BY <3>1, <4>1, NumberFirst DEF d
    <3> QED
      BY <1>12, <3>2
  <2>2. Low(128) = 0
    BY SMT DEF Byte, Low
  <2> HIDE DEF d
  <2> QED
    BY <1>12, <2>1, <2>2, SMT
<1> HIDE DEF d
<1>14. Says(DecodeEnv(d), w)
  <2> DEFINE e == DecodeEnv(d)
  <2>1. e.cycles = cyc + 1 /\ e.players = pl /\ e.rem = rem
    BY <1>4, <1>5, <1>9, <1>13, SMT DEF Byte, DecodeEnv
  <2>2. e.season = SeasonCode[w.season] /\ e.moon = w.moon
    BY <1>6, <1>13, SMT DEF Byte, DecodeEnv
  <2>3. e.temp = Clamp(w.temp, -8191, 8191)
    BY <1>7, <1>13, SMT DEF Byte, DecodeEnv
  <2>4. e.phase = PhaseCode[w.phase] /\ e.nightmare = NightmareCode[w.nightmare]
    BY <1>8, <1>13, SMT DEF Byte, DecodeEnv
  <2>5. e.rain = (Bit(w.rain) = 1) /\ e.snow = (Bit(w.snow) = 1)
        /\ e.awake = (Bit(w.awake) = 1)
    BY <1>8, <1>10, <1>13, SMT DEF Byte, DecodeEnv
  <2>6. e.rain = w.rain /\ e.snow = w.snow /\ e.awake = w.awake
    <3>1. \A v \in BOOLEAN : (Bit(v) = 1) = v
      BY SMT DEF Byte, Bit
    <3> HIDE DEF e
    <3> QED
      BY <1>1, <2>5, <3>1
  <2>7. /\ e.cycles = Clamp(w.cycles, 0, 2097151) + 1
        /\ e.players = (IF w.players > 127 THEN 127 ELSE w.players)
        /\ e.rem = Clamp(w.rem, 0, 127)
    <3> HIDE DEF e
    <3> QED
      BY <2>1, SMT DEF Byte, cyc, pl, rem
  <2> HIDE DEF e
  <2>8. Says(e, w)
    BY <2>2, <2>3, <2>4, <2>6, <2>7, SMT DEF Byte, Says
  <2> QED
    BY <2>8 DEF e
<1> QED
  BY <1>12, <1>13, <1>14 DEF d

\* Where a boss stands in the packet.
LEMMA BossPlace ==
    /\ DOMAIN Bosses = 1 .. 11 /\ \A i \in 1 .. 11 : Bosses[i] \in BossNames
    /\ \A b \in BossNames : Place(b) \in 1 .. 11 /\ Bosses[Place(b)] = b
    /\ CaveBosses \subseteq BossNames
<1>1. DOMAIN Bosses = 1 .. 11
  BY DEF Bosses
<1>2. \A i \in 1 .. 11 : Bosses[i] \in BossNames
  BY <1>1 DEF BossNames, Range
<1>3. ASSUME NEW b \in BossNames PROVE Place(b) \in 1 .. 11 /\ Bosses[Place(b)] = b
  <2>1. \E i \in 1 .. 11 : Bosses[i] = b
    BY <1>1 DEF BossNames, Range
  <2> QED
    BY <1>1, <2>1 DEF Place
<1>4. CaveBosses \subseteq BossNames
  <2>1. Bosses[7] = "toadstool" /\ Bosses[8] = "fuelweaver"
    BY DEF Bosses
  <2> QED
    BY <1>2, <2>1 DEF CaveBosses
<1> QED
  BY <1>1, <1>2, <1>3, <1>4

LEMMA BossDecoded ==
    ASSUME NEW s \in Shards, NEW state \in States, NEW p,
           p = BossPacket(s, World(state).boss)
    PROVE  /\ p \in Seq(Byte) /\ Number(p) = (IF s = "caves" THEN 2 ELSE 1)
           /\ Len(Data(p)) = 11
           /\ \A b \in BossNames : /\ World(state).boss[b] = state.timer
                                   /\ Low(Data(p)[Place(b)]) = Shown(b, state.timer)
<1> DEFINE t == state.timer
           body == [i \in 1 .. 11 |-> BossByte(Bosses[i], t)]
           n == IF s = "caves" THEN 130 ELSE 129
<1>1. t \in Int \ {Unset}
  BY StatesAssumption
<1>2. World(state).boss = [b \in BossNames |-> t]
  BY DEF World
<1>3. p = <<n>> \o body
  <2>1. p = <<n>> \o [i \in 1 .. 11 |-> BossByte(Bosses[i], World(state).boss[Bosses[i]])]
    BY BossPlace, Zenon DEF BossPacket
  <2>2. \A i \in 1 .. 11 : World(state).boss[Bosses[i]] = t
    BY <1>2, BossPlace
  <2> QED
    BY <2>1, <2>2
<1>4. \A i \in 1 .. 11 : body[i] \in Byte /\ Low(body[i]) = Shown(Bosses[i], t)
  <2> HIDE DEF t
  <2> QED
    BY <1>1, BossShown
<1>5. body \in Seq(Byte) /\ Len(body) = 11
  BY <1>4
<1>6. n \in Byte /\ n # 255 /\ Low(n) = (IF s = "caves" THEN 2 ELSE 1)
  BY SMT DEF Byte, Low
<1> HIDE DEF t, body, n
<1>7. <<n>> \in Seq(Byte) /\ Len(<<n>>) = 1 /\ <<n>>[1] = n
  BY <1>6
<1>8. /\ p \in Seq(Byte) /\ Len(p) = 12
      /\ \A i \in 1 .. 12 : p[i] = IF i <= 1 THEN <<n>>[i] ELSE body[i - 1]
  <2> DEFINE one == <<n>>
  <2> HIDE DEF one
  <2>1. one \in Seq(Byte) /\ Len(one) = 1 /\ p = one \o body
    BY <1>3, <1>7 DEF one
  <2> DEFINE whole == one \o body
  <2>2. /\ whole \in Seq(Byte) /\ Len(whole) = Len(one) + Len(body)
        /\ \A i \in 1 .. Len(one) + Len(body) :
              whole[i] = IF i <= Len(one) THEN one[i] ELSE body[i - Len(one)]
    BY <1>5, <2>1, ConcatProperties
  <2> HIDE DEF whole
  <2>3. /\ whole \in Seq(Byte) /\ Len(whole) = 12
        /\ \A i \in 1 .. 12 : whole[i] = IF i <= 1 THEN one[i] ELSE body[i - 1]
    BY <1>5, <2>1, <2>2
  <2>4. p = whole
    BY <2>1 DEF whole
  <2> QED
    BY <2>3, <2>4 DEF one
<1>9. p # <<>> /\ p[1] = n
  <2>1. p[1] = <<n>>[1]
    BY <1>8
  <2> QED
    BY <1>7, <1>8, <2>1
<1>10. /\ Number(p) = Low(n) /\ Len(Data(p)) = Len(p) - 1
       /\ \A i \in 1 .. Len(p) - 1 : Data(p)[i] = p[i + 1]
  <2>1. p \in Seq(Byte) /\ p # <<>> /\ p[1] # 255 /\ p[1] = n
    BY <1>6, <1>8, <1>9
  <2> QED
    BY <2>1, NumberFirst
<1>11. \A i \in 1 .. 11 : Data(p)[i] = body[i]
  <2> SUFFICES ASSUME NEW i \in 1 .. 11 PROVE Data(p)[i] = body[i]
    OBVIOUS
  <2>1. i \in 1 .. Len(p) - 1 /\ i + 1 \in 1 .. 12 /\ ~(i + 1 <= 1) /\ (i + 1) - 1 = i
    BY <1>8
  <2>2. Data(p)[i] = p[i + 1]
    BY <1>10, <2>1
  <2>3. p[i + 1] = body[(i + 1) - 1]
    BY <1>8, <2>1
  <2> QED
    BY <2>1, <2>2, <2>3
<1>12. \A b \in BossNames : Low(Data(p)[Place(b)]) = Shown(b, t)
  BY <1>4, <1>11, BossPlace
<1> QED
  <2>1. Number(p) = (IF s = "caves" THEN 2 ELSE 1) /\ Len(Data(p)) = 11 /\ p \in Seq(Byte)
    BY <1>6, <1>8, <1>10
  <2>2. \A b \in BossNames : World(state).boss[b] = t
    BY <1>2
  <2> QED
    BY <1>12, <2>1, <2>2 DEF t

-----------------------------------------------------------------------------
(* The invariant holds                                                     *)

LEMMA LinesIn ==
    ASSUME NEW s \in Shards, NEW line \in Lines(s)
    PROVE  \/ \E state \in States : line = BossLine(s, state)
           \/ s = "master" /\ \E state \in States : line = EnvLine(state)
BY DEF Lines

LEMMA CarriedStep ==
    ASSUME Carried, [Next]_vars
    PROVE  Carried'
<1>1. ASSUME NEW s \in Shards, Evolve(s) PROVE Carried'
  BY <1>1 DEF Evolve, Carried
<1>2. ASSUME NEW s \in Shards, Sample(s) PROVE Carried'
  <2> PICK state \in States : world[s] = World(state)
    BY DEF Carried
  <2> DEFINE e == EnvLine(state)
             b == BossLine(s, state)
             r == Round(s)
             more == [i \in DOMAIN r |-> [bytes |-> r[i], of |-> world[s]]]
  <2>1. more \in Seq(Lines(s))
    <3>1. BossLine(s, state) \in Lines(s) /\ (s = "master" => EnvLine(state) \in Lines(s))
      BY DEF Lines
    <3>2. World(state).env = state.env
      BY DEF World
    <3>3. CASE s = "master"
      <4>1. r = <<EnvPacket(state.env)>> \o <<BossPacket(s, World(state).boss)>>
        BY <3>2, <3>3 DEF Round
      <4> HIDE DEF r
      <4>2. DOMAIN r = 1 .. 2 /\ r[1] = EnvPacket(state.env) /\ r[2] = BossPacket(s, World(state).boss)
        BY <4>1
      <4>3. \A i \in 1 .. 2 : [bytes |-> r[i], of |-> world[s]] \in Lines(s)
        BY <3>1, <3>3, <4>2 DEF EnvLine, BossLine
      <4> QED
        BY <4>2, <4>3
    <3>4. CASE s # "master"
      <4>1. r = <<BossPacket(s, World(state).boss)>>
        BY <3>4 DEF Round
      <4> HIDE DEF r
      <4>2. DOMAIN r = 1 .. 1 /\ r[1] = BossPacket(s, World(state).boss)
        BY <4>1
      <4>3. \A i \in 1 .. 1 : [bytes |-> r[i], of |-> world[s]] \in Lines(s)
        BY <3>1, <4>2 DEF BossLine
      <4> QED
        BY <4>2, <4>3
    <3> QED
      BY <3>3, <3>4
  <2>2. out' = [out EXCEPT ![s] = @ \o more] /\ world' = world
    BY <1>2 DEF Sample
  <2> HIDE DEF more
  <2>3. out[s] \o more \in Seq(Lines(s))
    BY <2>1, ConcatProperties DEF Carried
  <2> DEFINE q == out[s] \o more
  <2>4. out' = [out EXCEPT ![s] = q]
    BY <2>2
  <2> HIDE DEF q
  <2> QED
    BY <2>2, <2>3, <2>4 DEF Carried, q
<1>3. ASSUME NEW s \in Shards, Decode(s) PROVE Carried'
  <2>1. out[s] # <<>> /\ out' = [out EXCEPT ![s] = Tail(@)] /\ world' = world
    BY <1>3 DEF Decode
  <2>2. Tail(out[s]) \in Seq(Lines(s))
    BY <2>1 DEF Carried
  <2> QED
    BY <2>1, <2>2 DEF Carried
<1>4. ASSUME NEW s \in Shards, Lose(s) PROVE Carried'
  <2>1. <<>> \in Seq(Lines(s))
    OBVIOUS
  <2> QED
    BY <1>4, <2>1 DEF Lose, Carried
<1>5. ASSUME Boot \/ Report \/ UNCHANGED vars PROVE Carried'
  BY <1>5 DEF Boot, Report, vars, Carried
<1>6. ASSUME NEW s \in Shards, Die(s) PROVE Carried'
  BY <1>6 DEF Die, Carried
<1> QED
  BY <1>1, <1>2, <1>3, <1>4, <1>5, <1>6 DEF Next

\* Each line says what it is by its number.
LEMMA LineDecoded ==
    ASSUME Carried, NEW s \in Shards, NEW line \in Lines(s)
    PROVE  \E state \in States :
               \/ /\ line = BossLine(s, state)
                  /\ line.bytes \in Seq(Byte) /\ Number(line.bytes) = (IF s = "caves" THEN 2 ELSE 1)
                  /\ Len(Data(line.bytes)) = 11
                  /\ \A b \in BossNames :
                        /\ line.of.boss[b] = state.timer
                        /\ Low(Data(line.bytes)[Place(b)]) = Shown(b, state.timer)
               \/ /\ line = EnvLine(state)
                  /\ line.bytes \in Seq(Byte) /\ Number(line.bytes) = 0
                  /\ Len(Data(line.bytes)) = 10
                  /\ line.of.env = state.env
                  /\ Says(DecodeEnv(Data(line.bytes)), state.env)
<1>1. CASE \E state \in States : line = BossLine(s, state)
  <2> PICK state \in States : line = BossLine(s, state)
    BY <1>1
  <2> DEFINE p == line.bytes
  <2>1. p = BossPacket(s, World(state).boss) /\ line.of = World(state)
    BY DEF BossLine
  <2> HIDE DEF p
  <2>2. /\ p \in Seq(Byte) /\ Number(p) = (IF s = "caves" THEN 2 ELSE 1)
        /\ Len(Data(p)) = 11
        /\ \A b \in BossNames : /\ World(state).boss[b] = state.timer
                                /\ Low(Data(p)[Place(b)]) = Shown(b, state.timer)
    BY <2>1, BossDecoded
  <2> QED
    BY <2>1, <2>2, Zenon DEF p
<1>2. CASE \E state \in States : line = EnvLine(state)
  <2> PICK state \in States : line = EnvLine(state)
    BY <1>2
  <2> DEFINE p == line.bytes
             w == state.env
  <2>1. p = EnvPacket(w) /\ line.of.env = w
    BY DEF EnvLine, World
  <2>2. EnvTyped(w)
    BY StatesAssumption
  <2> HIDE DEF p, w
  <2>3. /\ p \in Seq(Byte) /\ Number(p) = 0 /\ Len(Data(p)) = 10
        /\ Says(DecodeEnv(Data(p)), w)
    BY <2>1, <2>2, EnvDecoded
  <2> QED
    BY <2>1, <2>3, Zenon DEF p, w
<1> QED
  BY <1>1, <1>2, LinesIn

\* The lengths and the numbers of the lines a shard writes, compared.
LEMMA Lengths ==
    /\ 10 >= 10 /\ 11 >= 10 /\ 11 >= 11
    /\ 0 \notin {1, 2} /\ 1 # 0 /\ 2 # 0 /\ {0, 1, 2} = 0 .. 2
  BY SMT

LEMMA ExactDecode ==
    ASSUME TelemetryInv, NEW s \in Shards, Decode(s)
    PROVE  EnvExact' /\ BossesExact'
<1> PICK line : line = Head(out[s])
  OBVIOUS
<1> PICK n, d : n = Number(line.bytes) /\ d = Data(line.bytes)
  OBVIOUS
<1>1. line \in Lines(s)
  BY DEF Decode, TelemetryInv, Carried
<1>2. /\ IF n = 0 /\ Len(d) >= 10
         THEN env' = DecodeEnv(d) /\ envOf' = {line.of.env}
         ELSE env' = env /\ envOf' = envOf
      /\ IF n \in {1, 2} /\ Len(d) >= 11
         THEN /\ boss' = [b \in BossNames |-> IF b \in BossesOf(n) THEN Low(d[Place(b)])
                                              ELSE boss[b]]
              /\ bossOf' = [b \in BossNames |-> IF b \in Home(s) THEN line.of.boss[b]
                                                ELSE bossOf[b]]
         ELSE boss' = boss /\ bossOf' = bossOf
  BY DEF Decode
<1>7. EnvExact /\ BossesExact
  BY DEF TelemetryInv
<1>8. PICK state \in States :
          \/ /\ n = (IF s = "caves" THEN 2 ELSE 1) /\ Len(d) = 11
             /\ \A b \in BossNames : /\ line.of.boss[b] = state.timer
                                     /\ Low(d[Place(b)]) = Shown(b, state.timer)
          \/ /\ n = 0 /\ Len(d) = 10 /\ line.of.env = state.env
             /\ Says(DecodeEnv(d), state.env)
  BY <1>1, LineDecoded, Zenon DEF TelemetryInv
<1>9. CASE n = 0 /\ Len(d) = 10 /\ line.of.env = state.env /\ Says(DecodeEnv(d), state.env)
  <2>1. n = 0 /\ Len(d) = 10
    BY <1>9
  <2>2. n = 0 /\ Len(d) >= 10 /\ n \notin {1, 2}
    BY <2>1, Lengths, Zenon
  <2>3. env' = DecodeEnv(d) /\ envOf' = {state.env} /\ boss' = boss /\ bossOf' = bossOf
    BY <1>2, <1>9, <2>2
  <2> QED
    BY <1>7, <1>9, <2>3, StatesAssumption, Zenon DEF EnvExact, BossesExact
<1>10. CASE /\ n = (IF s = "caves" THEN 2 ELSE 1) /\ Len(d) = 11
            /\ \A b \in BossNames : /\ line.of.boss[b] = state.timer
                                    /\ Low(d[Place(b)]) = Shown(b, state.timer)
  <2>1. n \in {1, 2} /\ n # 0 /\ Len(d) >= 11
    <3>1. Len(d) = 11 /\ n = (IF s = "caves" THEN 2 ELSE 1)
      BY <1>10, Zenon
    <3>2. n = 1 \/ n = 2
      BY <3>1, Zenon
    <3> QED
      BY <3>1, <3>2, Lengths, Zenon
  <2>2. env' = env /\ envOf' = envOf
    BY <1>2, <2>1
  <2>3. BossesOf(n) = Home(s)
    <3>1. CASE s = "caves"
      BY <1>10, <3>1 DEF BossesOf, Home
    <3>2. CASE s # "caves"
      BY <1>10, <3>2 DEF BossesOf, Home
    <3> QED
      BY <3>1, <3>2
  <2>4. /\ boss' = [b \in BossNames |-> IF b \in Home(s) THEN Low(d[Place(b)]) ELSE boss[b]]
        /\ bossOf' = [b \in BossNames |-> IF b \in Home(s) THEN line.of.boss[b] ELSE bossOf[b]]
    BY <1>2, <2>1, <2>3
  <2>5. ASSUME NEW b \in BossNames PROVE bossOf'[b] \in Int /\ boss'[b] = Shown(b, bossOf'[b])
    <3>1. bossOf[b] \in Int /\ boss[b] = Shown(b, bossOf[b])
      BY <1>7 DEF BossesExact
    <3>2. CASE b \in Home(s)
      BY <1>10, <2>4, <3>2, StatesAssumption
    <3>3. CASE b \notin Home(s)
      BY <2>4, <3>1, <3>3
    <3> QED
      BY <3>2, <3>3
  <2> QED
    BY <1>7, <2>2, <2>5, Zenon DEF EnvExact, BossesExact
<1> QED
  BY <1>8, <1>9, <1>10

LEMMA ExactReport ==
    ASSUME BossesExact, Report
    PROVE  BossesExact'
<1>3. PICK t \in {state.timer : state \in States} :
          /\ boss' = [b \in BossNames |-> IF b \in CaveBosses THEN Low(BossByte(b, t)) ELSE boss[b]]
          /\ bossOf' = [b \in BossNames |-> IF b \in CaveBosses THEN t ELSE bossOf[b]]
  BY DEF Report
<1>4. t \in Int \ {Unset}
  BY StatesAssumption
<1>5. \A b \in CaveBosses : Low(BossByte(b, t)) = Shown(b, t)
  BY <1>4, BossShown
<1>6. ASSUME NEW b \in BossNames
      PROVE  bossOf'[b] \in Int /\ boss'[b] = Shown(b, bossOf'[b])
  <2>1. CASE b \in CaveBosses
    BY <1>3, <1>4, <1>5, <2>1
  <2>2. CASE b \notin CaveBosses
    BY <1>3, <2>2 DEF BossesExact
  <2> QED
    BY <2>1, <2>2
<1> QED
  BY <1>6 DEF BossesExact

LEMMA ExactUnset ==
    ASSUME envOf = {}, boss = UnknownBoss, bossOf = [b \in BossNames |-> Unset]
    PROVE  EnvExact /\ BossesExact
<1>1. EnvExact
  BY DEF EnvExact
<1>2. \A b : Shown(b, Unset) = Max32
  BY DEF Shown, NoTimer, Living, Unset
<1>3. Unset \in Int
  BY SMT DEF Unset
<1> QED
  BY <1>1, <1>2, <1>3 DEF UnknownBoss, BossesExact

LEMMA TelemetryInit == Init => TelemetryInv
<1> SUFFICES ASSUME Init PROVE TelemetryInv
  OBVIOUS
<1>1. Carried
  <2>1. \A s \in Shards : <<>> \in Seq(Lines(s))
    OBVIOUS
  <2> QED
    BY <2>1 DEF Init, Carried
<1> QED
  BY <1>1, ExactUnset DEF Init, TelemetryInv

LEMMA TelemetryStep == TelemetryInv /\ [Next]_vars => TelemetryInv'
<1> SUFFICES ASSUME TelemetryInv, [Next]_vars PROVE TelemetryInv'
  OBVIOUS
<1>1. Carried'
  BY CarriedStep DEF TelemetryInv
<1>2. EnvExact' /\ BossesExact'
  <2>1. ASSUME UNCHANGED <<env, envOf>> PROVE EnvExact'
    BY <2>1 DEF TelemetryInv, EnvExact
  <2>2. ASSUME UNCHANGED <<boss, bossOf>> PROVE BossesExact'
    BY <2>2 DEF TelemetryInv, BossesExact
  <2>3. ASSUME NEW s \in Shards, Evolve(s) \/ Sample(s) \/ Lose(s)
        PROVE  UNCHANGED <<env, envOf, boss, bossOf>>
    BY <2>3 DEF Evolve, Sample, Lose
  <2>4. ASSUME Boot \/ UNCHANGED vars PROVE UNCHANGED <<env, envOf, boss, bossOf>>
    BY <2>4 DEF Boot, vars
  <2>5. CASE Report
    <3>1. UNCHANGED <<env, envOf>>
      BY <2>5 DEF Report
    <3> QED
      BY <2>1, <2>5, <3>1, ExactReport DEF TelemetryInv
  <2>6. ASSUME NEW s \in Shards, Die(s) PROVE EnvExact' /\ BossesExact'
    <3>1. CASE Resets(s)
      <4>1. (envOf = {} /\ boss = UnknownBoss /\ bossOf = [b \in BossNames |-> Unset])'
        BY <2>6, <3>1 DEF Die, Reset, UnknownBoss
      <4> QED
        BY <4>1, ExactUnset, PTL
    <3>2. CASE ~Resets(s)
      BY <2>1, <2>2, <2>6, <3>2 DEF Die
    <3> QED
      BY <3>1, <3>2
  <2> QED
    BY <2>1, <2>2, <2>3, <2>4, <2>5, <2>6, ExactDecode DEF Next
<1> QED
  BY <1>1, <1>2 DEF TelemetryInv

\* The decoder stores what the script packed to the last number; from that follows
\* what the properties say.
LEMMA ExactEnv == EnvExact => EnvFaithful
<1> SUFFICES ASSUME EnvExact, NEW w \in envOf
             PROVE  /\ w.cycles < DayCap => env.cycles = (IF w.cycles < 0 THEN 0 ELSE w.cycles) + 1
                    /\ w.cycles >= DayCap => env.cycles >= DayCap
                    /\ \A state \in DOMAIN NightmareCode :
                          (env.nightmare = NightmareCode[state]) <=> (state = w.nightmare)
  BY SMT DEF EnvExact, EnvFaithful, Says
<1>1. w.cycles \in Int /\ env.cycles = Clamp(w.cycles, 0, 2097151) + 1
  BY DEF EnvExact, EnvTyped, Says
<1>2. w.nightmare \in DOMAIN NightmareCode /\ env.nightmare = NightmareCode[w.nightmare]
  BY DEF EnvExact, EnvTyped, Says
<1>3. \A x, y \in DOMAIN NightmareCode : NightmareCode[x] = NightmareCode[y] => x = y
  BY DEF NightmareCode
<1> QED
  BY <1>1, <1>2, <1>3, SMT DEF Clamp, DayCap

LEMMA ExactBosses == BossesExact => BossesFaithful
<1> SUFFICES ASSUME BossesExact, NEW b \in BossNames, NEW t, t = bossOf[b]
             PROVE  CASE t = Unset -> boss[b] = Max32
                      [] t = NoTimer -> boss[b] = 127
                      [] t = Living -> boss[b] = (IF b = "antlion" THEN 127 ELSE 0)
                      [] OTHER -> /\ Units(b, t) <= 126 => boss[b] = Clamp(Units(b, t), 0, 126)
                                  /\ Units(b, t) > 126 => boss[b] \in {126, 127}
  BY Zenon DEF BossesFaithful
<1>1. t \in Int /\ boss[b] = Shown(b, t)
  BY DEF BossesExact
<1>2. CASE t \in {Unset, NoTimer, Living}
  BY <1>1, <1>2, SMT DEF Shown, Unset, NoTimer, Living
<1>3. CASE t \notin {Unset, NoTimer, Living}
  <2>1. boss[b] = Clamp(Units(b, t), 0, 126)
    BY <1>1, <1>3, Zenon DEF Shown, Units
  <2>2. Units(b, t) \in Int
    BY <1>1, SMT DEF Units, CeilDiv
  <2>3. Units(b, t) > 126 => Clamp(Units(b, t), 0, 126) = 126
    BY <2>2, SMT DEF Clamp
  <2> QED
    BY <1>3, <2>1, <2>3, Zenon
<1> QED
  BY <1>2, <1>3

\* The environment numbers are those of the world the script packed, for every
\* world the game may report: fields share bytes and no value of one, however far
\* out of range, changes another (parasite.lua:46-144, api_status.go:205-245).
THEOREM EnvironmentFaithful == Spec => []EnvFaithful
<1>1. TelemetryInv => EnvFaithful
  BY ExactEnv DEF TelemetryInv
<1> QED
  BY TelemetryInit, TelemetryStep, <1>1, PTL DEF Spec

\* Every boss number is unknown or the timer of the shard the boss lives on, for
\* every timer, whatever the packets of the shards, the report of the caves' node
\* and the resets do to each other (api_status.go:246-289, 295-329).
THEOREM TimersFaithful == Spec => []BossesFaithful
<1>1. TelemetryInv => BossesFaithful
  BY ExactBosses DEF TelemetryInv
<1> QED
  BY TelemetryInit, TelemetryStep, <1>1, PTL DEF Spec

\* A packet is one line of the stream that the decoder takes whole: all its bytes
\* have the high bit, and its number and length are ones the decoder knows.
THEOREM PacketsFramed == Spec => []WellFramed
<1>1. TelemetryInv => WellFramed
  <2> SUFFICES ASSUME TelemetryInv, NEW s \in Shards, NEW i \in DOMAIN out[s]
               PROVE  LET p == out[s][i].bytes IN
                      /\ \A j \in DOMAIN p : p[j] \in 128 .. 255
                      /\ Number(p) \in 0 .. 2
                      /\ Len(Data(p)) >= 10
    BY DEF WellFramed
  <2> DEFINE p == out[s][i].bytes
  <2>1. out[s][i] \in Lines(s) /\ Carried
    BY DEF TelemetryInv, Carried
  <2>2. /\ p \in Seq(Byte)
        /\ Number(p) \in {0, 1, 2} /\ Len(Data(p)) \in {10, 11}
    BY <2>1, LineDecoded, Zenon
  <2> HIDE DEF p
  <2>3. \A j \in DOMAIN p : p[j] \in Byte
    BY <2>2
  <2>4. Number(p) \in 0 .. 2 /\ Len(Data(p)) >= 10
    BY <2>2, Lengths, Zenon
  <2> QED
    BY <2>3, <2>4 DEF p, Byte
<1> QED
  BY TelemetryInit, TelemetryStep, <1>1, PTL DEF Spec

=============================================================================
