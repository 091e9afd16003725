------------------------------ MODULE Telemetry ------------------------------
(***************************************************************************)
(* The telemetry of the worlds.  parasite.lua, running inside each game,   *)
(* packs the state of its world into one line of bytes with the high bit   *)
(* set; LiveStream finds the line in the console stream and hands it to    *)
(* the decoder (api_status.go:166-289), which stores the numbers the API   *)
(* reports.  A node that runs only the caves also posts two of them to the *)
(* node of the master (api_status.go:295-329, api.go:694-814).             *)
(*                                                                         *)
(* A byte is a number, a packet a sequence of bytes without the two-byte   *)
(* header.  Timers are in seconds.                                         *)
(***************************************************************************)
EXTENDS Integers, Sequences, FiniteSets, SequencesExt

CONSTANTS
    Shards,        \* the shards this node runs
    States,        \* states the world of a shard may be in: [env, timer], the
                   \* timer of all its bosses, which may be NoTimer or Living
    PipeCap,       \* bound: telemetry lines under way in one stdout stream
    RemoteCaves    \* whether the caves run on another node that reports

ASSUME ShardsAssumption == Shards \subseteq {"master", "caves"} /\ Shards # {}
ASSUME RemoteAssumption == RemoteCaves \in BOOLEAN

Max32 == -1                    \* 0xFFFFFFFF, which TLC cannot hold
MaxInt32 == 2147483647
NoTimer == -10000              \* a timer the script cannot read
Living == -20000               \* no timer: the boss is alive
Unset == -30000                \* no packet has set the number yet
Bosses == <<"deerclops", "bearger", "moose", "dragonfly", "beequeen", "klaus",
            "toadstool", "fuelweaver", "malbatross", "lordfruitfly", "antlion">>
BossNames == Range(Bosses)
CaveBosses == {"toadstool", "fuelweaver"}

\* The numbers the script gives to names; what it does not know is the default.
SeasonCode == [autumn |-> 0, winter |-> 1, spring |-> 2, summer |-> 3]
PhaseCode == [day |-> 0, dusk |-> 1, night |-> 2]
NightmareCode == [calm |-> 0, warn |-> 1, wild |-> 2, dawn |-> 3, none |-> 4]

\* What the game may tell the script: whole numbers of days, degrees and seconds,
\* the names it knows for the season and the phases, and a moon the script has
\* checked (parasite.lua:81).
EnvTyped(w) ==
    /\ w.cycles \in Int /\ w.players \in Nat /\ w.temp \in Int /\ w.rem \in Int
    /\ w.season \in DOMAIN SeasonCode /\ w.phase \in DOMAIN PhaseCode
    /\ w.nightmare \in DOMAIN NightmareCode
    /\ w.moon \in 1 .. 20
    /\ {w.rain, w.snow, w.awake} \subseteq BOOLEAN
ASSUME StatesAssumption ==
    \A state \in States : EnvTyped(state.env) /\ state.timer \in Int \ {Unset}

VARIABLES
    up,            \* the runner of the shard is at work
    world,         \* the state of the game: [env, boss]
    out,           \* telemetry lines in each stdout stream
    env,           \* the environment numbers of 游戏内状态 (sys_params.go:101-113)
    boss,          \* its boss timers (sys_params.go:115-125)
    envOf,         \* history: the world env was decoded from, as a set
    bossOf         \* history: the timer each boss number was decoded from

vars == <<up, world, out, env, boss, envOf, bossOf>>

-----------------------------------------------------------------------------
(* parasite.lua                                                            *)

Clamp(x, lo, hi) == IF x < lo THEN lo ELSE IF x > hi THEN hi ELSE x
CeilDiv(x, n) == -((-x) \div n)
Bit(b) == IF b THEN 1 ELSE 0

\* Mutant: the middle group of the day count is not reduced.
DayBytes_NoMod(c) == <<128 + c \div 16384, 128 + c \div 128, 128 + (c % 128)>>

\* parasite.lua:88-90: three groups of seven bits, the highest first.
DayBytes(c) == <<128 + c \div 16384, 128 + ((c \div 128) % 128), 128 + (c % 128)>>

\* parasite.lua:93-103: a sign bit and thirteen bits of magnitude.
TempBytes(t) ==
    LET abs == IF t < 0 THEN -t ELSE t
        mag == IF abs > 8191 THEN 8191 ELSE abs
    IN  <<128 + 64 * Bit(t < 0) + mag \div 128, 128 + (mag % 128)>>

\* parasite.lua:46-144: the environment packet, number 0.
EnvPacket(w) ==
    <<128>> \o DayBytes(Clamp(w.cycles, 0, 2097151))
    \o <<128 + (IF w.players > 127 THEN 127 ELSE w.players),
         128 + 32 * SeasonCode[w.season] + w.moon>>
    \o TempBytes(w.temp)
    \o <<128 + 32 * PhaseCode[w.phase] + 16 * Bit(w.rain) + 8 * Bit(w.snow)
             + NightmareCode[w.nightmare],
         128 + Clamp(w.rem, 0, 127),
         128 + Bit(w.awake)>>

\* parasite.lua:19-25
GetDays(t) ==
    IF t = NoTimer THEN 255
    ELSE IF t <= 0 THEN 128
    ELSE LET d == CeilDiv(t, 480) IN 128 + (IF d > 126 THEN 126 ELSE d)

\* parasite.lua:27-32
M(t) ==
    LET m == t \div 60 IN IF m > 126 THEN 254 ELSE IF m < 0 THEN 128 ELSE 128 + m

\* parasite.lua:158-338: one byte for each boss; a boss that is alive counts
\* zero days, and the timer of the antlion is in minutes.
BossByte(b, t) ==
    IF b = "antlion" THEN IF t \in {NoTimer, Living} THEN 255 ELSE M(t)
    ELSE IF t = Living THEN 128 ELSE GetDays(t)

\* parasite.lua:341-345: number 2 from the caves, number 1 from the master.
BossPacket(s, timers) ==
    <<IF s = "caves" THEN 130 ELSE 129>>
    \o [i \in DOMAIN Bosses |-> BossByte(Bosses[i], timers[Bosses[i]])]

\* parasite.lua:347-351: what one run of the script prints.
Round(s) ==
    (IF s = "master" THEN <<EnvPacket(world[s].env)>> ELSE <<>>)
    \o <<BossPacket(s, world[s].boss)>>

-----------------------------------------------------------------------------
(* the decoder                                                             *)

Low(b) == b % 128              \* b & 0x7F

\* api_status.go:171-193: the packet number is the sum of the low parts of the
\* bytes up to the first one that is not 0xFF; a byte below 0x80 is an error.
NumberEnd(p) ==
    IF \E i \in DOMAIN p : p[i] # 255
    THEN CHOOSE i \in DOMAIN p : p[i] # 255 /\ \A j \in 1 .. i - 1 : p[j] = 255
    ELSE Len(p)
Number(p) ==
    LET n == NumberEnd(p) IN
    IF p[n] < 128 THEN -1 ELSE 127 * (n - 1) + Low(p[n])
Data(p) == SubSeq(p, NumberEnd(p) + 1, Len(p))

\* Mutant: the bits of the season and of the moon are taken with one mask.
DecodeEnv_Mask(d) ==
    [cycles |-> Low(d[1]) * 16384 + Low(d[2]) * 128 + Low(d[3]) + 1,
     players |-> Low(d[4]),
     season |-> (d[5] \div 32) % 4,
     moon |-> d[5] % 16,
     temp |-> ((d[6] % 64) * 128 + Low(d[7])) * (1 - 2 * ((d[6] \div 64) % 2)),
     phase |-> (d[8] \div 32) % 4,
     rain |-> (d[8] \div 16) % 2 = 1,
     snow |-> (d[8] \div 8) % 2 = 1,
     nightmare |-> d[8] % 8,
     rem |-> Low(d[9]),
     awake |-> Low(d[10]) = 1]

\* api_status.go:205-245
DecodeEnv(d) ==
    [cycles |-> Low(d[1]) * 16384 + Low(d[2]) * 128 + Low(d[3]) + 1,
     players |-> Low(d[4]),
     season |-> (d[5] \div 32) % 4,
     moon |-> d[5] % 32,
     temp |-> ((d[6] % 64) * 128 + Low(d[7])) * (1 - 2 * ((d[6] \div 64) % 2)),
     phase |-> (d[8] \div 32) % 4,
     rain |-> (d[8] \div 16) % 2 = 1,
     snow |-> (d[8] \div 8) % 2 = 1,
     nightmare |-> d[8] % 8,
     rem |-> Low(d[9]),
     awake |-> Low(d[10]) = 1]

\* Mutant: the timers of the caves are taken from every boss packet.
BossesOf_All(n) == IF n \in {1, 2} THEN BossNames ELSE {}

\* api_status.go:246-279: which timers a boss packet sets.
BossesOf(n) == CASE n = 1 -> BossNames \ CaveBosses
                 [] n = 2 -> CaveBosses
                 [] OTHER -> {}

\* The bosses that live in the world of a shard.
Home(s) == IF s = "caves" THEN CaveBosses ELSE BossNames \ CaveBosses

Place(b) == CHOOSE i \in DOMAIN Bosses : Bosses[i] = b

-----------------------------------------------------------------------------
UnknownEnv ==
    [cycles |-> Max32, players |-> Max32, season |-> Max32, moon |-> Max32,
     temp |-> MaxInt32, phase |-> Max32, rain |-> FALSE, snow |-> FALSE,
     nightmare |-> Max32, rem |-> Max32, awake |-> FALSE]
UnknownBoss == [b \in BossNames |-> Max32]

World(state) == [env |-> state.env, boss |-> [b \in BossNames |-> state.timer]]

Init ==
    /\ up = [s \in Shards |-> FALSE]
    /\ \E state \in States : world = [s \in Shards |-> World(state)]
    /\ out = [s \in Shards |-> <<>>]
    /\ env = UnknownEnv
    /\ boss = UnknownBoss
    /\ envOf = {}
    /\ bossOf = [b \in BossNames |-> Unset]

\* A life begins.
Boot ==
    /\ \A s \in Shards : ~up[s]
    /\ up' = [s \in Shards |-> TRUE]
    /\ UNCHANGED <<world, out, env, boss, envOf, bossOf>>

\* The world of a shard moves on; the model changes all its timers together.
Evolve(s) ==
    /\ up[s]
    /\ \E state \in States : world' = [world EXCEPT ![s] = World(state)]
    /\ UNCHANGED <<up, out, env, boss, envOf, bossOf>>

\* The script runs: every five seconds, or on an event (parasite.lua:354-364).
Sample(s) ==
    /\ up[s]
    /\ Len(out[s]) + 2 <= PipeCap
    /\ out' = [out EXCEPT
                 ![s] = @ \o [i \in DOMAIN Round(s) |-> [bytes |-> Round(s)[i], of |-> world[s]]]]
    /\ UNCHANGED <<up, world, env, boss, envOf, bossOf>>

\* game.go:654-671 and api_status.go:166-289: LiveStream decodes the next line,
\* the runner of the shard may be gone by then.
Decode(s) ==
    /\ out[s] # <<>>
    /\ out' = [out EXCEPT ![s] = Tail(@)]
    /\ LET line == Head(out[s])
           n    == Number(line.bytes)
           d    == Data(line.bytes)
       IN  /\ IF n = 0 /\ Len(d) >= 10
              THEN env' = DecodeEnv(d) /\ envOf' = {line.of.env}
              ELSE UNCHANGED <<env, envOf>>
           /\ IF n \in {1, 2} /\ Len(d) >= 11
              THEN /\ boss' = [b \in BossNames |-> IF b \in BossesOf(n) THEN Low(d[Place(b)])
                                                   ELSE boss[b]]
                   /\ bossOf' = [b \in BossNames |-> IF b \in Home(s) THEN line.of.boss[b]
                                                     ELSE bossOf[b]]
              ELSE UNCHANGED <<boss, bossOf>>
    /\ UNCHANGED <<up, world>>

\* api_status.go:281-285, 295-329 and api.go:798-801: the caves' node posts its
\* two timers; posts have a goroutine each and arrive in any order.
Report ==
    /\ RemoteCaves
    /\ \E t \in {state.timer : state \in States} :
           /\ boss' = [b \in BossNames |-> IF b \in CaveBosses THEN Low(BossByte(b, t)) ELSE boss[b]]
           /\ bossOf' = [b \in BossNames |-> IF b \in CaveBosses THEN t ELSE bossOf[b]]
    /\ UNCHANGED <<up, world, out, env, envOf>>

\* sys_params.go:169-190: the numbers get their sentinels; the three booleans
\* keep what they had.
Reset == env' = [UnknownEnv EXCEPT !.rain = env.rain, !.snow = env.snow, !.awake = env.awake]
         /\ boss' = UnknownBoss

\* The runner of a shard unwinds.  The numbers are reset at the end of the master
\* (game.go:70), at that of the caves only where no master runs (game.go:166-168);
\* lines its LiveStream has not read yet may still be read.
Resets(s) == s = "master" \/ "master" \notin Shards
Die(s) ==
    /\ up[s]
    /\ up' = [up EXCEPT ![s] = FALSE]
    /\ IF Resets(s)
       THEN Reset /\ envOf' = {} /\ bossOf' = [b \in BossNames |-> Unset]
       ELSE UNCHANGED <<env, boss, envOf, bossOf>>
    /\ UNCHANGED <<world, out>>

\* Wait closes the pipe under LiveStream: the lines left in it are lost.
Lose(s) ==
    /\ ~up[s]
    /\ out[s] # <<>>
    /\ out' = [out EXCEPT ![s] = <<>>]
    /\ UNCHANGED <<up, world, env, boss, envOf, bossOf>>

Next ==
    \/ Boot \/ Report
    \/ \E s \in Shards : Evolve(s) \/ Sample(s) \/ Decode(s) \/ Die(s) \/ Lose(s)

Spec == Init /\ [][Next]_vars

-----------------------------------------------------------------------------
(* Properties                                                              *)

\* The environment numbers say what the world was: no bit of one field spills into
\* another, the sign survives, a number beyond its limit saturates, and the states
\* of the nightmare are told apart.  Where the documentation and the code disagree,
\* on the number shown at the cap of the days and on the numbers of the nightmare
\* (api.md:73, 85), nothing is said but that the cap does not wrap.
DayCap == 2097151
EnvFaithful ==
    \A w \in envOf :
        /\ w.cycles < DayCap => env.cycles = (IF w.cycles < 0 THEN 0 ELSE w.cycles) + 1
        /\ w.cycles >= DayCap => env.cycles >= DayCap
        /\ env.players = (IF w.players > 127 THEN 127 ELSE w.players)
        /\ env.season = SeasonCode[w.season]
        /\ env.moon = w.moon
        /\ env.temp = Clamp(w.temp, -8191, 8191)
        /\ env.phase = PhaseCode[w.phase]
        /\ env.rain = w.rain /\ env.snow = w.snow /\ env.awake = w.awake
        /\ \A state \in DOMAIN NightmareCode :
               (env.nightmare = NightmareCode[state]) <=> (state = w.nightmare)
        /\ env.rem = Clamp(w.rem, 0, 127)

\* Every boss number is unknown, or the timer of the shard that boss lives on,
\* rounded up to days (down to minutes for the antlion): the two shards' packets
\* share one format and must not overwrite each other's bosses.  A timer beyond
\* the last number shows one of the two highest; which of them is where the
\* documentation disagrees with the code (api.md:91-99).
Units(b, t) == IF b = "antlion" THEN t \div 60 ELSE CeilDiv(t, 480)
BossesFaithful ==
    \A b \in BossNames :
        LET t == bossOf[b] IN
        CASE t = Unset -> boss[b] = Max32
          [] t = NoTimer -> boss[b] = 127
          [] t = Living -> boss[b] = (IF b = "antlion" THEN 127 ELSE 0)
          [] OTHER -> /\ Units(b, t) <= 126 => boss[b] = Clamp(Units(b, t), 0, 126)
                      /\ Units(b, t) > 126 => boss[b] \in {126, 127}

\* A packet is one line of the stream: no byte of it is a newline or out of
\* range, and the decoder finds in it a number the script can send.
WellFramed ==
    \A s \in Shards : \A i \in DOMAIN out[s] :
        LET p == out[s][i].bytes IN
        /\ \A j \in DOMAIN p : p[j] \in 128 .. 255
        /\ Number(p) \in 0 .. 2
        /\ Len(Data(p)) >= 10

=============================================================================
