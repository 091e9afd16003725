-------------------------- MODULE SupervisorProofs --------------------------
(***************************************************************************)
(* Proofs about Supervisor, for any number of monitors and clients, either *)
(* or both shards, and every setting of the options.                       *)
(***************************************************************************)
EXTENDS Supervisor, TLAPS

-----------------------------------------------------------------------------
(* Type correctness                                                        *)

LEMMA TypeInit == Init => TypeOK
<1> SUFFICES ASSUME Init PROVE TypeOK
  OBVIOUS
<1>1. gate \in BOOLEAN /\ halted \in BOOLEAN /\ cancelled \in BOOLEAN /\ killSwitch \in BOOLEAN
  BY OptionsAssumption DEF Init
<1>2. /\ ready \in [Shards -> BOOLEAN]
      /\ stale \in [Monitors -> BOOLEAN]
  BY DEF Init
<1>3. /\ bus \in BusActions \cup {"none"}
      /\ act \in BusActions \cup {"Noop", "SystemHalt"}
      /\ mpc \in MainPC
      /\ modBusy \in {"free", "main"} \cup Monitors
  BY DEF Init, MainPC
<1> QED
  BY <1>1, <1>2, <1>3 DEF Init, TypeOK

LEMMA CrashType == \A s \in Shards : CrashOf(s) \in BusActions
BY DEF CrashOf, BusActions, Crashes

LEMMA TypeMain == TypeOK /\ Main => TypeOK'
<1> SUFFICES ASSUME TypeOK, Main PROVE TypeOK'
  OBVIOUS
<1> USE DEF TypeOK, lifeVars, mainVars, shardVars, monVars, apiVars
<1>1. CASE ReadGate \/ EnterIdle \/ IdleHalted \/ WaitLocks \/ ProbeGame \/ BootUpdated
  BY <1>1 DEF ReadGate, EnterIdle, IdleHalted, WaitLocks, ProbeGame, BootUpdated, MainGoes, MainPC
<1>2. CASE BootMods \/ HotMods
  BY <1>2 DEF BootMods, HotMods, LockMods, UnlockMods, MainPC
<1>3. CASE Arm
  BY <1>3 DEF Arm, Expire, MainPC
<1>4. CASE Drain
  BY <1>4 DEF Drain, MainPC
<1>5. CASE Spawn
  BY <1>5 DEF Spawn, MainPC
<1>6. CASE AwaitAction
  BY <1>6 DEF AwaitAction, MainPC
<1>7. CASE AwaitHalted
  BY <1>7 DEF AwaitHalted, MainPC
<1>8. CASE GraceEnds \/ Join \/ Overwritten
  BY <1>8 DEF GraceEnds, Join, Overwritten, MainGoes, MainPC
<1>9. CASE Cancel
  BY <1>9 DEF Cancel, MainPC
<1>10. CASE Disarm
  BY <1>10 DEF Disarm, Expire, MainPC
<1>11. CASE Settle
  BY <1>11 DEF Settle, MainPC
<1> QED
  BY <1>1, <1>2, <1>3, <1>4, <1>5, <1>6, <1>7, <1>8, <1>9, <1>10, <1>11 DEF Main

LEMMA TypeShard == ASSUME NEW s \in Shards, TypeOK, Runner(s) \/ Game(s) PROVE TypeOK'
<1> USE DEF TypeOK, lifeVars, mainVars, shardVars, monVars, apiVars
<1>1. CASE Boot(s)
  BY <1>1, CrashType DEF Boot, ShardGoes, Post
<1>2. CASE SeeDone(s) \/ Reap(s) \/ Clear(s) \/ Leave(s)
  BY <1>2 DEF SeeDone, Reap, Clear, Leave, ShardGoes
<1>3. CASE SeeExit(s)
  BY <1>3, CrashType DEF SeeExit, ShardGoes, Post
<1>4. CASE Kill(s)
  BY <1>4 DEF Kill, ShardGoes, Doom
<1>5. CASE Linger(s)
  BY <1>5 DEF Linger, ShardGoes, Doom
<1>6. CASE Exits(s) \/ Signal(s) \/ Prints(s) \/ LosesLine(s)
  BY <1>6 DEF Exits, Signal, Prints, LosesLine
<1>7. CASE Streams(s)
  BY <1>7 DEF Streams, Post, BusActions
<1> QED
  BY <1>1, <1>2, <1>3, <1>4, <1>5, <1>6, <1>7 DEF Runner, Game

LEMMA TypeMonitor == ASSUME NEW m \in Monitors, TypeOK, Monitor(m) PROVE TypeOK'
BY DEF TypeOK, lifeVars, mainVars, shardVars, monVars, apiVars, Monitor, Tick, MonQuit,
       MonGame, MonMods, MonPost, MonGoes, Post, BusActions

LEMMA TypeClient == ASSUME NEW c \in Clients, TypeOK, Request(c) \/ Handler(c) PROVE TypeOK'
<1> USE DEF TypeOK, lifeVars, mainVars, shardVars, monVars, apiVars, HandlerGoes
<1>1. CASE Request(c)
  BY <1>1, ApiAssumption DEF Request
<1>2. CASE SetGate(c) \/ RaiseGate(c) \/ Reply(c)
  BY <1>2 DEF SetGate, RaiseGate, Reply
<1>3. CASE PostHalt(c)
  BY <1>3 DEF PostHalt, Post, BusActions
<1>4. CASE LoadSwitch(c)
  BY <1>4 DEF LoadSwitch
<1>7. CASE SwapSwitch(c)
  <2>1. killSwitch' \in BOOLEAN
    BY <1>7 DEF SwapSwitch
  <2>2. held' \in [Clients -> {"nil", "live", "stale", "won"}]
    BY <1>7 DEF SwapSwitch
  <2> QED
    BY <1>7, <2>1, <2>2 DEF SwapSwitch
<1>5. CASE CallCancel(c)
  BY <1>5 DEF CallCancel
<1>6. CASE Wake(c)
  BY <1>6 DEF Wake, MainPC
<1> QED
  BY <1>1, <1>2, <1>3, <1>4, <1>5, <1>6, <1>7 DEF Handler

LEMMA TypeSignals == TypeOK /\ (Interrupt \/ ForceExit \/ UNCHANGED vars) => TypeOK'
<1> USE DEF TypeOK, lifeVars, mainVars, shardVars, monVars, apiVars
<1>1. TypeOK /\ Interrupt => TypeOK'
  BY DEF Interrupt
<1>2. TypeOK /\ ForceExit => TypeOK'
  BY DEF ForceExit, MainPC
<1>3. TypeOK /\ UNCHANGED vars => TypeOK'
  BY DEF vars
<1> QED
  BY <1>1, <1>2, <1>3

\* Type correctness: in every reachable state each shared object of the
\* supervisor holds a value of its type.
THEOREM TypeCorrect == Spec => []TypeOK
<1>1. TypeOK /\ [Next]_vars => TypeOK'
  BY TypeMain, TypeShard, TypeMonitor, TypeClient, TypeSignals DEF Next
<1> QED
  BY TypeInit, <1>1, PTL DEF Spec

-----------------------------------------------------------------------------
(* The rewrite of the binaries                                             *)

\* main is in the part of its loop where runners may exist: between the spawn
\* of main.go:166-174 and the return of the wg.Wait of main.go:195.
Living == {"await", "hotMod", "hotUpdating", "grace", "teardown", "disarm", "join"}

\* The invariant that makes BinariesIdle inductive: outside of that part every
\* runner is gone, and a runner that is gone, not yet in charge of a process,
\* or past its kill ladder has no process left.
RunnersJoined == mpc \notin Living \cup {"exit"} => \A s \in Shards : spc[s] = "off"
NoProcWithoutRunner ==
    \A s \in Shards : spc[s] \in {"off", "boot", "clear", "leave"} => proc[s] \in {"none", "gone"}
LifeInv == TypeOK /\ RunnersJoined /\ NoProcWithoutRunner

LEMMA LifeInit == Init => LifeInv
BY TypeInit DEF Init, LifeInv, RunnersJoined, NoProcWithoutRunner

LEMMA LifeMain == LifeInv /\ Main => LifeInv'
<1> SUFFICES ASSUME LifeInv, Main PROVE LifeInv'
  OBVIOUS
<1>0. TypeOK'
  BY TypeMain DEF LifeInv
<1> USE DEF LifeInv, RunnersJoined, NoProcWithoutRunner, Living, shardVars
<1>1. CASE ReadGate \/ EnterIdle \/ IdleHalted \/ WaitLocks \/ ProbeGame \/ BootUpdated
  BY <1>0, <1>1 DEF ReadGate, EnterIdle, IdleHalted, WaitLocks, ProbeGame, BootUpdated, MainGoes
<1>2. CASE BootMods \/ HotMods
  BY <1>0, <1>2 DEF BootMods, HotMods, LockMods, UnlockMods
<1>3. CASE Arm \/ Drain
  BY <1>0, <1>3 DEF Arm, Drain
<1>4. CASE Spawn
  BY <1>0, <1>4 DEF Spawn, TypeOK
<1>5. CASE AwaitAction \/ AwaitHalted
  BY <1>0, <1>5 DEF AwaitAction, AwaitHalted
<1>6. CASE GraceEnds \/ Join \/ Overwritten
  BY <1>0, <1>6 DEF GraceEnds, Join, Overwritten, MainGoes
<1>7. CASE Cancel \/ Disarm
  BY <1>0, <1>7 DEF Cancel, Disarm
<1>8. CASE Settle
  BY <1>0, <1>8 DEF Settle
<1> QED
  BY <1>1, <1>2, <1>3, <1>4, <1>5, <1>6, <1>7, <1>8 DEF Main

LEMMA LifeShard == ASSUME NEW s \in Shards, LifeInv, Runner(s) \/ Game(s) PROVE LifeInv'
<1>0. TypeOK'
  BY TypeShard DEF LifeInv
<1> USE DEF LifeInv, TypeOK, RunnersJoined, NoProcWithoutRunner, mainVars, ShardGoes, Alive
<1>1. CASE Boot(s)
  BY <1>0, <1>1 DEF Boot
<1>2. CASE SeeDone(s) \/ SeeExit(s)
  BY <1>0, <1>2 DEF SeeDone, SeeExit
<1>3. CASE Kill(s)
  BY <1>0, <1>3 DEF Kill, Doom
<1>4. CASE Linger(s)
  BY <1>0, <1>4 DEF Linger, Doom
<1>5. CASE Reap(s) \/ Clear(s) \/ Leave(s)
  BY <1>0, <1>5 DEF Reap, Clear, Leave
<1>6. CASE Game(s)
  BY <1>0, <1>6 DEF Game, Exits, Signal, Prints, Streams, LosesLine
<1> QED
  BY <1>1, <1>2, <1>3, <1>4, <1>5, <1>6 DEF Runner

LEMMA LifeMonitor == ASSUME NEW m \in Monitors, LifeInv, Monitor(m) PROVE LifeInv'
BY TypeMonitor DEF LifeInv, RunnersJoined, NoProcWithoutRunner, mainVars, shardVars,
       Monitor, Tick, MonQuit, MonGame, MonMods, MonPost

LEMMA LifeClient == ASSUME NEW c \in Clients, LifeInv, Request(c) \/ Handler(c) PROVE LifeInv'
<1>0. TypeOK'
  BY TypeClient DEF LifeInv
<1> QED
  BY <1>0 DEF LifeInv, RunnersJoined, NoProcWithoutRunner, Living, mainVars, shardVars,
       Request, Handler, SetGate, PostHalt, LoadSwitch, SwapSwitch, CallCancel, Wake,
       RaiseGate, Reply

LEMMA LifeSignals == LifeInv /\ (Interrupt \/ ForceExit \/ UNCHANGED vars) => LifeInv'
BY TypeSignals DEF LifeInv, RunnersJoined, NoProcWithoutRunner, vars, mainVars, shardVars,
       Interrupt, ForceExit

LEMMA LifeInvariant == Spec => []LifeInv
<1>1. LifeInv /\ [Next]_vars => LifeInv'
  BY LifeMain, LifeShard, LifeMonitor, LifeClient, LifeSignals DEF Next
<1> QED
  BY LifeInit, <1>1, PTL DEF Spec

LEMMA LifeIdle == LifeInv => BinariesIdle
BY DEF LifeInv, RunnersJoined, NoProcWithoutRunner, BinariesIdle, Rewriting, LiveProcs, Living

\* steamcmd never rewrites the binaries under a live game process, whatever
\* the shards, monitors, clients and signals do.
THEOREM BinariesAreIdle == Spec => []BinariesIdle
BY LifeInvariant, LifeIdle, PTL

-----------------------------------------------------------------------------
(* The supervisor implements BinaryStore                                   *)

LEMMA StoreInit == Init => Binaries!Init
BY DEF Init, Binaries!Init, LiveProcs, Rewriting

LEMMA StoreMain == LifeInv /\ Main => [Binaries!Next]_(Binaries!vars)
<1> SUFFICES ASSUME LifeInv, Main PROVE [Binaries!Next]_(Binaries!vars)
  OBVIOUS
<1>0. LiveProcs' = LiveProcs
  BY DEF Main, ReadGate, EnterIdle, IdleHalted, WaitLocks, ProbeGame, BootUpdated, BootMods,
         LockMods, UnlockMods, Arm, Drain, Spawn, AwaitAction, AwaitHalted, HotMods, GraceEnds,
         Cancel, Disarm, Join, Settle, Overwritten, MainGoes, shardVars, LiveProcs
<1> USE DEF Rewriting, Binaries!Next, Binaries!vars
<1>1. CASE Rewriting' = Rewriting
  BY <1>0, <1>1
<1>2. CASE ~Rewriting /\ Rewriting'
  <2>1. mpc \notin Living \cup {"exit"}
    BY <1>2 DEF Living, Main, ReadGate, EnterIdle, IdleHalted, WaitLocks, ProbeGame, BootUpdated,
         BootMods, LockMods, UnlockMods, Arm, Drain, Spawn, AwaitAction, AwaitHalted, HotMods,
         GraceEnds, Cancel, Disarm, Join, Settle, Overwritten, MainGoes
  <2>2. LiveProcs = {}
    BY <2>1 DEF LifeInv, RunnersJoined, NoProcWithoutRunner, LiveProcs
  <2> QED
    BY <1>0, <1>2, <2>2 DEF Binaries!BeginWrite
<1>3. CASE Rewriting /\ ~Rewriting'
  BY <1>0, <1>3 DEF Binaries!EndWrite
<1> QED
  BY <1>1, <1>2, <1>3

LEMMA StoreShard ==
    ASSUME NEW s \in Shards, LifeInv, Runner(s) \/ Game(s)
    PROVE  [Binaries!Next]_(Binaries!vars)
<1> USE DEF LifeInv, TypeOK, mainVars, ShardGoes, Alive, Rewriting, LiveProcs, Binaries!vars
<1>1. Rewriting' = Rewriting
  BY DEF Runner, Boot, SeeDone, SeeExit, Kill, Linger, Reap, Clear, Leave,
         Game, Exits, Signal, Prints, Streams, LosesLine
<1>2. CASE Boot(s)
  <2>1. ~Rewriting
    BY <1>2 DEF Boot, RunnersJoined, Living
  <2>2. s \notin LiveProcs
    BY <1>2 DEF Boot, NoProcWithoutRunner
  <2>3. LiveProcs' = LiveProcs \cup {s} \/ LiveProcs' = LiveProcs
    BY <1>2, <2>2 DEF Boot
  <2> QED
    BY <1>1, <2>1, <2>2, <2>3 DEF Binaries!Next, Binaries!Enter
<1>3. CASE SeeDone(s) \/ SeeExit(s) \/ Kill(s) \/ Linger(s) \/ Reap(s) \/ Clear(s) \/ Leave(s)
  <2>1. LiveProcs' = LiveProcs
    BY <1>3 DEF SeeDone, SeeExit, Kill, Linger, Reap, Clear, Leave, Doom
  <2> QED
    BY <1>1, <2>1
<1>4. CASE Game(s)
  <2>1. LiveProcs' = LiveProcs \/ LiveProcs' = LiveProcs \ {s}
    BY <1>4 DEF Game, Exits, Signal, Prints, Streams, LosesLine
  <2> QED
    BY <1>1, <2>1 DEF Binaries!Next, Binaries!Leave
<1> QED
  BY <1>2, <1>3, <1>4 DEF Runner

LEMMA StoreOthers ==
    ASSUME LifeInv,
           \/ \E m \in Monitors : Monitor(m)
           \/ \E c \in Clients : Request(c) \/ Handler(c)
           \/ Interrupt \/ ForceExit \/ UNCHANGED vars
    PROVE  [Binaries!Next]_(Binaries!vars)
<1> USE DEF Rewriting, LiveProcs, Binaries!vars, mainVars, shardVars
<1>1. CASE \E m \in Monitors : Monitor(m)
  BY <1>1 DEF Monitor, Tick, MonQuit, MonGame, MonMods, MonPost
<1>2. CASE \E c \in Clients : Request(c) \/ Handler(c)
  BY <1>2 DEF Request, Handler, SetGate, PostHalt, LoadSwitch, SwapSwitch, CallCancel, Wake,
              RaiseGate, Reply
<1>3. CASE Interrupt \/ UNCHANGED vars
  BY <1>3 DEF Interrupt, vars
<1>4. CASE ForceExit
  BY <1>4 DEF ForceExit, Binaries!Next, Binaries!Exit
<1> QED
  BY <1>1, <1>2, <1>3, <1>4

\* The supervisor implements the readers-writer discipline: every start of a
\* process is an Enter, every steamcmd run a BeginWrite that found no process.
THEOREM ImplementsBinaryStore == Spec => BinariesImplemented
<1>1. LifeInv /\ [Next]_vars => [Binaries!Next]_(Binaries!vars)
  BY StoreMain, StoreShard, StoreOthers DEF Next
<1> QED
  BY StoreInit, LifeInvariant, <1>1, PTL DEF Spec, BinariesImplemented, Binaries!Spec

-----------------------------------------------------------------------------
(* The mod tables                                                          *)

\* Whoever is inside the mod subsystem is the registered owner of its lock.
OwnsLock ==
    /\ mpc \in {"probingMod", "updatingMod", "hotUpdating"} => modBusy = "main"
    /\ \A m \in Monitors : mon[m] = "mods" => modBusy = m

LEMMA LockStep == TypeOK /\ OwnsLock /\ [Next]_vars => OwnsLock'
<1> SUFFICES ASSUME TypeOK, OwnsLock, [Next]_vars PROVE OwnsLock'
  OBVIOUS
<1> USE DEF OwnsLock, mainVars, monVars
<1>1. CASE BootMods \/ HotMods
  BY <1>1, MonitorsAssumption DEF BootMods, HotMods, LockMods, UnlockMods
<1>2. CASE ReadGate \/ EnterIdle \/ IdleHalted \/ WaitLocks \/ ProbeGame \/ BootUpdated
           \/ GraceEnds \/ Join \/ Overwritten
  BY <1>2 DEF ReadGate, EnterIdle, IdleHalted, WaitLocks, ProbeGame, BootUpdated,
              GraceEnds, Join, Overwritten, MainGoes
<1>3. CASE Arm \/ Drain \/ AwaitAction \/ AwaitHalted \/ Cancel \/ Disarm \/ Settle
  BY <1>3 DEF Arm, Drain, AwaitAction, AwaitHalted, Cancel, Disarm, Settle
<1>4. CASE Spawn
  BY <1>4 DEF Spawn, TypeOK
<1>5. ASSUME NEW s \in Shards, Runner(s) \/ Game(s) PROVE OwnsLock'
  BY <1>5 DEF Runner, Boot, SeeDone, SeeExit, Kill, Linger, Reap, Clear, Leave,
              Game, Exits, Signal, Prints, Streams, LosesLine
<1>6. ASSUME NEW m \in Monitors, Monitor(m) PROVE OwnsLock'
  BY <1>6, MonitorsAssumption DEF TypeOK, Monitor, Tick, MonQuit, MonGame, MonMods, MonPost, MonGoes
<1>7. ASSUME NEW c \in Clients, Request(c) \/ Handler(c) PROVE OwnsLock'
  BY <1>7 DEF Request, Handler, SetGate, PostHalt, LoadSwitch, SwapSwitch, CallCancel, Wake,
              RaiseGate, Reply
<1>8. CASE Interrupt \/ ForceExit \/ UNCHANGED vars
  BY <1>8 DEF Interrupt, ForceExit, vars
<1> QED
  BY <1>1, <1>2, <1>3, <1>4, <1>5, <1>6, <1>7, <1>8 DEF Next, Main

\* At most one goroutine is inside the mod subsystem and its global tables,
\* monitors of dead lives included, for any number of them.
THEOREM ModTablesAreExclusive == Spec => []ModTablesExclusive
<1>1. Init => OwnsLock
  BY DEF Init, OwnsLock
<1>2. OwnsLock => ModTablesExclusive
  BY DEF OwnsLock, ModTablesExclusive, ModTableUsers
<1> QED
  BY TypeCorrect, <1>1, LockStep, <1>2, PTL DEF Spec

-----------------------------------------------------------------------------
(* Without API requests main is never left waiting                         *)

\* Once a runner has left its select, or the life is cancelled, main has an
\* action to take; and the life it waits in starts out not cancelled.
Signalled ==
    /\ \A c \in Clients : hpc[c] = "idle"
    /\ mpc \in {"drain", "spawn"} => ~cancelled
    /\ mpc = "await" /\ ~halted /\ bus = "none" =>
           ~cancelled /\ \A s \in Shards : spc[s] \in {"boot", "run"}

LEMMA SignalledStep ==
    ASSUME ApiOps = {}, LifeInv, Signalled, [Next]_vars
    PROVE  Signalled'
<1> USE DEF Signalled, lifeVars, mainVars, shardVars, apiVars
<1>1. CASE BootMods \/ HotMods
  BY <1>1 DEF BootMods, HotMods, LockMods, UnlockMods
<1>2. CASE ReadGate \/ EnterIdle \/ IdleHalted \/ WaitLocks \/ ProbeGame \/ BootUpdated
           \/ GraceEnds \/ Join \/ Overwritten
  BY <1>2 DEF ReadGate, EnterIdle, IdleHalted, WaitLocks, ProbeGame, BootUpdated,
              GraceEnds, Join, Overwritten, MainGoes
<1>3. CASE Arm \/ Drain \/ AwaitHalted \/ Cancel \/ Disarm
  BY <1>3 DEF Arm, Drain, AwaitHalted, Cancel, Disarm
<1>4. CASE Spawn
  BY <1>4 DEF Spawn
<1>11. CASE AwaitAction
  <2>1. mpc' \in {"grace", "hotMod", "teardown"}
    BY <1>11 DEF AwaitAction
  <2> QED
    BY <1>11, <2>1 DEF AwaitAction
<1>12. CASE Settle
  <2>1. mpc' \in {"overwrite", "exit", "top"}
    BY <1>12 DEF Settle
  <2> QED
    BY <1>12, <2>1 DEF Settle
<1>5. ASSUME NEW s \in Shards, Boot(s) \/ SeeExit(s) PROVE Signalled'
  <2>1. CrashOf(s) # "none"
    BY DEF CrashOf
  <2>2. bus' # "none" \/ (bus' = bus /\ spc'[s] = "run")
    BY <1>5, <2>1 DEF Boot, SeeExit, Post, LifeInv, TypeOK, ShardGoes
  <2>3. \A t \in Shards : t # s => spc'[t] = spc[t]
    BY <1>5 DEF Boot, SeeExit, ShardGoes, LifeInv, TypeOK
  <2> QED
    BY <1>5, <2>2, <2>3 DEF Boot, SeeExit, LifeInv, TypeOK
<1>6. ASSUME NEW s \in Shards,
             SeeDone(s) \/ Kill(s) \/ Linger(s) \/ Reap(s) \/ Clear(s) \/ Leave(s)
      PROVE Signalled'
  BY <1>6 DEF SeeDone, Kill, Linger, Reap, Clear, Leave, ShardGoes, LifeDone, LifeInv,
              RunnersJoined, Living, TypeOK
<1>7. ASSUME NEW s \in Shards, Game(s) PROVE Signalled'
  BY <1>7 DEF Game, Exits, Signal, Prints, Streams, LosesLine, Post
<1>8. ASSUME NEW m \in Monitors, Monitor(m) PROVE Signalled'
  BY <1>8 DEF Monitor, Tick, MonQuit, MonGame, MonMods, MonPost, Post
<1>9. ASSUME NEW c \in Clients, Request(c) \/ Handler(c) PROVE Signalled'
  BY <1>9 DEF Request, Handler, SetGate, PostHalt, LoadSwitch, SwapSwitch, CallCancel, Wake,
              RaiseGate, Reply, HandlerGoes
<1>10. CASE Interrupt \/ ForceExit \/ UNCHANGED vars
  BY <1>10 DEF Interrupt, ForceExit, vars
<1> QED
  BY <1>1, <1>2, <1>3, <1>4, <1>5, <1>6, <1>7, <1>8, <1>9, <1>10,
     <1>11, <1>12 DEF Next, Main, Runner

\* When no control request reaches the API, main never waits for an action
\* that nobody is left to post, although every post may be dropped and the bus
\* is drained at the start of each life.
THEOREM NeverWedgedWithoutApi == ASSUME ApiOps = {} PROVE Spec => []NeverWedged
<1>1. Init => Signalled
  BY DEF Init, Signalled
<1>2. Signalled => NeverWedged
  BY ShardsAssumption DEF Signalled, NeverWedged
<1>3. LifeInv /\ Signalled /\ [Next]_vars => Signalled'
  BY SignalledStep
<1> QED
  BY LifeInvariant, <1>1, <1>2, <1>3, PTL DEF Spec

=============================================================================
