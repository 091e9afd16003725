----------------------------- MODULE Supervisor -----------------------------
(***************************************************************************)
(* The supervisor of DST Nucleus: the main loop that boots, watches and    *)
(* recycles the game shards (main.go:123-217), the two shard runners with  *)
(* their kill ladder (game.go:66-255, 738-785), the version probe          *)
(* goroutine of each life (update.go:69-120), the control handlers of the  *)
(* HTTP API (api.go:407-468) and the signal watchdog (main.go:220-233).    *)
(*                                                                         *)
(* A "life" is one round of the loop: the goroutines created between       *)
(* main.go:156 and the wg.Wait of main.go:195.  They share one context     *)
(* (LifeCtx), a child of GlobalCtx.  Everybody who wants the life to end   *)
(* posts an action on ActionBus, a channel of capacity 1 on which a post   *)
(* that finds the channel full is dropped.                                 *)
(*                                                                         *)
(* One variable per shared object of the code; each goroutine has a        *)
(* program counter and takes one step per shared access.                   *)
(***************************************************************************)
EXTENDS Naturals, FiniteSets

CONSTANTS
    Shards,        \* the shards this node runs (master_enabled, caves_enabled)
    Clients,       \* HTTP handler goroutines that may be live at once
    ApiOps,        \* the control requests clients send
    Monitors,      \* slots for version probes, those of dead lives included
    CrashReboot,   \* the crash_restart option
    AutoStart,     \* the autostart option
    Interrupts     \* whether the environment may send SIGINT or SIGTERM

AllShards == {"master", "caves"}

ASSUME ShardsAssumption == Shards \subseteq AllShards /\ Shards # {}
ASSUME ApiAssumption == ApiOps \subseteq {"start", "stop", "restart"}
ASSUME OptionsAssumption ==
    CrashReboot \in BOOLEAN /\ AutoStart \in BOOLEAN /\ Interrupts \in BOOLEAN
\* modBusy names its owner: "main" or a monitor, or nobody.
ASSUME MonitorsAssumption == "main" \notin Monitors /\ "free" \notin Monitors

VARIABLES
    gate,          \* ServerRunGate: the master switch
    bus,           \* ActionBus: "none" or the one queued action
    cancelled,     \* LifeCtx of the current life cancelled (TRUE between lives)
    killSwitch,    \* EpochKillSwitch holds the current life's cancel function
    halted,        \* GlobalCtx is done
    mpc,           \* program counter of main
    act,           \* FireAction: the action main took from the bus
    spc,           \* program counter of each shard runner
    proc,          \* each shard's game process, as the runner sees it
    ready,         \* MasterReadyGate / CavesReadyGate
    line,          \* one interesting line in a shard's stdout stream
    mon,           \* program counter of each version probe
    stale,         \* the monitor belongs to an earlier life
    modBusy,       \* ModBusyGate: who holds it, or "free"
    hpc,           \* program counter of each HTTP handler
    hop,           \* the request it serves
    held           \* the pointer it loaded from EpochKillSwitch

lifeVars  == <<cancelled, killSwitch>>
mainVars  == <<mpc, act>>
shardVars == <<spc, proc, ready, line>>
monVars   == <<mon, stale, modBusy>>
apiVars   == <<hpc, hop, held>>
vars == <<gate, bus, halted, lifeVars, mainVars, shardVars, monVars, apiVars>>

Crashes == {"MasterCrash", "CavesCrash"}
BusActions == Crashes \cup {"GameUpdate", "ModHotUpdate", "ApiHalt"}
\* Mutant: the zero value of the action type is posted for a crash.
CrashOf_Zero(s) == "Noop"

CrashOf(s) == IF s = "master" THEN "MasterCrash" ELSE "CavesCrash"

\* The process of the core exists: os.Exit and the return of main end every
\* goroutine.
Alive == mpc # "exit"

\* The Done channel of the current life's context is closed.
LifeDone == cancelled \/ halted

\* select { case bus <- a: default: }
Post(a) == bus' = IF bus = "none" THEN a ELSE bus

\* A pointer loaded from EpochKillSwitch is of no use once the switch has been
\* overwritten (its CompareAndSwap fails), a swapped-out cancel function once
\* the next life has its own context.
Expire(kind) == held' = [c \in Clients |-> IF held[c] = kind THEN "stale" ELSE held[c]]

-----------------------------------------------------------------------------
Init ==
    /\ gate = AutoStart
    /\ bus = "none"
    /\ halted = FALSE
    /\ cancelled = TRUE
    /\ killSwitch = FALSE
    /\ mpc = "top"
    /\ act = "Noop"
    /\ spc = [s \in Shards |-> "off"]
    /\ proc = [s \in Shards |-> "none"]
    /\ ready = [s \in Shards |-> FALSE]
    /\ line = [s \in Shards |-> "none"]
    /\ mon = [m \in Monitors |-> "off"]
    /\ stale = [m \in Monitors |-> FALSE]
    /\ modBusy = "free"
    /\ hpc = [c \in Clients |-> "idle"]
    /\ hop = [c \in Clients |-> "start"]
    /\ held = [c \in Clients |-> "nil"]

-----------------------------------------------------------------------------
(* main, between two lives                                                 *)

\* A step of main that only moves its program counter.
MainGoes(from, to) ==
    /\ mpc = from
    /\ mpc' \in to
    /\ UNCHANGED <<gate, bus, halted, lifeVars, act, shardVars, monVars, apiVars>>

\* main.go:124-125: the switch is read once; the console line is written
\* before the goroutine reaches the select.
ReadGate == MainGoes("top", IF gate THEN {"locks"} ELSE {"idling"})

\* main.go:126: main blocks in the select; only now ApiWakeChan, which is
\* unbuffered, has a receiver.
EnterIdle == MainGoes("idling", {"idle"})

\* main.go:129-131: GlobalCtx is done while the core is idle.
IdleHalted == halted /\ MainGoes("idle", {"exit"})

\* main.go:134-137: polled until free.  GameUpdatingGate is only ever held by
\* main itself, so only the mod lock can be busy here.
WaitLocks == modBusy = "free" /\ MainGoes("locks", {"probeGame"})

\* main.go:139-150: on a newer game version steamcmd runs before the boot.
ProbeGame == MainGoes("probeGame", {"bootUpdate", "probeMod"})

\* steamcmd ends, with or without success (update.go:202-233).
BootUpdated == MainGoes("bootUpdate", {"probeMod"})

\* Mutant: the lock is taken on the strength of the wait in WaitLocks.
LockMods_TrustsWait(from, locked, refused) ==
    /\ mpc = from
    /\ mpc' = locked
    /\ modBusy' = "main"
    /\ UNCHANGED <<gate, bus, halted, lifeVars, act, shardVars, mon, stale, apiVars>>

\* update.go:142-146 and 236-240: CompareAndSwap on ModBusyGate, refused when
\* somebody holds it.
LockMods(from, locked, refused) ==
    /\ mpc = from
    /\ IF modBusy = "free"
       THEN modBusy' = "main" /\ mpc' = locked
       ELSE modBusy' = modBusy /\ mpc' = refused
    /\ UNCHANGED <<gate, bus, halted, lifeVars, act, shardVars, mon, stale, apiVars>>

\* The deferred Store(false) of both functions, and where main goes from there.
UnlockMods(from, to) ==
    /\ mpc = from
    /\ modBusy' = "free"
    /\ mpc' \in to
    /\ UNCHANGED <<gate, bus, halted, lifeVars, act, shardVars, mon, stale, apiVars>>

\* main.go:152-154: probe the mods, download them when one is out of date.
BootMods ==
    \/ LockMods("probeMod", "probingMod", "arm")
    \/ UnlockMods("probingMod", {"updMod", "arm"})
    \/ LockMods("updMod", "updatingMod", "arm")
    \/ UnlockMods("updatingMod", {"arm"})

-----------------------------------------------------------------------------
(* main, starting a life                                                   *)

\* main.go:156-159: the new context, and its cancel function published.
Arm ==
    /\ mpc = "arm"
    /\ mpc' = "drain"
    /\ cancelled' = FALSE
    /\ killSwitch' = TRUE
    /\ stale' = [m \in Monitors |-> mon[m] # "off"]
    /\ Expire("won")
    /\ UNCHANGED <<gate, bus, halted, act, shardVars, mon, modBusy, hpc, hop>>

\* main.go:161-164: what the dead life left on the bus is thrown away.
Drain ==
    /\ mpc = "drain"
    /\ mpc' = "spawn"
    /\ bus' = "none"
    /\ UNCHANGED <<gate, halted, lifeVars, act, shardVars, monVars, apiVars>>

\* main.go:166-174: the runners (in the WaitGroup) and the version probe (not
\* in it).  The guard on the free slot is the model's bound on live probes.
Spawn ==
    /\ mpc = "spawn"
    /\ mpc' = "await"
    /\ spc' = [s \in Shards |-> "boot"]
    /\ IF Monitors = {} THEN UNCHANGED <<mon, stale>>
       ELSE \E m \in Monitors :
                /\ mon[m] = "off"
                /\ mon' = [mon EXCEPT ![m] = "watch"]
                /\ stale' = [stale EXCEPT ![m] = FALSE]
    /\ UNCHANGED <<gate, bus, halted, lifeVars, act, proc, ready, line, modBusy, apiVars>>

\* main.go:177-178, 183-191: an action is taken from the bus.
AwaitAction ==
    /\ mpc = "await"
    /\ bus # "none"
    /\ act' = bus
    /\ bus' = "none"
    /\ mpc' = CASE bus = "GameUpdate" -> "grace"
                [] bus = "ModHotUpdate" -> "hotMod"
                [] OTHER -> "teardown"
    /\ UNCHANGED <<gate, halted, lifeVars, shardVars, monVars, apiVars>>

\* Mutant: the Done branch leaves the action at its zero value.
AwaitHalted_NoAction ==
    /\ mpc = "await"
    /\ halted
    /\ act' = "Noop"
    /\ mpc' = "teardown"
    /\ UNCHANGED <<gate, bus, halted, lifeVars, shardVars, monVars, apiVars>>

\* main.go:179-181: the other branch of the select; Go picks at random when
\* both are ready.
AwaitHalted ==
    /\ mpc = "await"
    /\ halted
    /\ act' = "SystemHalt"
    /\ mpc' = "teardown"
    /\ UNCHANGED <<gate, bus, halted, lifeVars, shardVars, monVars, apiVars>>

\* main.go:186-188: the hot download runs beside the living game.
HotMods ==
    \/ LockMods("hotMod", "hotUpdating", "grace")
    \/ UnlockMods("hotUpdating", {"grace"})

\* GracefulReboot (game.go:473-569) returns: countdown over, or LifeCtx done.
GraceEnds == MainGoes("grace", {"teardown"})

-----------------------------------------------------------------------------
(* main, ending a life                                                     *)

\* main.go:193
Cancel ==
    /\ mpc = "teardown"
    /\ mpc' = "disarm"
    /\ cancelled' = TRUE
    /\ UNCHANGED <<gate, bus, halted, killSwitch, act, shardVars, monVars, apiVars>>

\* main.go:194
Disarm ==
    /\ mpc = "disarm"
    /\ mpc' = "join"
    /\ killSwitch' = FALSE
    /\ Expire("live")
    /\ UNCHANGED <<gate, bus, halted, cancelled, act, shardVars, monVars, hpc, hop>>

\* Mutant: the wg.Wait is missing.
Join_NoWait == MainGoes("join", {"settle"})

\* main.go:195: wg.Wait
Join == (\A s \in Shards : spc[s] = "off") /\ MainGoes("join", {"settle"})

\* Mutant: the crash_restart option is read the wrong way round.
Settle_Inverted ==
    /\ mpc = "settle"
    /\ mpc' = CASE act = "GameUpdate" -> "overwrite"
                [] act = "SystemHalt" -> "exit"
                [] OTHER -> "top"
    /\ gate' = IF act \in Crashes \cup {"ApiHalt"} /\ CrashReboot THEN FALSE ELSE gate
    /\ UNCHANGED <<bus, halted, lifeVars, act, shardVars, monVars, apiVars>>

\* main.go:198-216
Settle ==
    /\ mpc = "settle"
    /\ mpc' = CASE act = "GameUpdate" -> "overwrite"
                [] act = "SystemHalt" -> "exit"
                [] OTHER -> "top"
    /\ gate' = IF act \in Crashes \cup {"ApiHalt"} /\ ~CrashReboot THEN FALSE ELSE gate
    /\ UNCHANGED <<bus, halted, lifeVars, act, shardVars, monVars, apiVars>>

\* main.go:201: steamcmd ends.
Overwritten == MainGoes("overwrite", {"top"})

Main ==
    \/ ReadGate \/ EnterIdle \/ IdleHalted \/ WaitLocks \/ ProbeGame
    \/ BootUpdated \/ BootMods \/ Arm \/ Drain \/ Spawn
    \/ AwaitAction \/ AwaitHalted \/ HotMods \/ GraceEnds
    \/ Cancel \/ Disarm \/ Join \/ Settle \/ Overwritten

-----------------------------------------------------------------------------
(* the shard runners                                                       *)

ShardGoes(s, from, to) == Alive /\ spc[s] = from /\ spc' = [spc EXCEPT ![s] = to]

\* Mutant: a failed Start unwinds without telling main.
Boot_Silent(s) ==
    /\ \/ ShardGoes(s, "boot", "run") /\ proc' = [proc EXCEPT ![s] = "up"]
       \/ ShardGoes(s, "boot", "clear") /\ proc' = [proc EXCEPT ![s] = "none"]
    /\ UNCHANGED <<gate, bus, halted, lifeVars, mainVars, ready, line, monVars, apiVars>>

\* game.go:91-101: Start succeeds, or it fails and the runner posts and unwinds
\* without a kill (the defer of line 104 is not registered yet).
Boot(s) ==
    /\ \/ /\ ShardGoes(s, "boot", "run")
          /\ proc' = [proc EXCEPT ![s] = "up"]
          /\ UNCHANGED bus
       \/ /\ ShardGoes(s, "boot", "clear")
          /\ proc' = [proc EXCEPT ![s] = "none"]
          /\ Post(CrashOf(s))
    /\ UNCHANGED <<gate, halted, lifeVars, mainVars, ready, line, monVars, apiVars>>

\* game.go:148-150
SeeDone(s) ==
    /\ LifeDone
    /\ ShardGoes(s, "run", "kill")
    /\ UNCHANGED <<gate, bus, halted, lifeVars, mainVars, proc, ready, line, monVars, apiVars>>

\* game.go:151-157: QuitChan has the exit status.
SeeExit(s) ==
    /\ proc[s] \in {"exited", "gone"}
    /\ ShardGoes(s, "run", "kill")
    /\ Post(CrashOf(s))
    /\ UNCHANGED <<gate, halted, lifeVars, mainVars, proc, ready, line, monVars, apiVars>>

\* Cancelling the process context: SIGKILL, if there is still somebody to kill.
Doom(s) == proc' = [proc EXCEPT ![s] = IF @ = "up" THEN "doomed" ELSE @]

\* game.go:743-768: not ready, SIGKILL; dead already, nothing to do; else
\* c_shutdown goes to the command channel, or SIGKILL when the channel is full.
Kill(s) ==
    /\ \/ /\ ~ready[s]
          /\ ShardGoes(s, "kill", "reap")
          /\ Doom(s)
       \/ /\ ready[s]
          /\ proc[s] = "gone"
          /\ ShardGoes(s, "kill", "clear")
          /\ UNCHANGED proc
       \/ /\ ready[s]
          /\ proc[s] # "gone"
          /\ \/ ShardGoes(s, "kill", "linger") /\ UNCHANGED proc
             \/ ShardGoes(s, "kill", "reap") /\ Doom(s)
    /\ UNCHANGED <<gate, bus, halted, lifeVars, mainVars, ready, line, monVars, apiVars>>

\* Mutants: after the SIGKILL nobody waits for the death; the wait for a
\* graceful end has no timeout.
Linger_NoReap(s) ==
    /\ \/ proc[s] = "gone" /\ ShardGoes(s, "linger", "clear") /\ UNCHANGED proc
       \/ ShardGoes(s, "linger", "clear") /\ Doom(s)
    /\ UNCHANGED <<gate, bus, halted, lifeVars, mainVars, ready, line, monVars, apiVars>>
Linger_Forever(s) ==
    /\ proc[s] = "gone"
    /\ ShardGoes(s, "linger", "clear")
    /\ UNCHANGED <<gate, bus, halted, lifeVars, mainVars, proc, ready, line, monVars, apiVars>>

\* game.go:773-784: ten seconds for the game to save and leave, then SIGKILL.
Linger(s) ==
    /\ \/ proc[s] = "gone" /\ ShardGoes(s, "linger", "clear") /\ UNCHANGED proc
       \/ ShardGoes(s, "linger", "reap") /\ Doom(s)
    /\ UNCHANGED <<gate, bus, halted, lifeVars, mainVars, ready, line, monVars, apiVars>>

\* <-DoomSensor: ProcExitSig is closed.
Reap(s) ==
    /\ proc[s] = "gone"
    /\ ShardGoes(s, "reap", "clear")
    /\ UNCHANGED <<gate, bus, halted, lifeVars, mainVars, proc, ready, line, monVars, apiVars>>

\* game.go:69-71: the ready flag is cleared, the telemetry and the epoch reset.
Clear(s) ==
    /\ ShardGoes(s, "clear", "leave")
    /\ ready' = [ready EXCEPT ![s] = FALSE]
    /\ UNCHANGED <<gate, bus, halted, lifeVars, mainVars, proc, line, monVars, apiVars>>

\* game.go:67-68: whoever leaves cancels the life for the others, then wg.Done.
Leave(s) ==
    /\ ShardGoes(s, "leave", "off")
    /\ cancelled' = TRUE
    /\ UNCHANGED <<gate, bus, halted, killSwitch, mainVars, proc, ready, line, monVars, apiVars>>

Runner(s) == \/ Boot(s) \/ SeeDone(s) \/ SeeExit(s) \/ Kill(s)
             \/ Linger(s) \/ Reap(s) \/ Clear(s) \/ Leave(s)

-----------------------------------------------------------------------------
(* the game process and its stdout stream                                  *)

\* The process ends: it crashes, obeys c_shutdown, or dies of SIGKILL.
Exits(s) ==
    /\ proc[s] \in {"up", "doomed"}
    /\ proc' = [proc EXCEPT ![s] = "exited"]
    /\ UNCHANGED <<gate, bus, halted, lifeVars, mainVars, spc, ready, line, monVars, apiVars>>

\* game.go:142-145: Wait has returned and filled QuitChan; ProcExitSig is
\* closed a moment later.
Signal(s) ==
    /\ proc[s] = "exited"
    /\ proc' = [proc EXCEPT ![s] = "gone"]
    /\ UNCHANGED <<gate, bus, halted, lifeVars, mainVars, spc, ready, line, monVars, apiVars>>

\* The process prints a line LiveStream looks for; at most one is under way.
\* "ready": "Sim paused" or the answer to a probe; "outdated": a mod is out of
\* date, which only the master's stream reacts to (game.go:710).
Prints(s) ==
    /\ proc[s] = "up"
    /\ line[s] = "none"
    /\ \E l \in {"ready"} \cup (IF s = "master" THEN {"outdated"} ELSE {}) :
           line' = [line EXCEPT ![s] = l]
    /\ UNCHANGED <<gate, bus, halted, lifeVars, mainVars, spc, proc, ready, monVars, apiVars>>

\* game.go:699-733: LiveStream, which nobody waits for, handles the line; the
\* process that printed it, and its whole life, may be over by then.  The test
\* of line 718 reads a variable nothing ever sets.
Streams(s) ==
    /\ Alive
    /\ line[s] # "none"
    /\ line' = [line EXCEPT ![s] = "none"]
    /\ IF line[s] = "ready"
       THEN ready' = [ready EXCEPT ![s] = TRUE] /\ UNCHANGED bus
       ELSE Post("ModHotUpdate") /\ UNCHANGED ready
    /\ UNCHANGED <<gate, halted, lifeVars, mainVars, spc, proc, monVars, apiVars>>

\* Wait closes the pipe: what LiveStream has not read by then is lost.
LosesLine(s) ==
    /\ Alive
    /\ line[s] # "none"
    /\ proc[s] # "up"
    /\ line' = [line EXCEPT ![s] = "none"]
    /\ UNCHANGED <<gate, bus, halted, lifeVars, mainVars, spc, proc, ready, monVars, apiVars>>

Game(s) == Exits(s) \/ Signal(s) \/ Prints(s) \/ Streams(s) \/ LosesLine(s)

-----------------------------------------------------------------------------
(* the version probe of each life (update.go:69-120)                       *)

MonGoes(m, from, to) == Alive /\ mon[m] = from /\ mon' = [mon EXCEPT ![m] = to]

\* The context a monitor was given is done.
MonDone(m) == stale[m] \/ LifeDone

\* The ticker fires or a checkupdate request is received; the select picks at
\* random when LifeCtx is done as well.
Tick(m) ==
    /\ MonGoes(m, "watch", "game")
    /\ UNCHANGED <<gate, bus, halted, lifeVars, mainVars, shardVars, stale, modBusy, apiVars>>

MonQuit(m) ==
    /\ MonDone(m)
    /\ MonGoes(m, "watch", "off")
    /\ UNCHANGED <<gate, bus, halted, lifeVars, mainVars, shardVars, stale, modBusy, apiVars>>

\* ProbeGameUpdate answers; without an update ProbeModUpdate tries the lock.
MonGame(m) ==
    /\ \/ MonGoes(m, "game", "postGame") /\ UNCHANGED modBusy
       \/ modBusy = "free" /\ modBusy' = m /\ MonGoes(m, "game", "mods")
       \/ modBusy # "free" /\ UNCHANGED modBusy /\ MonGoes(m, "game", "watch")
    /\ UNCHANGED <<gate, bus, halted, lifeVars, mainVars, shardVars, stale, apiVars>>

\* ProbeModUpdate answers and releases the lock.
MonMods(m) ==
    /\ \E to \in {"postMod", "watch"} : MonGoes(m, "mods", to)
    /\ modBusy' = "free"
    /\ UNCHANGED <<gate, bus, halted, lifeVars, mainVars, shardVars, stale, apiVars>>

\* The verdict is posted without another look at the context: by now it may
\* land on the bus of the next life.
MonPost(m) ==
    /\ \/ MonGoes(m, "postGame", "off") /\ Post("GameUpdate")
       \/ MonGoes(m, "postMod", "off") /\ Post("ModHotUpdate")
    /\ UNCHANGED <<gate, halted, lifeVars, mainVars, shardVars, stale, modBusy, apiVars>>

Monitor(m) == Tick(m) \/ MonQuit(m) \/ MonGame(m) \/ MonMods(m) \/ MonPost(m)

-----------------------------------------------------------------------------
(* the control handlers of the API                                         *)

HandlerGoes(c, from, to) == Alive /\ hpc[c] = from /\ hpc' = [hpc EXCEPT ![c] = to]

Request(c) ==
    /\ \E op \in ApiOps :
           /\ hop' = [hop EXCEPT ![c] = op]
           /\ HandlerGoes(c, "idle", IF op = "start" THEN "wake" ELSE "gate")
    /\ UNCHANGED <<gate, bus, halted, lifeVars, mainVars, shardVars, monVars, held>>

\* api.go:428 and 449
SetGate(c) ==
    /\ HandlerGoes(c, "gate", "post")
    /\ gate' = (hop[c] = "restart")
    /\ UNCHANGED <<bus, halted, lifeVars, mainVars, shardVars, monVars, hop, held>>

\* Mutant: the handler relies on the cancelled context alone.
PostHalt_Silent(c) ==
    /\ HandlerGoes(c, "post", "load")
    /\ UNCHANGED <<gate, bus, halted, lifeVars, mainVars, shardVars, monVars, hop, held>>

\* api.go:430-433 and 451-454
PostHalt(c) ==
    /\ HandlerGoes(c, "post", "load")
    /\ Post("ApiHalt")
    /\ UNCHANGED <<gate, halted, lifeVars, mainVars, shardVars, monVars, hop, held>>

\* api.go:435 and 456
LoadSwitch(c) ==
    /\ HandlerGoes(c, "load", "swap")
    /\ held' = [held EXCEPT ![c] = IF killSwitch THEN "live" ELSE "nil"]
    /\ UNCHANGED <<gate, bus, halted, lifeVars, mainVars, shardVars, monVars, hop>>

\* api.go:436 and 457: the CompareAndSwap; one handler wins the pointer.
SwapSwitch(c) ==
    /\ HandlerGoes(c, "swap", "cancel")
    /\ IF held[c] = "live"
       THEN /\ killSwitch' = FALSE
            /\ held' = [d \in Clients |-> IF d = c THEN "won"
                                          ELSE IF held[d] = "live" THEN "stale" ELSE held[d]]
       ELSE UNCHANGED <<killSwitch, held>>
    /\ UNCHANGED <<gate, bus, halted, cancelled, mainVars, shardVars, monVars, hop>>

\* api.go:437 and 458: the winner calls the cancel function it swapped out,
\* that of a dead life included, which then does nothing.
CallCancel(c) ==
    /\ HandlerGoes(c, "cancel", IF hop[c] = "restart" THEN "wake" ELSE "reply")
    /\ cancelled' = (cancelled \/ held[c] = "won")
    /\ held' = [held EXCEPT ![c] = "nil"]
    /\ UNCHANGED <<gate, bus, halted, killSwitch, mainVars, shardVars, monVars, hop>>

\* api.go:412-418 and 461-464: a send on the unbuffered ApiWakeChan succeeds
\* only while main is blocked in its receive; nothing is queued.  A start that
\* finds no receiver is refused with 409.
Wake(c) ==
    /\ IF mpc = "idle"
       THEN /\ mpc' = "locks"
            /\ HandlerGoes(c, "wake", IF hop[c] = "start" THEN "raise" ELSE "reply")
       ELSE /\ mpc' = mpc
            /\ HandlerGoes(c, "wake", "reply")
    /\ UNCHANGED <<gate, bus, halted, lifeVars, act, shardVars, monVars, hop, held>>

\* api.go:414: start sets the switch after the wake-up was received.
RaiseGate(c) ==
    /\ HandlerGoes(c, "raise", "reply")
    /\ gate' = TRUE
    /\ UNCHANGED <<bus, halted, lifeVars, mainVars, shardVars, monVars, hop, held>>

Reply(c) ==
    /\ HandlerGoes(c, "reply", "idle")
    /\ UNCHANGED <<gate, bus, halted, lifeVars, mainVars, shardVars, monVars, hop, held>>

Handler(c) == \/ SetGate(c) \/ PostHalt(c) \/ LoadSwitch(c) \/ SwapSwitch(c)
              \/ CallCancel(c) \/ Wake(c) \/ RaiseGate(c) \/ Reply(c)

-----------------------------------------------------------------------------
(* the signal watchdog                                                     *)

\* main.go:224-226: SIGINT or SIGTERM ends GlobalCtx.
Interrupt ==
    /\ Interrupts
    /\ Alive
    /\ ~halted
    /\ halted' = TRUE
    /\ UNCHANGED <<gate, bus, lifeVars, mainVars, shardVars, monVars, apiVars>>

\* main.go:228-232: ten seconds later os.Exit(1), whatever the goroutines are
\* doing.  The children are bound to the core and die with it.
ForceExit ==
    /\ halted
    /\ Alive
    /\ mpc' = "exit"
    /\ proc' = [s \in Shards |-> "none"]
    /\ UNCHANGED <<gate, bus, halted, lifeVars, act, spc, ready, line, monVars, apiVars>>

-----------------------------------------------------------------------------
Next ==
    \/ Main
    \/ \E s \in Shards : Runner(s) \/ Game(s)
    \/ \E m \in Monitors : Monitor(m)
    \/ \E c \in Clients : Request(c) \/ Handler(c)
    \/ Interrupt
    \/ ForceExit

\* Goroutines that can run are scheduled; a process that got SIGKILL ends and
\* is waited for; LiveStream keeps reading.  Nothing makes a game crash or
\* print, a client call, a ticker fire or a signal arrive.  Where a select has
\* several ready branches Go picks at random: strong fairness for the branch
\* that the others could starve.
Fairness ==
    /\ WF_vars(Main)
    /\ SF_vars(AwaitHalted)
    /\ \A s \in Shards :
           /\ WF_vars(Runner(s))
           /\ WF_vars(proc[s] = "doomed" /\ Exits(s))
           /\ WF_vars(Signal(s))
           /\ WF_vars(Streams(s) \/ LosesLine(s))
    /\ \A m \in Monitors :
           /\ WF_vars(MonGame(m) \/ MonMods(m) \/ MonPost(m))
           /\ SF_vars(MonQuit(m))
    /\ \A c \in Clients : WF_vars(Handler(c))

Spec == Init /\ [][Next]_vars
FairSpec == Spec /\ Fairness

-----------------------------------------------------------------------------
(* Properties                                                              *)

MainPC == {"top", "idling", "idle", "locks", "probeGame", "bootUpdate", "probeMod",
           "probingMod", "updMod", "updatingMod", "arm", "drain", "spawn", "await",
           "hotMod", "hotUpdating", "grace", "teardown", "disarm", "join", "settle",
           "overwrite", "exit"}

\* Type invariant: every variable holds a value of its type.
TypeOK ==
    /\ gate \in BOOLEAN
    /\ bus \in BusActions \cup {"none"}
    /\ halted \in BOOLEAN
    /\ cancelled \in BOOLEAN
    /\ killSwitch \in BOOLEAN
    /\ mpc \in MainPC
    /\ act \in BusActions \cup {"Noop", "SystemHalt"}
    /\ spc \in [Shards -> {"off", "boot", "run", "kill", "linger", "reap", "clear", "leave"}]
    /\ proc \in [Shards -> {"none", "up", "doomed", "exited", "gone"}]
    /\ ready \in [Shards -> BOOLEAN]
    /\ line \in [Shards -> {"none", "ready", "outdated"}]
    /\ mon \in [Monitors -> {"off", "watch", "game", "mods", "postGame", "postMod"}]
    /\ stale \in [Monitors -> BOOLEAN]
    /\ modBusy \in {"free", "main"} \cup Monitors
    /\ hpc \in [Clients -> {"idle", "gate", "post", "load", "swap", "cancel", "wake", "raise", "reply"}]
    /\ hop \in [Clients -> {"start", "stop", "restart"}]
    /\ held \in [Clients -> {"nil", "live", "stale", "won"}]

\* The game processes alive, and whether steamcmd is rewriting the binaries.
LiveProcs == {s \in Shards : proc[s] \in {"up", "doomed"}}
Rewriting == mpc \in {"bootUpdate", "overwrite"}

\* steamcmd never rewrites the game binaries (main.go:140, 201) while a shard
\* process still runs from them: not after a crash of one shard whose sibling
\* lingers, not after a kill ladder that gave up waiting.
BinariesIdle == Rewriting => LiveProcs = {}

Binaries == INSTANCE BinaryStore WITH users <- LiveProcs, writing <- Rewriting

\* The supervisor implements the readers-writer discipline of BinaryStore: no
\* process starts during a rewrite, no rewrite starts beside a process.
BinariesImplemented == Binaries!Spec

\* The probes and downloads of the mod subsystem share unsynchronised global
\* tables (update.go:139 and the caches of GetLocalModTimes): at most one
\* goroutine, main or a monitor of this or of an earlier life, is inside.
ModTableUsers ==
    (IF mpc \in {"probingMod", "updatingMod", "hotUpdating"} THEN {"main"} ELSE {})
        \cup {m \in Monitors : mon[m] = "mods"}
ModTablesExclusive == \A u, v \in ModTableUsers : u = v

\* main never waits on ActionBus (main.go:177) when nobody is left to post:
\* every runner gone, no monitor that still watches, no line under way, no
\* handler at work.  A dropped post or an action drained too late would do it.
NeverWedged ==
    ~ /\ mpc = "await"
      /\ ~halted
      /\ bus = "none"
      /\ \A s \in Shards : spc[s] = "off" /\ line[s] = "none"
      /\ \A m \in Monitors : mon[m] = "off"
      /\ \A c \in Clients : hpc[c] = "idle"

\* Shared fate (readme: the shards reboot together): when one runner leaves,
\* every runner of the life leaves, whatever state it is in, or the core exits.
FateShared == \A s \in Shards :
    spc[s] = "leave" ~> (mpc = "exit" \/ \A t \in Shards : spc[t] = "off")

\* With crash_restart on, a shard that died under a waiting main is booted
\* again, unless the core is told to shut down.
CrashRecovered == \A s \in Shards :
    (mpc = "await" /\ proc[s] = "exited") ~> (spc[s] = "boot" \/ halted)

\* A signal ends the core: wherever main is, it gets out of its loop without
\* the help of the watchdog's os.Exit.
ShutdownCompletes == halted ~> mpc = "exit"

\* A stop that meets a main waiting in main.go:177 brings the core to idle,
\* unless somebody turns the switch on again.
StopTakesEffect == \A c \in Clients :
    (mpc = "await" /\ hpc[c] = "post" /\ hop[c] = "stop") ~> (mpc \in {"idle", "exit"} \/ gate)

\* A restart that meets a main waiting in main.go:177 brings a new life
\* (api.md:229, "ensuring the server will come back"), unless a stop turns the
\* switch off.
RestartRecycles == \A c \in Clients :
    (mpc = "await" /\ hpc[c] = "post" /\ hop[c] = "restart")
        ~> (mpc \in {"arm", "exit"} \/ ~gate)

=============================================================================
