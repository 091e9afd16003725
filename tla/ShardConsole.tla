---------------------------- MODULE ShardConsole ----------------------------
(***************************************************************************)
(* The console of one shard over its successive lives: the command channel *)
(* that everybody posts to without blocking, the receiver that writes the  *)
(* commands to the game (game.go:122-138), the poller that first looks for *)
(* a sign of the world and then keeps the telemetry script alive           *)
(* (374-468), the kill ladder (738-785), the reader of the game's output   *)
(* as far as it feeds them, and the graceful reboot (473-569), which talks *)
(* to the players through the same channel and waits for a save.           *)
(*                                                                         *)
(* Receivers, pollers and readers are joined by nobody: those of an old    *)
(* life may still run in the next one and use the same channel and flags.  *)
(* Time is not modelled: a timer may fire at any moment, so a heartbeat,   *)
(* which only sets a timer back, has no step of its own.                   *)
(***************************************************************************)
EXTENDS Naturals, Sequences

CONSTANTS
    Role,          \* "master", or "caves" of a node that has no master
    Parasite,      \* enable_parasite: the master's script is kept alive
    MaxLife,       \* bound on the number of lives
    PipeCap,       \* capacity of the command channel (100)
    Waits,         \* values of graceful_restart_wait, in seconds
    Word,          \* 2^32, the range of the countdown
    Period,        \* seconds between two announcements (5)
    Talkative      \* bound, when FALSE: games print what nobody asked them for only
                   \* while no line is unread and no acknowledgement is left

ASSUME RoleAssumption == Role \in {"master", "caves"} /\ Parasite \in BOOLEAN
ASSUME TalkAssumption == Talkative \in BOOLEAN
ASSUME BoundsAssumption ==
    MaxLife \in Nat /\ {PipeCap, Word, Period} \subseteq Nat \ {0} /\ Waits \subseteq Nat

Lives == 1 .. MaxLife

VARIABLES
    life,          \* number of the current life
    ctx,           \* LifeCtx of the current life is not cancelled
    mpc,           \* where the main loop is in a life
    left, nextCall,\* the reboot's countdown and the second of its next announcement
    runner,        \* where the shard runner is
    ready,         \* ReadyGate
    chan,          \* the command channel: records [cmd, life]
    recv, poll,    \* receiver and poller of each life
    ack,           \* SaveAckChan is full
    proc,          \* the game's process in the current life; earlier ones are gone
    world, script, \* its world is loaded; its telemetry script runs
    saved,         \* history: it has carried out the final save of the reboot under way
    out,           \* for each life, lines of the game's output that are not yet read
    stray          \* history: since the drain of this reboot, K_SAVED was unread or
                   \* printed by something else than its final save

mainVars == <<life, ctx, mpc, left, nextCall>>
sideVars == <<chan, recv, poll>>
gameVars == <<proc, world, script, saved, out, stray>>
vars == <<mainVars, runner, ready, sideVars, ack, gameVars>>

Init ==
    /\ life = 0 /\ ctx = FALSE /\ mpc = "idle" /\ left = 0 /\ nextCall = 0
    /\ runner = "idle" /\ ready = FALSE
    /\ chan = <<>> /\ ack = FALSE
    /\ recv = [l \in Lives |-> "off"] /\ poll = [l \in Lives |-> "off"]
    /\ proc = "gone" /\ world = FALSE /\ script = FALSE /\ saved = FALSE
    /\ out = [l \in Lives |-> {}] /\ stray = FALSE

Running == proc \in {"up", "hung"}
Rebooting == mpc \in {"save", "call", "tick", "final", "await_ack"}

\* A line of the game's output has a sign of the world ("Sim paused" or
\* DST_NUCLEUS_PING) or an acknowledgement (K_SAVED), or is the game's echo of a
\* command that has these words.
Line(what) == [says |-> what, echo |-> FALSE]
Echo(what) == [says |-> what, echo |-> TRUE]

\* game.go:650-652, 695-697: the reader heeds no echo.  A line that is not heeded
\* changes nothing when it is read, so it is left out when it is printed.
Heeded(line) == ~line.echo
Prints(lines) == out' = [out EXCEPT ![life] = @ \cup {line.says : line \in {k \in lines : Heeded(k)}}]

\* Players chat, and commands of clients print, whatever they like.
Talks ==
    /\ Talkative \/ (~ack /\ \A l \in Lives : out[l] = {})
    /\ \E what \in {"sign", "saved"} :
        /\ Prints({Line(what)})
        /\ stray' = (stray \/ (what = "saved" /\ Rebooting))

\* The process is gone and Wait has returned; its output may still be unread.
\* A command that finds it dead but not yet waited for is lost either way.
Dies == proc' = "gone" /\ world' = FALSE /\ script' = FALSE

\* Where the poller goes when it sees the world up (game.go:392-396).
Watching == IF Role = "master" /\ ~Parasite THEN "off" ELSE "watch"

\* The orders of the supervisor that end a game or count as its last save; a
\* history notes the life in which each was given.
Orders == {"quit", "leave", "final"}
Message(c) == [cmd |-> c, life |-> IF c \in Orders THEN life ELSE 0]

\* Mutant: the channel grows without bound.
Post_Unbounded(c) == chan' = Append(chan, Message(c))

\* A non-blocking send: a full channel drops the command (game.go:46-51).
Post(c) == chan' = IF Len(chan) < PipeCap THEN Append(chan, Message(c)) ELSE chan

-----------------------------------------------------------------------------
(* the main loop, as far as it drives a shard                              *)

\* main.go:153-167: the next life begins when the last one's runner is gone.
StartLife ==
    /\ mpc = "idle" /\ life < MaxLife
    /\ life' = life + 1 /\ ctx' = TRUE
    /\ mpc' = "await" /\ runner' = "boot"
    /\ UNCHANGED <<left, nextCall, ready, sideVars, ack, gameVars>>

\* The main loop ends the life it is in and joins the runner (main.go:193-195);
\* the locals of a reboot die, and its histories.
EndLife ==
    /\ ctx' = FALSE /\ mpc' = "join"
    /\ left' = 0 /\ nextCall' = 0
    /\ saved' = FALSE /\ stray' = FALSE
    /\ UNCHANGED <<life, proc, world, script, out>>

\* main.go:172-191: any other action than an update ends the life at once.
OtherAction ==
    /\ mpc = "await"
    /\ EndLife
    /\ UNCHANGED <<runner, ready, sideVars, ack>>

\* main.go:195: wg.Wait
Join ==
    /\ mpc = "join" /\ runner = "idle"
    /\ mpc' = "idle"
    /\ UNCHANGED <<life, ctx, left, nextCall, runner, ready, sideVars, ack, gameVars>>

\* api.go:427-430: a stop or a restart cancels the life wherever it is.
Halt ==
    /\ ctx /\ ctx' = FALSE
    /\ UNCHANGED <<life, mpc, left, nextCall, runner, ready, sideVars, ack, gameVars>>

-----------------------------------------------------------------------------
(* the graceful reboot                                                     *)

\* Lines with K_SAVED that no reader has come to yet, of this life or an earlier one.
Unread == \E l \in Lives : "saved" \in out[l]

\* Mutant: an acknowledgement left from an earlier reboot is not removed.
RebootBegin_NoDrain ==
    /\ mpc = "await"
    /\ \E w \in Waits : left' = w % Word
    /\ Post("leave")
    /\ mpc' = IF left' > 0 THEN "save" ELSE "final"
    /\ stray' = Unread
    /\ UNCHANGED <<life, ctx, nextCall, runner, ready, recv, poll, ack>>
    /\ UNCHANGED <<proc, world, script, saved, out>>

\* game.go:474-502: an acknowledgement left over is drained, the wait is cut
\* to 32 bits, and a server without players is asked to go at once.  Only the
\* main loop calls this, so the flag that guards it is always free.
RebootBegin ==
    /\ mpc = "await"
    /\ ack' = FALSE
    /\ \E w \in Waits : left' = w % Word
    /\ Post("leave")
    /\ mpc' = IF left' > 0 THEN "save" ELSE "final"
    /\ stray' = Unread
    /\ UNCHANGED <<life, ctx, nextCall, runner, ready, recv, poll>>
    /\ UNCHANGED <<proc, world, script, saved, out>>

\* game.go:505-510: the first save goes to the master, even when there is none.
FirstSave ==
    /\ mpc = "save"
    /\ IF Role = "master" THEN Post("plain") ELSE UNCHANGED chan
    /\ nextCall' = left - (left % Period)
    /\ mpc' = "call"
    /\ UNCHANGED <<life, ctx, left, runner, ready, recv, poll, ack, gameVars>>

\* game.go:512-535: an announcement when its second has come; it also ends a
\* server without players.  The subtraction wraps at 32 bits.
Announce ==
    /\ mpc = "call"
    /\ IF left = nextCall
       THEN Post("leave") /\ nextCall' = (nextCall + Word - Period) % Word
       ELSE UNCHANGED <<chan, nextCall>>
    /\ mpc' = "tick"
    /\ UNCHANGED <<life, ctx, left, runner, ready, recv, poll, ack, gameVars>>

\* game.go:537-541
Tick ==
    /\ mpc = "tick"
    /\ left' = left - 1
    /\ mpc' = IF left' > 0 THEN "call" ELSE "final"
    /\ UNCHANGED <<life, ctx, nextCall, runner, ready, sideVars, ack, gameVars>>

\* game.go:544-549: the save that is to be acknowledged.
FinalSave ==
    /\ mpc = "final"
    /\ Post("final")
    /\ mpc' = "await_ack"
    /\ UNCHANGED <<life, ctx, left, nextCall, runner, ready, recv, poll, ack, gameVars>>

\* Mutant: the wait for the acknowledgement has no limit.
AckOrTimeout_NoTimeout ==
    /\ mpc = "await_ack"
    /\ ack /\ ack' = FALSE
    /\ EndLife
    /\ UNCHANGED <<runner, ready, sideVars>>

\* game.go:558-568: the acknowledgement, or ten seconds; half a second later
\* the reboot returns and the main loop ends the life.
AckOrTimeout ==
    /\ mpc = "await_ack"
    /\ \/ ack /\ ack' = FALSE
       \/ UNCHANGED ack
    /\ EndLife
    /\ UNCHANGED <<runner, ready, sideVars>>

\* game.go:538-539 and 556-557: the end of the life ends the reboot.
RebootCut ==
    /\ mpc \in {"tick", "await_ack"} /\ ~ctx
    /\ EndLife
    /\ UNCHANGED <<runner, ready, sideVars, ack>>

-----------------------------------------------------------------------------
(* the runner                                                              *)

\* Mutant: the receiver does not empty the channel before it serves.
Boot_NoFlush ==
    /\ runner = "boot"
    /\ \/ /\ proc' = "up" /\ runner' = "run"
          /\ recv' = [recv EXCEPT ![life] = "loop"]
          /\ poll' = [poll EXCEPT ![life] = "look"]
       \/ runner' = "clear" /\ UNCHANGED <<proc, recv, poll>>
    /\ UNCHANGED <<mainVars, ready, chan, ack, world, script, saved, out, stray>>

\* game.go:91-122: the process starts and gets a receiver, or it cannot start.
Boot ==
    /\ runner = "boot"
    /\ \/ /\ proc' = "up" /\ runner' = "run"
          /\ recv' = [recv EXCEPT ![life] = "flush"]
       \/ runner' = "clear" /\ UNCHANGED <<proc, recv>>
    /\ UNCHANGED <<mainVars, ready, chan, poll, ack, world, script, saved, out, stray>>

\* game.go:146-157 and 743-770: the life has been cancelled or Wait has
\* returned.  SIGKILL when the world is not up or the channel is full;
\* otherwise the game is asked to go.
Kill ==
    /\ runner = "run"
    /\ ~ctx \/ proc = "gone"
    /\ \/ /\ ~ready \/ Len(chan) = PipeCap \/ proc = "gone"
          /\ Dies /\ runner' = "clear"
          /\ UNCHANGED chan
       \/ /\ ready /\ Len(chan) < PipeCap
          /\ Post("quit") /\ runner' = "grace"
          /\ UNCHANGED <<proc, world, script>>
    /\ UNCHANGED <<mainVars, ready, recv, poll, ack, saved, out, stray>>

\* game.go:776-784: the game has gone, or its ten seconds are over.
GraceOver ==
    /\ runner = "grace"
    /\ Dies /\ runner' = "clear"
    /\ UNCHANGED <<mainVars, ready, sideVars, ack, saved, out, stray>>

\* game.go:67-71: the deferred calls.
Clear ==
    /\ runner = "clear"
    /\ ready' = FALSE /\ ctx' = FALSE
    /\ runner' = "idle"
    /\ UNCHANGED <<life, mpc, left, nextCall, sideVars, ack, gameVars>>

-----------------------------------------------------------------------------
(* the game                                                                *)

\* The game crashes, or hangs for good; its world counts as gone.
Stops == proc' \in {"gone", "hung"} /\ world' = FALSE /\ script' = FALSE
GameEnds ==
    /\ proc = "up"
    /\ Stops
    /\ UNCHANGED <<mainVars, runner, ready, sideVars, ack, saved, out, stray>>

\* The world loads and, unless players wait, pauses and says so; players chat;
\* a reset of the world loses the script.
GameActs ==
    /\ proc = "up"
    /\ \/ /\ ~world /\ world' = TRUE
          /\ out' = out \/ Prints({Line("sign")})
          /\ UNCHANGED <<script, stray>>
       \/ world /\ Talks /\ UNCHANGED <<world, script>>
       \/ script /\ script' = FALSE /\ UNCHANGED <<world, out, stray>>
    /\ UNCHANGED <<mainVars, runner, ready, sideVars, ack, proc, saved>>

\* What a command makes the game do, after it has echoed it: go, go if nobody
\* plays, save and say so or fail in the attempt, give a sign of its world, run
\* the script; a client's command may print anything.
Obey(c) ==
    \/ c \in {"quit", "leave"} /\ Dies /\ UNCHANGED <<saved, out, stray>>
    \/ /\ c = "final"
       /\ \/ /\ saved' = Rebooting /\ Prints({Echo("saved"), Line("saved")})
             /\ UNCHANGED <<proc, world, script>>
          \/ Prints({Echo("saved")}) /\ Stops /\ UNCHANGED saved
       /\ UNCHANGED stray
    \/ /\ c = "sonar"
       /\ Prints({Echo("sign")} \cup IF world THEN {Line("sign")} ELSE {})
       /\ UNCHANGED <<proc, world, script, saved, stray>>
    \/ c = "inject" /\ script' = world /\ UNCHANGED <<proc, world, saved, out, stray>>
    \/ c = "plain" /\ Talks /\ UNCHANGED <<proc, world, script, saved>>
    \/ c \in {"leave", "plain"} /\ UNCHANGED gameVars

-----------------------------------------------------------------------------
(* the receiver of a life                                                  *)

\* game.go:123-128 and 787-795: the receiver throws away what it finds until
\* the channel is empty, starts the poller and serves.
Serve(l) ==
    /\ recv[l] = "flush"
    /\ chan' = <<>>
    /\ recv' = [recv EXCEPT ![l] = "loop"]
    /\ poll' = [poll EXCEPT ![l] = "look"]
    /\ UNCHANGED <<mainVars, runner, ready, ack, gameVars>>

\* game.go:131-136: a command is written to the game of the receiver's own
\* life, which may be dead or hung; then it is lost.
Take(l) ==
    /\ recv[l] = "loop" /\ chan # <<>>
    /\ chan' = Tail(chan)
    /\ IF l = life /\ proc = "up" THEN Obey(Head(chan).cmd) ELSE UNCHANGED gameVars
    /\ UNCHANGED <<mainVars, runner, ready, recv, poll, ack>>

\* game.go:125-130: the exit signal and a command may both be there; select
\* takes either.  On its way out the receiver throws away whatever is in the
\* channel, of whatever life.
StopServing(l) ==
    /\ recv[l] = "loop"
    /\ l < life \/ proc = "gone"
    /\ chan' = <<>>
    /\ recv' = [recv EXCEPT ![l] = "off"]
    /\ UNCHANGED <<mainVars, runner, ready, poll, ack, gameVars>>

-----------------------------------------------------------------------------
(* the poller of a life                                                    *)

\* game.go:377: the first look at the flag.
Look(l) ==
    /\ poll[l] = "look"
    /\ poll' = [poll EXCEPT ![l] = IF ready THEN Watching ELSE "idle"]
    /\ UNCHANGED <<mainVars, runner, ready, chan, recv, ack, gameVars>>

\* game.go:383-389: every fifteen seconds the world is asked for a sign, and
\* the flag is looked at again.
Sonar(l) ==
    /\ poll[l] = "idle"
    /\ Post("sonar")
    /\ poll' = [poll EXCEPT ![l] = IF ready THEN Watching ELSE "idle"]
    /\ UNCHANGED <<mainVars, runner, ready, recv, ack, gameVars>>

\* Mutant: the timer is not set again after an injection.
Inject_Once(l) ==
    /\ poll[l] = "watch"
    /\ Post("inject")
    /\ poll' = [poll EXCEPT ![l] = "off"]
    /\ UNCHANGED <<mainVars, runner, ready, recv, ack, gameVars>>

\* game.go:413-419: ten seconds without a packet; the timer is set again.
Inject(l) ==
    /\ poll[l] = "watch"
    /\ Post("inject")
    /\ UNCHANGED <<mainVars, runner, ready, recv, poll, ack, gameVars>>

\* game.go:379-381 and 401-402
StopPolling(l) ==
    /\ poll[l] \in {"idle", "watch"} /\ ~(l = life /\ ctx)
    /\ poll' = [poll EXCEPT ![l] = "off"]
    /\ UNCHANGED <<mainVars, runner, ready, chan, recv, ack, gameVars>>

-----------------------------------------------------------------------------
(* the reader of a life's output, and clients                              *)

\* game.go:699-716: a line of the game's output has its effect, in whatever
\* life it is read and whoever caused it; only the master's reader acknowledges
\* a save.
Read(l) ==
    /\ \E line \in out[l] :
           /\ out' = [out EXCEPT ![l] = @ \ {line}]
           /\ ready' = (ready \/ line = "sign")
           /\ ack' = (ack \/ (line = "saved" /\ Role = "master"))
    /\ UNCHANGED <<mainVars, runner, sideVars, proc, world, script, saved, stray>>

\* A command of the API or of the console (api.go:349-394, main.go:262-272),
\* at any time, with or without a game.
Say ==
    /\ Post("plain")
    /\ UNCHANGED <<mainVars, runner, ready, recv, poll, ack, gameVars>>

-----------------------------------------------------------------------------
Main == StartLife \/ OtherAction \/ Join
Reboot ==
    FirstSave \/ Announce \/ Tick \/ FinalSave \/ AckOrTimeout \/ RebootCut
Runner == Boot \/ Kill \/ GraceOver \/ Clear
Receiver(l) == Serve(l) \/ Take(l) \/ StopServing(l)
Poller(l) == Look(l) \/ Sonar(l) \/ Inject(l) \/ StopPolling(l)

Next ==
    \/ Main \/ RebootBegin \/ Reboot \/ Halt \/ Runner \/ GameEnds \/ GameActs \/ Say
    \/ \E l \in Lives : Receiver(l) \/ Poller(l) \/ Read(l)

Spec == Init /\ [][Next]_vars

\* Goroutines run and timers fire; kill and wait have been folded into one
\* step.  Nothing is assumed of the game, of clients, of the actions the main
\* loop gets or of readers, nor of the receivers and pollers of old lives but
\* that a receiver whose game is gone takes the signal some time, although
\* commands keep coming.  The timer of the poller, which fires again and again,
\* finds the channel with room some time.
Fairness ==
    /\ WF_vars(Runner \/ Join) /\ WF_vars(Reboot)
    /\ WF_vars(\E l \in Lives : l = life /\ (Serve(l) \/ Take(l)))
    /\ WF_vars(\E l \in Lives : StopServing(l))
    /\ SF_vars(\E l \in Lives : l = life /\ Inject(l) /\ Len(chan) < PipeCap)

FairSpec == Spec /\ Fairness

-----------------------------------------------------------------------------
(* Properties                                                              *)

Commands == {"leave", "final", "quit", "sonar", "inject", "plain"}

\* Type invariant.
TypeOK ==
    /\ life \in 0 .. MaxLife /\ ctx \in BOOLEAN
    /\ mpc \in {"idle", "await", "save", "call", "tick", "final", "await_ack", "join"}
    /\ left \in 0 .. Word - 1 /\ nextCall \in 0 .. Word - 1
    /\ runner \in {"idle", "boot", "run", "grace", "clear"}
    /\ ready \in BOOLEAN /\ ack \in BOOLEAN
    /\ chan \in Seq([cmd : Commands, life : 0 .. MaxLife]) /\ Len(chan) <= PipeCap
    /\ recv \in [Lives -> {"off", "flush", "loop"}]
    /\ poll \in [Lives -> {"off", "look", "idle", "watch"}]
    /\ proc \in {"up", "hung", "gone"}
    /\ world \in BOOLEAN /\ script \in BOOLEAN /\ saved \in BOOLEAN
    /\ out \in [Lives -> SUBSET {"sign", "saved"}] /\ stray \in BOOLEAN

\* What the receiver of a live game may take is of its own life: a game is
\* never told to go, or to save, by what was left in the channel for the one
\* before it, although channels, receivers and pollers outlive the games
\* (game.go:122-138, 750-752).
OrdersOfThisLife ==
    \A l \in Lives :
        recv[l] = "loop" /\ l = life /\ Running =>
            \A i \in DOMAIN chan : chan[i].cmd \in Orders => chan[i].life = l

\* When a reboot finds an acknowledgement, the game of this very life has
\* carried out its final save, unless something else printed K_SAVED into its wait:
\* neither the echo of its own command nor an acknowledgement of an earlier
\* reboot whose ten seconds were over passes for it (game.go:478-481, 558-559,
\* 695-697).  The reader cannot tell who printed the word (game.go:711).
AckHonest == mpc = "await_ack" /\ ack => saved \/ stray

\* A life that is cancelled, or whose main loop no longer waits for an action,
\* ends: the runner leaves although the game hangs, its channel is full or an old
\* receiver takes the order to quit; and a reboot ends with or without an
\* acknowledgement, which the caves never send (game.go:738-785, 512-568).
LifeEnds ==
    (~ctx /\ runner # "idle") \/ mpc \notin {"idle", "await"}
        ~> runner = "idle" /\ mpc \in {"idle", "await"}

\* A game whose world is up and whose poller watches gets its script back
\* (game.go:399-420).
ScriptReturns ==
    (\E l \in Lives : l = life /\ poll[l] = "watch" /\ world)
        ~> (script \/ proc # "up" \/ ~ctx)

=============================================================================
