----------------------------- MODULE ApiCommand -----------------------------
(***************************************************************************)
(* The command endpoint of the API (api.go:278-405) and its neighbour      *)
(* /api/update_state (api.go:694-814), as far as they share ReceiveBufPool:*)
(* both take a pooled receive buffer, read the request body into it, use   *)
(* it, clear it and put it back.  Command handlers exclude each other with *)
(* ApiCmdGate; state handlers are not excluded by anything.                *)
(*                                                                         *)
(* The content of a buffer is the tag of the request whose body was read   *)
(* into it last, "part" when that was not all of a body, or "zero" when it *)
(* has been cleared.  Sizes are in KiB.                                    *)
(***************************************************************************)
EXTENDS Naturals, Sequences, FiniteSets

CONSTANTS
    Commanders,    \* handlers of /api/command
    Writers,       \* handlers of /api/update_state
    Bufs,          \* buffer objects
    MaxCopies,     \* bound: entries of one buffer the pool keeps (the garbage
                   \* collector empties the pool, so more never matter)
    PipeCap,       \* capacity of a command channel (100)
    BufSize,       \* size of a buffer (10)
    Sizes          \* sizes of the bodies clients send; 0 is an empty body

AllShards == {"master", "caves"}
Handlers == Commanders \cup Writers
NoBuf == "nil"
Contents == Handlers \cup {"zero", "part"}

ASSUME SizesAssumption == {MaxCopies, PipeCap, BufSize} \cup Sizes \subseteq Nat
ASSUME NamesAssumption == Commanders \cap Writers = {} /\ NoBuf \notin Bufs

VARIABLES
    gate,          \* ApiCmdGate: locked
    pool,          \* ReceiveBufPool: how often each buffer is in it
    buf,           \* content of each buffer
    pc,            \* program counter of each handler
    own,           \* the pointer a handler got from the pool
    target,        \* the shards it still has to deliver to
    missed,        \* it met a full channel
    cmd,           \* FinalCommand: its private copy of the bytes
    reply,         \* the status it answers
    met,           \* history: a report was at work while its command was in a buffer
    pipe           \* MasterCmdPipe and CavesCmdPipe: records [data, from]

vars == <<gate, pool, buf, pc, own, target, missed, cmd, reply, met, pipe>>

Init ==
    /\ gate = FALSE
    /\ pool = [b \in Bufs |-> 0]
    /\ buf = [b \in Bufs |-> "zero"]
    /\ pc = [h \in Handlers |-> "off"]
    /\ own = [h \in Handlers |-> NoBuf]
    /\ target = [h \in Handlers |-> {}]
    /\ missed = [h \in Handlers |-> FALSE]
    /\ cmd = [h \in Handlers |-> "zero"]
    /\ reply = [h \in Handlers |-> 0]
    /\ met = [h \in Handlers |-> FALSE]
    /\ pipe = [s \in AllShards |-> <<>>]

Goes(h, from, to) == pc[h] = from /\ pc' = [pc EXCEPT ![h] = to]

Put(b) == pool' = [pool EXCEPT ![b] = IF @ < MaxCopies THEN @ + 1 ELSE @]

\* No handler and no entry of the pool refers to the buffer.
Unreferenced(b) == pool[b] = 0 /\ \A h \in Handlers : own[h] # b

-----------------------------------------------------------------------------
(* both handlers                                                           *)

\* api.go:296 and 700: a pooled buffer, or a new one of zeros.
GetBuf(h) ==
    /\ Goes(h, "get", "read")
    /\ \E b \in Bufs :
           /\ own' = [own EXCEPT ![h] = b]
           /\ \/ pool[b] > 0 /\ pool' = [pool EXCEPT ![b] = @ - 1] /\ buf' = buf
              \/ Unreferenced(b) /\ pool' = pool /\ buf' = [buf EXCEPT ![b] = "zero"]
    /\ met' = [g \in Handlers |->
                   IF g = h THEN \E u \in Writers : own[u] # NoBuf
                   ELSE met[g] \/ (h \in Writers /\ pc[g] \in {"read", "use"})]
    /\ UNCHANGED <<gate, target, missed, cmd, reply, pipe>>

\* The buffer is full and one more byte arrives.
TooLong(h, n) ==
    /\ n > BufSize
    /\ Goes(h, "read", "defer")
    /\ buf' = [buf EXCEPT ![own[h]] = "part"]
    /\ reply' = [reply EXCEPT ![h] = 413]
    /\ UNCHANGED pool

\* The connection breaks inside the body: a command is refused, but what has
\* come of a report is used.
Breaks(h, n) ==
    /\ n > 0
    /\ buf' = [buf EXCEPT ![own[h]] = "part"]
    /\ IF h \in Commanders
       THEN Goes(h, "read", "defer") /\ reply' = [reply EXCEPT ![h] = 400]
       ELSE Goes(h, "read", "use") /\ UNCHANGED reply
    /\ UNCHANGED pool

\* There is nothing to read; a command that is empty, and not broken, returns
\* its buffer here too.
NoBody(h, n) ==
    /\ Goes(h, "read", "defer")
    /\ reply' = [reply EXCEPT ![h] = 400]
    /\ IF n = 0 /\ h \in Commanders THEN Put(own[h]) ELSE UNCHANGED pool
    /\ UNCHANGED buf

\* api.go:304-333 and 708-731: a body of some size is read until EOF, its end,
\* or the buffer's; all of a body that just fits is used.
ReadBody(h) ==
    /\ \E n \in Sizes :
           \/ /\ n \in 1 .. BufSize
              /\ Goes(h, "read", "use")
              /\ buf' = [buf EXCEPT ![own[h]] = h]
              /\ UNCHANGED <<reply, pool>>
           \/ TooLong(h, n) \/ Breaks(h, n) \/ NoBody(h, n)
    /\ UNCHANGED <<gate, own, target, missed, cmd, met, pipe>>

\* api.go:299-302 and 703-706, deferred: clear the whole buffer and put it
\* back; the other locals die with the handler.
Deferred(h) ==
    /\ Goes(h, "defer", IF h \in Commanders THEN "unlock" ELSE "off")
    /\ buf' = [buf EXCEPT ![own[h]] = "zero"]
    /\ Put(own[h])
    /\ own' = [own EXCEPT ![h] = NoBuf]
    /\ target' = [target EXCEPT ![h] = {}]
    /\ missed' = [missed EXCEPT ![h] = FALSE]
    /\ cmd' = [cmd EXCEPT ![h] = "zero"]
    /\ reply' = [reply EXCEPT ![h] = 0]
    /\ met' = [met EXCEPT ![h] = FALSE]
    /\ UNCHANGED <<gate, pipe>>

-----------------------------------------------------------------------------
(* api_command                                                             *)

\* Mutant: the lock is not taken.
Command_NoLock(h) ==
    /\ Goes(h, "off", "get")
    /\ UNCHANGED <<gate, pool, buf, own, target, missed, cmd, reply, met, pipe>>

\* api.go:280-289: one command at a time, the others get 423 and change
\* nothing; what is not a POST is refused behind the lock.
Command(h) ==
    /\ ~gate /\ gate' = TRUE
    /\ \/ Goes(h, "off", "get") /\ UNCHANGED reply
       \/ Goes(h, "off", "unlock") /\ reply' = [reply EXCEPT ![h] = 405]
    /\ UNCHANGED <<pool, buf, own, target, missed, cmd, met, pipe>>

\* api.go:335-344: the bytes are copied out of the buffer.
CopyOut(h) ==
    /\ h \in Commanders
    /\ Goes(h, "use", "return")
    /\ cmd' = [cmd EXCEPT ![h] = buf[own[h]]]
    /\ UNCHANGED <<gate, pool, buf, own, target, missed, reply, met, pipe>>

\* Mutant: the lock is given up as soon as the bytes are copied.
ReturnBuf_Unlocks(h) ==
    /\ Goes(h, "return", "push")
    /\ \E t \in SUBSET AllShards \ {{}} : target' = [target EXCEPT ![h] = t]
    /\ gate' = FALSE
    /\ buf' = [buf EXCEPT ![own[h]] = "zero"]
    /\ Put(own[h])
    /\ UNCHANGED <<own, missed, cmd, reply, met, pipe>>

\* api.go:347-349: the buffer is cleared and put back, the first time; then
\* the target says which shards are meant, or is refused (388-391).
ReturnBuf(h) ==
    /\ \/ /\ Goes(h, "return", "push")
          /\ \E t \in SUBSET AllShards \ {{}} : target' = [target EXCEPT ![h] = t]
          /\ UNCHANGED reply
       \/ /\ Goes(h, "return", "defer")
          /\ reply' = [reply EXCEPT ![h] = 400]
          /\ UNCHANGED target
    /\ buf' = [buf EXCEPT ![own[h]] = "zero"]
    /\ Put(own[h])
    /\ UNCHANGED <<gate, own, missed, cmd, met, pipe>>

\* What a command puts into a pipe; a history notes whose body it should be,
\* or that a report was at work meanwhile.
Sent(h) == [data |-> cmd[h], from |-> IF met[h] THEN "mixed" ELSE h]

\* Mutant: the send waits for room.
Push_Waits(h) ==
    /\ target[h] # {}
    /\ Goes(h, "push", "push")
    /\ \E s \in target[h] :
           /\ Len(pipe[s]) < PipeCap
           /\ target' = [target EXCEPT ![h] = @ \ {s}]
           /\ pipe' = [pipe EXCEPT ![s] = Append(@, Sent(h))]
    /\ UNCHANGED <<gate, pool, buf, own, missed, cmd, reply, met>>

\* api.go:349-394: a non-blocking send to each target, the master first.
Push(h) ==
    /\ target[h] # {}
    /\ Goes(h, "push", "push")
    /\ LET s == IF "master" \in target[h] THEN "master" ELSE "caves" IN
           /\ target' = [target EXCEPT ![h] = @ \ {s}]
           /\ IF Len(pipe[s]) < PipeCap
              THEN /\ pipe' = [pipe EXCEPT ![s] = Append(@, Sent(h))]
                   /\ UNCHANGED missed
              ELSE /\ missed' = [missed EXCEPT ![h] = TRUE]
                   /\ UNCHANGED pipe
    /\ UNCHANGED <<gate, pool, buf, own, cmd, reply, met>>

\* api.go:378-404: success, or 503 when one of the channels was full.
Answer(h) ==
    /\ target[h] = {}
    /\ Goes(h, "push", "defer")
    /\ reply' = [reply EXCEPT ![h] = IF missed[h] THEN 503 ELSE 200]
    /\ UNCHANGED <<gate, pool, buf, own, target, missed, cmd, met, pipe>>

\* api.go:284, deferred before the buffer's return and so run after it
Unlock(h) ==
    /\ Goes(h, "unlock", "off")
    /\ gate' = FALSE
    /\ reply' = [reply EXCEPT ![h] = 0]
    /\ UNCHANGED <<pool, buf, own, target, missed, cmd, met, pipe>>

\* The receiver of a shard takes a command for its game (game.go:131-136).
Consume(s) ==
    /\ pipe[s] # <<>>
    /\ pipe' = [pipe EXCEPT ![s] = Tail(@)]
    /\ UNCHANGED <<gate, pool, buf, pc, own, target, missed, cmd, reply, met>>

-----------------------------------------------------------------------------
(* api_update_state                                                        *)

\* api.go:694-698: what is not a POST is refused and changes nothing.
UpdateState(h) ==
    /\ Goes(h, "off", "get")
    /\ UNCHANGED <<gate, pool, buf, own, target, missed, cmd, reply, met, pipe>>

\* api.go:733-814: the fields are parsed straight out of the buffer (what they
\* become is the report of Telemetry).
Parse(h) ==
    /\ h \in Writers
    /\ Goes(h, "use", "defer")
    /\ reply' = [reply EXCEPT ![h] = 200]
    /\ UNCHANGED <<gate, pool, buf, own, target, missed, cmd, met, pipe>>

-----------------------------------------------------------------------------
\* A handler of a command once its body is there.
Serves(h) == CopyOut(h) \/ ReturnBuf(h) \/ Push(h) \/ Answer(h) \/ Unlock(h)

Next ==
    \/ \E h \in Handlers : GetBuf(h) \/ ReadBody(h) \/ Deferred(h)
    \/ \E h \in Commanders : Command(h) \/ Serves(h)
    \/ \E h \in Writers : UpdateState(h) \/ Parse(h)
    \/ \E s \in AllShards : Consume(s)

Spec == Init /\ [][Next]_vars

\* A handler runs on.  Nothing is assumed of clients, whose bodies may never
\* come (the server has no timeout), nor of the games that take commands.
Fairness == \A h \in Commanders : WF_vars(Serves(h) \/ Deferred(h))

FairSpec == Spec /\ Fairness

-----------------------------------------------------------------------------
(* Properties                                                              *)

\* Type invariant; a command at work holds the gate.
TypeOK ==
    /\ gate \in BOOLEAN
    /\ pool \in [Bufs -> 0 .. MaxCopies]
    /\ buf \in [Bufs -> Contents]
    /\ pc \in [Handlers -> {"off", "get", "read", "use", "return", "push", "defer", "unlock"}]
    /\ own \in [Handlers -> Bufs \cup {NoBuf}]
    /\ target \in [Handlers -> SUBSET AllShards]
    /\ missed \in [Handlers -> BOOLEAN]
    /\ cmd \in [Handlers -> Contents]
    /\ reply \in [Handlers -> {0, 200, 400, 405, 413, 503}]
    /\ met \in [Handlers -> BOOLEAN]
    /\ pipe \in [AllShards -> Seq([data : Contents, from : Commanders \cup {"mixed"}])]
    /\ \A h \in Commanders : pc[h] # "off" => gate

\* api.md:175, "a 1:1 byte transfer to the OS pipe": a command in a pipe has
\* the bytes of the whole body it came from, up to the very last one a buffer
\* holds, unless a report was at work on some buffer while the command was in
\* its own.  That command handlers put their buffer back into the pool twice
\* (api.go:299, 348) lends one buffer to two requests; it is the gate, given
\* up after both, that keeps commands apart, and an earlier mix leaves nothing
\* behind for a later command.
CommandsFaithful ==
    \A s \in AllShards : \A i \in DOMAIN pipe[s] :
        pipe[s][i].from # "mixed" => pipe[s][i].data = pipe[s][i].from

\* api.md:190, "rather than blocking the gateway": a command whose body has
\* come is answered and gives up the gate, although its channels may be full
\* for ever because no game takes anything out of them (api.go:349-404).
CommandsEnd ==
    \A h \in Commanders : pc[h] \in {"use", "return", "push", "defer", "unlock"} ~> pc[h] = "off"

=============================================================================
