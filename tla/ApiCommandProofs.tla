-------------------------- MODULE ApiCommandProofs --------------------------
(***************************************************************************)
(* Results about the receive buffers of ApiCommand, for any number of      *)
(* handlers of both endpoints and any number of buffers: its states are    *)
(* well typed, and a command that met no report is whole, whatever was     *)
(* lent twice before.                                                      *)
(***************************************************************************)
EXTENDS ApiCommand, TLAPS

-----------------------------------------------------------------------------
(* Types                                                                   *)

Steps == {"off", "get", "read", "use", "return", "push", "defer", "unlock"}
Replies == {0, 200, 400, 405, 413, 503}

\* The types of all but the flags and the pipes; a handler that works has a
\* buffer.
Typed ==
    /\ pool \in [Bufs -> 0 .. MaxCopies]
    /\ buf \in [Bufs -> Contents]
    /\ pc \in [Handlers -> Steps]
    /\ own \in [Handlers -> Bufs \cup {NoBuf}]
    /\ target \in [Handlers -> SUBSET AllShards]
    /\ cmd \in [Handlers -> Contents]
    /\ reply \in [Handlers -> Replies]
    /\ \A h \in Handlers : pc[h] \in {"read", "use", "return", "push", "defer"} => own[h] \in Bufs

FlagsTyped ==
    gate \in BOOLEAN /\ missed \in [Handlers -> BOOLEAN] /\ met \in [Handlers -> BOOLEAN]

Command_ == [data : Contents, from : Commanders \cup {"mixed"}]
PipesTyped == pipe \in [AllShards -> Seq(Command_)]

\* Commands exclude each other: who is past the gate holds it, alone.
Gated ==
    /\ \A h \in Commanders : pc[h] # "off" => gate
    /\ \A g, h \in Commanders : pc[g] # "off" /\ pc[h] # "off" => g = h

LEMMA TypeInit == Init => Typed /\ FlagsTyped /\ PipesTyped /\ Gated
<1> SUFFICES ASSUME Init PROVE Typed /\ FlagsTyped /\ PipesTyped /\ Gated
  OBVIOUS
<1>1. Typed
  <2>1. 0 \in 0 .. MaxCopies
    BY SizesAssumption
  <2> QED
    BY <2>1 DEF Init, Typed, Contents, Steps, Replies
<1>2. FlagsTyped
  BY DEF Init, FlagsTyped
<1>3. PipesTyped
  <2>1. <<>> \in Seq(Command_)
    OBVIOUS
  <2> QED
    BY <2>1 DEF Init, PipesTyped
<1>4. Gated
  BY DEF Init, Gated, Handlers
<1> QED
  BY <1>1, <1>2, <1>3, <1>4

LEMMA PutTypes ==
    ASSUME pool \in [Bufs -> 0 .. MaxCopies], NEW b \in Bufs, Put(b)
    PROVE  pool' \in [Bufs -> 0 .. MaxCopies]
BY SizesAssumption DEF Put

LEMMA TypeBuffers ==
    ASSUME Typed, NEW h \in Handlers, GetBuf(h) \/ ReadBody(h) \/ Deferred(h) \/ ReturnBuf(h)
    PROVE  Typed'
<1> USE DEF Typed, Goes, Steps, Replies
<1>1. CASE GetBuf(h)
  <2>1. PICK b \in Bufs :
            /\ own' = [own EXCEPT ![h] = b]
            /\ \/ pool[b] > 0 /\ pool' = [pool EXCEPT ![b] = @ - 1] /\ buf' = buf
               \/ pool' = pool /\ buf' = [buf EXCEPT ![b] = "zero"]
    BY <1>1 DEF GetBuf
  <2>2. pool' \in [Bufs -> 0 .. MaxCopies]
    BY <2>1, SizesAssumption
  <2>3. buf' \in [Bufs -> Contents]
    BY <2>1 DEF Contents
  <2>4. pc' = [pc EXCEPT ![h] = "read"] /\ UNCHANGED <<target, cmd, reply>>
    BY <1>1 DEF GetBuf
  <2> QED
    BY <2>1, <2>2, <2>3, <2>4
<1>2. CASE ReadBody(h)
  <2> USE DEF TooLong, Breaks, NoBody
  <2>1. own[h] \in Bufs
    BY <1>2 DEF ReadBody
  <2>2. pool' \in [Bufs -> 0 .. MaxCopies]
    <3>1. pool' = pool \/ Put(own[h])
      BY <1>2 DEF ReadBody
    <3> QED
      BY <2>1, <3>1, PutTypes
  <2>3. buf' \in [Bufs -> Contents]
    BY <1>2, <2>1 DEF ReadBody, Contents
  <2>4. reply' \in [Handlers -> Replies]
    BY <1>2 DEF ReadBody
  <2>5. pc' = [pc EXCEPT ![h] = "use"] \/ pc' = [pc EXCEPT ![h] = "defer"]
    BY <1>2 DEF ReadBody
  <2>6. UNCHANGED <<own, target, cmd>>
    BY <1>2 DEF ReadBody
  <2> QED
    BY <2>1, <2>2, <2>3, <2>4, <2>5, <2>6
<1>3. CASE Deferred(h)
  <2>1. own[h] \in Bufs
    BY <1>3 DEF Deferred
  <2>2. pool' \in [Bufs -> 0 .. MaxCopies]
    BY <1>3, <2>1, PutTypes DEF Deferred
  <2>3. pc' = [pc EXCEPT ![h] = "unlock"] \/ pc' = [pc EXCEPT ![h] = "off"]
    BY <1>3 DEF Deferred
  <2>4. own' = [own EXCEPT ![h] = NoBuf] /\ buf' \in [Bufs -> Contents]
    BY <1>3, <2>1 DEF Deferred, Contents
  <2>5. target' \in [Handlers -> SUBSET AllShards]
    BY <1>3 DEF Deferred
  <2>6. cmd' \in [Handlers -> Contents] /\ reply' \in [Handlers -> Replies]
    BY <1>3 DEF Deferred, Contents
  <2>7. pc' \in [Handlers -> Steps] /\ own' \in [Handlers -> Bufs \cup {NoBuf}]
    BY <2>3, <2>4
  <2>8. \A g \in Handlers : pc'[g] \in {"read", "use", "return", "push", "defer"} => own'[g] \in Bufs
    BY <2>3, <2>4
  <2> QED
    BY <2>2, <2>4, <2>5, <2>6, <2>7, <2>8
<1>4. CASE ReturnBuf(h)
  <2>1. own[h] \in Bufs
    BY <1>4 DEF ReturnBuf
  <2>2. pool' \in [Bufs -> 0 .. MaxCopies]
    BY <1>4, <2>1, PutTypes DEF ReturnBuf
  <2>3. pc' = [pc EXCEPT ![h] = "defer"] \/ pc' = [pc EXCEPT ![h] = "push"]
    BY <1>4 DEF ReturnBuf
  <2>4. reply' \in [Handlers -> Replies] /\ target' \in [Handlers -> SUBSET AllShards]
    BY <1>4 DEF ReturnBuf
  <2>5. buf' \in [Bufs -> Contents] /\ UNCHANGED <<own, cmd>>
    BY <1>4 DEF ReturnBuf, Contents
  <2> QED
    BY <2>1, <2>2, <2>3, <2>4, <2>5
<1> QED
  BY <1>1, <1>2, <1>3, <1>4

LEMMA TypeOthers ==
    ASSUME Typed, NEW h \in Handlers,
           \/ Command(h) \/ CopyOut(h) \/ Push(h) \/ Answer(h) \/ Unlock(h)
           \/ UpdateState(h) \/ Parse(h)
    PROVE  Typed'
<1> USE DEF Typed, Goes, Steps, Replies
<1>1. CASE Command(h)
  BY <1>1 DEF Command
<1>2. CASE CopyOut(h)
  BY <1>2 DEF CopyOut
<1>3. CASE Push(h)
  BY <1>3 DEF Push
<1>4. CASE Answer(h)
  BY <1>4 DEF Answer
<1>5. CASE Unlock(h)
  BY <1>5 DEF Unlock
<1>6. CASE UpdateState(h)
  BY <1>6 DEF UpdateState
<1>7. CASE Parse(h)
  BY <1>7 DEF Parse
<1> QED
  BY <1>1, <1>2, <1>3, <1>4, <1>5, <1>6, <1>7

LEMMA TypeStep == Typed /\ [Next]_vars => Typed'
<1>1. Typed /\ UNCHANGED vars => Typed'
  BY DEF Typed, vars
<1>2. ASSUME Typed, NEW s \in AllShards, Consume(s) PROVE Typed'
  BY <1>2 DEF Typed, Consume
<1> QED
  BY <1>1, <1>2, TypeBuffers, TypeOthers DEF Next, Serves, Handlers

\* The flags of a handler stay flags.
LEMMA FlagsStep == FlagsTyped /\ [Next]_vars => FlagsTyped'
<1> DEFINE F == [Handlers -> BOOLEAN]
<1> SUFFICES ASSUME gate \in BOOLEAN, missed \in F, met \in F, [Next]_vars
             PROVE  gate' \in BOOLEAN /\ missed' \in F /\ met' \in F
  BY DEF FlagsTyped
<1>1. gate' \in {gate, TRUE, FALSE}
  BY DEF Next, vars, Serves, GetBuf, ReadBody, Deferred, Command, CopyOut, ReturnBuf, Push,
         Answer, Unlock, UpdateState, Parse, Consume
<1>2. missed' = missed \/ \E h \in Handlers, v \in BOOLEAN : missed' = [missed EXCEPT ![h] = v]
  BY DEF Next, vars, Serves, GetBuf, ReadBody, Deferred, Command, CopyOut, ReturnBuf, Push,
         Answer, Unlock, UpdateState, Parse, Consume, Handlers
<1>3. \/ met' = met
      \/ \E h \in Handlers : met' = [met EXCEPT ![h] = FALSE]
      \/ \E h \in Handlers : GetBuf(h)
  BY DEF Next, vars, Serves, GetBuf, ReadBody, Deferred, Command, CopyOut, ReturnBuf, Push,
         Answer, Unlock, UpdateState, Parse, Consume, Handlers
<1>4. ASSUME NEW h \in Handlers, GetBuf(h) PROVE met' \in F
  BY <1>4 DEF GetBuf
<1>5. missed' \in F
  BY <1>2
<1>6. met' \in F
  BY <1>3, <1>4
<1> QED
  BY <1>1, <1>5, <1>6

\* What a command sends is a message.
LEMMA SentType == ASSUME Typed, NEW h \in Commanders PROVE Sent(h) \in Command_
<1>1. cmd[h] \in Contents
  BY DEF Typed, Handlers
<1> QED
  BY <1>1 DEF Sent, Command_

\* What a step does to the pipes.
LEMMA PipeSteps ==
    ASSUME [Next]_vars
    PROVE  \/ pipe' = pipe
           \/ \E h \in Commanders, s \in AllShards :
                  pc[h] = "push" /\ pipe' = [pipe EXCEPT ![s] = Append(@, Sent(h))]
           \/ \E s \in AllShards : pipe[s] # <<>> /\ pipe' = [pipe EXCEPT ![s] = Tail(@)]
<1>1. ASSUME NEW h \in Commanders, Push(h)
      PROVE  pipe' = pipe \/ \E s \in AllShards :
                 pc[h] = "push" /\ pipe' = [pipe EXCEPT ![s] = Append(@, Sent(h))]
  BY <1>1 DEF Push, Goes, AllShards
<1>2. ASSUME NEW s \in AllShards, Consume(s)
      PROVE  pipe[s] # <<>> /\ pipe' = [pipe EXCEPT ![s] = Tail(@)]
  BY <1>2 DEF Consume
<1> QED
  BY <1>1, <1>2 DEF Next, vars, Serves, GetBuf, ReadBody, Deferred, Command, CopyOut, ReturnBuf,
       Answer, Unlock, UpdateState, Parse

LEMMA PipesStep == Typed /\ PipesTyped /\ [Next]_vars => PipesTyped'
<1> DEFINE S == Seq(Command_)
<1> SUFFICES ASSUME Typed, pipe \in [AllShards -> S], [Next]_vars
             PROVE  pipe' \in [AllShards -> S]
  BY DEF PipesTyped
<1>1. ASSUME NEW h \in Commanders, NEW s \in AllShards PROVE Append(pipe[s], Sent(h)) \in S
  BY SentType
<1>2. ASSUME NEW s \in AllShards, pipe[s] # <<>> PROVE Tail(pipe[s]) \in S
  BY <1>2
<1> HIDE DEF S
<1> QED
  BY <1>1, <1>2, PipeSteps

LEMMA GatedStep == Typed /\ Gated /\ [Next]_vars => Gated'
<1> SUFFICES ASSUME Typed, Gated, [Next]_vars PROVE Gated'
  OBVIOUS
<1> USE DEF Gated, Typed, Goes, Handlers
<1>1. ASSUME NEW h \in Commanders, Command(h) PROVE Gated'
  <2>1. \A g \in Commanders : pc[g] = "off"
    BY <1>1 DEF Command
  <2>2. gate' = TRUE /\ \A g \in Commanders : g # h => pc'[g] = pc[g]
    BY <1>1 DEF Command
  <2> QED
    BY <2>1, <2>2
<1>2. ASSUME NEW h \in Commanders, Unlock(h) PROVE Gated'
  <2>1. \A g \in Commanders : g # h => pc[g] = "off"
    BY <1>2 DEF Unlock
  <2>2. pc' = [pc EXCEPT ![h] = "off"]
    BY <1>2 DEF Unlock
  <2> QED
    BY <2>1, <2>2
<1>3. ASSUME gate' = gate, \A h \in Commanders : pc[h] = "off" => pc'[h] = "off" PROVE Gated'
  BY <1>3
<1>4. ASSUME NEW h \in Handlers, GetBuf(h) \/ ReadBody(h) \/ Deferred(h) PROVE Gated'
  <2>1. gate' = gate /\ pc[h] # "off" /\ \A g \in Handlers : g # h => pc'[g] = pc[g]
    BY <1>4 DEF GetBuf, ReadBody, TooLong, Breaks, NoBody, Deferred
  <2> QED
    BY <1>3, <2>1
<1>5. ASSUME NEW h \in Commanders, CopyOut(h) \/ ReturnBuf(h) \/ Push(h) \/ Answer(h) PROVE Gated'
  <2>1. gate' = gate /\ pc[h] # "off" /\ \A g \in Handlers : g # h => pc'[g] = pc[g]
    BY <1>5 DEF CopyOut, ReturnBuf, Push, Answer
  <2> QED
    BY <1>3, <2>1
<1>6. ASSUME NEW u \in Writers, UpdateState(u) \/ Parse(u) PROVE Gated'
  <2>1. gate' = gate /\ \A g \in Commanders : pc'[g] = pc[g]
    BY <1>6, NamesAssumption DEF UpdateState, Parse
  <2> QED
    BY <1>3, <2>1
<1>7. ASSUME NEW s \in AllShards, Consume(s) PROVE Gated'
  BY <1>3, <1>7 DEF Consume
<1>8. CASE UNCHANGED vars
  BY <1>3, <1>8 DEF vars
<1> QED
  BY <1>1, <1>2, <1>4, <1>5, <1>6, <1>7, <1>8 DEF Next, Serves

TypeInv == Typed /\ FlagsTyped /\ PipesTyped /\ Gated

LEMMA TypeInvStep == TypeInv /\ [Next]_vars => TypeInv'
BY TypeStep, FlagsStep, PipesStep, GatedStep DEF TypeInv

\* Every state of the two endpoints is well typed, both of them in use, and a
\* command at work holds the gate (api.go:278-405, 694-814).
THEOREM BuffersTyped == Spec => []TypeOK
<1>1. TypeInv => TypeOK
  <2> SUFFICES ASSUME TypeInv PROVE TypeOK
    OBVIOUS
  <2>1. gate \in BOOLEAN /\ missed \in [Handlers -> BOOLEAN] /\ met \in [Handlers -> BOOLEAN]
    BY DEF TypeInv, FlagsTyped
  <2>2. /\ pool \in [Bufs -> 0 .. MaxCopies] /\ buf \in [Bufs -> Contents]
        /\ pc \in [Handlers -> {"off", "get", "read", "use", "return", "push", "defer", "unlock"}]
        /\ own \in [Handlers -> Bufs \cup {NoBuf}] /\ target \in [Handlers -> SUBSET AllShards]
        /\ cmd \in [Handlers -> Contents] /\ reply \in [Handlers -> {0, 200, 400, 405, 413, 503}]
    BY DEF TypeInv, Typed, Steps, Replies
  <2>3. pipe \in [AllShards -> Seq([data : Contents, from : Commanders \cup {"mixed"}])]
    BY DEF TypeInv, PipesTyped, Command_
  <2>4. \A h \in Commanders : pc[h] # "off" => gate
    BY DEF TypeInv, Gated
  <2> QED
    BY <2>1, <2>2, <2>3, <2>4 DEF TypeOK
<1> QED
  BY <1>1, TypeInit, TypeInvStep, PTL DEF Spec, TypeInv

-----------------------------------------------------------------------------
(* Commands beside reports                                                 *)

\* A command that has met no report is alone with its buffer until it has
\* copied it, and has its own bytes in it and in the copy.
CommandInv ==
    \A h \in Commanders : ~met[h] =>
        /\ pc[h] \in {"read", "use"} => \A u \in Writers : own[u] = NoBuf
        /\ pc[h] = "use" => buf[own[h]] = h
        /\ pc[h] \in {"return", "push"} => cmd[h] = h

LEMMA CommandInit == Init => CommandInv
BY DEF Init, CommandInv, Handlers

\* A command that is left alone, as are the buffers and their owners, stays
\* as it is.
LEMMA CommandKept ==
    ASSUME CommandInv, NEW h \in Commanders,
           pc'[h] = pc[h], met'[h] = met[h], cmd'[h] = cmd[h],
           pc[h] \in {"read", "use"} /\ ~met[h] =>
               \A u \in Writers : own[u] = NoBuf => own'[u] = NoBuf,
           pc[h] = "use" /\ ~met[h] => buf'[own'[h]] = buf[own[h]]
    PROVE  ~met'[h] =>
               /\ pc'[h] \in {"read", "use"} => \A u \in Writers : own'[u] = NoBuf
               /\ pc'[h] = "use" => buf'[own'[h]] = h
               /\ pc'[h] \in {"return", "push"} => cmd'[h] = h
BY DEF CommandInv

\* A step of one command: the others are off.
LEMMA CommandAlone ==
    ASSUME TypeInv, CommandInv, NEW h \in Commanders,
           Command(h) \/ Serves(h) \/ GetBuf(h) \/ ReadBody(h) \/ Deferred(h)
    PROVE  CommandInv'
<1> USE DEF Goes
<1>0. h \in Handlers /\ Commanders \subseteq Handlers /\ Writers \subseteq Handlers
  BY DEF Handlers
<1>1. /\ pc \in [Handlers -> Steps] /\ own \in [Handlers -> Bufs \cup {NoBuf}]
      /\ cmd \in [Handlers -> Contents] /\ buf \in [Bufs -> Contents]
      /\ pc[h] \in {"read", "use", "return", "push", "defer"} => own[h] \in Bufs
  BY <1>0 DEF TypeInv, Typed
<1>2. met \in [Handlers -> BOOLEAN]
  BY DEF TypeInv, FlagsTyped
<1>3. \A g \in Commanders : g # h => pc[g] = "off"
  BY <1>0 DEF TypeInv, Gated, Command, Serves, CopyOut, ReturnBuf, Push, Answer, Unlock, GetBuf,
              ReadBody, TooLong, Breaks, NoBody, Deferred
<1>4. \A g \in Commanders : g # h => pc'[g] = "off"
  BY <1>0, <1>1, <1>3 DEF Command, Serves, CopyOut, ReturnBuf, Push, Answer, Unlock, GetBuf,
              ReadBody, TooLong, Breaks, NoBody, Deferred
<1>5. SUFFICES ~met'[h] =>
                   /\ pc'[h] \in {"read", "use"} => \A u \in Writers : own'[u] = NoBuf
                   /\ pc'[h] = "use" => buf'[own'[h]] = h
                   /\ pc'[h] \in {"return", "push"} => cmd'[h] = h
  BY <1>4 DEF CommandInv
<1>6. CASE GetBuf(h)
  <2>1. pc'[h] = "read" /\ met'[h] = \E u \in Writers : own[u] # NoBuf
    BY <1>0, <1>1, <1>6 DEF GetBuf
  <2>2. \A u \in Writers : own'[u] = own[u]
    BY <1>0, <1>1, <1>6, NamesAssumption DEF GetBuf
  <2> QED
    BY <2>1, <2>2
<1>7. CASE ReadBody(h)
  <2>1. own' = own /\ met' = met /\ cmd' = cmd /\ pc[h] = "read"
    BY <1>7 DEF ReadBody, TooLong, Breaks, NoBody
  <2>2. pc'[h] = "use" => buf' = [buf EXCEPT ![own[h]] = h]
    BY <1>0, <1>1, <1>7 DEF ReadBody, TooLong, Breaks, NoBody
  <2>3. pc'[h] \in {"use", "defer"}
    BY <1>0, <1>1, <1>7 DEF ReadBody, TooLong, Breaks, NoBody
  <2> QED
    BY <1>1, <2>1, <2>2, <2>3 DEF CommandInv
<1>8. CASE CopyOut(h)
  <2>1. pc[h] = "use" /\ pc'[h] = "return" /\ cmd'[h] = buf[own[h]] /\ met' = met
    BY <1>0, <1>1, <1>8 DEF CopyOut
  <2> QED
    BY <2>1 DEF CommandInv
<1>9. CASE ReturnBuf(h)
  <2>1. pc[h] = "return" /\ pc'[h] \in {"push", "defer"} /\ cmd' = cmd /\ met' = met
    BY <1>0, <1>1, <1>9 DEF ReturnBuf
  <2> QED
    BY <2>1 DEF CommandInv
<1>10. CASE Push(h)
  <2>1. pc[h] = "push" /\ pc'[h] = "push" /\ cmd' = cmd /\ met' = met
    BY <1>0, <1>1, <1>10 DEF Push
  <2> QED
    BY <2>1 DEF CommandInv
<1>11. CASE Command(h) \/ Answer(h) \/ Unlock(h) \/ Deferred(h)
  <2>1. pc'[h] \in {"off", "get", "defer", "unlock"}
    BY <1>0, <1>1, <1>11 DEF Command, Answer, Unlock, Deferred
  <2> QED
    BY <2>1
<1> QED
  BY <1>6, <1>7, <1>8, <1>9, <1>10, <1>11 DEF Serves

\* A step of a report: a command whose bytes it could touch has met it.
LEMMA CommandReport ==
    ASSUME TypeInv, CommandInv, NEW u \in Writers,
           UpdateState(u) \/ Parse(u) \/ GetBuf(u) \/ ReadBody(u) \/ Deferred(u)
    PROVE  CommandInv'
<1> USE DEF Goes
<1>0. u \in Handlers /\ Commanders \subseteq Handlers /\ Writers \subseteq Handlers
  BY DEF Handlers
<1>1. /\ pc \in [Handlers -> Steps] /\ own \in [Handlers -> Bufs \cup {NoBuf}]
      /\ cmd \in [Handlers -> Contents] /\ buf \in [Bufs -> Contents]
      /\ pc[u] \in {"read", "use", "return", "push", "defer"} => own[u] \in Bufs
  BY <1>0 DEF TypeInv, Typed
<1>2. met \in [Handlers -> BOOLEAN]
  BY DEF TypeInv, FlagsTyped
<1> SUFFICES ASSUME NEW h \in Commanders
             PROVE  ~met'[h] =>
                        /\ pc'[h] \in {"read", "use"} => \A w \in Writers : own'[w] = NoBuf
                        /\ pc'[h] = "use" => buf'[own'[h]] = h
                        /\ pc'[h] \in {"return", "push"} => cmd'[h] = h
  BY DEF CommandInv
<1>3. h # u /\ h \in Handlers
  BY <1>0, NamesAssumption
<1>4. CASE GetBuf(u)
  <2>1. pc'[h] = pc[h] /\ cmd' = cmd
    BY <1>1, <1>3, <1>4 DEF GetBuf
  <2>2. met'[h] = (met[h] \/ pc[h] \in {"read", "use"})
    BY <1>3, <1>4 DEF GetBuf
  <2> QED
    BY <1>2, <1>3, <2>1, <2>2 DEF CommandInv
<1>5. CASE ReadBody(u) \/ Deferred(u)
  <2>1. pc[u] \in {"read", "defer"}
    BY <1>5 DEF ReadBody, TooLong, Breaks, NoBody, Deferred
  <2>2. own[u] # NoBuf
    BY <1>1, <2>1, NamesAssumption
  <2>3. pc[h] \in {"read", "use"} => met[h]
    BY <2>2 DEF CommandInv
  <2>4. pc'[h] = pc[h] /\ cmd'[h] = cmd[h] /\ met'[h] = met[h]
    BY <1>0, <1>1, <1>2, <1>3, <1>5 DEF ReadBody, TooLong, Breaks, NoBody, Deferred
  <2> QED
    BY <2>3, <2>4 DEF CommandInv
<1>6. CASE UpdateState(u) \/ Parse(u)
  <2>1. pc'[h] = pc[h] /\ UNCHANGED <<buf, own, cmd, met>>
    BY <1>1, <1>3, <1>6 DEF UpdateState, Parse
  <2> QED
    BY <2>1 DEF CommandInv
<1> QED
  BY <1>4, <1>5, <1>6

LEMMA CommandStep == TypeInv /\ CommandInv /\ [Next]_vars => CommandInv'
<1>1. ASSUME NEW s \in AllShards, CommandInv, Consume(s) PROVE CommandInv'
  BY <1>1 DEF Consume, CommandInv
<1>2. ASSUME CommandInv, UNCHANGED vars PROVE CommandInv'
  BY <1>2 DEF vars, CommandInv
<1> QED
  BY <1>1, <1>2, CommandAlone, CommandReport DEF Next, Handlers

\* A message is whole, or its command met a report.
Whole(m) == m.from # "mixed" => m.data = m.from
PipeInv == \A s \in AllShards : \A i \in 1 .. Len(pipe[s]) : Whole(pipe[s][i])

\* What is left of a sequence when its front is taken were later entries.
LEMMA TailOf ==
    ASSUME NEW S, NEW c \in Seq(S), c # <<>>
    PROVE  \A i \in 1 .. Len(Tail(c)) : i + 1 \in 1 .. Len(c) /\ Tail(c)[i] = c[i + 1]
OBVIOUS

LEMMA PipeStep ==
    ASSUME TypeInv, CommandInv, PipeInv, [Next]_vars
    PROVE  PipeInv'
<1>0. \A s \in AllShards : pipe[s] \in Seq(Command_)
  BY DEF TypeInv, PipesTyped
<1>a. pipe \in [AllShards -> Seq(Command_)]
  BY DEF TypeInv, PipesTyped
<1>1. CASE pipe' = pipe
  BY <1>1 DEF PipeInv
<1>2. ASSUME NEW h \in Commanders, NEW s \in AllShards,
             pc[h] = "push", pipe' = [pipe EXCEPT ![s] = Append(@, Sent(h))]
      PROVE  PipeInv'
  <2>1. Whole(Sent(h))
    BY <1>2 DEF CommandInv, Sent, Whole
  <2>2. \A t \in AllShards : t # s => pipe'[t] = pipe[t]
    BY <1>2, <1>a
  <2>3. pipe'[s] = Append(pipe[s], Sent(h))
    BY <1>2, <1>a
  <2>4. /\ Len(pipe'[s]) = Len(pipe[s]) + 1
        /\ pipe'[s][Len(pipe[s]) + 1] = Sent(h)
        /\ \A i \in 1 .. Len(pipe[s]) : pipe'[s][i] = pipe[s][i]
    <3> DEFINE m == Sent(h)
    <3>1. m \in Command_
      BY SentType DEF TypeInv
    <3> HIDE DEF m
    <3>2. pipe'[s] = Append(pipe[s], m)
      BY <2>3 DEF m
    <3>3. /\ Len(pipe'[s]) = Len(pipe[s]) + 1
          /\ pipe'[s][Len(pipe[s]) + 1] = m
          /\ \A i \in 1 .. Len(pipe[s]) : pipe'[s][i] = pipe[s][i]
      BY <1>0, <3>1, <3>2
    <3> QED
      BY <3>3 DEF m
  <2>5. \A i \in 1 .. Len(pipe'[s]) : Whole(pipe'[s][i])
    <3>1. Len(pipe[s]) \in Nat
      BY <1>0
    <3>2. \A i \in 1 .. Len(pipe'[s]) : i \in 1 .. Len(pipe[s]) \/ i = Len(pipe[s]) + 1
      BY <2>4, <3>1
    <3> HIDE DEF Whole
    <3> QED
      BY <2>1, <2>4, <3>2 DEF PipeInv
  <2> QED
    BY <2>2, <2>5 DEF PipeInv
<1>3. ASSUME NEW s \in AllShards, pipe[s] # <<>>, pipe' = [pipe EXCEPT ![s] = Tail(@)]
      PROVE  PipeInv'
  <2>1. \A t \in AllShards : t # s => pipe'[t] = pipe[t]
    BY <1>3, <1>a
  <2>2. pipe'[s] = Tail(pipe[s])
    BY <1>3, <1>a
  <2>3. \A i \in 1 .. Len(pipe'[s]) : i + 1 \in 1 .. Len(pipe[s]) /\ pipe'[s][i] = pipe[s][i + 1]
    BY <1>0, <1>3, <2>2, TailOf
  <2> HIDE DEF Whole
  <2> QED
    BY <2>1, <2>3 DEF PipeInv
<1> QED
  BY <1>1, <1>2, <1>3, PipeSteps

\* With any number of commands and reports: a command that met no report
\* reaches its pipe with its own bytes, although buffers are returned twice and
\* an earlier mix may have left any buffer in the pool twice (api.go:299, 348).
THEOREM CommandsAreFaithful == Spec => []CommandsFaithful
<1>1. Init => PipeInv
  BY DEF Init, PipeInv
<1>2. TypeInv /\ PipeInv => CommandsFaithful
  <2> SUFFICES ASSUME TypeInv, PipeInv PROVE CommandsFaithful
    OBVIOUS
  <2>1. \A s \in AllShards : DOMAIN pipe[s] = 1 .. Len(pipe[s])
    BY DEF TypeInv, PipesTyped
  <2> QED
    BY <2>1 DEF PipeInv, Whole, CommandsFaithful
<1> QED
  BY <1>1, <1>2, TypeInit, TypeInvStep, CommandInit, CommandStep, PipeStep, PTL DEF Spec, TypeInv

=============================================================================
