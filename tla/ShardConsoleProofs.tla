------------------------- MODULE ShardConsoleProofs -------------------------
(***************************************************************************)
(* No game is told to go by an order meant for another, and no reboot      *)
(* trusts an old acknowledgement: proofs of TypeOK, OrdersOfThisLife and   *)
(* AckHonest for any number of lives, any capacity of the channel and any  *)
(* waiting time.                                                           *)
(***************************************************************************)
EXTENDS ShardConsole, Integers, TLAPS

-----------------------------------------------------------------------------
(* The channel                                                             *)

Messages == [cmd : Commands, life : 0 .. MaxLife]
Channels == {c \in Seq(Messages) : Len(c) <= PipeCap}

\* A post leaves a channel of messages within its capacity.
LEMMA PostType ==
    ASSUME NEW c \in Commands, chan \in Channels, life \in 0 .. MaxLife, Post(c)
    PROVE  chan' \in Channels
<1>1. Message(c) \in Messages
  BY BoundsAssumption DEF Message, Messages
<1>2. CASE Len(chan) < PipeCap
  <2>1. chan' = Append(chan, Message(c))
    BY <1>2 DEF Post
  <2>2. chan' \in Seq(Messages) /\ Len(chan') = Len(chan) + 1
    BY <1>1, <2>1 DEF Channels
  <2> QED
    BY <1>2, <2>2, BoundsAssumption DEF Channels
<1>3. CASE ~(Len(chan) < PipeCap)
  BY <1>3 DEF Post
<1> QED
  BY <1>2, <1>3

\* The front of a channel that is not empty is a message; the rest a channel.
LEMMA TakeType ==
    ASSUME chan \in Channels, chan # <<>>
    PROVE  Head(chan) \in Messages /\ Tail(chan) \in Channels
<1>1. chan \in Seq(Messages) /\ Len(chan) \in Nat /\ Len(chan) <= PipeCap
  BY DEF Channels
<1>2. Head(chan) \in Messages /\ Tail(chan) \in Seq(Messages) /\ Len(Tail(chan)) = Len(chan) - 1
  BY <1>1
<1> QED
  BY <1>1, <1>2, BoundsAssumption DEF Channels

LEMMA EmptyType == <<>> \in Channels
BY BoundsAssumption DEF Channels

\* A remainder is below its divisor.
LEMMA Remainder ==
    ASSUME NEW d \in Nat \ {0}, NEW a \in Int
    PROVE  a % d \in 0 .. d - 1
OBVIOUS

\* ... and not above a dividend that is not negative.
LEMMA RemainderSmall ==
    ASSUME NEW d \in Nat \ {0}, NEW a \in Nat
    PROVE  a % d <= a
<1>1. a = d * (a \div d) + (a % d) /\ a \div d \in Nat
  OBVIOUS
<1>2. d * (a \div d) >= 0
  BY <1>1
<1> QED
  BY <1>1, <1>2, Remainder

\* What a print adds is in one of its lines, and that is no echo.
LEMMA Printed ==
    ASSUME NEW lines, Prints(lines), out \in [Lives -> SUBSET {"sign", "saved"}],
           NEW l \in Lives, NEW what \in out'[l]
    PROVE  what \in out[l] \/ \E k \in lines : ~k.echo /\ k.says = what
<1>1. out' = [out EXCEPT ![life] = @ \cup {line.says : line \in {k \in lines : Heeded(k)}}]
  BY DEF Prints
<1> QED
  BY <1>1 DEF Heeded

\* The types of what is printed.
LEMMA PrintsType ==
    ASSUME out \in [Lives -> SUBSET {"sign", "saved"}],
           NEW lines, Prints(lines), \A k \in lines : k.says \in {"sign", "saved"}
    PROVE  out' \in [Lives -> SUBSET {"sign", "saved"}]
BY DEF Prints

-----------------------------------------------------------------------------
(* Types                                                                   *)

\* TypeOK by parts: the flags, the main loop, runner and helpers, the game.
Flags ==
    /\ ctx \in BOOLEAN /\ ready \in BOOLEAN /\ ack \in BOOLEAN
    /\ world \in BOOLEAN /\ script \in BOOLEAN /\ saved \in BOOLEAN
    /\ stray \in BOOLEAN

MainType ==
    /\ life \in 0 .. MaxLife
    /\ mpc \in {"idle", "await", "save", "call", "tick", "final", "await_ack", "join"}
    /\ left \in 0 .. Word - 1 /\ nextCall \in 0 .. Word - 1

SideType ==
    /\ runner \in {"idle", "boot", "run", "grace", "clear"}
    /\ chan \in Channels
    /\ recv \in [Lives -> {"off", "flush", "loop"}]
    /\ poll \in [Lives -> {"off", "look", "idle", "watch"}]

GameType ==
    /\ proc \in {"up", "hung", "gone"}
    /\ out \in [Lives -> SUBSET {"sign", "saved"}]

\* A countdown that goes on has seconds left, and a life that runs has begun.
Counting ==
    /\ mpc \in {"save", "call", "tick"} => left > 0
    /\ mpc # "idle" => life > 0
    /\ runner # "idle" => mpc # "idle"

TypeInv == MainType /\ SideType /\ GameType /\ Counting

LEMMA TypeInit == Init => TypeInv /\ Flags
<1>1. Init => Flags
  BY DEF Init, Flags
<1>2. Init => TypeInv
  BY BoundsAssumption, EmptyType DEF Init, TypeInv, MainType, SideType, GameType, Counting
<1> QED
  BY <1>1, <1>2

LEMMA FlagsStep == Flags /\ [Next]_vars => Flags'
<1> SUFFICES ASSUME Flags, [Next]_vars PROVE Flags'
  OBVIOUS
<1> USE DEF Flags, mainVars, sideVars, gameVars, Dies
<1>1. CASE UNCHANGED vars
  BY <1>1 DEF vars
<1>2. CASE Main \/ RebootBegin \/ Halt \/ Say
  BY <1>2 DEF Main, StartLife, OtherAction, EndLife, Join, RebootBegin, Unread, Halt, Say
<1>3. CASE Reboot
  BY <1>3 DEF Reboot, FirstSave, Announce, Tick, FinalSave, AckOrTimeout, RebootCut, EndLife
<1>4. CASE Runner \/ GameEnds \/ GameActs
  BY <1>4 DEF Runner, Boot, Kill, GraceOver, Clear, GameEnds, GameActs, Stops, Talks, Rebooting
<1>5. ASSUME NEW l \in Lives, Receiver(l) \/ Poller(l) \/ Read(l) PROVE Flags'
  <2>1. CASE Serve(l) \/ StopServing(l) \/ Poller(l)
    BY <2>1 DEF Serve, StopServing, Poller, Look, Sonar, Inject, StopPolling
  <2>2. CASE Take(l)
    <3>1. UNCHANGED <<ctx, ready, ack>>
      BY <2>2 DEF Take
    <3>2. saved' \in {saved, Rebooting} /\ Rebooting \in BOOLEAN
      BY <2>2 DEF Take, Obey, Rebooting
    <3>3. world' \in {world, FALSE} /\ script' \in {script, world, FALSE}
      BY <2>2 DEF Take, Obey, Stops
    <3>4. stray' = stray \/ Talks
      BY <2>2 DEF Take, Obey
    <3>5. stray' \in BOOLEAN
      BY <3>4 DEF Talks
    <3> QED
      BY <3>1, <3>2, <3>3, <3>5
  <2>3. CASE Read(l)
    BY <2>3 DEF Read
  <2> QED
    BY <1>5, <2>1, <2>2, <2>3 DEF Receiver
<1> QED
  BY <1>1, <1>2, <1>3, <1>4, <1>5 DEF Next

LEMMA TypeMain == TypeInv /\ (Main \/ RebootBegin \/ Reboot \/ Halt) => TypeInv'
<1> SUFFICES ASSUME TypeInv, Main \/ RebootBegin \/ Reboot \/ Halt PROVE TypeInv'
  OBVIOUS
<1> USE DEF TypeInv, MainType, SideType, GameType, Counting, sideVars, gameVars
<1>0. {"leave", "plain", "final"} \subseteq Commands /\ Word \in Nat \ {0} /\ Period \in Nat \ {0}
  BY BoundsAssumption DEF Commands
<1>1. CASE StartLife
  BY <1>1, BoundsAssumption DEF StartLife
<1>2. CASE OtherAction
  BY <1>0, <1>2 DEF OtherAction, EndLife
<1>3. CASE Join
  BY <1>3 DEF Join
<1>4. CASE Halt
  BY <1>4 DEF Halt
<1>5. CASE RebootBegin
  <2>1. chan' \in Channels
    BY <1>0, <1>5, PostType DEF RebootBegin
  <2>2. left' \in 0 .. Word - 1
    <3>1. PICK w \in Waits : left' = w % Word
      BY <1>5 DEF RebootBegin
    <3> QED
      BY <1>0, <3>1, Remainder, BoundsAssumption
  <2> QED
    BY <1>5, <2>1, <2>2 DEF RebootBegin
<1>6. CASE FirstSave
  <2>1. chan' \in Channels
    BY <1>0, <1>6, PostType DEF FirstSave
  <2>2. left % Period \in 0 .. Period - 1 /\ left % Period <= left
    <3>1. left \in Nat
      BY <1>0
    <3>2. Period \in Nat \ {0} /\ left \in Int
      BY <1>0
    <3>3. left % Period \in 0 .. Period - 1
      BY <3>2, Remainder
    <3>4. left % Period <= left
      BY <3>1, <3>2, RemainderSmall
    <3> QED
      BY <3>3, <3>4
  <2>3. nextCall' \in 0 .. Word - 1
    BY <1>0, <1>6, <2>2 DEF FirstSave
  <2> QED
    BY <1>6, <2>1, <2>3 DEF FirstSave
<1>7. CASE Announce
  <2>1. chan' \in Channels
    BY <1>0, <1>7, PostType DEF Announce
  <2>2. nextCall' \in 0 .. Word - 1
    <3>1. nextCall + Word - Period \in Int
      BY <1>0
    <3>2. (nextCall + Word - Period) % Word \in 0 .. Word - 1
      BY <1>0, <3>1, Remainder
    <3> QED
      BY <1>7, <3>2 DEF Announce
  <2> QED
    BY <1>7, <2>1, <2>2 DEF Announce
<1>8. CASE Tick
  BY <1>0, <1>8 DEF Tick
<1>9. CASE FinalSave
  <2>1. chan' \in Channels
    BY <1>0, <1>9, PostType DEF FinalSave
  <2> QED
    BY <1>9, <2>1 DEF FinalSave
<1>10. CASE AckOrTimeout
  BY <1>0, <1>10 DEF AckOrTimeout, EndLife
<1>11. CASE RebootCut
  BY <1>0, <1>11 DEF RebootCut, EndLife
<1> QED
  BY <1>1, <1>2, <1>3, <1>4, <1>5, <1>6, <1>7, <1>8, <1>9, <1>10, <1>11 DEF Main, Reboot

LEMMA TypeRunner == TypeInv /\ (Runner \/ GameEnds \/ GameActs \/ Say) => TypeInv'
<1> SUFFICES ASSUME TypeInv, Runner \/ GameEnds \/ GameActs \/ Say PROVE TypeInv'
  OBVIOUS
<1> USE DEF TypeInv, MainType, SideType, GameType, Counting, mainVars, sideVars, gameVars, Dies
<1>0. {"quit", "plain"} \subseteq Commands
  BY DEF Commands
<1>1. CASE Boot
  BY <1>1 DEF Boot
<1>2. CASE Kill
  <2>1. chan' \in Channels
    BY <1>0, <1>2, PostType DEF Kill
  <2> QED
    BY <1>2, <2>1 DEF Kill
<1>3. CASE GraceOver
  BY <1>3 DEF GraceOver
<1>4. CASE Clear
  BY <1>4 DEF Clear
<1>5. CASE GameEnds
  BY <1>5 DEF GameEnds, Stops
<1>6. CASE GameActs
  <2>1. out' \in [Lives -> SUBSET {"sign", "saved"}]
    BY <1>6, PrintsType DEF GameActs, Talks, Line
  <2> QED
    BY <1>6, <2>1 DEF GameActs
<1>7. CASE Say
  <2>1. chan' \in Channels
    BY <1>0, <1>7, PostType DEF Say
  <2> QED
    BY <1>7, <2>1 DEF Say
<1> QED
  BY <1>1, <1>2, <1>3, <1>4, <1>5, <1>6, <1>7 DEF Runner

LEMMA TypeHelpers ==
    ASSUME TypeInv, NEW l \in Lives, Receiver(l) \/ Poller(l) \/ Read(l)
    PROVE  TypeInv'
<1> USE DEF TypeInv, MainType, SideType, GameType, Counting, mainVars, sideVars, gameVars, Dies
<1>0. {"sonar", "inject"} \subseteq Commands
  BY DEF Commands
<1>1. CASE Serve(l)
  BY <1>1, EmptyType DEF Serve
<1>2. CASE Take(l)
  <2>1. chan' \in Channels
    BY <1>2, TakeType DEF Take
  <2>2. out' \in [Lives -> SUBSET {"sign", "saved"}]
    BY <1>2, PrintsType DEF Take, Obey, Talks, Line, Echo
  <2>3. proc' \in {"up", "hung", "gone"}
    BY <1>2 DEF Take, Obey, Stops
  <2> QED
    BY <1>2, <2>1, <2>2, <2>3 DEF Take
<1>3. CASE StopServing(l)
  BY <1>3, EmptyType DEF StopServing
<1>4. CASE Look(l)
  BY <1>4 DEF Look, Watching
<1>5. CASE Sonar(l)
  <2>1. chan' \in Channels
    BY <1>0, <1>5, PostType DEF Sonar
  <2> QED
    BY <1>5, <2>1 DEF Sonar, Watching
<1>6. CASE Inject(l)
  <2>1. chan' \in Channels
    BY <1>0, <1>6, PostType DEF Inject
  <2> QED
    BY <1>6, <2>1 DEF Inject
<1>7. CASE StopPolling(l)
  BY <1>7 DEF StopPolling
<1>8. CASE Read(l)
  BY <1>8 DEF Read
<1> QED
  BY <1>1, <1>2, <1>3, <1>4, <1>5, <1>6, <1>7, <1>8 DEF Receiver, Poller

LEMMA TypeStep == TypeInv /\ [Next]_vars => TypeInv'
<1> SUFFICES ASSUME TypeInv, [Next]_vars PROVE TypeInv'
  OBVIOUS
<1>1. CASE UNCHANGED vars
  BY <1>1 DEF TypeInv, MainType, SideType, GameType, Counting, vars, mainVars, sideVars, gameVars
<1>2. CASE Next
  BY <1>2, TypeMain, TypeRunner, TypeHelpers DEF Next
<1> QED
  BY <1>1, <1>2

\* Every state of the console is well typed (game.go:31-62, 374-569, 738-795).
THEOREM ConsoleTypes == Spec => []TypeOK
<1>1. TypeInv /\ Flags => TypeOK
  BY DEF TypeInv, Flags, MainType, SideType, GameType, TypeOK, Channels, Messages
<1> QED
  BY <1>1, TypeInit, TypeStep, FlagsStep, PTL DEF Spec

-----------------------------------------------------------------------------
(* Orders                                                                  *)

\* Lives to come have no receiver yet, and since the receiver of this life
\* serves, only this life's orders have been posted.  Nothing is said of the
\* receivers, pollers and readers of earlier lives, which may all be at work.
OrdersInv ==
    /\ \A l \in Lives : l > life => recv[l] = "off"
    /\ \A l \in Lives :
           recv[l] = "loop" /\ l = life =>
               \A i \in 1 .. Len(chan) : chan[i].cmd \in Orders => chan[i].life = l

\* A post gives an order the number of the current life.
LEMMA PostOrders ==
    ASSUME TypeInv, NEW c \in Commands, Post(c),
           \A i \in 1 .. Len(chan) : chan[i].cmd \in Orders => chan[i].life = life
    PROVE  \A i \in 1 .. Len(chan') : chan'[i].cmd \in Orders => chan'[i].life = life
<1>1. chan \in Seq(Messages)
  BY DEF TypeInv, SideType, Channels
<1>2. CASE Len(chan) < PipeCap
  <2>1. chan' = Append(chan, Message(c))
    BY <1>2 DEF Post
  <2>2. Len(chan') = Len(chan) + 1 /\ chan'[Len(chan) + 1] = Message(c)
    BY <1>1, <2>1
  <2>3. \A i \in 1 .. Len(chan) : chan'[i] = chan[i]
    BY <1>1, <2>1
  <2>4. Message(c).cmd \in Orders => Message(c).life = life
    BY DEF Message
  <2>5. Len(chan) \in Nat
    BY <1>1
  <2> QED
    BY <2>2, <2>3, <2>4, <2>5
<1>3. CASE ~(Len(chan) < PipeCap)
  BY <1>3 DEF Post
<1> QED
  BY <1>2, <1>3

\* What is left of a channel when its front is taken were later entries.
LEMMA TakeOrders ==
    ASSUME NEW c \in Seq(Messages), c # <<>>
    PROVE  /\ Len(Tail(c)) = Len(c) - 1
           /\ \A i \in 1 .. Len(Tail(c)) : Tail(c)[i] = c[i + 1] /\ i + 1 \in 1 .. Len(c)
OBVIOUS

LEMMA OrdersInit == Init => OrdersInv
BY DEF Init, OrdersInv

\* Steps that neither begin a life nor touch a receiver, and post at most one
\* command, keep the invariant.
LEMMA OrdersPost ==
    ASSUME TypeInv, OrdersInv, UNCHANGED <<life, recv>>,
           chan' = chan \/ \E c \in Commands : Post(c)
    PROVE  OrdersInv'
<1>1. CASE chan' = chan
  BY <1>1 DEF OrdersInv
<1>2. ASSUME NEW c \in Commands, Post(c) PROVE OrdersInv'
  BY <1>2, PostOrders DEF OrdersInv
<1> QED
  BY <1>1, <1>2

LEMMA OrdersStep == TypeInv /\ OrdersInv /\ [Next]_vars => OrdersInv'
<1> SUFFICES ASSUME TypeInv, OrdersInv, [Next]_vars PROVE OrdersInv'
  OBVIOUS
<1> USE DEF mainVars, sideVars, gameVars
<1>0. {"leave", "plain", "final", "quit", "sonar", "inject"} \subseteq Commands
  BY DEF Commands
<1>1. CASE UNCHANGED vars
  BY <1>1 DEF vars, OrdersInv
<1>2. CASE StartLife
  <2>1. life' = life + 1 /\ UNCHANGED <<recv, chan>> /\ life \in Int
    BY <1>2 DEF StartLife, TypeInv, MainType
  <2> QED
    BY <2>1 DEF OrdersInv, Lives
<1>3. CASE OtherAction \/ Join \/ RebootBegin \/ Reboot \/ Halt \/ Say
  <2>1. UNCHANGED <<life, recv>> /\ (chan' = chan \/ \E c \in Commands : Post(c))
    BY <1>0, <1>3 DEF OtherAction, EndLife, Join, RebootBegin, Reboot, FirstSave, Announce, Tick,
                      FinalSave, AckOrTimeout, RebootCut, Halt, Say
  <2> QED
    BY <2>1, OrdersPost
<1>4. CASE Boot
  <2>1. UNCHANGED <<life, chan>>
        /\ (recv' = recv \/ recv' = [recv EXCEPT ![life] = "flush"])
    BY <1>4 DEF Boot
  <2> QED
    BY <2>1 DEF OrdersInv, TypeInv, MainType, SideType
<1>5. CASE Kill \/ GraceOver \/ Clear \/ GameEnds \/ GameActs
  <2>1. UNCHANGED <<life, recv>> /\ (chan' = chan \/ \E c \in Commands : Post(c))
    BY <1>0, <1>5 DEF Kill, GraceOver, Clear, GameEnds, GameActs
  <2> QED
    BY <2>1, OrdersPost
<1>6. ASSUME NEW l \in Lives, Receiver(l) \/ Poller(l) \/ Read(l) PROVE OrdersInv'
  <2>1. CASE Serve(l) \/ StopServing(l)
    <3>1. life' = life /\ chan' = <<>> /\ recv[l] # "off"
          /\ (recv' = [recv EXCEPT ![l] = "loop"] \/ recv' = [recv EXCEPT ![l] = "off"])
      BY <2>1 DEF Serve, StopServing
    <3> QED
      BY <3>1 DEF OrdersInv, TypeInv, SideType
  <2>2. CASE Take(l)
    <3>1. life' = life /\ recv' = recv /\ chan' = Tail(chan) /\ chan # <<>>
      BY <2>2 DEF Take
    <3>2. chan \in Seq(Messages)
      BY DEF TypeInv, SideType, Channels
    <3>3. \A i \in 1 .. Len(chan') : chan'[i] = chan[i + 1] /\ i + 1 \in 1 .. Len(chan)
      BY <3>1, <3>2, TakeOrders
    <3> QED
      BY <3>1, <3>3 DEF OrdersInv
  <2>3. CASE Poller(l) \/ Read(l)
    <3>1. UNCHANGED <<life, recv>> /\ (chan' = chan \/ \E c \in Commands : Post(c))
      BY <1>0, <2>3 DEF Poller, Look, Sonar, Inject, StopPolling, Read
    <3> QED
      BY <3>1, OrdersPost
  <2> QED
    BY <1>6, <2>1, <2>2, <2>3 DEF Receiver
<1> QED
  BY <1>1, <1>2, <1>3, <1>4, <1>5, <1>6 DEF Next, Main, Runner

\* No game is told to go, or to save for the last time, by an order that was
\* left in the channel for the game before it (game.go:122-138, 750-759).
THEOREM OrdersAreOfThisLife == Spec => []OrdersOfThisLife
<1>1. TypeInv /\ OrdersInv => OrdersOfThisLife
  <2> SUFFICES ASSUME TypeInv, OrdersInv PROVE OrdersOfThisLife
    OBVIOUS
  <2>1. DOMAIN chan = 1 .. Len(chan)
    BY DEF TypeInv, SideType, Channels
  <2> QED
    BY <2>1 DEF OrdersInv, OrdersOfThisLife
<1> QED
  BY <1>1, TypeInit, TypeStep, OrdersInit, OrdersStep, PTL DEF Spec

-----------------------------------------------------------------------------
(* Acknowledgements                                                        *)

\* From its drain to its end, whatever acknowledgement a reboot may come to find,
\* in the channel already or in a line no reader has come to, in whatever life
\* it was printed, is accounted for: the save was carried out or something else
\* printed the word.
AckInv ==
    Rebooting =>
        /\ ack => saved \/ stray
        /\ \A l \in Lives : "saved" \in out[l] => saved \/ stray

LEMMA AckInit == Init => AckInv
BY DEF Init, AckInv, Rebooting

\* Whoever leaves the flags, the lines and the main loop alone keeps it.
LEMMA AckStutter ==
    ASSUME AckInv, UNCHANGED <<mpc, ack, saved, stray, out>>
    PROVE  AckInv'
BY DEF AckInv, Rebooting

LEMMA AckMain ==
    ASSUME TypeInv, Flags, AckInv, Main \/ RebootBegin \/ Reboot \/ Halt
    PROVE  AckInv'
<1> USE DEF mainVars, sideVars, gameVars, Rebooting
<1>1. CASE Main \/ AckOrTimeout \/ RebootCut
  BY <1>1 DEF Main, StartLife, OtherAction, Join, AckOrTimeout, RebootCut, EndLife, AckInv
<1>2. CASE RebootBegin
  <2>1. ack' = FALSE /\ out' = out /\ stray' = Unread
    BY <1>2 DEF RebootBegin
  <2> QED
    BY <2>1 DEF AckInv, Unread
<1>3. CASE FirstSave \/ Announce \/ Tick \/ FinalSave
  BY <1>3 DEF FirstSave, Announce, Tick, FinalSave, AckInv
<1>4. CASE Halt
  BY <1>4, AckStutter DEF Halt
<1> QED
  BY <1>1, <1>2, <1>3, <1>4 DEF Reboot

LEMMA TalksAck ==
    ASSUME TypeInv, AckInv, Talks, UNCHANGED <<mpc, ack, saved>>
    PROVE  AckInv'
<1>1. PICK what \in {"sign", "saved"} :
          Prints({Line(what)}) /\ stray' = (stray \/ (what = "saved" /\ Rebooting))
  BY DEF Talks
<1>2. out \in [Lives -> SUBSET {"sign", "saved"}]
  BY DEF TypeInv, GameType
<1>3. ASSUME NEW l \in Lives, "saved" \in out'[l] PROVE "saved" \in out[l] \/ what = "saved"
  <2>1. "saved" \in out[l] \/ \E k \in {Line(what)} : ~k.echo /\ k.says = "saved"
    BY <1>1, <1>2, <1>3, Printed
  <2> QED
    BY <2>1 DEF Line
<1> QED
  BY <1>1, <1>3 DEF AckInv, Rebooting

LEMMA ObeyAck ==
    ASSUME TypeInv, AckInv, NEW c \in Commands, Obey(c), UNCHANGED <<mpc, ack>>
    PROVE  AckInv'
<1> USE DEF gameVars
<1>1. out \in [Lives -> SUBSET {"sign", "saved"}]
  BY DEF TypeInv, GameType
<1>2. CASE UNCHANGED <<saved, out, stray>>
  BY <1>2, AckStutter
<1>3. CASE c = "final" /\ saved' = Rebooting /\ UNCHANGED stray
  BY <1>3 DEF AckInv, Rebooting
<1>4. CASE Prints({Echo("saved")}) /\ UNCHANGED <<saved, stray>>
  <2>1. ASSUME NEW l \in Lives, "saved" \in out'[l] PROVE "saved" \in out[l]
    <3>1. "saved" \in out[l] \/ \E k \in {Echo("saved")} : ~k.echo /\ k.says = "saved"
      BY <1>1, <1>4, <2>1, Printed
    <3> QED
      BY <3>1 DEF Echo
  <2> QED
    BY <1>4, <2>1 DEF AckInv, Rebooting
<1>5. CASE /\ Prints({Echo("sign")} \cup IF world THEN {Line("sign")} ELSE {})
           /\ UNCHANGED <<saved, stray>>
  <2> DEFINE lines == {Echo("sign")} \cup IF world THEN {Line("sign")} ELSE {}
  <2>1. \A k \in lines : k.says = "sign"
    BY DEF Echo, Line
  <2> HIDE DEF lines
  <2>2. ASSUME NEW l \in Lives, "saved" \in out'[l] PROVE "saved" \in out[l]
    <3>1. Prints(lines)
      BY <1>5 DEF lines
    <3> QED
      BY <1>1, <2>1, <2>2, <3>1, Printed
  <2> QED
    BY <1>5, <2>2 DEF AckInv, Rebooting
<1>6. CASE c = "plain" /\ Talks /\ UNCHANGED saved
  BY <1>6, TalksAck
<1> QED
  BY <1>2, <1>3, <1>4, <1>5, <1>6 DEF Obey

LEMMA AckOthers ==
    ASSUME TypeInv, Flags, AckInv,
           \/ Runner \/ GameEnds \/ GameActs \/ Say
           \/ \E l \in Lives : Receiver(l) \/ Poller(l) \/ Read(l)
    PROVE  AckInv'
<1> USE DEF mainVars, sideVars, gameVars
<1>0. out \in [Lives -> SUBSET {"sign", "saved"}]
  BY DEF TypeInv, GameType
<1>1. CASE Runner \/ GameEnds \/ Say
  BY <1>1, AckStutter DEF Runner, Boot, Kill, GraceOver, Clear, GameEnds, Say
<1>2. CASE GameActs
  <2>1. CASE Talks
    BY <1>2, <2>1, TalksAck DEF GameActs
  <2>2. CASE UNCHANGED <<out, stray>>
    BY <1>2, <2>2, AckStutter DEF GameActs
  <2>3. CASE Prints({Line("sign")}) /\ UNCHANGED stray
    <3>1. ASSUME NEW l \in Lives, "saved" \in out'[l] PROVE "saved" \in out[l]
      <4>1. "saved" \in out[l] \/ \E k \in {Line("sign")} : ~k.echo /\ k.says = "saved"
        BY <1>0, <2>3, <3>1, Printed
      <4> QED
        BY <4>1 DEF Line
    <3> QED
      BY <1>2, <2>3, <3>1 DEF GameActs, AckInv, Rebooting
  <2> QED
    BY <1>2, <2>1, <2>2, <2>3 DEF GameActs
<1>3. ASSUME NEW l \in Lives, Receiver(l) \/ Poller(l) \/ Read(l) PROVE AckInv'
  <2>1. CASE Serve(l) \/ StopServing(l) \/ Poller(l)
    BY <2>1, AckStutter DEF Serve, StopServing, Poller, Look, Sonar, Inject, StopPolling
  <2>2. CASE Take(l)
    <3>1. Head(chan).cmd \in Commands
      BY <2>2, TakeType DEF Take, TypeInv, SideType, Messages
    <3>2. UNCHANGED <<mpc, ack>>
          /\ (Obey(Head(chan).cmd) \/ UNCHANGED <<saved, out, stray>>)
      BY <2>2 DEF Take
    <3> QED
      BY <3>1, <3>2, AckStutter, ObeyAck
  <2>3. CASE Read(l)
    <3>1. PICK line \in out[l] :
              /\ UNCHANGED <<mpc, saved, stray>>
              /\ out' = [out EXCEPT ![l] = @ \ {line}]
              /\ ack' = (ack \/ (line = "saved" /\ Role = "master"))
      BY <2>3 DEF Read
    <3>2. \A k \in Lives : out'[k] \subseteq out[k]
      BY <1>0, <3>1
    <3>3. Rebooting => (ack' => saved \/ stray)
      BY <3>1 DEF AckInv
    <3> QED
      BY <3>1, <3>2, <3>3 DEF AckInv, Rebooting
  <2> QED
    BY <1>3, <2>1, <2>2, <2>3 DEF Receiver
<1> QED
  BY <1>1, <1>2, <1>3

LEMMA AckStep == TypeInv /\ Flags /\ AckInv /\ [Next]_vars => AckInv'
<1> SUFFICES ASSUME TypeInv, Flags, AckInv, [Next]_vars PROVE AckInv'
  OBVIOUS
<1>1. CASE UNCHANGED vars
  BY <1>1, AckStutter DEF vars, mainVars, sideVars, gameVars
<1>2. CASE Next
  BY <1>2, AckMain, AckOthers DEF Next
<1> QED
  BY <1>1, <1>2

\* A reboot that finds an acknowledgement has had this life's final save carried
\* out or a K_SAVED printed into its wait by something else, however late earlier
\* saves were acknowledged, however talkative the game is and whoever reads its
\* output; no echo counts (game.go:478-481, 558-559, 695-697, 711-716).
THEOREM AcksAreHonest == Spec => []AckHonest
<1>1. AckInv => AckHonest
  BY DEF AckInv, AckHonest, Rebooting
<1> QED
  BY <1>1, TypeInit, TypeStep, FlagsStep, AckInit, AckStep, PTL DEF Spec

=============================================================================
