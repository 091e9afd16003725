----------------------------- MODULE EpochLink ------------------------------
(***************************************************************************)
(* The epoch stream between two nodes.  The watched node stores a stamp    *)
(* when its shard starts and 0 when it ends (game.go:69-99); a heartbeat   *)
(* offers the stamp to every connected client every two seconds, without   *)
(* ever blocking (api.go:1116-1146); a handler per client writes what it   *)
(* is offered to its socket (209-277).  The other node runs a sensor per   *)
(* life of its shard, which connects to the stream (game.go:257-372).      *)
(*                                                                         *)
(* Listeners are clients that read the stream, a script or a dashboard.    *)
(* The sensor does not: its inner loop asks the scanner for its line but   *)
(* never lets it scan, so the line stays empty; it feeds its own watchdog  *)
(* for ever and leaves neither with its connection nor with its life.      *)
(***************************************************************************)
EXTENDS Naturals, Sequences

CONSTANTS
    Listeners,     \* clients that read the stream
    MaxStores,     \* bound on the starts and ends of the watched shard
    MaxLife,       \* bound on the lives of the watching shard
    NetCap         \* messages a connection holds between the two nodes

Lives == 1 .. MaxLife
ASSUME EpochAssumption ==
    Listeners \cap Lives = {} /\ {MaxStores, MaxLife} \subseteq Nat /\ NetCap \in Nat \ {0}

Clients == Listeners \cup Lives      \* a life stands for its sensor

VARIABLES
    stores,        \* stores into the epoch so far; history, see Epoch
    sends,         \* what the heartbeat still has to offer: [to, n]
    watched,       \* MasterEpochWatchers: the channels registered
    chan,          \* a handler's channel, of capacity 1
    hand,          \* where the handler of a client is: "off", "select", "write"
    cur,           \* what it is writing
    conn,          \* the client's end of the connection is open
    net,           \* what is on its way to the client
    shown,         \* what a reader has read last
    life, ctx,     \* the watching shard's current life and its context
    sensor         \* of each life: "off", "wait", "dial", "spin", "end"

serverVars == <<sends, watched, chan, hand, cur>>
netVars == <<conn, net>>
sensorVars == <<life, ctx, sensor>>
linkVars == <<stores, serverVars, netVars, shown, sensorVars>>

LinkInit ==
    /\ stores = 0 /\ sends = {} /\ watched = {}
    /\ chan = [c \in Clients |-> <<>>] /\ hand = [c \in Clients |-> "off"]
    /\ cur = [c \in Clients |-> 0]
    /\ conn = [c \in Clients |-> FALSE] /\ net = [c \in Clients |-> <<>>]
    /\ shown = [r \in Listeners |-> 0]
    /\ life = 0 /\ ctx = FALSE /\ sensor = [l \in Lives |-> "off"]

\* The stamp the n-th store left: of life 1, 0, of life 2, 0 and so on.  The
\* stream carries the stamp; the model carries n, to tell one 0 from another.
Epoch(n) == IF n % 2 = 1 THEN (n + 1) \div 2 ELSE 0

-----------------------------------------------------------------------------
(* the watched node                                                        *)

\* game.go:69 and 98: the shard has started, or has ended.
Store ==
    /\ stores < MaxStores /\ stores' = stores + 1
    /\ UNCHANGED <<serverVars, netVars, shown, sensorVars>>

\* Mutant: every beat runs in a goroutine of its own.
Beat_Overlaps ==
    /\ watched # {}
    /\ sends' = sends \cup {[to |-> c, n |-> stores] : c \in watched}
    /\ UNCHANGED <<stores, watched, chan, hand, cur, netVars, shown, sensorVars>>

\* api.go:1125-1134: the stamp is loaded once and goes round the watchers; the
\* next beat begins after that.
Beat ==
    /\ sends = {} /\ watched # {}
    /\ sends' = {[to |-> c, n |-> stores] : c \in watched}
    /\ UNCHANGED <<stores, watched, chan, hand, cur, netVars, shown, sensorVars>>

\* Mutant: the heartbeat waits for room in every channel.
Offer_Blocks ==
    /\ \E s \in sends :
           /\ s.to \notin watched \/ chan[s.to] = <<>>
           /\ sends' = sends \ {s}
           /\ chan' = IF s.to \in watched THEN [chan EXCEPT ![s.to] = <<s.n>>] ELSE chan
    /\ UNCHANGED <<stores, watched, hand, cur, netVars, shown, sensorVars>>

\* api.go:1128-1132: a watcher whose channel is full misses the beat.
Offer ==
    /\ \E s \in sends :
           /\ sends' = sends \ {s}
           /\ chan' = IF s.to \in watched /\ chan[s.to] = <<>>
                      THEN [chan EXCEPT ![s.to] = <<s.n>>] ELSE chan
    /\ UNCHANGED <<stores, watched, hand, cur, netVars, shown, sensorVars>>

\* api.go:215-222: a connection arrives and its channel is registered.
Serve(c) ==
    /\ conn' = [conn EXCEPT ![c] = TRUE]
    /\ hand' = [hand EXCEPT ![c] = "select"]
    /\ watched' = watched \cup {c}
    /\ chan' = [chan EXCEPT ![c] = <<>>]
    /\ net' = [net EXCEPT ![c] = <<>>]

\* api.go:228-231: the handler takes what it was offered.
Take(c) ==
    /\ hand[c] = "select" /\ chan[c] # <<>>
    /\ cur' = [cur EXCEPT ![c] = Head(chan[c])]
    /\ chan' = [chan EXCEPT ![c] = <<>>]
    /\ hand' = [hand EXCEPT ![c] = "write"]
    /\ UNCHANGED <<stores, sends, watched, netVars, shown, sensorVars>>

\* api.go:231-235: the write waits while the connection is full and fails, with
\* no consequence, when the client has gone.
Write(c) ==
    /\ hand[c] = "write"
    /\ \/ ~conn[c] /\ UNCHANGED net
       \/ conn[c] /\ Len(net[c]) < NetCap /\ net' = [net EXCEPT ![c] = Append(@, cur[c])]
    /\ hand' = [hand EXCEPT ![c] = "select"] /\ cur' = [cur EXCEPT ![c] = 0]
    /\ UNCHANGED <<stores, sends, watched, chan, conn, shown, sensorVars>>

\* api.go:222, 228-229: the handler sees that its client has gone.
Leave(c) ==
    /\ hand[c] = "select" /\ ~conn[c]
    /\ hand' = [hand EXCEPT ![c] = "off"]
    /\ watched' = watched \ {c} /\ chan' = [chan EXCEPT ![c] = <<>>]
    /\ UNCHANGED <<stores, sends, cur, netVars, shown, sensorVars>>

-----------------------------------------------------------------------------
(* readers, and the network                                                *)

Connect(r) ==
    /\ hand[r] = "off"
    /\ Serve(r)
    /\ UNCHANGED <<stores, sends, cur, shown, sensorVars>>

Read(r) ==
    /\ conn[r] /\ net[r] # <<>>
    /\ shown' = [shown EXCEPT ![r] = Head(net[r])]
    /\ net' = [net EXCEPT ![r] = Tail(@)]
    /\ UNCHANGED <<stores, serverVars, conn, sensorVars>>

Hangup(c) == conn' = [conn EXCEPT ![c] = FALSE] /\ net' = [net EXCEPT ![c] = <<>>]

\* A connection breaks, or its client leaves; what was on its way is lost.
Cut(c) ==
    /\ conn[c] /\ Hangup(c)
    /\ UNCHANGED <<stores, serverVars, shown, sensorVars>>

-----------------------------------------------------------------------------
(* the watching node                                                       *)

\* game.go:73-75: a life of the shard starts its sensor.
StartLife ==
    /\ ~ctx /\ life < MaxLife
    /\ life' = life + 1 /\ ctx' = TRUE
    /\ sensor' = [sensor EXCEPT ![life'] = "wait"]
    /\ UNCHANGED <<stores, serverVars, netVars, shown>>

\* The life ends for a reason of its own; the request is part of it and breaks.
EndLife ==
    /\ ctx /\ ctx' = FALSE
    /\ Hangup(life)
    /\ UNCHANGED <<stores, serverVars, shown, life, sensor>>

Alive(l) == l = life /\ ctx

\* game.go:261-273: fifteen seconds, or until the world is up.
Arm(l) ==
    /\ sensor[l] = "wait"
    /\ sensor' = [sensor EXCEPT ![l] = IF Alive(l) THEN "dial" ELSE "end"]
    /\ UNCHANGED <<stores, serverVars, netVars, shown, life, ctx>>

\* game.go:277-299: the request gets its answer; one that fails is made again
\* two seconds later.
Dial(l) ==
    /\ sensor[l] = "dial" /\ Alive(l)
    /\ Serve(l)
    /\ sensor' = [sensor EXCEPT ![l] = "spin"]
    /\ UNCHANGED <<stores, sends, cur, shown, life, ctx>>

\* game.go:278-282
GiveUp(l) ==
    /\ sensor[l] = "dial" /\ ~Alive(l)
    /\ sensor' = [sensor EXCEPT ![l] = "end"]
    /\ UNCHANGED <<stores, serverVars, netVars, shown, life, ctx>>

\* game.go:324-370: the line is empty, so nothing is judged, and the loop has
\* no way out: a sensor that spins has no step.

-----------------------------------------------------------------------------
Handler(c) == Take(c) \/ Write(c) \/ Leave(c)
Sensor(l) == Arm(l) \/ Dial(l) \/ GiveUp(l)

LinkNext ==
    \/ Store \/ Beat \/ Offer \/ StartLife \/ EndLife
    \/ \E c \in Clients : Handler(c) \/ Cut(c)
    \/ \E r \in Listeners : Connect(r) \/ Read(r)
    \/ \E l \in Lives : Sensor(l)

LinkSpec == LinkInit /\ [][LinkNext]_linkVars

\* The ticker ticks, goroutines run, a reader reads, and a request is answered
\* some time.  Nothing is assumed of the shards and of the network; nobody
\* has to connect.
LinkFairness ==
    /\ WF_linkVars(Beat) /\ WF_linkVars(Offer)
    /\ \A c \in Clients : WF_linkVars(Handler(c))
    /\ \A r \in Listeners : WF_linkVars(Read(r))
    /\ \A l \in Lives : WF_linkVars(Sensor(l))

FairLinkSpec == LinkSpec /\ LinkFairness

-----------------------------------------------------------------------------
(* Properties                                                              *)

\* What a reader is shown never goes back to an earlier life or an earlier
\* end, over lost beats, full channels, broken connections and new ones: a
\* stamp that differs from the last is a later one (api.go:1125-1132).
NeverBack == [][\A r \in Listeners : shown'[r] >= shown[r]]_linkVars

\* Beats are dropped and the sensor's connection fills up for good, yet a
\* reader that stays connected is shown the stamp that stays (api.go:1116-1146).
LastShown ==
    \A r \in Listeners, n \in 0 .. MaxStores :
        <>[](conn[r] /\ stores = n) => <>[](shown[r] = n)

\* The sensor follows the watched shard: when its connection has brought it
\* the stamps of two lives, its own life ends.  This is what readme.md:36 says
\* ("a single successful API ping is enough for the peer to detect the state
\* mutation and initiate a cascading restart"); the code does not do it.
RestartFollowed ==
    \A l \in Lives :
        (sensor[l] = "spin" /\ \E i, j \in DOMAIN net[l] :
             0 # Epoch(net[l][i]) /\ 0 # Epoch(net[l][j]) /\ Epoch(net[l][i]) # Epoch(net[l][j]))
        ~> ~Alive(l)

=============================================================================
