------------------------------- MODULE LogHub -------------------------------
(***************************************************************************)
(* The log broadcast of one shard: LiveStream goroutines put each console  *)
(* line into a pooled block (game.go:681-693), the hub fans the block out  *)
(* to the subscribed SSE handlers (api.go:1148-1177), each handler writes  *)
(* it to its client (api.go:840-894), and the last one to let go of the    *)
(* block returns it to the pool.  The caves have an identical copy.        *)
(*                                                                         *)
(* Nobody synchronises with anybody but through channels and the atomic    *)
(* reference count of the block.  A handler is created per connection;     *)
(* a Clients element is one connection slot, used again only when nothing  *)
(* of the earlier connection is left in the hub.                           *)
(***************************************************************************)
EXTENDS Integers, Sequences, SequencesExt, FiniteSets

CONSTANTS
    Streamers,     \* LiveStream goroutines (stdout and stderr of the shard)
    Clients,       \* connection slots of /api/log/master
    Blocks,        \* block objects: the model's bound on the pool
    HubCap,        \* capacity of MasterCentralLogChan (1024 in the code)
    ChanCap,       \* capacity of a handler's channel (256)
    SubCap,        \* capacity of the subscription channels (128)
    ListenerFails  \* whether the API context may end under the handlers

ASSUME CapsAssumption == {HubCap, ChanCap, SubCap} \subseteq Nat \ {0}
ASSUME FailsAssumption == ListenerFails \in BOOLEAN

NoBlock == "none"
NoClient == "nobody"
ASSUME NamesAssumption == NoBlock \notin Blocks /\ NoClient \notin Clients
ASSUME FiniteAssumption == IsFiniteSet(Streamers) /\ IsFiniteSet(Clients)

VARIABLES
    free,          \* LogBroadcastPool: the blocks at rest
    ref,           \* RefCount of each block
    mine,          \* the block each streamer is filling
    connCount,     \* MasterLogConnCount
    central,       \* MasterCentralLogChan
    subQ, unsubQ,  \* MasterLogSubChan, MasterLogUnsubChan
    subs,          \* the hub's set of subscribed channels
    hub,           \* "select", "fan", "done" (returned) or "panic"
    hubBlock,      \* the block the hub is fanning out
    todo,          \* channels it has still to offer the block to
    offering,      \* the channel whose reference it has just added
    chan, closed,  \* the handlers' channels
    overtaken,     \* history: channels closed while their subscription waited
    cpc,           \* program counter of each handler
    cur            \* the block a handler is writing

poolVars   == <<free, ref>>
hubVars    == <<subs, hub, hubBlock, todo, offering>>
clientVars == <<cpc, cur>>
vars == <<poolVars, mine, connCount, central, subQ, unsubQ, hubVars, chan, closed,
          overtaken, clientVars>>

Init ==
    /\ free = Blocks
    /\ ref = [b \in Blocks |-> 0]
    /\ mine = [s \in Streamers |-> NoBlock]
    /\ connCount = 0
    /\ central = <<>> /\ subQ = <<>> /\ unsubQ = <<>>
    /\ subs = {} /\ hub = "select" /\ hubBlock = NoBlock /\ todo = {} /\ offering = NoClient
    /\ chan = [c \in Clients |-> <<>>]
    /\ closed = [c \in Clients |-> FALSE]
    /\ overtaken = {}
    /\ cpc = [c \in Clients |-> "off"]
    /\ cur = [c \in Clients |-> NoBlock]

\* The core runs: a panic in any goroutine ends the process.
Alive == hub # "panic"

\* if RefCount.Add(-1) == 0 { pool.Put }: nobody else can see the block then.
Release(b) ==
    /\ ref' = [ref EXCEPT ![b] = @ - 1]
    /\ free' = IF ref[b] = 1 THEN free \cup {b} ELSE free

-----------------------------------------------------------------------------
(* LiveStream                                                              *)

\* game.go:681-686: with a client connected a line goes into a pooled block
\* whose count is set to one.
Fill(s) ==
    /\ Alive
    /\ mine[s] = NoBlock
    /\ connCount > 0
    /\ \E b \in free :
           /\ free' = free \ {b}
           /\ ref' = [ref EXCEPT ![b] = 1]
           /\ mine' = [mine EXCEPT ![s] = b]
    /\ UNCHANGED <<connCount, central, subQ, unsubQ, hubVars, chan, closed, clientVars, overtaken>>

\* game.go:688-692: the game is never blocked; a full pipe drops the line.
Offer(s) ==
    /\ Alive
    /\ mine[s] # NoBlock
    /\ mine' = [mine EXCEPT ![s] = NoBlock]
    /\ IF Len(central) < HubCap
       THEN central' = Append(central, mine[s]) /\ free' = free
       ELSE central' = central /\ free' = free \cup {mine[s]}
    /\ UNCHANGED <<ref, connCount, subQ, unsubQ, hubVars, chan, closed, clientVars, overtaken>>

-----------------------------------------------------------------------------
(* MasterLogBroadcastHub                                                   *)

\* api.go:1156-1157
HubSub ==
    /\ hub = "select"
    /\ subQ # <<>>
    /\ subs' = subs \cup {Head(subQ)}
    /\ subQ' = Tail(subQ)
    /\ UNCHANGED <<poolVars, mine, connCount, central, unsubQ, hub, hubBlock, todo, offering,
                   chan, closed, clientVars, overtaken>>

\* Mutant: the hub forgets the channel without closing it.
HubUnsub_NoClose ==
    /\ hub = "select"
    /\ unsubQ # <<>>
    /\ subs' = subs \ {Head(unsubQ)}
    /\ unsubQ' = Tail(unsubQ)
    /\ UNCHANGED <<poolVars, mine, connCount, central, subQ, hub, hubBlock, todo, offering,
                   chan, closed, clientVars, overtaken>>

\* Mutant: the channel is closed and kept.
HubUnsub_Keeps ==
    /\ hub = "select"
    /\ unsubQ # <<>>
    /\ LET c == Head(unsubQ) IN
           /\ closed' = [closed EXCEPT ![c] = TRUE]
           /\ overtaken' = IF c \in Range(subQ) THEN overtaken \cup {c} ELSE overtaken
    /\ unsubQ' = Tail(unsubQ)
    /\ UNCHANGED <<poolVars, mine, connCount, central, subQ, subs, hub, hubBlock, todo, offering,
                   chan, clientVars>>

\* api.go:1159-1161: the channel is closed, whether or not it was subscribed.
HubUnsub ==
    /\ hub = "select"
    /\ unsubQ # <<>>
    /\ LET c == Head(unsubQ) IN
           /\ subs' = subs \ {c}
           /\ closed' = [closed EXCEPT ![c] = TRUE]
           /\ overtaken' = IF c \in Range(subQ) THEN overtaken \cup {c} ELSE overtaken
    /\ unsubQ' = Tail(unsubQ)
    /\ UNCHANGED <<poolVars, mine, connCount, central, subQ, hub, hubBlock, todo, offering,
                   chan, clientVars>>

\* api.go:1163-1164
HubTake ==
    /\ hub = "select"
    /\ central # <<>>
    /\ hub' = "fan"
    /\ hubBlock' = Head(central)
    /\ central' = Tail(central)
    /\ todo' = subs
    /\ UNCHANGED <<poolVars, mine, connCount, subQ, unsubQ, subs, offering, chan, closed, clientVars, overtaken>>

\* Mutant: the channel is offered the block before the hub has counted it.
HubRef_NoAdd ==
    /\ hub = "fan"
    /\ offering = NoClient
    /\ \E c \in todo : offering' = c /\ todo' = todo \ {c}
    /\ UNCHANGED <<poolVars, mine, connCount, central, subQ, unsubQ, subs, hub, hubBlock,
                   chan, closed, clientVars, overtaken>>

\* api.go:1165
HubRef ==
    /\ hub = "fan"
    /\ offering = NoClient
    /\ \E c \in todo : offering' = c /\ todo' = todo \ {c}
    /\ ref' = [ref EXCEPT ![hubBlock] = @ + 1]
    /\ UNCHANGED <<free, mine, connCount, central, subQ, unsubQ, subs, hub, hubBlock,
                   chan, closed, clientVars, overtaken>>

\* api.go:1166-1170: a full channel takes the reference back; a send on a
\* closed channel panics, and nothing recovers.
HubSend ==
    /\ hub = "fan"
    /\ offering # NoClient
    /\ IF closed[offering]
       THEN hub' = "panic" /\ UNCHANGED <<chan, ref, overtaken>>
       ELSE /\ hub' = hub
            /\ IF Len(chan[offering]) < ChanCap
               THEN chan' = [chan EXCEPT ![offering] = Append(@, hubBlock)] /\ ref' = ref
               ELSE chan' = chan /\ ref' = [ref EXCEPT ![hubBlock] = @ - 1]
    /\ offering' = NoClient
    /\ UNCHANGED <<free, mine, connCount, central, subQ, unsubQ, subs, hubBlock, todo,
                   closed, clientVars, overtaken>>

\* api.go:1172-1174: the hub gives up the reference it was handed.
HubRelease ==
    /\ hub = "fan"
    /\ todo = {} /\ offering = NoClient
    /\ Release(hubBlock)
    /\ hub' = "select"
    /\ hubBlock' = NoBlock
    /\ UNCHANGED <<mine, connCount, central, subQ, unsubQ, subs, todo, offering, chan, closed, clientVars, overtaken>>

\* api.go:1153-1154: the API context is done, because one listener failed
\* (main_linux.go:413-464), while the handlers of the others go on.
HubDone ==
    /\ ListenerFails
    /\ hub = "select"
    /\ hub' = "done"
    /\ UNCHANGED <<poolVars, mine, connCount, central, subQ, unsubQ, subs, hubBlock, todo,
                   offering, chan, closed, clientVars, overtaken>>

Hub == HubSub \/ HubUnsub \/ HubTake \/ HubRef \/ HubSend \/ HubRelease

-----------------------------------------------------------------------------
(* api_log_master                                                          *)

Goes(c, from, to) == Alive /\ cpc[c] = from /\ cpc' = [cpc EXCEPT ![c] = to]

\* api.go:851-852: a new connection, its channel and its place in the count.
Connect(c) ==
    /\ Goes(c, "off", "sub")
    /\ c \notin subs /\ c \notin Range(subQ)
    /\ connCount' = connCount + 1
    /\ chan' = [chan EXCEPT ![c] = <<>>]
    /\ closed' = [closed EXCEPT ![c] = FALSE]
    /\ UNCHANGED <<poolVars, mine, central, subQ, unsubQ, hubVars, cur, overtaken>>

\* api.go:854
Subscribe(c) ==
    /\ Goes(c, "sub", "serve")
    /\ Len(subQ) < SubCap
    /\ subQ' = Append(subQ, c)
    /\ UNCHANGED <<poolVars, mine, connCount, central, unsubQ, hubVars, chan, closed, cur, overtaken>>

\* api.go:879-880
Receive(c) ==
    /\ Goes(c, "serve", "write")
    /\ chan[c] # <<>>
    /\ cur' = [cur EXCEPT ![c] = Head(chan[c])]
    /\ chan' = [chan EXCEPT ![c] = Tail(@)]
    /\ UNCHANGED <<poolVars, mine, connCount, central, subQ, unsubQ, hubVars, closed, overtaken>>

\* api.go:882-891: the write is over (its deadline is two seconds), the block
\* is released; after an error the handler leaves.
Written(c) ==
    /\ \E to \in {"serve", "leave"} : Goes(c, "write", to)
    /\ Release(cur[c])
    /\ cur' = [cur EXCEPT ![c] = NoBlock]
    /\ UNCHANGED <<mine, connCount, central, subQ, unsubQ, hubVars, chan, closed, overtaken>>

\* api.go:877-878: the client hung up.
HangUp(c) ==
    /\ Goes(c, "serve", "leave")
    /\ UNCHANGED <<poolVars, mine, connCount, central, subQ, unsubQ, hubVars, chan, closed, cur, overtaken>>

\* Mutant: the count of connections is taken down twice.
CountDown_Twice(c) ==
    /\ Goes(c, "leave", "unsub")
    /\ connCount' = connCount - 2
    /\ UNCHANGED <<poolVars, mine, central, subQ, unsubQ, hubVars, chan, closed, cur, overtaken>>

\* api.go:860
CountDown(c) ==
    /\ Goes(c, "leave", "unsub")
    /\ connCount' = connCount - 1
    /\ UNCHANGED <<poolVars, mine, central, subQ, unsubQ, hubVars, chan, closed, cur, overtaken>>

\* api.go:862
Unsubscribe(c) ==
    /\ Goes(c, "unsub", "drain")
    /\ Len(unsubQ) < SubCap
    /\ unsubQ' = Append(unsubQ, c)
    /\ UNCHANGED <<poolVars, mine, connCount, central, subQ, hubVars, chan, closed, cur, overtaken>>

\* Mutant: what is left in the channel is thrown away without a release.
DrainOne_Forgets(c) ==
    /\ Goes(c, "drain", "drain")
    /\ chan[c] # <<>>
    /\ chan' = [chan EXCEPT ![c] = Tail(@)]
    /\ UNCHANGED <<poolVars, mine, connCount, central, subQ, unsubQ, hubVars, closed, cur, overtaken>>

\* api.go:864-868: the range over the channel hands back what is left in it.
DrainOne(c) ==
    /\ Goes(c, "drain", "drain")
    /\ chan[c] # <<>>
    /\ Release(Head(chan[c]))
    /\ chan' = [chan EXCEPT ![c] = Tail(@)]
    /\ UNCHANGED <<mine, connCount, central, subQ, unsubQ, hubVars, closed, cur, overtaken>>

\* api.go:864: the range ends when the channel is closed and empty.
Drained(c) ==
    /\ Goes(c, "drain", "off")
    /\ chan[c] = <<>>
    /\ closed[c]
    /\ UNCHANGED <<poolVars, mine, connCount, central, subQ, unsubQ, hubVars, chan, closed, cur, overtaken>>

Handler(c) == \/ Subscribe(c) \/ Receive(c) \/ Written(c) \/ CountDown(c)
              \/ Unsubscribe(c) \/ DrainOne(c) \/ Drained(c)

-----------------------------------------------------------------------------
Next ==
    \/ \E s \in Streamers : Fill(s) \/ Offer(s)
    \/ Hub
    \/ HubDone
    \/ \E c \in Clients : Connect(c) \/ HangUp(c) \/ Handler(c)

\* Every goroutine that can run is scheduled.  Go's select is random, so the hub
\* serves each of its channels again and again; blocked senders queue in order,
\* so a full subscription channel lets each of them in at last.
Fairness ==
    /\ \A s \in Streamers : WF_vars(Offer(s))
    /\ SF_vars(HubSub) /\ SF_vars(HubUnsub) /\ SF_vars(HubTake)
    /\ WF_vars(HubRef \/ HubSend \/ HubRelease)
    /\ \A c \in Clients :
           WF_vars(Handler(c)) /\ SF_vars(Subscribe(c)) /\ SF_vars(Unsubscribe(c))

Spec == Init /\ [][Next]_vars
FairSpec == Spec /\ Fairness

-----------------------------------------------------------------------------
(* Properties                                                              *)

\* Type invariant.
TypeOK ==
    /\ free \subseteq Blocks
    /\ ref \in [Blocks -> Int]
    /\ mine \in [Streamers -> Blocks \cup {NoBlock}]
    /\ connCount \in 0 .. Cardinality(Clients)
    /\ central \in BoundedSeq(Blocks, HubCap)
    /\ subQ \in BoundedSeq(Clients, SubCap)
    /\ unsubQ \in BoundedSeq(Clients, SubCap)
    /\ subs \subseteq Clients
    /\ hub \in {"select", "fan", "done", "panic"}
    /\ hubBlock \in Blocks \cup {NoBlock}
    /\ todo \subseteq Clients
    /\ offering \in Clients \cup {NoClient}
    /\ chan \in [Clients -> BoundedSeq(Blocks, ChanCap)]
    /\ closed \in [Clients -> BOOLEAN]
    /\ overtaken \subseteq Clients
    /\ cpc \in [Clients -> {"off", "sub", "serve", "write", "leave", "unsub", "drain"}]
    /\ cur \in [Clients -> Blocks \cup {NoBlock}]

\* Who still uses a block: the streamer, the central pipe, the hub (twice while
\* it offers), the channels and the handlers' hands.
InCentral(b) == {i \in DOMAIN central : central[i] = b}
InChannels(b) == {p \in Clients \X (1 .. ChanCap) :
                     p[2] \in DOMAIN chan[p[1]] /\ chan[p[1]][p[2]] = b}
InHub(b) ==
    IF hubBlock # b THEN 0 ELSE IF offering = NoClient THEN 1 ELSE 2
Holders(b) ==
    Cardinality({s \in Streamers : mine[s] = b}) + Cardinality(InCentral(b)) + InHub(b)
    + Cardinality(InChannels(b)) + Cardinality({c \in Clients : cur[c] = b})

\* The reference count is exact: a block in the pool is used by nobody, and a
\* block in use counts its users.  Too low and a line is overwritten while a
\* handler writes it; too high and the block never returns to the pool.
RefExact ==
    Alive => \A b \in Blocks : Holders(b) = IF b \in free THEN 0 ELSE ref[b]

\* The hub never sends on a closed channel, which would end the core and the
\* game with it, unless it took a departure before the subscription it ends:
\* the two come in two channels (api.go:1156-1161).  api.md:427 promises that
\* the game process never stalls.
HubSurvives == Alive \/ overtaken # {}

\* Every block taken from the pool returns to it, while the hub is at work.
NoLeak == \A b \in Blocks : b \notin free ~> (b \in free \/ hub \in {"done", "panic"})

\* A handler whose client is gone ends: the hub, if it is at work, closes its
\* channel.
HandlersEnd == \A c \in Clients :
    cpc[c] = "leave" ~> (cpc[c] = "off" \/ hub \in {"done", "panic"})

=============================================================================
