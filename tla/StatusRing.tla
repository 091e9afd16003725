----------------------------- MODULE StatusRing -----------------------------
(***************************************************************************)
(* The status snapshots of the API (api_status.go:13-150).  One probe      *)
(* goroutine (api.go:1089-1111) renders the status into the next slot of a *)
(* ring of preallocated buffers, publishes a pointer to the slot and wakes *)
(* the SSE handlers.  Handlers of /api/status and /api/events (api.go:     *)
(* 148-207) load the pointer and write the slot to their client; they take *)
(* no lock, the depth of the ring is all that protects them.               *)
(*                                                                         *)
(* Snapshots are numbered; a slot being rendered holds Torn.               *)
(***************************************************************************)
EXTENDS Integers, FiniteSets

CONSTANTS
    Depth,         \* RingDepth, 32 in the code
    Watchers,      \* handlers of /api/events
    Pollers,       \* handlers of /api/status
    MaxSnaps       \* bound: snapshots rendered in a behaviour

ASSUME DepthAssumption == Depth \in Nat \ {0}
ASSUME SnapsAssumption == MaxSnaps \in Nat
ASSUME ReadersAssumption == Watchers \cap Pollers = {}

Readers == Watchers \cup Pollers
Torn == -1
None == 0                       \* the "loading" snapshot of init()

VARIABLES
    cursor,        \* how many snapshots have been begun
    slot,          \* content of each slot
    live,          \* the snapshot the published pointer was set for
    ppc,           \* the probe: "rest", "render", "publish" or "notify"
    todo,          \* watchers it has still to wake
    observers,     \* SseObserverMatrix
    token,         \* whether the watcher's channel (capacity 1) is full
    rpc,           \* each reader: "off", "wait", "load" or "write"
    got,           \* the snapshot whose slot the reader is writing
    since,         \* history: snapshots begun since it loaded the pointer
    sent,          \* history: the last snapshot a watcher has sent
    joined         \* history: the snapshot that was published when it connected

probeVars == <<cursor, slot, live, ppc, todo>>
vars == <<probeVars, observers, token, rpc, got, since, sent, joined>>

\* Mutant: the slot of a snapshot is the one just published.
Slot_Same(n) == (IF n > 1 THEN n - 2 ELSE 0) % Depth

\* api_status.go:39-40: the cursor is masked.  Depth divides 2^32, so the wrap
\* of the counter changes nothing.
Slot(n) == (n - 1) % Depth

Init ==
    /\ cursor = 0
    /\ slot = [i \in 0 .. Depth - 1 |-> None]
    /\ live = None
    /\ ppc = "rest"
    /\ todo = {}
    /\ observers = {}
    /\ token = [w \in Watchers |-> FALSE]
    /\ rpc = [r \in Readers |-> "off"]
    /\ got = [r \in Readers |-> None]
    /\ since = [r \in Readers |-> 0]
    /\ sent = [w \in Watchers |-> None]
    /\ joined = [w \in Watchers |-> None]

-----------------------------------------------------------------------------
(* the probe                                                               *)

\* api_status.go:39-42: the ticker fires; the next slot is cut to length zero.
Begin ==
    /\ ppc = "rest"
    /\ cursor < MaxSnaps
    /\ ppc' = "render"
    /\ cursor' = cursor + 1
    /\ slot' = [slot EXCEPT ![Slot(cursor + 1)] = Torn]
    /\ since' = [r \in Readers |-> IF rpc[r] = "write" /\ since[r] < Depth
                                   THEN since[r] + 1 ELSE since[r]]
    /\ UNCHANGED <<live, todo, observers, token, rpc, got, sent, joined>>

\* api_status.go:44-138: the fields are appended, the header of the slot stored.
Render ==
    /\ ppc = "render"
    /\ ppc' = "publish"
    /\ slot' = [slot EXCEPT ![Slot(cursor)] = cursor]
    /\ UNCHANGED <<cursor, live, todo, observers, token, rpc, got, since, sent, joined>>

\* api_status.go:139-143
Publish ==
    /\ ppc = "publish"
    /\ ppc' = "notify"
    /\ live' = cursor
    /\ todo' = observers
    /\ UNCHANGED <<cursor, slot, observers, token, rpc, got, since, sent, joined>>

\* api_status.go:143-149: a watcher that already has a token keeps it.
Notify ==
    /\ ppc = "notify"
    /\ todo # {}
    /\ \E w \in todo :
           /\ todo' = todo \ {w}
           /\ token' = [token EXCEPT ![w] = w \in observers \/ @]
    /\ UNCHANGED <<cursor, slot, live, ppc, observers, rpc, got, since, sent, joined>>

Rest ==
    /\ ppc = "notify"
    /\ todo = {}
    /\ ppc' = "rest"
    /\ UNCHANGED <<cursor, slot, live, todo, observers, token, rpc, got, since, sent, joined>>

Probe == Begin \/ Render \/ Publish \/ Notify \/ Rest

-----------------------------------------------------------------------------
(* the handlers                                                            *)

Goes(r, from, to) == rpc[r] = from /\ rpc' = [rpc EXCEPT ![r] = to]

\* api.go:185-188: a watcher registers its channel and waits; it is sent nothing
\* of what was published before.
Register(w) ==
    /\ Goes(w, "off", "wait")
    /\ observers' = observers \cup {w}
    /\ token' = [token EXCEPT ![w] = FALSE]
    /\ joined' = [joined EXCEPT ![w] = live]
    /\ UNCHANGED <<probeVars, got, since, sent>>

\* api.go:196
Wake(w) ==
    /\ Goes(w, "wait", "load")
    /\ token[w]
    /\ token' = [token EXCEPT ![w] = FALSE]
    /\ UNCHANGED <<probeVars, observers, got, since, sent, joined>>

\* api.go:154: a poller starts.
Poll(p) ==
    /\ Goes(p, "off", "load")
    /\ UNCHANGED <<probeVars, observers, token, got, since, sent, joined>>

\* Mutant: the number of the snapshot before is loaded.
Load_Previous(r) ==
    /\ Goes(r, "load", "write")
    /\ got' = [got EXCEPT ![r] = live - 1]
    /\ since' = [since EXCEPT ![r] = 0]
    /\ UNCHANGED <<probeVars, observers, token, sent, joined>>

\* api.go:154 and 197: the pointer is loaded.
Load(r) ==
    /\ Goes(r, "load", "write")
    /\ got' = [got EXCEPT ![r] = live]
    /\ since' = [since EXCEPT ![r] = 0]
    /\ UNCHANGED <<probeVars, observers, token, sent, joined>>

\* Mutant: a token that came in while the handler wrote is thrown away.
Written_Drains(r) ==
    /\ Goes(r, "write", IF r \in Watchers THEN "wait" ELSE "off")
    /\ sent' = [w \in Watchers |-> IF w = r THEN got[r] ELSE sent[w]]
    /\ token' = [w \in Watchers |-> token[w] /\ w # r]
    /\ UNCHANGED <<probeVars, observers, got, since, joined>>

\* api.go:160-161 and 201-204: the slot has gone out to the client.
Written(r) ==
    /\ Goes(r, "write", IF r \in Watchers THEN "wait" ELSE "off")
    /\ sent' = [w \in Watchers |-> IF w = r THEN got[r] ELSE sent[w]]
    /\ UNCHANGED <<probeVars, observers, token, got, since, joined>>

\* api.go:188-195: the client hangs up.
HangUp(w) ==
    /\ Goes(w, "wait", "off")
    /\ observers' = observers \ {w}
    /\ UNCHANGED <<probeVars, token, got, since, sent, joined>>

Watcher(w) == Wake(w) \/ Load(w) \/ Written(w)

Next ==
    \/ Probe
    \/ \E w \in Watchers : Register(w) \/ HangUp(w) \/ Watcher(w)
    \/ \E p \in Pollers : Poll(p) \/ Load(p) \/ Written(p)

\* The goroutines that can run are scheduled.
Fairness ==
    /\ WF_vars(Render \/ Publish \/ Notify \/ Rest)
    /\ \A w \in Watchers : WF_vars(Watcher(w))

Spec == Init /\ [][Next]_vars
FairSpec == Spec /\ Fairness

-----------------------------------------------------------------------------
(* Properties                                                              *)

\* Type invariant.
TypeOK ==
    /\ cursor \in Nat
    /\ slot \in [0 .. Depth - 1 -> Int]
    /\ live \in Nat
    /\ ppc \in {"rest", "render", "publish", "notify"}
    /\ todo \subseteq Watchers
    /\ observers \subseteq Watchers
    /\ token \in [Watchers -> BOOLEAN]
    /\ rpc \in [Readers -> {"off", "wait", "load", "write"}]
    /\ got \in [Readers -> Nat]
    /\ since \in [Readers -> 0 .. Depth]
    /\ sent \in [Watchers -> Nat] /\ joined \in [Watchers -> Nat]

\* A handler that is writing a snapshot reads exactly that snapshot, as long as
\* fewer than Depth - 1 snapshots were begun since it loaded the pointer.  Not
\* Depth: the snapshot after the published one may have been begun before.
SlotStable ==
    \A r \in Readers :
        rpc[r] = "write" /\ since[r] < Depth - 1 /\ got[r] # None => slot[Slot(got[r])] = got[r]

\* No wake-up is lost: when the probe rests, a watcher that waits without a token
\* has sent the snapshot that is published, or none has been published since it
\* connected.
NothingMissed ==
    ppc = "rest" =>
        \A w \in Watchers : rpc[w] = "wait" /\ ~token[w] => live \in {sent[w], joined[w]}

\* A watcher that stays is shown every snapshot that is published after it
\* connected and stays, or a later one.
WatchersCatchUp ==
    \A w \in Watchers : \A n \in 1 .. MaxSnaps :
        (live = n /\ w \in observers /\ joined[w] < n) ~> (sent[w] >= n \/ w \notin observers)

=============================================================================
