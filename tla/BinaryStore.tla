----------------------------- MODULE BinaryStore -----------------------------
(***************************************************************************)
(* What the core promises about the game installation: steamcmd rewrites   *)
(* the binaries (update.go, ExecGameUpdate) only while no game process is  *)
(* running from them, and no game process is started during a rewrite.     *)
(* It is a readers-writer discipline with the game processes as readers.   *)
(* The module is abstract; Supervisor implements it.                       *)
(***************************************************************************)
CONSTANT Shards              \* the shards whose processes use the binaries

VARIABLES
    users,                   \* shards with a live game process
    writing                  \* steamcmd is rewriting the installation

vars == <<users, writing>>

Init == users = {} /\ writing = FALSE

\* A shard process is started: never during a rewrite.
Enter(s) ==
    /\ ~writing
    /\ s \notin users
    /\ users' = users \cup {s}
    /\ UNCHANGED writing

\* A process ends.
Leave(s) ==
    /\ users' = users \ {s}
    /\ UNCHANGED writing

\* The core exits and takes its children, steamcmd included, with it.
Exit ==
    /\ users' = {}
    /\ writing' = FALSE

\* A rewrite starts only when the last process is gone.
BeginWrite ==
    /\ users = {}
    /\ ~writing
    /\ writing' = TRUE
    /\ UNCHANGED users

EndWrite ==
    /\ writing
    /\ writing' = FALSE
    /\ UNCHANGED users

Next ==
    \/ \E s \in Shards : Enter(s) \/ Leave(s)
    \/ Exit
    \/ BeginWrite
    \/ EndWrite

Spec == Init /\ [][Next]_vars
=============================================================================
