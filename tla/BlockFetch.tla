----------------------------- MODULE BlockFetch -----------------------------
(***************************************************************************)
(* What a caller of Dispatch3 relies on: visit is called on the blocks of  *)
(* the DAG from the root downwards, and Dispatch3 returns nil because its  *)
(* workers ended only after every block was visited.  Nothing is said of   *)
(* peers, batches or block states; Dispatcher.tla is shown to implement    *)
(* this for one goroutine per peer and a DAG without shared blocks.        *)
(***************************************************************************)
EXTENDS Sequences

CONSTANTS Cids, RootChilds, Childs

VARIABLES visited, status

LinksOf(s) == {s[i] : i \in DOMAIN s}

\* Blocks whose links the caller has seen.
Ready == LinksOf(RootChilds) \cup UNION {LinksOf(Childs[c]) : c \in visited}

Init == visited = {} /\ status = "running"

\* The first visit of a block; visits may go on after a cancellation.
Visit(c) ==
    /\ status \in {"running", "cancelled"}
    /\ c \in Ready \ visited
    /\ visited' = visited \cup {c}
    /\ UNCHANGED status

Complete ==
    /\ status = "running"
    /\ visited = Cids
    /\ status' = "done"
    /\ UNCHANGED visited

GiveUp ==
    /\ status = "running"
    /\ status' = "cancelled"
    /\ UNCHANGED visited

Next == (\E c \in Cids : Visit(c)) \/ Complete \/ GiveUp

Spec == Init /\ [][Next]_<<visited, status>>
=============================================================================
