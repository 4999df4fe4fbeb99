------------------------------- MODULE Crawl -------------------------------
(***************************************************************************)
(* What a crawl promises, whatever the number of workers and whatever the  *)
(* order of their steps: it starts from the root, knows a page only        *)
(* because a page it was working on links to it, settles every page it     *)
(* knows, and stops only when there is none left to settle.                *)
(***************************************************************************)
CONSTANTS Urls, Root, Links

VARIABLES
    known,     \* the pages the crawl has come across
    settled,   \* the pages it is done with: reported, skipped or given up
    stopped    \* it has declared itself complete

vars == <<known, settled, stopped>>

Init ==
    /\ known = {Root}
    /\ settled = {}
    /\ stopped = FALSE

Discover(u, v) ==
    /\ ~stopped
    /\ u \in known \ settled
    /\ v \in Links[u]
    /\ known' = known \cup {v}
    /\ UNCHANGED <<settled, stopped>>

Settle(u) ==
    /\ ~stopped
    /\ u \in known \ settled
    /\ settled' = settled \cup {u}
    /\ UNCHANGED <<known, stopped>>

Stop ==
    /\ settled = known
    /\ stopped' = TRUE
    /\ UNCHANGED <<known, settled>>

Next ==
    \/ \E u \in Urls : Settle(u)
    \/ \E u, v \in Urls : Discover(u, v)
    \/ Stop

Spec == Init /\ [][Next]_vars
=============================================================================
