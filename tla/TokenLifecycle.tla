--------------------------- MODULE TokenLifecycle ---------------------------
(***************************************************************************)
(* What the store of refresh tokens and exchange codes promises: every     *)
(* credential is granted once, works until it ends, and never works again. *)
(* Any set of live credentials may end together.                           *)
(***************************************************************************)
CONSTANT Credentials

VARIABLE status     \* of each credential: "new", "live" or "dead"

LifecycleInit == status = [k \in Credentials |-> "new"]

Grant(k) ==
    /\ status[k] = "new"
    /\ status' = [status EXCEPT ![k] = "live"]

End(K) ==
    /\ \A k \in K : status[k] = "live"
    /\ status' = [k \in Credentials |-> IF k \in K THEN "dead" ELSE status[k]]

LifecycleNext ==
    \/ \E k \in Credentials : Grant(k)
    \/ \E K \in SUBSET Credentials : End(K)

LifecycleSpec == LifecycleInit /\ [][LifecycleNext]_status
=============================================================================
