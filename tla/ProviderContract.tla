--------------------------- MODULE ProviderContract ---------------------------
(***************************************************************************)
(* What core/provider promises to a backend, the implementation of its     *)
(* Provider interface: one Start, at most one Stop, and OnUpdate calls one *)
(* at a time after Start, each with the load balancer that was the newest  *)
(* when the call was prepared. Stop may come at any time, before Start and *)
(* during OnUpdate included, and an OnUpdate may follow it.                *)
(*                                                                         *)
(* GenericProvider implements this specification.                          *)
(***************************************************************************)
EXTENDS Naturals

VARIABLES version,   \* version of the stored load balancer
          handed,    \* version in the hands of OnUpdate, 0 when it does not run
          applied,   \* version of the last successful OnUpdate
          started,   \* Start was called
          stopped    \* Stop was called

vars == <<version, handed, applied, started, stopped>>

Init ==
    /\ version = 1
    /\ handed = 0
    /\ applied = 0
    /\ started = FALSE
    /\ stopped = FALSE

Write ==
    /\ version' = version + 1
    /\ UNCHANGED <<handed, applied, started, stopped>>

Start ==
    /\ ~started
    /\ started' = TRUE
    /\ UNCHANGED <<version, handed, applied, stopped>>

OnUpdate ==
    /\ started
    /\ handed = 0
    /\ handed' = version
    /\ UNCHANGED <<version, applied, started, stopped>>

OnUpdateReturns(ok) ==
    /\ handed # 0
    /\ handed' = 0
    /\ applied' = IF ok THEN handed ELSE applied
    /\ UNCHANGED <<version, started, stopped>>

Stop ==
    /\ ~stopped
    /\ stopped' = TRUE
    /\ UNCHANGED <<version, handed, applied, started>>

Next ==
    \/ Write
    \/ Start
    \/ OnUpdate
    \/ \E ok \in BOOLEAN : OnUpdateReturns(ok)
    \/ Stop

Spec == Init /\ [][Next]_vars

\* A backend never goes back to an older load balancer: what OnUpdate gets is at
\* least as new as what it applied before, and no newer than what is stored.
NeverOlder == applied <= version /\ (handed # 0 => applied <= handed /\ handed <= version)
=============================================================================
