---------------------------- MODULE MCRealtimeHub ----------------------------
(* Small instances of RealtimeHub: which session sits on which pod and belongs *)
(* to which tenant, and the tenant and NATS subject of each channel.           *)
EXTENDS RealtimeHub, TLC

CONSTANTS p1, p2, c1, c2, a1, b1, b2, tA, tB, sA, sB

\* Two sessions of tenant A on one pod, and a channel of each tenant.
OnePodOf == c1 :> p1 @@ c2 :> p1
SameTenant == c1 :> tA @@ c2 :> tA
ChannelTenants == a1 :> tA @@ b1 :> tB
ChannelSubjects == a1 :> sA @@ b1 :> sB

\* A session on one of two pods. One channel of the other tenant has the subject
\* of the session's own channel, the other has not.
OnePodOfOne == c1 :> p1
OneTenant == c1 :> tA
SharedTenants == a1 :> tA @@ b1 :> tB @@ b2 :> tB
SharedSubjects == a1 :> sA @@ b1 :> sA @@ b2 :> sB

SessionSymmetry == Permutations({c1, c2})
=============================================================================
