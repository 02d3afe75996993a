-------------------------- MODULE SessionLifecycle --------------------------
(***************************************************************************)
(* What refresh-token families promise.  A family (one sign-in on one      *)
(* device) starts alive, is renewed any number of times, and once it has   *)
(* ended it never comes back.  A family that two requests used at once is  *)
(* exempt from then on.                                                    *)
(***************************************************************************)
CONSTANT Families

VARIABLE session

States == {"unborn", "alive", "ended", "exempt"}

LifecycleInit == session \in [Families -> {"unborn", "alive"}]

\* Started by a request that overlapped a password change: exempt at once.
Start(f) ==
    /\ session[f] = "unborn"
    /\ \E s \in {"alive", "exempt"} : session' = [session EXCEPT ![f] = s]

\* One request may end several families, every session of the user, and find
\* some of them in use by another request.
MayBecome(before, after) ==
    \/ after = before
    \/ before = "alive" /\ after = "ended"
    \/ before # "unborn" /\ after = "exempt"

End ==
    /\ session' \in [Families -> States]
    /\ \A f \in Families : MayBecome(session[f], session'[f])

LifecycleNext ==
    \/ \E f \in Families : Start(f)
    \/ End

LifecycleSpec == LifecycleInit /\ [][LifecycleNext]_session
=============================================================================
