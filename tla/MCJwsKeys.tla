------------------------------- MODULE MCJwsKeys -------------------------------
(* JwsKeys on small instances. *)
EXTENDS JwsKeys

CONSTANTS p1, p2, user_jws, admin_jws, c1, c2, c3

\* c3 runs in another process than the others.
SplitHome(c) == IF c = c3 THEN p2 ELSE p1
\* Everyone in one process.
OneHome(c) == p1
\* Everyone uses TokenService.
OneName(c) == user_jws
\* c2 uses AdminTokenService.
SplitName(c) == IF c = c2 THEN admin_jws ELSE user_jws

(***************************************************************************)
(* docs/PROJECT_STRUCTURE.md has the service deployed with "Auto-scaling   *)
(* capabilities" behind "Load balancing": any process can be sent any      *)
(* request, so those that are running must sign and verify with one pair.  *)
(***************************************************************************)
ProcessesAgree ==
    \A c, d \in Callers : load[c] = "ready" /\ load[d] = "ready" => pair[c] = pair[d]
=============================================================================
