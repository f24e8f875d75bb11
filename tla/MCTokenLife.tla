------------------------------ MODULE MCTokenLife ------------------------------
(* TokenLife on small instances. *)
EXTENDS TokenLife, TLC

CONSTANTS p1, p2, p3, u1, i1, c1

\* Of three clocks the second is ahead of the first by the tolerance, the third by more.
Offsets == p1 :> 0 @@ p2 :> 1 @@ p3 :> 2

(***************************************************************************)
(* README.md of the server: "Protected routes expect a Bearer access       *)
(* token."  So a session is opened by an access token and by no other.     *)
(***************************************************************************)
SessionsByAccessOnly ==
    \A c \in Check :
        Waiting(c, "accepted") /\ check[c].via = "session" => check[c].kind = "access"
=============================================================================
