----------------------------- MODULE CodeLifecycle -----------------------------
(***************************************************************************)
(* What a stored confirmation code promises, whatever stores it.  An issue *)
(* of a code is unborn, then live, then gone, and never comes back.  A     *)
(* client is let through on an issue only if it looked at the issue while  *)
(* it was live; being let through makes the issue gone.  Several clients   *)
(* may have looked before the first of them is let through, so one issue   *)
(* may be used more than once, but at most once by each look.              *)
(***************************************************************************)
EXTENDS Naturals

CONSTANTS Clients,   \* the requests that may look at a code
          Issues     \* the issues of a code, one for each time one is sent

VARIABLES phase,     \* phase[i]: where issue i is in its life
          holders,   \* holders[i]: the clients that saw i live and have not finished
          uses       \* uses[i]: how many clients issue i has let through

vars == <<phase, holders, uses>>

Phases == {"unborn", "live", "gone"}

Init ==
    /\ phase = [i \in Issues |-> "unborn"]
    /\ holders = [i \in Issues |-> {}]
    /\ uses = [i \in Issues |-> 0]

\* The issues in S are over; S may be empty.
Retired(S) == [i \in Issues |-> IF i \in S THEN "gone" ELSE phase[i]]

Live == {i \in Issues : phase[i] = "live"}

\* A new issue becomes live; it may take the place of an older one.
Issue(i) ==
    /\ phase[i] = "unborn"
    /\ \E S \in SUBSET Live : phase' = [Retired(S) EXCEPT ![i] = "live"]
    /\ UNCHANGED <<holders, uses>>

\* A client sees a live issue.
Look(c, i) ==
    /\ phase[i] = "live"
    /\ holders' = [holders EXCEPT ![i] = @ \union {c}]
    /\ UNCHANGED <<phase, uses>>

\* A client that saw issue i live is let through: i is gone from now on, and
\* other live issues may go with it.
LetThrough(c, i) ==
    /\ c \in holders[i]
    /\ holders' = [holders EXCEPT ![i] = @ \ {c}]
    /\ uses' = [uses EXCEPT ![i] = @ + 1]
    /\ \E S \in SUBSET Live : phase' = Retired(S \union {i})

\* A client gives up; live issues may go with it.
GiveUp(c, i) ==
    /\ c \in holders[i]
    /\ holders' = [holders EXCEPT ![i] = @ \ {c}]
    /\ \E S \in SUBSET Live : phase' = Retired(S)
    /\ UNCHANGED uses

\* Issues run out of time.
Expire ==
    /\ \E S \in SUBSET Live : S # {} /\ phase' = Retired(S)
    /\ UNCHANGED <<holders, uses>>

Next ==
    \/ \E i \in Issues : Issue(i)
    \/ \E c \in Clients, i \in Issues : Look(c, i) \/ LetThrough(c, i) \/ GiveUp(c, i)
    \/ Expire

Spec == Init /\ [][Next]_vars
=============================================================================
