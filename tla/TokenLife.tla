------------------------------- MODULE TokenLife -------------------------------
(***************************************************************************)
(* How long the tokens of TokenService and AdminTokenService live.  A      *)
(* token is made in one process and shown to another, whose clock may run  *)
(* ahead or behind; iat is read before the user is looked up and exp after *)
(* it; a verification reads the clock twice, once in jose.jwtVerify and    *)
(* once in validateTokenClaims, with one or two queries between, and only  *)
(* the second reading is tolerant of clock skew.  Time passes at every     *)
(* await.                                                                  *)
(*                                                                         *)
(* time is the true time, which no process sees.  begun, signed, checked   *)
(* and decided are true times, kept for the properties only.               *)
(***************************************************************************)
EXTENDS Integers

CONSTANTS
    Process,     \* server processes
    Offset,      \* Offset[p]: how far the clock of p is ahead of the true time
    User,
    Issue,       \* the calls that create tokens, each used once
    Check,       \* the requests whose token is verified, one each
    Tolerance,   \* clockSkewTolerance
    AccessLife,  \* '1d'
    RefreshLife, \* '7d'
    ResetLife,   \* 900 seconds
    MaxAge,      \* maxTokenAge
    MaxTime,     \* bound on the true time
    None

\* What durationMap knows.
Durations == {AccessLife, RefreshLife}

ASSUME OffsetAssumption == Offset \in [Process -> Int]
ASSUME LifeAssumption ==
    /\ {Tolerance, AccessLife, RefreshLife, ResetLife, MaxAge, MaxTime} \subseteq Nat
    /\ ResetLife <= AccessLife /\ AccessLife < RefreshLife /\ RefreshLife <= MaxAge

VARIABLES
    time,
    users,   \* the users that have a row
    held,    \* held[u]: the pair whose refresh token's hash is in the row of u, or None
    call,    \* call[i]: what call i creates, where and for whom, and how far it is
    token,   \* token[i][k]: the token of kind k that call i makes
    check    \* check[c]: the verification of request c

vars == <<time, users, held, call, token, check>>

Pair == {"access", "refresh"}
Kinds == Pair \union {"reset", "admin"}
Vias == {"session", "refresh", "reset", "admin"}
TimeFaults == {"expired", "future", "age"}

Call == [makes: SUBSET Kinds, by: Process, sub: User,
         phase: {"open", "done", "failed"}]
Token == [stage: {"asked", "reading", "signed"}, life: Int, iat: Int, exp: Int,
          begun: Nat, signed: Nat]
Verification == [phase: {"held", "user", "accepted", "refused"},
                 why: SUBSET (TimeFaults \union {"key", "claims", "superseded", "user"}),
                 by: Process, via: Vias, issue: Issue, kind: Kinds,
                 checked: Nat, decided: Nat]

ASSUME NoneAssumption == None \notin (Issue \X Kinds) \union Call \union Verification

Clock(p) == time + Offset[p]

Blank(life) == [stage |-> "asked", life |-> life, iat |-> 0, exp |-> 0,
                begun |-> 0, signed |-> 0]

Init ==
    /\ time = 0
    /\ users = User
    /\ held = [u \in User |-> None]
    /\ call = [i \in Issue |-> None]
    /\ token = [i \in Issue |-> [k \in Kinds |-> Blank(0)]]
    /\ check = [c \in Check |-> None]

-----------------------------------------------------------------------------
(* Creating tokens *)

Open(i, p, u, kinds) ==
    /\ call[i] = None
    /\ call' = [call EXCEPT ![i] = [makes |-> kinds, by |-> p, sub |-> u, phase |-> "open"]]

\* createTokens starts the two createToken calls of Promise.all.
StartPair(i, p, u) ==
    /\ Open(i, p, u, Pair)
    /\ token' = [token EXCEPT ![i]["access"] = Blank(AccessLife),
                              ![i]["refresh"] = Blank(RefreshLife)]
    /\ UNCHANGED <<time, users, held, check>>

\* AdminTokenService.createToken, with either duration its map knows.
StartAdmin(i, p, u, life) ==
    /\ Open(i, p, u, {"admin"})
    /\ token' = [token EXCEPT ![i]["admin"] = Blank(life)]
    /\ UNCHANGED <<time, users, held, check>>

\* createPasswordResetToken reads the clock once.
CreateReset(i, p, u) ==
    /\ call[i] = None
    /\ call' = [call EXCEPT ![i] = [makes |-> {"reset"}, by |-> p, sub |-> u, phase |-> "done"]]
    /\ token' = [token EXCEPT ![i]["reset"] =
          [stage |-> "signed", life |-> ResetLife, iat |-> Clock(p),
           exp |-> Clock(p) + ResetLife, begun |-> time, signed |-> time]]
    /\ UNCHANGED <<time, users, held, check>>

Busy(i, k, stage) ==
    /\ call[i] # None
    /\ call[i].phase = "open"
    /\ k \in call[i].makes
    /\ token[i][k].stage = stage

\* The keys are there: createToken reads the clock and looks the user up.
ReadIat(i, k) ==
    /\ Busy(i, k, "asked")
    /\ token' = [token EXCEPT ![i][k] =
          [@ EXCEPT !.stage = "reading", !.iat = Clock(call[i].by), !.begun = time]]
    /\ UNCHANGED <<time, users, held, call, check>>

\* A mutated form of calculateExpirationTime: the sum with a duration that is missing.
NaNExpirationTime(now, life) == None

calculateExpirationTime(now, life) == now + life

\* The lookup is back; createToken reads the clock again for exp and signs.
\* An administrator is not required to exist.
Sign(i, k) ==
    /\ Busy(i, k, "reading")
    /\ k \in Pair => call[i].sub \in users
    /\ token' = [token EXCEPT ![i][k] =
          [@ EXCEPT !.stage = "signed", !.signed = time,
                    !.exp = calculateExpirationTime(Clock(call[i].by), token[i][k].life)]]
    /\ call' = IF k = "admin" THEN [call EXCEPT ![i].phase = "done"] ELSE call
    /\ UNCHANGED <<time, users, held, check>>

\* findById or the update of the row fails as the user is gone: createTokens throws.
IssueFails(i) ==
    /\ call[i] # None /\ call[i].phase = "open"
    /\ call[i].makes = Pair
    /\ call[i].sub \notin users
    /\ \/ \E k \in Pair : token[i][k].stage = "reading"
       \/ \A k \in Pair : token[i][k].stage = "signed"
    /\ call' = [call EXCEPT ![i].phase = "failed"]
    /\ UNCHANGED <<time, users, held, token, check>>

\* Both are signed: the hash of the refresh token is stored, the pair handed out.
StoreRefresh(i) ==
    /\ call[i] # None /\ call[i].phase = "open"
    /\ call[i].makes = Pair
    /\ \A k \in Pair : token[i][k].stage = "signed"
    /\ call[i].sub \in users
    /\ held' = [held EXCEPT ![call[i].sub] = <<i, "refresh">>]
    /\ call' = [call EXCEPT ![i].phase = "done"]
    /\ UNCHANGED <<time, users, token, check>>

-----------------------------------------------------------------------------
(* Verifying tokens *)

\* AdminTokenPayloadSchema, all of it required.
AdminTokenPayload == {"sub", "email", "role", "iat", "exp", "jti", "tokenVersion"}

\* The names of the claims in a payload, as far as a check asks for them.
Claims(kind) ==
    CASE kind \in Pair   -> {"sub", "email", "iat", "exp", "jti", "tokenVersion"}
      [] kind = "reset"  -> {"email", "type", "iat", "exp", "jti"}
      [] kind = "admin"  -> AdminTokenPayload

\* A mutated form of Required: reset tokens without their type.
RequiredUntyped(via) ==
    CASE via \in {"session", "refresh"} -> {"sub", "email", "iat", "exp", "jti"}
      [] via = "reset"                  -> {"email", "jti"}
      [] via = "admin"                  -> AdminTokenPayload

\* The claims without which TokenPayloadSchema, verifyPasswordResetToken and
\* AdminTokenPayloadSchema refuse a payload.
Required(via) ==
    CASE via \in {"session", "refresh"} -> {"sub", "email", "iat", "exp", "jti"}
      [] via = "reset"                  -> {"email", "type", "jti"}
      [] via = "admin"                  -> AdminTokenPayload

\* The name of the key pair a token is signed with, and verified with.
KeyOf(kind) == IF kind = "admin" THEN "admin_jws" ELSE "user_jws"

\* What jose.jwtVerify finds wrong: the key pair, and exp without any tolerance.
jwtFaults(t, kind, via, now) ==
    {f \in {"key", "expired"} :
        \/ f = "key" /\ KeyOf(kind) # KeyOf(via)
        \/ f = "expired" /\ t.exp <= now}

SchemaFaults(kind, via) == IF Required(via) \subseteq Claims(kind) THEN {} ELSE {"claims"}

\* Mutated forms of claimFaults: exp is left to jose; iat has no tolerance.
claimFaultsNoExp(t, now) ==
    {f \in {"future", "age"} :
        \/ f = "future" /\ t.iat > now + Tolerance
        \/ f = "age" /\ now - t.iat > MaxAge}
claimFaultsStrict(t, now) ==
    {f \in TimeFaults :
        \/ f = "expired" /\ t.exp <= now - Tolerance
        \/ f = "future" /\ t.iat > now
        \/ f = "age" /\ now - t.iat > MaxAge}

\* What validateTokenClaims throws for; all of it ends in one UnauthorizedException.
claimFaults(t, now) ==
    {f \in TimeFaults :
        \/ f = "expired" /\ t.exp <= now - Tolerance
        \/ f = "future" /\ t.iat > now + Tolerance
        \/ f = "age" /\ now - t.iat > MaxAge}

\* The copy of validateTokenClaims in AdminTokenService; the role it asks for besides
\* is a matter of the schema already.
adminClaimFaults(t, now) == claimFaults(t, now)

\* All that is checked before the first query; for an administrator's token, which
\* needs none, the claims too.
FirstFaults(t, kind, via, now) ==
    jwtFaults(t, kind, via, now) \union SchemaFaults(kind, via)
    \union (IF via = "admin" THEN adminClaimFaults(t, now) ELSE {})

\* What follows a token without a fault.
Following == [session |-> "user", refresh |-> "held", reset |-> "accepted", admin |-> "accepted"]

\* A token of a finished call is shown to process p, which has the key pair.
Present(c, p, via, i, k) ==
    LET faults == FirstFaults(token[i][k], k, via, Clock(p)) IN
    /\ check[c] = None
    /\ call[i] # None /\ call[i].phase = "done" /\ k \in call[i].makes
    /\ check' = [check EXCEPT ![c] =
          [phase |-> IF faults # {} THEN "refused" ELSE Following[via],
           why |-> faults, by |-> p, via |-> via, issue |-> i, kind |-> k,
           checked |-> time, decided |-> time]]
    /\ UNCHANGED <<time, users, held, call, token>>

Decide(c, phase, why) ==
    check' = [check EXCEPT ![c] = [@ EXCEPT !.phase = phase, !.why = why, !.decided = time]]

Waiting(c, phase) == check[c] # None /\ check[c].phase = phase

\* validateRefreshToken: the row's hash must be the hash of this token.
validateRefreshToken(c) ==
    LET i == check[c].issue
        u == call[i].sub
    IN
    /\ Waiting(c, "held")
    /\ IF u \in users /\ held[u] = <<i, check[c].kind>>
       THEN Decide(c, "user", {}) ELSE Decide(c, "refused", {"superseded"})
    /\ UNCHANGED <<time, users, held, call, token>>

\* The user is looked up; then the claims are checked against the clock of now.
LookUpUser(c) ==
    LET i == check[c].issue
        faults == IF call[i].sub \in users
                  THEN claimFaults(token[i][check[c].kind], Clock(check[c].by)) ELSE {"user"}
    IN
    /\ Waiting(c, "user")
    /\ Decide(c, IF faults = {} THEN "accepted" ELSE "refused", faults)
    /\ UNCHANGED <<time, users, held, call, token>>

-----------------------------------------------------------------------------
(* The environment *)

Tick ==
    /\ time < MaxTime
    /\ time' = time + 1
    /\ UNCHANGED <<users, held, call, token, check>>

\* A row is removed; no code under src/ does so, verifyToken allows for it.
RemoveUser(u) ==
    /\ u \in users
    /\ users' = users \ {u}
    /\ held' = [held EXCEPT ![u] = None]
    /\ UNCHANGED <<time, call, token, check>>

Next ==
    \/ \E i \in Issue, p \in Process, u \in User :
          \/ StartPair(i, p, u)
          \/ \E life \in Durations : StartAdmin(i, p, u, life)
          \/ CreateReset(i, p, u)
    \/ \E i \in Issue :
          \/ \E k \in Kinds : ReadIat(i, k) \/ Sign(i, k)
          \/ IssueFails(i)
          \/ StoreRefresh(i)
    \/ \E c \in Check :
          \/ \E p \in Process, via \in Vias, i \in Issue, k \in Kinds : Present(c, p, via, i, k)
          \/ validateRefreshToken(c)
          \/ LookUpUser(c)
    \/ Tick
    \/ \E u \in User : RemoveUser(u)

Spec == Init /\ [][Next]_vars

-----------------------------------------------------------------------------
(* Properties *)

TypeOK ==
    /\ time \in 0..MaxTime
    /\ users \subseteq User
    /\ held \in [User -> (Issue \X {"refresh"}) \union {None}]
    /\ call \in [Issue -> Call \union {None}]
    /\ token \in [Issue -> [Kinds -> Token]]
    /\ check \in [Check -> Verification \union {None}]

Shown(c) == token[check[c].issue][check[c].kind]

\* How far the clock of the process that made the token of c is ahead of the clock
\* of the process that verifies it.
Ahead(c) == Offset[call[check[c].issue].by] - Offset[check[c].by]

(***************************************************************************)
(* An accepted token was, up to the difference of the two clocks, alive in *)
(* true time: the library saw it before the end of its life, counted from  *)
(* the signature, the answer came at most the tolerance after that end,    *)
(* however slow the queries between were, and a user's or administrator's  *)
(* token was at most the maximum age old, counted from before the user     *)
(* lookup that preceded its signature (token.service.ts 151, 226, 245).    *)
(***************************************************************************)
LifeBounded ==
    \A c \in Check : Waiting(c, "accepted") =>
        LET t == Shown(c) IN
        /\ check[c].checked < t.signed + t.life + Ahead(c)
        /\ check[c].decided < t.signed + t.life + Ahead(c) + Tolerance
        /\ check[c].via # "reset" => check[c].decided <= t.begun + MaxAge + Ahead(c)

(***************************************************************************)
(* What a refusal on account of time tells of a token.  Issued in the      *)
(* future: the maker's clock is ahead of the verifier's by more than       *)
(* clockSkewTolerance.  Too old: more than maxTokenAge has passed since    *)
(* its creation began, up to the difference of the clocks.  Expired: its   *)
(* life, counted from the signature, is over, less all that the verifier's *)
(* clock is ahead, for jose compares exp without a tolerance before        *)
(* validateTokenClaims can grant it: where the verifier's clock is ahead,  *)
(* by a minute or less too, tokens are refused that much before their end. *)
(***************************************************************************)
RefusedRightly ==
    \A c \in Check : Waiting(c, "refused") =>
        LET t == Shown(c) IN
        /\ "expired" \in check[c].why => check[c].decided >= t.signed + t.life + Ahead(c)
        /\ "future" \in check[c].why => Ahead(c) > Tolerance
        /\ "age" \in check[c].why => check[c].decided > t.begun + MaxAge + Ahead(c)

(***************************************************************************)
(* What the key pair, the claims and the stored hash keep apart: a         *)
(* password reset token opens no session and a user's token resets no      *)
(* password, an administrator's token is no user's and the other way       *)
(* round, and only the refresh token of a pair refreshes.  Where a session *)
(* is asked for, the refresh token passes as the access token does         *)
(* (SessionsByAccessOnly in MCTokenLife is violated).                      *)
(***************************************************************************)
KindsApart ==
    \A c \in Check : Waiting(c, "accepted") =>
        IF check[c].via = "session" THEN check[c].kind \in Pair
        ELSE check[c].kind = check[c].via
=============================================================================
