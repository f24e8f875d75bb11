----------------------------- MODULE AuthSessions -----------------------------
(***************************************************************************)
(* The requests of AuthController and what they do to accounts, codes and  *)
(* tokens: AuthUseCase and TwoFactorUseCase over TokenService, EmailUseCase *)
(* and UserUseCase.  A request is a sequence of awaits, and between two of *)
(* them other requests run: each action below is what happens at one await. *)
(* Everything a request knows of the database is what it read earlier.     *)
(*                                                                         *)
(* An account is known by its e-mail address, which is unique, never       *)
(* changes and identifies the user id.  Users are never deleted, so the    *)
(* checks that the user of a token still exists are left out.  Codes and   *)
(* their expiry are those of OneTimeCode, reduced to which keys Redis has: *)
(* a submitted code may match whatever is there, and any code may expire.  *)
(* A process that crashes loses its requests and nothing else, which is    *)
(* what Fail does to each of them.                                         *)
(***************************************************************************)
EXTENDS Naturals, FiniteSets

CONSTANTS
    Emails,      \* the addresses users sign up with
    Requests,    \* the requests under way at once
    Ops,         \* the operations clients ask for
    Known,       \* Known[e]: the provider of an account there is from the start,
                 \* left by a sign-up that failed before its tokens, or None
    None,
    MaxPairs     \* bound on the token pairs signed

Providers == {"local", "facebook"}
CodeTypes == {"email", "password", "twoFactor", "twoFactorEnable"}
Operations ==
    {"signUp", "login", "facebook", "refresh", "verifyEmail", "resendEmail",
     "initiateReset", "verifyReset", "completeReset", "verify2FA", "resendVerify",
     "resendEnable", "enable2FA", "confirm2FA", "disable2FA", "updateRole"}

ASSUME OpsAssumption == Ops \subseteq Operations
ASSUME KnownAssumption == Known \in [Emails -> Providers \union {None}]
ASSUME PairsAssumption == MaxPairs \in Nat
ASSUME RequestsAssumption == IsFiniteSet(Requests)

VARIABLES
    users,      \* users[e]: the row of the account, or None
    codes,      \* the <<type, e>> under which Redis holds a code
    req,        \* req[r]: what request r is doing, or None
    tok,        \* tok[n]: the claims of the n-th pair of tokens
    signed,     \* the number of pairs signed
    delivered,  \* the pairs some client has been answered with
    resets,     \* the accounts for which a client has a reset token
    sent,       \* the <<type, e>> for which a code was stored, ever
    accepted,   \* the <<type, e>> for which a code was accepted, ever
    stored,     \* the pairs whose refresh token was stored, ever
    lost        \* the pairs whose request failed before it answered

vars == <<users, codes, req, tok, signed, delivered, resets, sent, accepted, stored, lost>>
ghosts == <<sent, accepted, stored, lost>>

Pairs == 1..MaxPairs
MaybeFlag == BOOLEAN \union {None}
\* refresh is the pair whose refresh token's hash is in the row, or 0.
Row == [provider: Providers, verified: BOOLEAN, tfa: BOOLEAN, reset: BOOLEAN,
        refresh: 0..MaxPairs]
\* twoFactorEnabled is read once for each of the two tokens of a pair.
Claims == [user: Emails, ev: BOOLEAN, mfa: BOOLEAN, acc: BOOLEAN, ref: BOOLEAN]
Points == {"find", "create", "get", "del", "read", "check", "update", "code",
           "sign", "store", "reply", "guard", "again"}
Request == [op: Operations, at: Points, user: Emails, ev: BOOLEAN, mfa: BOOLEAN,
            acc: MaybeFlag, ref: MaybeFlag, pair: 0..MaxPairs, token: 0..MaxPairs]

ASSUME NoneAssumption == None \notin Row \union Claims \union Request \union BOOLEAN \union Providers

\* A mutated form of NewRow: the column has no default.
NewRowUnset(p) == [provider |-> p, verified |-> p = "facebook", tfa |-> FALSE,
                   reset |-> FALSE, refresh |-> None]

NewRow(p) == [provider |-> p, verified |-> p = "facebook", tfa |-> FALSE,
              reset |-> FALSE, refresh |-> 0]

Init ==
    /\ users = [e \in Emails |-> IF Known[e] = None THEN None ELSE NewRow(Known[e])]
    /\ codes = {}
    /\ req = [r \in Requests |-> None]
    /\ tok = [n \in Pairs |-> None]
    /\ signed = 0
    /\ delivered = {}
    /\ resets = {}
    /\ sent = {}
    /\ accepted = {}
    /\ stored = {}
    /\ lost = {}

-----------------------------------------------------------------------------
(* Requests *)

At(r, op, at) == req[r] # None /\ req[r].op = op /\ req[r].at = at
User(r) == req[r].user

Done(r) == req' = [req EXCEPT ![r] = None]
Go(r, at) == req' = [req EXCEPT ![r].at = at]
\* Go on to createTokens with these arguments.
GoSign(r, ev, mfa) == req' = [req EXCEPT ![r].at = "sign", ![r].ev = ev, ![r].mfa = mfa]

\* The operations that end in createTokens, and how many are under way.
Minting == {"signUp", "login", "facebook", "refresh", "verifyEmail", "verify2FA",
            "confirm2FA", "disable2FA", "updateRole"}
InFlight == Cardinality({q \in Requests : req[q] # None /\ req[q].op \in Minting
                                          /\ req[q].pair = 0})

Begin(r, op, e, at, n) ==
    /\ req[r] = None
    /\ op \in Ops
    /\ op \in Minting => signed + InFlight < MaxPairs
    /\ req' = [req EXCEPT ![r] =
            [op |-> op, at |-> at, user |-> e, ev |-> FALSE, mfa |-> FALSE,
             acc |-> None, ref |-> None, pair |-> 0, token |-> n]]
    /\ UNCHANGED <<users, codes, tok, signed, delivered, resets, ghosts>>

\* RouterPermissionsGuard: a token is presented, of either kind.  Except on
\* the routes that verify a second factor, a token that says there is one
\* must say that it was passed.
Guarded(r, op, at, verifies) ==
    \E n \in delivered : \E enabled \in {tok[n].acc, tok[n].ref} :
        /\ verifies \/ ~enabled \/ tok[n].mfa
        /\ Begin(r, op, tok[n].user, at, n)

Start(r) ==
    \/ \E e \in Emails :
        \/ \E op \in {"signUp", "login", "facebook", "initiateReset"} : Begin(r, op, e, "find", 0)
        \/ Begin(r, "verifyReset", e, "get", 0)
    \/ \E e \in resets : Begin(r, "completeReset", e, "update", 0)
    \/ \E n \in delivered : Begin(r, "refresh", tok[n].user, "guard", n)
    \/ Guarded(r, "verifyEmail", "get", FALSE)
    \/ Guarded(r, "resendEmail", "read", FALSE)
    \/ Guarded(r, "verify2FA", "get", TRUE)
    \/ Guarded(r, "resendVerify", "code", TRUE)
    \/ Guarded(r, "resendEnable", "code", FALSE)
    \/ Guarded(r, "enable2FA", "read", FALSE)
    \/ Guarded(r, "confirm2FA", "read", FALSE)
    \/ Guarded(r, "disable2FA", "read", FALSE)
    \/ Guarded(r, "updateRole", "update", FALSE)

\* An await throws, or the process dies: the request is over without an
\* answer.  What its last write did stays done.
Fail(r) ==
    /\ req[r] # None
    /\ Done(r)
    /\ lost' = lost \union ({req[r].pair} \ {0})
    /\ UNCHANGED <<users, codes, tok, signed, delivered, resets, sent, accepted, stored>>

\* A mutated form of Reply: the answer to a verified address leaves the new
\* tokens out.
ReplyPartly(r) ==
    /\ req[r] # None
    /\ req[r].at = "reply"
    /\ Done(r)
    /\ delivered' = IF req[r].op = "verifyEmail" THEN delivered
                    ELSE delivered \union ({req[r].pair} \ {0})
    /\ resets' = IF req[r].op = "verifyReset" THEN resets \union {User(r)} ELSE resets
    /\ UNCHANGED <<users, codes, tok, signed, ghosts>>

\* The answer reaches the client.
Reply(r) ==
    /\ req[r] # None
    /\ req[r].at = "reply"
    /\ Done(r)
    /\ delivered' = delivered \union ({req[r].pair} \ {0})
    /\ resets' = IF req[r].op = "verifyReset" THEN resets \union {User(r)} ELSE resets
    /\ UNCHANGED <<users, codes, tok, signed, ghosts>>

-----------------------------------------------------------------------------
(* What operations share *)

\* A mutated form of CodeOf: enabling takes the codes of logging in.
CodeOfShared(r) ==
    CASE req[r].op \in {"signUp", "resendEmail", "verifyEmail"} -> "email"
      [] req[r].op \in {"initiateReset", "verifyReset"} -> "password"
      [] OTHER -> "twoFactor"

\* Redis holds at most one code of a type for an account.
CodeOf(r) ==
    CASE req[r].op \in {"signUp", "resendEmail", "verifyEmail"} -> "email"
      [] req[r].op \in {"initiateReset", "verifyReset"} -> "password"
      [] req[r].op \in {"login", "verify2FA", "resendVerify"} -> "twoFactor"
      [] OTHER -> "twoFactorEnable"

\* A code is drawn, stored and mailed.
SaveCode(r) ==
    /\ req[r] # None
    /\ req[r].at = "code"
    /\ codes' = codes \union {<<CodeOf(r), User(r)>>}
    /\ sent' = sent \union {<<CodeOf(r), User(r)>>}
    /\ Go(r, IF req[r].op = "login" THEN "sign" ELSE "reply")
    /\ UNCHANGED <<users, tok, signed, delivered, resets, accepted, stored, lost>>

\* A mutated form of GetCode: an absent code matches an absent one.
GetAnything(r) ==
    /\ req[r] # None
    /\ req[r].at = "get"
    /\ Go(r, "del")
    /\ UNCHANGED <<users, codes, tok, signed, delivered, resets, ghosts>>

\* The GET of a verification answers, and the code is the submitted one or not.
GetCode(r) ==
    /\ req[r] # None
    /\ req[r].at = "get"
    /\ \/ <<CodeOf(r), User(r)>> \in codes /\ Go(r, "del")
       \/ Done(r)
    /\ UNCHANGED <<users, codes, tok, signed, delivered, resets, ghosts>>

AfterDel(op) ==
    CASE op \in {"verifyEmail", "verify2FA"} -> "read"
      [] op = "confirm2FA" -> "update"
      [] op = "verifyReset" -> "reply"

\* The DEL is acknowledged and the verification is true.
DelCode(r) ==
    /\ req[r] # None
    /\ req[r].at = "del"
    /\ codes' = codes \ {<<CodeOf(r), User(r)>>}
    /\ accepted' = accepted \union {<<CodeOf(r), User(r)>>}
    /\ Go(r, AfterDel(req[r].op))
    /\ UNCHANGED <<users, tok, signed, delivered, resets, sent, stored, lost>>

\* createToken reads the user, concurrently for the access and the refresh
\* token.
ReadForToken(r) ==
    /\ req[r] # None
    /\ req[r].at = "sign"
    /\ \/ req[r].acc = None /\ req' = [req EXCEPT ![r].acc = users[User(r)].tfa]
       \/ req[r].ref = None /\ req' = [req EXCEPT ![r].ref = users[User(r)].tfa]
    /\ UNCHANGED <<users, codes, tok, signed, delivered, resets, ghosts>>

\* Both tokens are signed; the refresh token is being hashed.
Sign(r) ==
    /\ req[r] # None
    /\ req[r].at = "sign"
    /\ req[r].acc # None /\ req[r].ref # None
    /\ signed < MaxPairs
    /\ signed' = signed + 1
    /\ tok' = [tok EXCEPT ![signed + 1] =
            [user |-> User(r), ev |-> req[r].ev, mfa |-> req[r].mfa,
             acc |-> req[r].acc, ref |-> req[r].ref]]
    /\ req' = [req EXCEPT ![r].at = "store", ![r].pair = signed + 1]
    /\ UNCHANGED <<users, codes, delivered, resets, ghosts>>

\* A mutated form of StoreRefresh: the row keeps the hash of the token that
\* was presented.
StorePresented(r) ==
    /\ req[r] # None
    /\ req[r].at = "store"
    /\ LET n == IF req[r].op = "refresh" THEN req[r].token ELSE req[r].pair IN
        /\ users' = [users EXCEPT ![User(r)].refresh = n]
        /\ stored' = stored \union {n}
    /\ Go(r, IF req[r].op = "signUp" THEN "code" ELSE "reply")
    /\ UNCHANGED <<codes, tok, signed, delivered, resets, sent, accepted, lost>>

\* updateRefreshToken replaces the hash in the row.
StoreRefresh(r) ==
    /\ req[r] # None
    /\ req[r].at = "store"
    /\ users' = [users EXCEPT ![User(r)].refresh = req[r].pair]
    /\ stored' = stored \union {req[r].pair}
    /\ Go(r, IF req[r].op = "signUp" THEN "code" ELSE "reply")
    /\ UNCHANGED <<codes, tok, signed, delivered, resets, sent, accepted, lost>>

-----------------------------------------------------------------------------
(* Creating accounts and logging in *)

\* signUp looks for an account; a lookup that throws counts as none found.
SignUpFind(r) ==
    /\ At(r, "signUp", "find")
    /\ \/ Go(r, "create")
       \/ users[User(r)] # None /\ Done(r)
    /\ UNCHANGED <<users, codes, tok, signed, delivered, resets, ghosts>>

\* facebookAuth, once Facebook has told the address: an account of its own is
\* let in, another one is turned away, and none (or a lookup that throws)
\* leads to a new one.
FacebookFind(r) ==
    /\ At(r, "facebook", "find")
    /\ \/ Go(r, "create")
       \/ /\ users[User(r)] # None
          /\ \/ users[User(r)].provider = "facebook" /\ GoSign(r, TRUE, FALSE)
             \/ users[User(r)].provider # "facebook" /\ Done(r)
    /\ UNCHANGED <<users, codes, tok, signed, delivered, resets, ghosts>>

ProviderOf(op) == IF op = "facebook" THEN "facebook" ELSE "local"

\* A mutated form of Create: create-or-replace.
CreateOver(r) ==
    /\ req[r] # None
    /\ req[r].at = "create"
    /\ users' = [users EXCEPT ![User(r)] = NewRow(ProviderOf(req[r].op))]
    /\ GoSign(r, req[r].op = "facebook", FALSE)
    /\ UNCHANGED <<codes, tok, signed, delivered, resets, ghosts>>

\* The row is inserted, unless by now there is one with that address.
Create(r) ==
    /\ req[r] # None
    /\ req[r].at = "create"
    /\ \/ /\ users[User(r)] = None
          /\ users' = [users EXCEPT ![User(r)] = NewRow(ProviderOf(req[r].op))]
          /\ GoSign(r, req[r].op = "facebook", FALSE)
       \/ users[User(r)] # None /\ Done(r) /\ UNCHANGED users
    /\ UNCHANGED <<codes, tok, signed, delivered, resets, ghosts>>

\* validateUser: there is an account and the password is right, or not.
LoginFind(r) ==
    /\ At(r, "login", "find")
    /\ \/ /\ users[User(r)] # None
          /\ req' = [req EXCEPT ![r].at = IF users[User(r)].tfa THEN "code" ELSE "sign",
                                ![r].ev = users[User(r)].verified]
       \/ Done(r)
    /\ UNCHANGED <<users, codes, tok, signed, delivered, resets, ghosts>>

-----------------------------------------------------------------------------
(* Refreshing tokens *)

\* A mutated form of Validate: a token that is not the stored one is waited
\* for.
ValidateWaiting(r) ==
    /\ At(r, "refresh", "guard") \/ At(r, "refresh", "again")
    /\ users[User(r)].refresh = req[r].token
    /\ IF req[r].at = "guard" THEN Go(r, "again")
       ELSE GoSign(r, tok[req[r].token].ev,
                   tok[req[r].token].ref /\ tok[req[r].token].mfa)
    /\ UNCHANGED <<users, codes, tok, signed, delivered, resets, ghosts>>

\* A mutated form of Validate: the new pair counts as passed.
ValidateTrusting(r) ==
    /\ At(r, "refresh", "guard") \/ At(r, "refresh", "again")
    /\ \/ /\ users[User(r)].refresh = req[r].token
          /\ IF req[r].at = "guard" THEN Go(r, "again")
             ELSE GoSign(r, tok[req[r].token].ev, TRUE)
       \/ users[User(r)].refresh # req[r].token /\ Done(r)
    /\ UNCHANGED <<users, codes, tok, signed, delivered, resets, ghosts>>

\* The stored hash is compared with the token presented: first by
\* RefreshTokenGuard, then by refreshTokens, which takes over the claims.
Validate(r) ==
    /\ At(r, "refresh", "guard") \/ At(r, "refresh", "again")
    /\ \/ /\ users[User(r)].refresh = req[r].token
          /\ IF req[r].at = "guard" THEN Go(r, "again")
             ELSE GoSign(r, tok[req[r].token].ev,
                         tok[req[r].token].ref /\ tok[req[r].token].mfa)
       \/ users[User(r)].refresh # req[r].token /\ Done(r)
    /\ UNCHANGED <<users, codes, tok, signed, delivered, resets, ghosts>>

-----------------------------------------------------------------------------
(* E-mail addresses *)

\* The account is read after the code was used up.
EmailRead(r) ==
    /\ At(r, "verifyEmail", "read")
    /\ IF users[User(r)].verified THEN Done(r) ELSE Go(r, "update")
    /\ UNCHANGED <<users, codes, tok, signed, delivered, resets, ghosts>>

\* A mutated form of EmailUpdate: the tokens are signed, the row is not updated.
EmailUpdateSkipped(r) ==
    /\ At(r, "verifyEmail", "update")
    /\ GoSign(r, TRUE, FALSE)
    /\ UNCHANGED <<users, codes, tok, signed, delivered, resets, ghosts>>

EmailUpdate(r) ==
    /\ At(r, "verifyEmail", "update")
    /\ users' = [users EXCEPT ![User(r)].verified = TRUE]
    /\ GoSign(r, TRUE, FALSE)
    /\ UNCHANGED <<codes, tok, signed, delivered, resets, ghosts>>

\* resendVerificationCode, for an account that still needs one.
ResendRead(r) ==
    /\ At(r, "resendEmail", "read")
    /\ IF users[User(r)].verified THEN Done(r) ELSE Go(r, "code")
    /\ UNCHANGED <<users, codes, tok, signed, delivered, resets, ghosts>>

-----------------------------------------------------------------------------
(* Passwords *)

\* A mutated form of ResetFind: any account is sent a code.
ResetFindAny(r) ==
    /\ At(r, "initiateReset", "find")
    /\ IF users[User(r)] # None THEN Go(r, "code") ELSE Done(r)
    /\ UNCHANGED <<users, codes, tok, signed, delivered, resets, ghosts>>

\* initiatePasswordReset: only an account with a password of its own.
ResetFind(r) ==
    /\ At(r, "initiateReset", "find")
    /\ IF users[User(r)] # None /\ users[User(r)].provider # "facebook"
       THEN Go(r, "code") ELSE Done(r)
    /\ UNCHANGED <<users, codes, tok, signed, delivered, resets, ghosts>>

\* completePasswordReset replaces the password; the reset token stays good.
PasswordUpdate(r) ==
    /\ At(r, "completeReset", "update")
    /\ users' = [users EXCEPT ![User(r)].reset = TRUE]
    /\ Go(r, "reply")
    /\ UNCHANGED <<codes, tok, signed, delivered, resets, ghosts>>

-----------------------------------------------------------------------------
(* The second factor *)

\* verifyTwoFactor reads the user whose code was right.
VerifyRead(r) ==
    /\ At(r, "verify2FA", "read")
    /\ GoSign(r, users[User(r)].verified, TRUE)
    /\ UNCHANGED <<users, codes, tok, signed, delivered, resets, ghosts>>

\* initiateEnable
EnableRead(r) ==
    /\ At(r, "enable2FA", "read")
    /\ IF users[User(r)].provider = "facebook" \/ users[User(r)].tfa
       THEN Done(r) ELSE Go(r, "code")
    /\ UNCHANGED <<users, codes, tok, signed, delivered, resets, ghosts>>

\* confirmTwoFactor reads the claims-to-be before it looks at the code.
ConfirmRead(r) ==
    /\ At(r, "confirm2FA", "read")
    /\ req' = [req EXCEPT ![r].at = "get", ![r].ev = users[User(r)].verified]
    /\ UNCHANGED <<users, codes, tok, signed, delivered, resets, ghosts>>

ConfirmUpdate(r) ==
    /\ At(r, "confirm2FA", "update")
    /\ users' = [users EXCEPT ![User(r)].tfa = TRUE]
    /\ GoSign(r, req[r].ev, TRUE)
    /\ UNCHANGED <<codes, tok, signed, delivered, resets, ghosts>>

\* disableTwoFactor reads the user, then reads it again with its password.
DisableRead(r) ==
    /\ At(r, "disable2FA", "read")
    /\ req' = [req EXCEPT ![r].at = "check", ![r].ev = users[User(r)].verified]
    /\ UNCHANGED <<users, codes, tok, signed, delivered, resets, ghosts>>

DisableCheck(r) ==
    /\ At(r, "disable2FA", "check")
    /\ Go(r, "update") \/ Done(r)
    /\ UNCHANGED <<users, codes, tok, signed, delivered, resets, ghosts>>

DisableUpdate(r) ==
    /\ At(r, "disable2FA", "update")
    /\ users' = [users EXCEPT ![User(r)].tfa = FALSE]
    /\ GoSign(r, req[r].ev, FALSE)
    /\ UNCHANGED <<codes, tok, signed, delivered, resets, ghosts>>

\* updateUserRole: the new role is not tracked here; the tokens say that the
\* second factor was passed whenever the account has one.
RoleUpdate(r) ==
    /\ At(r, "updateRole", "update")
    /\ GoSign(r, users[User(r)].verified, users[User(r)].tfa)
    /\ UNCHANGED <<users, codes, tok, signed, delivered, resets, ghosts>>

-----------------------------------------------------------------------------
\* Redis drops a code whose time is up.
Expire ==
    /\ \E k \in codes : codes' = codes \ {k}
    /\ UNCHANGED <<users, req, tok, signed, delivered, resets, ghosts>>

Step(r) ==
    \/ SaveCode(r) \/ GetCode(r) \/ DelCode(r)
    \/ ReadForToken(r) \/ Sign(r) \/ StoreRefresh(r) \/ Reply(r)
    \/ SignUpFind(r) \/ FacebookFind(r) \/ Create(r) \/ LoginFind(r) \/ Validate(r)
    \/ EmailRead(r) \/ EmailUpdate(r) \/ ResendRead(r) \/ ResetFind(r) \/ PasswordUpdate(r)
    \/ VerifyRead(r) \/ EnableRead(r) \/ ConfirmRead(r) \/ ConfirmUpdate(r)
    \/ DisableRead(r) \/ DisableCheck(r) \/ DisableUpdate(r) \/ RoleUpdate(r)

Next ==
    \/ \E r \in Requests : Start(r) \/ Step(r) \/ Fail(r)
    \/ Expire

Spec == Init /\ [][Next]_vars

\* The event loop runs every request whose await has settled; the database
\* and Redis settle every call.
FairSpec == Spec /\ \A r \in Requests : WF_vars(Step(r))

-----------------------------------------------------------------------------
TypeOK ==
    /\ users \in [Emails -> Row \union {None}]
    /\ codes \subseteq CodeTypes \X Emails
    /\ req \in [Requests -> Request \union {None}]
    /\ tok \in [Pairs -> Claims \union {None}]
    /\ signed \in 0..MaxPairs
    /\ delivered \subseteq Pairs /\ stored \subseteq Pairs /\ lost \subseteq Pairs
    /\ resets \subseteq Emails
    /\ sent \subseteq CodeTypes \X Emails
    /\ accepted \subseteq CodeTypes \X Emails

(***************************************************************************)
(* Refreshing goes forward only: a refresh token that another one has      *)
(* replaced in the row is never stored there again, whichever of the       *)
(* requests that overlap stores last.                                      *)
(***************************************************************************)
NeverRestored ==
    [][\A e \in Emails : users[e] # None /\ users'[e].refresh # users[e].refresh =>
            users'[e].refresh \notin stored]_vars

(***************************************************************************)
(* The refresh token an account accepts is one of its own, and somebody    *)
(* holds it: a client was answered with it, or a request is about to       *)
(* answer with it, or else that request failed after it had stored it.     *)
(***************************************************************************)
LiveRefreshHeld ==
    \A e \in Emails : users[e] # None /\ users[e].refresh # 0 =>
        /\ tok[users[e].refresh].user = e
        /\ \/ users[e].refresh \in delivered \union lost
           \/ \E r \in Requests : req[r] # None /\ req[r].pair = users[e].refresh

(***************************************************************************)
(* An account of Facebook keeps the password nobody knows: neither a reset *)
(* code nor a reset token is ever made for it.                             *)
(***************************************************************************)
FacebookKeepsPassword ==
    \A e \in Emails : users[e] # None /\ users[e].provider = "facebook" =>
        ~users[e].reset /\ e \notin resets /\ <<"password", e>> \notin codes

(***************************************************************************)
(* two-factor.use-case.ts refuses to start enabling the second factor for  *)
(* an account of Facebook, "2FA is not available for Facebook users": no   *)
(* such account has one.                                                   *)
(***************************************************************************)
FacebookWithoutFactor ==
    \A e \in Emails : users[e] # None /\ users[e].provider = "facebook" => ~users[e].tfa

(***************************************************************************)
(* Whatever the others do meanwhile, every request is answered or fails.   *)
(***************************************************************************)
RequestsEnd == \A r \in Requests : req[r] # None ~> req[r] = None

\* What AccountContract sees: rows without their refresh token, and the
\* claims of both tokens of the pairs signed so far.
accountMap ==
    [e \in Emails |-> IF users[e] = None THEN None
                      ELSE [provider |-> users[e].provider, verified |-> users[e].verified,
                            tfa |-> users[e].tfa, reset |-> users[e].reset]]
grantedMap == {tok[n] : n \in 1..signed}

Contract == INSTANCE AccountContract WITH
    account <- accountMap, permits <- accepted, granted <- grantedMap

ASSUME AccountAssumption == None \notin Contract!Account

(***************************************************************************)
(* The requests together keep the promise of AccountContract.              *)
(***************************************************************************)
ContractSpec == Contract!Spec

(***************************************************************************)
(* What the tokens of a pair claim of an account is true of it: that its   *)
(* address is verified, that a second factor was passed, and, in either    *)
(* token by itself, that there is one; although the claims were read       *)
(* before other requests changed the account, or were taken over from an   *)
(* older token.  What they do not claim may have come about since.         *)
(***************************************************************************)
ClaimsTrue == Contract!ClaimsTrue

(***************************************************************************)
(* A verified address, a second factor and a new password each go back to  *)
(* a code that was accepted for that purpose and that account.             *)
(***************************************************************************)
Backed == Contract!Backed
=============================================================================
