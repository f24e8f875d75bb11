-------------------------- MODULE AuthSessions_proofs --------------------------
(***************************************************************************)
(* Proofs about AuthSessions, for any numbers of accounts, requests and    *)
(* tokens, and any operations.                                             *)
(***************************************************************************)
EXTENDS AuthSessions, TLAPS

\* A second factor has been passed for account e, at some time.
Passed(e) == <<"twoFactor", e>> \in accepted \/ <<"twoFactorEnable", e>> \in accepted

\* What a row says goes back to an accepted code, and the refresh token it
\* takes is one that was signed for it.
RowsOK ==
    \A e \in Emails : users[e] # None =>
        /\ users[e].provider = "facebook" => users[e].verified
        /\ users[e].verified => users[e].provider = "facebook" \/ <<"email", e>> \in accepted
        /\ users[e].tfa => <<"twoFactorEnable", e>> \in accepted
        /\ users[e].reset => <<"password", e>> \in accepted
        /\ users[e].refresh # 0 => users[e].refresh <= signed /\ tok[users[e].refresh].user = e

\* Codes are sent for accounts, and for resets only to those with a password.
CodesOK ==
    /\ codes \subseteq sent
    /\ accepted \subseteq sent
    /\ \A t \in CodeTypes, e \in Emails : <<t, e>> \in sent =>
            users[e] # None /\ (t = "password" => users[e].provider = "local")
    /\ \A e \in resets : <<"password", e>> \in accepted

\* The claims of signed tokens are true.
TokensOK ==
    /\ \A n \in 1..signed :
        /\ tok[n] \in Claims
        /\ users[tok[n].user] # None
        /\ tok[n].ev => users[tok[n].user].verified
        /\ tok[n].mfa => Passed(tok[n].user)
        /\ tok[n].acc \/ tok[n].ref => <<"twoFactorEnable", tok[n].user>> \in accepted
    /\ delivered \subseteq 1..signed
    /\ stored \subseteq 1..signed

\* Which operations stop at which points.
Route(r) ==
    /\ req[r].at = "find" => req[r].op \in {"signUp", "login", "facebook", "initiateReset"}
    /\ req[r].at = "create" => req[r].op \in {"signUp", "facebook"}
    /\ req[r].at \in {"get", "del"} =>
            req[r].op \in {"verifyEmail", "verify2FA", "confirm2FA", "verifyReset"}
    /\ req[r].at \in {"guard", "again"} => req[r].op = "refresh"
    /\ req[r].at \in {"sign", "store"} => req[r].op \in Minting
    /\ req[r].at = "code" =>
            req[r].op \in {"signUp", "login", "resendEmail", "initiateReset", "resendVerify",
                           "resendEnable", "enable2FA"}
    /\ req[r].pair # 0 <=> \/ req[r].at = "store"
                           \/ req[r].at = "reply" /\ req[r].op \in Minting
                           \/ req[r].at = "code" /\ req[r].op = "signUp"

\* What a request has found out about its account is still so.
Knows(r) ==
    /\ req[r].at \notin {"find", "create"} /\ (req[r].op = "verifyReset" => req[r].at # "get")
            => users[User(r)] # None
    /\ req[r].at = "code" /\ req[r].op = "initiateReset" => users[User(r)].provider = "local"
    /\ req[r].ev => users[User(r)] # None /\ users[User(r)].verified
    /\ req[r].op = "refresh" => req[r].token \in 1..signed /\ tok[req[r].token].user = User(r)
    /\ req[r].pair # 0 => req[r].pair <= signed /\ tok[req[r].pair].user = User(r)

\* A request that is past its code has had it accepted.
Permitted(r) ==
    /\ req[r].at = "del" => <<CodeOf(r), User(r)>> \in sent
    /\ req[r].mfa => Passed(User(r))
    /\ req[r].acc = TRUE \/ req[r].ref = TRUE => <<"twoFactorEnable", User(r)>> \in accepted
    /\ req[r].at \in {"read", "update"} /\ req[r].op = "verifyEmail"
            => <<"email", User(r)>> \in accepted
    /\ req[r].at = "read" /\ req[r].op = "verify2FA" => <<"twoFactor", User(r)>> \in accepted
    /\ req[r].at = "update" /\ req[r].op = "confirm2FA"
            => <<"twoFactorEnable", User(r)>> \in accepted
    /\ req[r].at = "update" /\ req[r].op = "completeReset"
            => <<"password", User(r)>> \in accepted
    /\ req[r].at = "reply" /\ req[r].op = "verifyReset"
            => <<"password", User(r)>> \in accepted

RequestOK(r) == req[r] # None => Route(r) /\ Knows(r) /\ Permitted(r)

IInv == TypeOK /\ RowsOK /\ CodesOK /\ TokensOK /\ \A r \in Requests : RequestOK(r)

-----------------------------------------------------------------------------
(* Types *)

\* Only request r changes, and to x.
Becomes(r, x) ==
    /\ req' \in [Requests -> Request \union {None}]
    /\ req'[r] = x
    /\ \A q \in Requests : q # r => req'[q] = req[q]

\* Request r stays what it is.
Keeps(r) ==
    /\ req'[r].op = req[r].op
    /\ req'[r].user = req[r].user
    /\ req'[r].pair = req[r].pair
    /\ req'[r].token = req[r].token
    /\ req'[r].acc = req[r].acc
    /\ req'[r].ref = req[r].ref

LEMMA BecomesOK ==
    ASSUME TypeOK, NEW r \in Requests, NEW x \in Request \union {None},
           req' = [req EXCEPT ![r] = x]
    PROVE  Becomes(r, x)
  BY DEF TypeOK, Becomes

LEMMA DoneOK ==
    ASSUME TypeOK, NEW r \in Requests, Done(r)
    PROVE  Becomes(r, None)
  BY BecomesOK DEF Done

LEMMA GoOK ==
    ASSUME TypeOK, NEW r \in Requests, req[r] # None, NEW at \in Points, Go(r, at)
    PROVE  /\ Becomes(r, [req[r] EXCEPT !.at = at])
           /\ req'[r] \in Request
           /\ req'[r].at = at
           /\ Keeps(r) /\ req'[r].ev = req[r].ev /\ req'[r].mfa = req[r].mfa
<1>1. req[r] \in Request
  BY DEF TypeOK
<1>2. [req[r] EXCEPT !.at = at] \in Request
  BY <1>1 DEF Request
<1>3. req' = [req EXCEPT ![r] = [req[r] EXCEPT !.at = at]]
  BY DEF Go, TypeOK
<1>4. Becomes(r, [req[r] EXCEPT !.at = at])
  BY <1>2, <1>3, BecomesOK
<1>5. req'[r] = [req[r] EXCEPT !.at = at]
  BY <1>4 DEF Becomes
<1> QED BY <1>1, <1>2, <1>4, <1>5 DEF Request, Keeps

LEMMA GoSignOK ==
    ASSUME TypeOK, NEW r \in Requests, req[r] # None,
           NEW ev \in BOOLEAN, NEW mfa \in BOOLEAN, GoSign(r, ev, mfa)
    PROVE  /\ Becomes(r, [req[r] EXCEPT !.at = "sign", !.ev = ev, !.mfa = mfa])
           /\ req'[r] \in Request
           /\ req'[r].at = "sign"
           /\ Keeps(r) /\ req'[r].ev = ev /\ req'[r].mfa = mfa
<1> DEFINE x == [req[r] EXCEPT !.at = "sign", !.ev = ev, !.mfa = mfa]
<1>1. req[r] \in Request /\ "sign" \in Points
  BY DEF TypeOK, Points
<1>2. x \in Request
  BY <1>1 DEF Request
<1>3. req' = [req EXCEPT ![r] = x]
  BY DEF GoSign, TypeOK
<1>4. Becomes(r, x)
  BY <1>2, <1>3, BecomesOK
<1>5. req'[r] = x
  BY <1>4 DEF Becomes
<1> QED BY <1>1, <1>2, <1>4, <1>5 DEF Request, Keeps

\* The account of a request is one of the accounts.
LEMMA UserTyped ==
    ASSUME TypeOK, NEW r \in Requests, req[r] # None
    PROVE  req[r] \in Request /\ User(r) \in Emails /\ CodeOf(r) \in CodeTypes
<1>1. req[r] \in Request
  BY DEF TypeOK
<1>2. User(r) \in Emails
  BY <1>1 DEF Request, User
<1>3. CodeOf(r) \in CodeTypes
  BY DEF CodeOf, CodeTypes
<1> QED BY <1>1, <1>2, <1>3

-----------------------------------------------------------------------------
(* What all steps have in common *)

\* Nothing that a request may rely on is ever taken back.
Forward ==
    /\ \A e \in Emails : users[e] # None =>
        /\ users'[e] # None
        /\ users'[e].provider = users[e].provider
        /\ users[e].verified => users'[e].verified
    /\ sent \subseteq sent'
    /\ accepted \subseteq accepted'
    /\ signed <= signed'
    /\ \A n \in 1..signed : tok'[n] = tok[n]

(***************************************************************************)
(* So what is true of a request stays so while it waits.                   *)
(***************************************************************************)
LEMMA Waiting ==
    ASSUME IInv, TypeOK', Forward, NEW q \in Requests, req'[q] = req[q]
    PROVE  RequestOK(q)'
<1> SUFFICES ASSUME req[q] # None PROVE RequestOK(q)'
  BY DEF RequestOK
<1>0. req[q] \in Request /\ User(q) \in Emails /\ CodeOf(q) \in CodeTypes
  BY UserTyped DEF IInv
<1>1. Route(q) /\ Knows(q) /\ Permitted(q)
  BY DEF IInv, RequestOK
<1>2. User(q)' = User(q) /\ CodeOf(q)' = CodeOf(q)
  BY DEF User, CodeOf
<1>3. Route(q)'
  BY <1>1 DEF Route
<1>4. signed \in Nat /\ signed' \in Nat
  BY PairsAssumption DEF IInv, TypeOK
<1>5. Knows(q)'
  <2>0. req[q].token \in Nat /\ req[q].pair \in Nat
    BY <1>0, PairsAssumption DEF Request
  <2>1. req[q].pair # 0 => req[q].pair \in 1..signed
    BY <1>1, <1>4, <2>0 DEF Knows
  <2> QED BY <1>0, <1>1, <1>2, <1>4, <2>0, <2>1 DEF Knows, Forward
<1>6. Permitted(q)'
  BY <1>0, <1>1, <1>2 DEF Permitted, Passed, Forward
<1> QED BY <1>3, <1>5, <1>6 DEF RequestOK

(***************************************************************************)
(* A step that only moves request r on preserves the invariant if what r   *)
(* goes on with is right.                                                  *)
(***************************************************************************)
LEMMA Quiet ==
    ASSUME IInv, NEW r \in Requests, NEW x \in Request \union {None}, Becomes(r, x),
           UNCHANGED <<users, codes, tok, signed, delivered, resets, sent, accepted, stored>>,
           lost' \subseteq Pairs,
           RequestOK(r)'
    PROVE  IInv'
<1>1. TypeOK'
  BY DEF IInv, TypeOK, Becomes
<1>2. Forward
  BY PairsAssumption DEF IInv, TypeOK, Forward
<1>3. ASSUME NEW q \in Requests PROVE RequestOK(q)'
  BY <1>1, <1>2, Waiting DEF Becomes
<1>4. RowsOK' /\ CodesOK' /\ TokensOK'
  BY DEF IInv, RowsOK, CodesOK, TokensOK, Passed
<1> QED BY <1>1, <1>3, <1>4 DEF IInv

\* In particular if it is over.
LEMMA QuietDone ==
    ASSUME IInv, NEW r \in Requests, Done(r),
           UNCHANGED <<users, codes, tok, signed, delivered, resets, sent, accepted, stored>>,
           lost' \subseteq Pairs
    PROVE  IInv'
<1>1. Becomes(r, None)
  BY DoneOK DEF IInv
<1>2. RequestOK(r)'
  BY <1>1 DEF Becomes, RequestOK
<1> QED BY <1>1, <1>2, Quiet

\* Or if it goes on as it is.
LEMMA QuietGo ==
    ASSUME IInv, NEW r \in Requests, req[r] # None, NEW at \in Points, Go(r, at),
           UNCHANGED <<users, codes, tok, signed, delivered, resets, sent, accepted, stored>>,
           lost' \subseteq Pairs,
           RequestOK(r)'
    PROVE  IInv'
<1>1. Becomes(r, [req[r] EXCEPT !.at = at]) /\ [req[r] EXCEPT !.at = at] \in Request
  BY GoOK DEF IInv, Becomes
<1> QED BY <1>1, Quiet

\* Or if it goes on to createTokens.
LEMMA QuietSign ==
    ASSUME IInv, NEW r \in Requests, req[r] # None,
           NEW ev \in BOOLEAN, NEW mfa \in BOOLEAN, GoSign(r, ev, mfa),
           UNCHANGED <<users, codes, tok, signed, delivered, resets, sent, accepted, stored>>,
           lost' \subseteq Pairs,
           req[r].op \in Minting, req[r].pair = 0,
           users[User(r)] # None,
           ev => users[User(r)].verified,
           mfa => Passed(User(r))
    PROVE  IInv'
<1> DEFINE x == [req[r] EXCEPT !.at = "sign", !.ev = ev, !.mfa = mfa]
<1>1. /\ Becomes(r, x)
      /\ req'[r] \in Request /\ req'[r].at = "sign"
      /\ Keeps(r) /\ req'[r].ev = ev /\ req'[r].mfa = mfa
  BY GoSignOK DEF IInv
<1>2. x \in Request
  BY <1>1 DEF Becomes
<1>3. RequestOK(r)
  BY DEF IInv
<1>4. User(r)' = User(r) /\ CodeOf(r)' = CodeOf(r)
  BY <1>1 DEF Keeps, User, CodeOf
<1>5. RequestOK(r)'
  <2>1. Route(r)'
    BY <1>1 DEF Route, Keeps
  <2>2. Knows(r)'
    BY <1>1, <1>3, <1>4 DEF RequestOK, Knows, Keeps
  <2>3. Permitted(r)'
    BY <1>1, <1>3, <1>4 DEF RequestOK, Permitted, Passed, Keeps
  <2> QED BY <2>1, <2>2, <2>3 DEF RequestOK
<1> QED BY <1>1, <1>2, <1>5, Quiet

-----------------------------------------------------------------------------
(* One lemma for each action *)

LEMMA GetCodeStep ==
    ASSUME IInv, NEW r \in Requests, GetCode(r)
    PROVE  IInv'
<1>1. req[r] # None /\ req[r].at = "get" /\ RequestOK(r)
  BY DEF GetCode, IInv
<1>2. CASE Done(r)
  BY <1>2, QuietDone DEF GetCode, ghosts, IInv, TypeOK
<1>3. CASE Go(r, "del") /\ <<CodeOf(r), User(r)>> \in codes
  <2>1. "del" \in Points
    BY DEF Points
  <2>2. /\ req'[r].at = "del"
        /\ Keeps(r) /\ req'[r].ev = req[r].ev /\ req'[r].mfa = req[r].mfa
    BY <1>1, <1>3, <2>1, GoOK DEF IInv
  <2>3. User(r)' = User(r) /\ CodeOf(r)' = CodeOf(r)
    BY <2>2 DEF Keeps, User, CodeOf
  <2>4. <<CodeOf(r), User(r)>> \in sent
    BY <1>3 DEF IInv, CodesOK
  <2>5. users[User(r)] # None
    BY <1>1, <2>4, UserTyped DEF IInv, CodesOK
  <2>6. RequestOK(r)'
    BY <1>1, <2>2, <2>3, <2>4, <2>5
    DEF GetCode, ghosts, RequestOK, Route, Knows, Permitted, Passed, Keeps
  <2> QED BY <1>1, <1>3, <2>1, <2>6, QuietGo DEF GetCode, ghosts, IInv, TypeOK
<1> QED BY <1>2, <1>3 DEF GetCode

LEMMA ReadForTokenStep ==
    ASSUME IInv, NEW r \in Requests, ReadForToken(r)
    PROVE  IInv'
<1>1. req[r] # None /\ req[r].at = "sign" /\ RequestOK(r)
  BY DEF ReadForToken, IInv
<1>2. req[r] \in Request /\ User(r) \in Emails
  BY <1>1, UserTyped DEF IInv
<1>3. users[User(r)] # None
  BY <1>1 DEF RequestOK, Knows
<1>4. users[User(r)].tfa \in BOOLEAN
  BY <1>2, <1>3 DEF IInv, TypeOK, Row
<1>5. users[User(r)].tfa => <<"twoFactorEnable", User(r)>> \in accepted
  BY <1>2, <1>3 DEF IInv, RowsOK
<1>6. ASSUME NEW x \in Request, req' = [req EXCEPT ![r] = x],
             x.op = req[r].op, x.at = req[r].at, x.user = req[r].user, x.ev = req[r].ev,
             x.mfa = req[r].mfa, x.pair = req[r].pair, x.token = req[r].token,
             x.acc = TRUE \/ x.ref = TRUE => <<"twoFactorEnable", User(r)>> \in accepted
      PROVE  IInv'
  <2>1. Becomes(r, x)
    BY <1>6, BecomesOK DEF IInv
  <2>2. User(r)' = User(r) /\ CodeOf(r)' = CodeOf(r)
    BY <1>6, <2>1 DEF Becomes, User, CodeOf
  <2>3. RequestOK(r)'
    BY <1>1, <1>6, <2>1, <2>2
    DEF ReadForToken, ghosts, Becomes, RequestOK, Route, Knows, Permitted, Passed
  <2> QED BY <1>6, <2>1, <2>3, Quiet DEF ReadForToken, ghosts, IInv, TypeOK
<1>7. req[r].acc = TRUE \/ req[r].ref = TRUE => <<"twoFactorEnable", User(r)>> \in accepted
  BY <1>1 DEF RequestOK, Permitted
<1>8. CASE req' = [req EXCEPT ![r].acc = users[User(r)].tfa]
  <2> DEFINE x == [req[r] EXCEPT !.acc = users[User(r)].tfa]
  <2>1. x \in Request
    BY <1>2, <1>4 DEF Request, MaybeFlag
  <2>2. req' = [req EXCEPT ![r] = x]
    BY <1>8 DEF IInv, TypeOK
  <2>3. /\ x.op = req[r].op /\ x.at = req[r].at /\ x.user = req[r].user /\ x.ev = req[r].ev
        /\ x.mfa = req[r].mfa /\ x.pair = req[r].pair /\ x.token = req[r].token
        /\ x.acc = users[User(r)].tfa /\ x.ref = req[r].ref
    BY <1>2 DEF Request
  <2>4. x.acc = TRUE \/ x.ref = TRUE => <<"twoFactorEnable", User(r)>> \in accepted
    BY <1>5, <1>7, <2>3
  <2> HIDE DEF x
  <2> QED BY <1>6, <2>1, <2>2, <2>3, <2>4
<1>9. CASE req' = [req EXCEPT ![r].ref = users[User(r)].tfa]
  <2> DEFINE x == [req[r] EXCEPT !.ref = users[User(r)].tfa]
  <2>1. x \in Request
    BY <1>2, <1>4 DEF Request, MaybeFlag
  <2>2. req' = [req EXCEPT ![r] = x]
    BY <1>9 DEF IInv, TypeOK
  <2>3. /\ x.op = req[r].op /\ x.at = req[r].at /\ x.user = req[r].user /\ x.ev = req[r].ev
        /\ x.mfa = req[r].mfa /\ x.pair = req[r].pair /\ x.token = req[r].token
        /\ x.acc = req[r].acc /\ x.ref = users[User(r)].tfa
    BY <1>2 DEF Request
  <2>4. x.acc = TRUE \/ x.ref = TRUE => <<"twoFactorEnable", User(r)>> \in accepted
    BY <1>5, <1>7, <2>3
  <2> HIDE DEF x
  <2> QED BY <1>6, <2>1, <2>2, <2>3, <2>4
<1> QED BY <1>8, <1>9 DEF ReadForToken

LEMMA SignUpFindStep ==
    ASSUME IInv, NEW r \in Requests, SignUpFind(r)
    PROVE  IInv'
<1>1. req[r] # None /\ RequestOK(r)
  BY DEF SignUpFind, At, IInv
<1>2. CASE Done(r)
  BY <1>2, QuietDone DEF SignUpFind, ghosts, IInv, TypeOK
<1>3. CASE Go(r, "create") /\ ~Done(r)
  <2>1. "create" \in Points
    BY DEF Points
  <2>2. /\ req'[r].at = "create"
        /\ Keeps(r) /\ req'[r].ev = req[r].ev /\ req'[r].mfa = req[r].mfa
    BY <1>1, <1>3, <2>1, GoOK DEF IInv
  <2>3. User(r)' = User(r) /\ CodeOf(r)' = CodeOf(r)
    BY <2>2 DEF Keeps, User, CodeOf
  <2>4. RequestOK(r)'
    BY <1>1, <1>3, <2>2, <2>3, UserTyped
    DEF SignUpFind, At, ghosts, RequestOK, Route, Knows, Permitted, Passed, Keeps, Minting
  <2> QED BY <1>1, <1>3, <2>1, <2>4, QuietGo DEF SignUpFind, ghosts, IInv, TypeOK
<1> QED BY <1>2, <1>3 DEF SignUpFind

LEMMA EmailReadStep ==
    ASSUME IInv, NEW r \in Requests, EmailRead(r)
    PROVE  IInv'
<1>1. req[r] # None /\ RequestOK(r)
  BY DEF EmailRead, At, IInv
<1>2. CASE Done(r)
  BY <1>2, QuietDone DEF EmailRead, ghosts, IInv, TypeOK
<1>3. CASE Go(r, "update") /\ ~Done(r)
  <2>1. "update" \in Points
    BY DEF Points
  <2>2. /\ req'[r].at = "update"
        /\ Keeps(r) /\ req'[r].ev = req[r].ev /\ req'[r].mfa = req[r].mfa
    BY <1>1, <1>3, <2>1, GoOK DEF IInv
  <2>3. User(r)' = User(r) /\ CodeOf(r)' = CodeOf(r)
    BY <2>2 DEF Keeps, User, CodeOf
  <2>4. RequestOK(r)'
    BY <1>1, <1>3, <2>2, <2>3, UserTyped
    DEF EmailRead, At, ghosts, RequestOK, Route, Knows, Permitted, Passed, Keeps, Minting
  <2> QED BY <1>1, <1>3, <2>1, <2>4, QuietGo DEF EmailRead, ghosts, IInv, TypeOK
<1> QED BY <1>2, <1>3 DEF EmailRead

LEMMA ResendReadStep ==
    ASSUME IInv, NEW r \in Requests, ResendRead(r)
    PROVE  IInv'
<1>1. req[r] # None /\ RequestOK(r)
  BY DEF ResendRead, At, IInv
<1>2. CASE Done(r)
  BY <1>2, QuietDone DEF ResendRead, ghosts, IInv, TypeOK
<1>3. CASE Go(r, "code") /\ ~Done(r)
  <2>1. "code" \in Points
    BY DEF Points
  <2>2. /\ req'[r].at = "code"
        /\ Keeps(r) /\ req'[r].ev = req[r].ev /\ req'[r].mfa = req[r].mfa
    BY <1>1, <1>3, <2>1, GoOK DEF IInv
  <2>3. User(r)' = User(r) /\ CodeOf(r)' = CodeOf(r)
    BY <2>2 DEF Keeps, User, CodeOf
  <2>4. RequestOK(r)'
    BY <1>1, <1>3, <2>2, <2>3, UserTyped
    DEF ResendRead, At, ghosts, RequestOK, Route, Knows, Permitted, Passed, Keeps, Minting
  <2> QED BY <1>1, <1>3, <2>1, <2>4, QuietGo DEF ResendRead, ghosts, IInv, TypeOK
<1> QED BY <1>2, <1>3 DEF ResendRead

LEMMA ResetFindStep ==
    ASSUME IInv, NEW r \in Requests, ResetFind(r)
    PROVE  IInv'
<1>1. req[r] # None /\ RequestOK(r)
  BY DEF ResetFind, At, IInv
<1>2. CASE Done(r)
  BY <1>2, QuietDone DEF ResetFind, ghosts, IInv, TypeOK
<1>3. CASE Go(r, "code") /\ ~Done(r)
  <2>1. "code" \in Points
    BY DEF Points
  <2>2. /\ req'[r].at = "code"
        /\ Keeps(r) /\ req'[r].ev = req[r].ev /\ req'[r].mfa = req[r].mfa
    BY <1>1, <1>3, <2>1, GoOK DEF IInv
  <2>3. User(r)' = User(r) /\ CodeOf(r)' = CodeOf(r)
    BY <2>2 DEF Keeps, User, CodeOf
  <2>4. RequestOK(r)'
    BY <1>1, <1>3, <2>2, <2>3, UserTyped
    DEF ResetFind, At, ghosts, RequestOK, Route, Knows, Permitted, Passed, Keeps, Minting, Providers, IInv, TypeOK, Row
  <2> QED BY <1>1, <1>3, <2>1, <2>4, QuietGo DEF ResetFind, ghosts, IInv, TypeOK
<1> QED BY <1>2, <1>3 DEF ResetFind

LEMMA EnableReadStep ==
    ASSUME IInv, NEW r \in Requests, EnableRead(r)
    PROVE  IInv'
<1>1. req[r] # None /\ RequestOK(r)
  BY DEF EnableRead, At, IInv
<1>2. CASE Done(r)
  BY <1>2, QuietDone DEF EnableRead, ghosts, IInv, TypeOK
<1>3. CASE Go(r, "code") /\ ~Done(r)
  <2>1. "code" \in Points
    BY DEF Points
  <2>2. /\ req'[r].at = "code"
        /\ Keeps(r) /\ req'[r].ev = req[r].ev /\ req'[r].mfa = req[r].mfa
    BY <1>1, <1>3, <2>1, GoOK DEF IInv
  <2>3. User(r)' = User(r) /\ CodeOf(r)' = CodeOf(r)
    BY <2>2 DEF Keeps, User, CodeOf
  <2>4. RequestOK(r)'
    BY <1>1, <1>3, <2>2, <2>3, UserTyped
    DEF EnableRead, At, ghosts, RequestOK, Route, Knows, Permitted, Passed, Keeps, Minting
  <2> QED BY <1>1, <1>3, <2>1, <2>4, QuietGo DEF EnableRead, ghosts, IInv, TypeOK
<1> QED BY <1>2, <1>3 DEF EnableRead

LEMMA DisableCheckStep ==
    ASSUME IInv, NEW r \in Requests, DisableCheck(r)
    PROVE  IInv'
<1>1. req[r] # None /\ RequestOK(r)
  BY DEF DisableCheck, At, IInv
<1>2. CASE Done(r)
  BY <1>2, QuietDone DEF DisableCheck, ghosts, IInv, TypeOK
<1>3. CASE Go(r, "update") /\ ~Done(r)
  <2>1. "update" \in Points
    BY DEF Points
  <2>2. /\ req'[r].at = "update"
        /\ Keeps(r) /\ req'[r].ev = req[r].ev /\ req'[r].mfa = req[r].mfa
    BY <1>1, <1>3, <2>1, GoOK DEF IInv
  <2>3. User(r)' = User(r) /\ CodeOf(r)' = CodeOf(r)
    BY <2>2 DEF Keeps, User, CodeOf
  <2>4. RequestOK(r)'
    BY <1>1, <1>3, <2>2, <2>3, UserTyped
    DEF DisableCheck, At, ghosts, RequestOK, Route, Knows, Permitted, Passed, Keeps, Minting
  <2> QED BY <1>1, <1>3, <2>1, <2>4, QuietGo DEF DisableCheck, ghosts, IInv, TypeOK
<1> QED BY <1>2, <1>3 DEF DisableCheck

LEMMA FacebookFindStep ==
    ASSUME IInv, NEW r \in Requests, FacebookFind(r)
    PROVE  IInv'
<1>1. req[r] # None /\ req[r].op = "facebook" /\ req[r].at = "find" /\ RequestOK(r)
  BY DEF FacebookFind, At, IInv
<1>2. User(r) \in Emails
  BY <1>1, UserTyped DEF IInv
<1>3. CASE Done(r)
  BY <1>3, QuietDone DEF FacebookFind, ghosts, IInv, TypeOK
<1>4. CASE Go(r, "create")
  <2>1. "create" \in Points
    BY DEF Points
  <2>2. /\ req'[r].at = "create"
        /\ Keeps(r) /\ req'[r].ev = req[r].ev /\ req'[r].mfa = req[r].mfa
    BY <1>1, <1>4, <2>1, GoOK DEF IInv
  <2>3. User(r)' = User(r) /\ CodeOf(r)' = CodeOf(r)
    BY <2>2 DEF Keeps, User, CodeOf
  <2>4. RequestOK(r)'
    BY <1>1, <2>2, <2>3
    DEF FacebookFind, ghosts, RequestOK, Route, Knows, Permitted, Passed, Keeps
  <2> QED BY <1>1, <1>4, <2>1, <2>4, QuietGo DEF FacebookFind, ghosts, IInv, TypeOK
<1>5. CASE /\ users[User(r)] # None /\ users[User(r)].provider = "facebook"
           /\ GoSign(r, TRUE, FALSE)
  <2>1. users[User(r)].verified
    BY <1>2, <1>5 DEF IInv, RowsOK
  <2>2. req[r].op \in Minting /\ req[r].pair = 0
    BY <1>1 DEF RequestOK, Route, Minting
  <2> QED BY <1>1, <1>5, <2>1, <2>2, QuietSign DEF FacebookFind, ghosts, IInv, TypeOK
<1> QED BY <1>3, <1>4, <1>5 DEF FacebookFind

LEMMA LoginFindStep ==
    ASSUME IInv, NEW r \in Requests, LoginFind(r)
    PROVE  IInv'
<1>1. req[r] # None /\ req[r].op = "login" /\ req[r].at = "find" /\ RequestOK(r)
  BY DEF LoginFind, At, IInv
<1>2. req[r] \in Request /\ User(r) \in Emails
  BY <1>1, UserTyped DEF IInv
<1>3. CASE Done(r)
  BY <1>3, QuietDone DEF LoginFind, ghosts, IInv, TypeOK
<1>4. CASE users[User(r)] # None /\ ~Done(r)
  <2> DEFINE at == IF users[User(r)].tfa THEN "code" ELSE "sign"
             x == [req[r] EXCEPT !.at = at, !.ev = users[User(r)].verified]
  <2>1. at \in Points /\ users[User(r)].verified \in BOOLEAN
    BY <1>2, <1>4 DEF Points, IInv, TypeOK, Row
  <2>2. x \in Request
    BY <1>2, <2>1 DEF Request
  <2>3. req' = [req EXCEPT ![r] = x]
    BY <1>4 DEF LoginFind, IInv, TypeOK
  <2>4. Becomes(r, x)
    BY <2>2, <2>3, BecomesOK DEF IInv
  <2>5. /\ Keeps(r) /\ req'[r].mfa = req[r].mfa
        /\ req'[r].at \in {"code", "sign"} /\ req'[r].ev = users[User(r)].verified
    BY <1>2, <2>1, <2>4 DEF Becomes, Request, Keeps
  <2>6. User(r)' = User(r) /\ CodeOf(r)' = CodeOf(r)
    BY <2>5 DEF Keeps, User, CodeOf
  <2>7. RequestOK(r)'
    BY <1>1, <1>4, <2>5, <2>6
    DEF LoginFind, ghosts, RequestOK, Route, Knows, Permitted, Passed, Keeps, Minting
  <2> QED BY <2>2, <2>4, <2>7, Quiet DEF LoginFind, ghosts, IInv, TypeOK
<1> QED BY <1>3, <1>4 DEF LoginFind

LEMMA ValidateStep ==
    ASSUME IInv, NEW r \in Requests, Validate(r)
    PROVE  IInv'
<1>1. req[r] # None /\ req[r].op = "refresh" /\ RequestOK(r)
  BY DEF Validate, At, IInv
<1>2. req[r].at \in {"guard", "again"} /\ req[r].op \in Minting /\ req[r].pair = 0
  BY <1>1 DEF Validate, At, Minting, RequestOK, Route
<1>3. CASE Done(r)
  BY <1>3, QuietDone DEF Validate, ghosts, IInv, TypeOK
<1>4. CASE Go(r, "again")
  <2>1. "again" \in Points
    BY DEF Points
  <2>2. /\ req'[r].at = "again"
        /\ Keeps(r) /\ req'[r].ev = req[r].ev /\ req'[r].mfa = req[r].mfa
    BY <1>1, <1>4, <2>1, GoOK DEF IInv
  <2>3. User(r)' = User(r) /\ CodeOf(r)' = CodeOf(r)
    BY <2>2 DEF Keeps, User, CodeOf
  <2>4. RequestOK(r)'
    BY <1>1, <1>2, <2>2, <2>3
    DEF Validate, ghosts, RequestOK, Route, Knows, Permitted, Passed, Keeps, Minting
  <2> QED BY <1>1, <1>4, <2>1, <2>4, QuietGo DEF Validate, ghosts, IInv, TypeOK
<1>5. CASE GoSign(r, tok[req[r].token].ev, tok[req[r].token].ref /\ tok[req[r].token].mfa)
  <2> DEFINE t == tok[req[r].token]
  <2>1. req[r].token \in 1..signed /\ t.user = User(r)
    BY <1>1 DEF RequestOK, Knows
  <2>2. t \in Claims /\ users[t.user] # None /\ (t.ev => users[t.user].verified)
        /\ (t.mfa => Passed(t.user))
    BY <2>1 DEF IInv, TokensOK
  <2>3. t.ev \in BOOLEAN /\ t.ref \in BOOLEAN /\ t.mfa \in BOOLEAN
    BY <2>2 DEF Claims
  <2>4. (t.ref /\ t.mfa) \in BOOLEAN
    BY <2>3
  <2> HIDE DEF t
  <2>5. GoSign(r, t.ev, t.ref /\ t.mfa)
    BY <1>5 DEF t
  <2> QED BY <1>1, <1>2, <2>1, <2>2, <2>3, <2>4, <2>5, QuietSign
          DEF Validate, ghosts, IInv, TypeOK
<1> QED BY <1>3, <1>4, <1>5 DEF Validate

LEMMA VerifyReadStep ==
    ASSUME IInv, NEW r \in Requests, VerifyRead(r)
    PROVE  IInv'
<1>1. /\ req[r] # None /\ req[r].op = "verify2FA" /\ req[r].at = "read" /\ RequestOK(r)
      /\ User(r) \in Emails
  BY UserTyped DEF VerifyRead, At, IInv
<1>2. users[User(r)] # None /\ Passed(User(r))
  BY <1>1 DEF RequestOK, Knows, Permitted, Passed
<1>3. users[User(r)].verified \in BOOLEAN
  BY <1>1, <1>2 DEF IInv, TypeOK, Row
<1>4. req[r].op \in Minting /\ req[r].pair = 0
  BY <1>1 DEF RequestOK, Route, Minting
<1> QED BY <1>1, <1>2, <1>3, <1>4, QuietSign DEF VerifyRead, ghosts, IInv, TypeOK

LEMMA RoleUpdateStep ==
    ASSUME IInv, NEW r \in Requests, RoleUpdate(r)
    PROVE  IInv'
<1>1. /\ req[r] # None /\ req[r].op = "updateRole" /\ req[r].at = "update" /\ RequestOK(r)
      /\ User(r) \in Emails
  BY UserTyped DEF RoleUpdate, At, IInv
<1>2. users[User(r)] # None
  BY <1>1 DEF RequestOK, Knows
<1>3. users[User(r)].verified \in BOOLEAN /\ users[User(r)].tfa \in BOOLEAN
  BY <1>1, <1>2 DEF IInv, TypeOK, Row
<1>4. users[User(r)].tfa => Passed(User(r))
  BY <1>1, <1>2 DEF IInv, RowsOK, Passed
<1>5. req[r].op \in Minting /\ req[r].pair = 0
  BY <1>1 DEF RequestOK, Route, Minting
<1> QED BY <1>1, <1>2, <1>3, <1>4, <1>5, QuietSign DEF RoleUpdate, ghosts, IInv, TypeOK

LEMMA ConfirmReadStep ==
    ASSUME IInv, NEW r \in Requests, ConfirmRead(r)
    PROVE  IInv'
<1>1. req[r] # None /\ req[r].op = "confirm2FA" /\ req[r].at = "read" /\ RequestOK(r)
  BY DEF ConfirmRead, At, IInv
<1>2. req[r] \in Request /\ User(r) \in Emails
  BY <1>1, UserTyped DEF IInv
<1>3. users[User(r)] # None
  BY <1>1 DEF RequestOK, Knows
<1> DEFINE x == [req[r] EXCEPT !.at = "get", !.ev = users[User(r)].verified]
<1>4. "get" \in Points /\ users[User(r)].verified \in BOOLEAN
  BY <1>2, <1>3 DEF Points, IInv, TypeOK, Row
<1>5. x \in Request
  BY <1>2, <1>4 DEF Request
<1>6. req' = [req EXCEPT ![r] = x]
  BY DEF ConfirmRead, IInv, TypeOK
<1>7. Becomes(r, x)
  BY <1>5, <1>6, BecomesOK DEF IInv
<1>8. /\ Keeps(r) /\ req'[r].mfa = req[r].mfa
      /\ req'[r].at = "get" /\ req'[r].ev = users[User(r)].verified
  BY <1>2, <1>7 DEF Becomes, Request, Keeps
<1>9. User(r)' = User(r) /\ CodeOf(r)' = CodeOf(r)
  BY <1>8 DEF Keeps, User, CodeOf
<1>10. RequestOK(r)'
  BY <1>1, <1>3, <1>8, <1>9
  DEF ConfirmRead, ghosts, RequestOK, Route, Knows, Permitted, Passed, Keeps
<1> QED BY <1>5, <1>7, <1>10, Quiet DEF ConfirmRead, ghosts, IInv, TypeOK

LEMMA DisableReadStep ==
    ASSUME IInv, NEW r \in Requests, DisableRead(r)
    PROVE  IInv'
<1>1. req[r] # None /\ req[r].op = "disable2FA" /\ req[r].at = "read" /\ RequestOK(r)
  BY DEF DisableRead, At, IInv
<1>2. req[r] \in Request /\ User(r) \in Emails
  BY <1>1, UserTyped DEF IInv
<1>3. users[User(r)] # None
  BY <1>1 DEF RequestOK, Knows
<1> DEFINE x == [req[r] EXCEPT !.at = "check", !.ev = users[User(r)].verified]
<1>4. "check" \in Points /\ users[User(r)].verified \in BOOLEAN
  BY <1>2, <1>3 DEF Points, IInv, TypeOK, Row
<1>5. x \in Request
  BY <1>2, <1>4 DEF Request
<1>6. req' = [req EXCEPT ![r] = x]
  BY DEF DisableRead, IInv, TypeOK
<1>7. Becomes(r, x)
  BY <1>5, <1>6, BecomesOK DEF IInv
<1>8. /\ Keeps(r) /\ req'[r].mfa = req[r].mfa
      /\ req'[r].at = "check" /\ req'[r].ev = users[User(r)].verified
  BY <1>2, <1>7 DEF Becomes, Request, Keeps
<1>9. User(r)' = User(r) /\ CodeOf(r)' = CodeOf(r)
  BY <1>8 DEF Keeps, User, CodeOf
<1>10. RequestOK(r)'
  BY <1>1, <1>3, <1>8, <1>9
  DEF DisableRead, ghosts, RequestOK, Route, Knows, Permitted, Passed, Keeps
<1> QED BY <1>5, <1>7, <1>10, Quiet DEF DisableRead, ghosts, IInv, TypeOK

-----------------------------------------------------------------------------
(* The actions that change the row of the request's account *)

(***************************************************************************)
(* A row may be updated if what it says is still backed.                   *)
(***************************************************************************)
LEMMA RowUpdate ==
    ASSUME IInv, NEW r \in Requests, NEW x \in Request, Becomes(r, x),
           NEW u \in Emails, users[u] # None, NEW row \in Row,
           users' = [users EXCEPT ![u] = row],
           row.provider = users[u].provider,
           users[u].verified => row.verified,
           row.verified => users[u].verified \/ <<"email", u>> \in accepted,
           row.tfa => <<"twoFactorEnable", u>> \in accepted,
           row.reset => <<"password", u>> \in accepted,
           row.refresh # 0 => row.refresh <= signed /\ tok[row.refresh].user = u,
           UNCHANGED <<codes, tok, signed, delivered, resets, sent, accepted, lost>>,
           stored' \subseteq 1..signed,
           RequestOK(r)'
    PROVE  IInv'
<1>0. signed \in Nat /\ 1..signed \subseteq Pairs
  BY PairsAssumption DEF IInv, TypeOK, Pairs
<1>1. users' \in [Emails -> Row \union {None}]
  BY DEF IInv, TypeOK
<1>2. /\ users'[u] = row /\ row # None
      /\ \A e \in Emails : e # u => users'[e] = users[e]
  BY NoneAssumption DEF IInv, TypeOK
<1>3. TypeOK'
  BY <1>0, <1>1 DEF IInv, TypeOK, Becomes
<1>4. Forward
  BY <1>0, <1>2 DEF Forward
<1>5. ASSUME NEW q \in Requests PROVE RequestOK(q)'
  BY <1>3, <1>4, Waiting DEF Becomes
<1>6. RowsOK'
  <2> SUFFICES ASSUME NEW e \in Emails, users'[e] # None
      PROVE /\ users'[e].provider = "facebook" => users'[e].verified
            /\ users'[e].verified => users'[e].provider = "facebook" \/ <<"email", e>> \in accepted
            /\ users'[e].tfa => <<"twoFactorEnable", e>> \in accepted
            /\ users'[e].reset => <<"password", e>> \in accepted
            /\ users'[e].refresh # 0
                => users'[e].refresh <= signed /\ tok[users'[e].refresh].user = e
    BY DEF RowsOK
  <2>1. CASE e = u
    BY <1>2, <2>1 DEF IInv, RowsOK
  <2>2. CASE e # u
    BY <1>2, <2>2 DEF IInv, RowsOK
  <2> QED BY <2>1, <2>2
<1>7. CodesOK'
  BY <1>2 DEF IInv, CodesOK
<1>8. TokensOK'
  <2>1. ASSUME NEW n \in 1..signed
        PROVE  /\ users'[tok[n].user] # None
               /\ tok[n].ev => users'[tok[n].user].verified
    <3>1. tok[n] \in Claims
      BY DEF IInv, TokensOK
    <3>2. tok[n].user \in Emails
      BY <3>1 DEF Claims
    <3> QED BY <1>2, <3>2 DEF IInv, TokensOK
  <2> QED BY <2>1 DEF IInv, TokensOK, Passed
<1> QED BY <1>3, <1>5, <1>6, <1>7, <1>8 DEF IInv

LEMMA StoreRefreshStep ==
    ASSUME IInv, NEW r \in Requests, StoreRefresh(r)
    PROVE  IInv'
<1>1. req[r] # None /\ req[r].at = "store" /\ RequestOK(r)
  BY DEF StoreRefresh, IInv
<1>2. req[r] \in Request /\ User(r) \in Emails
  BY <1>1, UserTyped DEF IInv
<1>3. /\ users[User(r)] # None /\ req[r].pair # 0 /\ req[r].pair <= signed
      /\ tok[req[r].pair].user = User(r)
  BY <1>1 DEF RequestOK, Route, Knows
<1>4. users[User(r)] \in Row /\ req[r].pair \in 0..MaxPairs /\ signed \in Nat
  BY <1>2, <1>3, PairsAssumption DEF IInv, TypeOK, Request
<1> DEFINE row == [users[User(r)] EXCEPT !.refresh = req[r].pair]
           at == IF req[r].op = "signUp" THEN "code" ELSE "reply"
<1>5. /\ row \in Row /\ row.provider = users[User(r)].provider
      /\ row.verified = users[User(r)].verified /\ row.tfa = users[User(r)].tfa
      /\ row.reset = users[User(r)].reset /\ row.refresh = req[r].pair
  BY <1>4 DEF Row
<1>6. users' = [users EXCEPT ![User(r)] = row]
  BY DEF StoreRefresh, IInv, TypeOK
<1>7. at \in Points /\ Go(r, at)
  BY DEF StoreRefresh, Points
<1>8. /\ Becomes(r, [req[r] EXCEPT !.at = at]) /\ req'[r] \in Request /\ req'[r].at = at
      /\ Keeps(r) /\ req'[r].ev = req[r].ev /\ req'[r].mfa = req[r].mfa
  BY <1>1, <1>7, GoOK DEF IInv
<1>9. User(r)' = User(r) /\ CodeOf(r)' = CodeOf(r)
  BY <1>8 DEF Keeps, User, CodeOf
<1>10. users'[User(r)] = row /\ users'[User(r)] # None
  BY <1>2, <1>5, <1>6, NoneAssumption DEF IInv, TypeOK
<1>11. RequestOK(r)'
  <2>0. UNCHANGED <<tok, signed, sent, accepted>>
    BY DEF StoreRefresh
  <2>1. Route(r)'
    <3>1. CASE req[r].op = "signUp"
      BY <1>1, <1>8, <3>1 DEF RequestOK, Route, Keeps
    <3>2. CASE req[r].op # "signUp"
      BY <1>1, <1>8, <3>2 DEF RequestOK, Route, Keeps, Minting
    <3> QED BY <3>1, <3>2
  <2>2. Knows(r)'
    BY <1>1, <1>3, <1>5, <1>8, <1>9, <1>10, <2>0 DEF RequestOK, Knows, Keeps
  <2>3. Permitted(r)'
    BY <1>1, <1>8, <1>9, <2>0 DEF RequestOK, Route, Permitted, Passed, Keeps, Minting
  <2> QED BY <2>1, <2>2, <2>3 DEF RequestOK
<1>12. stored' \subseteq 1..signed
  BY <1>3, <1>4 DEF StoreRefresh, IInv, TokensOK
<1>13. /\ row.tfa => <<"twoFactorEnable", User(r)>> \in accepted
       /\ row.reset => <<"password", User(r)>> \in accepted
  BY <1>2, <1>3, <1>5 DEF IInv, RowsOK
<1>14. [req[r] EXCEPT !.at = at] \in Request
  BY <1>8 DEF Becomes
<1> HIDE DEF row, at
<1>15. UNCHANGED <<codes, tok, signed, delivered, resets, sent, accepted, lost>>
  BY DEF StoreRefresh
<1> QED BY <1>2, <1>3, <1>5, <1>6, <1>8, <1>11, <1>12, <1>13, <1>14, <1>15, RowUpdate

LEMMA EmailUpdateStep ==
    ASSUME IInv, NEW r \in Requests, EmailUpdate(r)
    PROVE  IInv'
<1>1. req[r] # None /\ req[r].op = "verifyEmail" /\ req[r].at = "update" /\ RequestOK(r)
  BY DEF EmailUpdate, At, IInv
<1>2. req[r] \in Request /\ User(r) \in Emails
  BY <1>1, UserTyped DEF IInv
<1>3. users[User(r)] # None /\ Permitted(r) /\ (req[r].ev => users[User(r)].verified)
  BY <1>1 DEF RequestOK, Knows
<1>4. users[User(r)] \in Row /\ req[r].ev \in BOOLEAN /\ req[r].op \in Minting /\ req[r].pair = 0
  BY <1>1, <1>2, <1>3 DEF IInv, TypeOK, Request, RequestOK, Route, Minting
<1> DEFINE row == [users[User(r)] EXCEPT !.verified = TRUE]
<1>5. /\ row \in Row /\ row.provider = users[User(r)].provider /\ row.verified = TRUE
      /\ row.tfa = users[User(r)].tfa /\ row.reset = users[User(r)].reset /\ row.refresh = users[User(r)].refresh
  BY <1>4 DEF Row
<1>6. users' = [users EXCEPT ![User(r)] = row]
  BY DEF EmailUpdate, IInv, TypeOK
<1>7. GoSign(r, TRUE, FALSE)
  BY DEF EmailUpdate
<1>8. /\ Becomes(r, [req[r] EXCEPT !.at = "sign", !.ev = TRUE, !.mfa = FALSE])
      /\ req'[r] \in Request /\ req'[r].at = "sign"
      /\ Keeps(r) /\ req'[r].ev = TRUE /\ req'[r].mfa = FALSE
  BY <1>1, <1>4, <1>7, GoSignOK DEF IInv
<1>9. User(r)' = User(r) /\ CodeOf(r)' = CodeOf(r)
  BY <1>8 DEF Keeps, User, CodeOf
<1>10. users'[User(r)] = row /\ users'[User(r)] # None
  BY <1>2, <1>5, <1>6, NoneAssumption DEF IInv, TypeOK
<1>11. UNCHANGED <<codes, tok, signed, delivered, resets, sent, accepted, stored, lost>>
  BY DEF EmailUpdate, ghosts
<1>12. RequestOK(r)'
  <2>1. Route(r)'
    BY <1>1, <1>4, <1>8 DEF Route, Keeps
  <2>2. Knows(r)'
    BY <1>1, <1>3, <1>4, <1>5, <1>8, <1>9, <1>10 DEF Knows, Keeps
  <2>3. Permitted(r)'
    BY <1>1, <1>3, <1>8, <1>9, <1>11 DEF Permitted, Passed, Keeps
  <2> QED BY <2>1, <2>2, <2>3 DEF RequestOK
<1>13. /\ row.verified => users[User(r)].verified \/ <<"email", User(r)>> \in accepted
       /\ row.tfa => <<"twoFactorEnable", User(r)>> \in accepted
       /\ row.reset => <<"password", User(r)>> \in accepted
       /\ row.refresh # 0 => row.refresh <= signed /\ tok[row.refresh].user = User(r)
  BY <1>1, <1>2, <1>3, <1>5 DEF IInv, RowsOK, Permitted
<1>14. [req[r] EXCEPT !.at = "sign", !.ev = TRUE, !.mfa = FALSE] \in Request
  BY <1>8 DEF Becomes
<1>15. stored' \subseteq 1..signed
  BY <1>11 DEF IInv, TokensOK
<1> HIDE DEF row
<1> QED BY <1>2, <1>3, <1>5, <1>6, <1>8, <1>11, <1>12, <1>13, <1>14, <1>15, RowUpdate

LEMMA ConfirmUpdateStep ==
    ASSUME IInv, NEW r \in Requests, ConfirmUpdate(r)
    PROVE  IInv'
<1>1. req[r] # None /\ req[r].op = "confirm2FA" /\ req[r].at = "update" /\ RequestOK(r)
  BY DEF ConfirmUpdate, At, IInv
<1>2. req[r] \in Request /\ User(r) \in Emails
  BY <1>1, UserTyped DEF IInv
<1>3. users[User(r)] # None /\ Permitted(r) /\ (req[r].ev => users[User(r)].verified)
  BY <1>1 DEF RequestOK, Knows
<1>4. users[User(r)] \in Row /\ req[r].ev \in BOOLEAN /\ req[r].op \in Minting /\ req[r].pair = 0
  BY <1>1, <1>2, <1>3 DEF IInv, TypeOK, Request, RequestOK, Route, Minting
<1> DEFINE row == [users[User(r)] EXCEPT !.tfa = TRUE]
<1>5. /\ row \in Row /\ row.provider = users[User(r)].provider /\ row.tfa = TRUE
      /\ row.verified = users[User(r)].verified /\ row.reset = users[User(r)].reset /\ row.refresh = users[User(r)].refresh
  BY <1>4 DEF Row
<1>6. users' = [users EXCEPT ![User(r)] = row]
  BY DEF ConfirmUpdate, IInv, TypeOK
<1>7. GoSign(r, req[r].ev, TRUE)
  BY DEF ConfirmUpdate
<1>8. /\ Becomes(r, [req[r] EXCEPT !.at = "sign", !.ev = req[r].ev, !.mfa = TRUE])
      /\ req'[r] \in Request /\ req'[r].at = "sign"
      /\ Keeps(r) /\ req'[r].ev = req[r].ev /\ req'[r].mfa = TRUE
  BY <1>1, <1>4, <1>7, GoSignOK DEF IInv
<1>9. User(r)' = User(r) /\ CodeOf(r)' = CodeOf(r)
  BY <1>8 DEF Keeps, User, CodeOf
<1>10. users'[User(r)] = row /\ users'[User(r)] # None
  BY <1>2, <1>5, <1>6, NoneAssumption DEF IInv, TypeOK
<1>11. UNCHANGED <<codes, tok, signed, delivered, resets, sent, accepted, stored, lost>>
  BY DEF ConfirmUpdate, ghosts
<1>12. RequestOK(r)'
  <2>1. Route(r)'
    BY <1>1, <1>4, <1>8 DEF Route, Keeps
  <2>2. Knows(r)'
    BY <1>1, <1>3, <1>4, <1>5, <1>8, <1>9, <1>10 DEF Knows, Keeps
  <2>3. Permitted(r)'
    BY <1>1, <1>3, <1>8, <1>9, <1>11 DEF Permitted, Passed, Keeps
  <2> QED BY <2>1, <2>2, <2>3 DEF RequestOK
<1>13. /\ row.verified => users[User(r)].verified \/ <<"email", User(r)>> \in accepted
       /\ row.tfa => <<"twoFactorEnable", User(r)>> \in accepted
       /\ row.reset => <<"password", User(r)>> \in accepted
       /\ row.refresh # 0 => row.refresh <= signed /\ tok[row.refresh].user = User(r)
  BY <1>1, <1>2, <1>3, <1>5 DEF IInv, RowsOK, Permitted
<1>14. [req[r] EXCEPT !.at = "sign", !.ev = req[r].ev, !.mfa = TRUE] \in Request
  BY <1>8 DEF Becomes
<1>15. stored' \subseteq 1..signed
  BY <1>11 DEF IInv, TokensOK
<1> HIDE DEF row
<1> QED BY <1>2, <1>3, <1>5, <1>6, <1>8, <1>11, <1>12, <1>13, <1>14, <1>15, RowUpdate

LEMMA DisableUpdateStep ==
    ASSUME IInv, NEW r \in Requests, DisableUpdate(r)
    PROVE  IInv'
<1>1. req[r] # None /\ req[r].op = "disable2FA" /\ req[r].at = "update" /\ RequestOK(r)
  BY DEF DisableUpdate, At, IInv
<1>2. req[r] \in Request /\ User(r) \in Emails
  BY <1>1, UserTyped DEF IInv
<1>3. users[User(r)] # None /\ Permitted(r) /\ (req[r].ev => users[User(r)].verified)
  BY <1>1 DEF RequestOK, Knows
<1>4. users[User(r)] \in Row /\ req[r].ev \in BOOLEAN /\ req[r].op \in Minting /\ req[r].pair = 0
  BY <1>1, <1>2, <1>3 DEF IInv, TypeOK, Request, RequestOK, Route, Minting
<1> DEFINE row == [users[User(r)] EXCEPT !.tfa = FALSE]
<1>5. /\ row \in Row /\ row.provider = users[User(r)].provider /\ row.tfa = FALSE
      /\ row.verified = users[User(r)].verified /\ row.reset = users[User(r)].reset /\ row.refresh = users[User(r)].refresh
  BY <1>4 DEF Row
<1>6. users' = [users EXCEPT ![User(r)] = row]
  BY DEF DisableUpdate, IInv, TypeOK
<1>7. GoSign(r, req[r].ev, FALSE)
  BY DEF DisableUpdate
<1>8. /\ Becomes(r, [req[r] EXCEPT !.at = "sign", !.ev = req[r].ev, !.mfa = FALSE])
      /\ req'[r] \in Request /\ req'[r].at = "sign"
      /\ Keeps(r) /\ req'[r].ev = req[r].ev /\ req'[r].mfa = FALSE
  BY <1>1, <1>4, <1>7, GoSignOK DEF IInv
<1>9. User(r)' = User(r) /\ CodeOf(r)' = CodeOf(r)
  BY <1>8 DEF Keeps, User, CodeOf
<1>10. users'[User(r)] = row /\ users'[User(r)] # None
  BY <1>2, <1>5, <1>6, NoneAssumption DEF IInv, TypeOK
<1>11. UNCHANGED <<codes, tok, signed, delivered, resets, sent, accepted, stored, lost>>
  BY DEF DisableUpdate, ghosts
<1>12. RequestOK(r)'
  <2>1. Route(r)'
    BY <1>1, <1>4, <1>8 DEF Route, Keeps
  <2>2. Knows(r)'
    BY <1>1, <1>3, <1>4, <1>5, <1>8, <1>9, <1>10 DEF Knows, Keeps
  <2>3. Permitted(r)'
    BY <1>1, <1>3, <1>8, <1>9, <1>11 DEF Permitted, Passed, Keeps
  <2> QED BY <2>1, <2>2, <2>3 DEF RequestOK
<1>13. /\ row.verified => users[User(r)].verified \/ <<"email", User(r)>> \in accepted
       /\ row.tfa => <<"twoFactorEnable", User(r)>> \in accepted
       /\ row.reset => <<"password", User(r)>> \in accepted
       /\ row.refresh # 0 => row.refresh <= signed /\ tok[row.refresh].user = User(r)
  BY <1>1, <1>2, <1>3, <1>5 DEF IInv, RowsOK, Permitted
<1>14. [req[r] EXCEPT !.at = "sign", !.ev = req[r].ev, !.mfa = FALSE] \in Request
  BY <1>8 DEF Becomes
<1>15. stored' \subseteq 1..signed
  BY <1>11 DEF IInv, TokensOK
<1> HIDE DEF row
<1> QED BY <1>2, <1>3, <1>5, <1>6, <1>8, <1>11, <1>12, <1>13, <1>14, <1>15, RowUpdate

LEMMA PasswordUpdateStep ==
    ASSUME IInv, NEW r \in Requests, PasswordUpdate(r)
    PROVE  IInv'
<1>1. req[r] # None /\ req[r].op = "completeReset" /\ req[r].at = "update" /\ RequestOK(r)
  BY DEF PasswordUpdate, At, IInv
<1>2. req[r] \in Request /\ User(r) \in Emails
  BY <1>1, UserTyped DEF IInv
<1>3. users[User(r)] # None /\ Permitted(r) /\ (req[r].ev => users[User(r)].verified)
  BY <1>1 DEF RequestOK, Knows
<1>4. users[User(r)] \in Row /\ req[r].ev \in BOOLEAN
  BY <1>1, <1>2, <1>3 DEF IInv, TypeOK, Request, RequestOK, Route, Minting
<1> DEFINE row == [users[User(r)] EXCEPT !.reset = TRUE]
<1>5. /\ row \in Row /\ row.provider = users[User(r)].provider /\ row.reset = TRUE
      /\ row.verified = users[User(r)].verified /\ row.tfa = users[User(r)].tfa /\ row.refresh = users[User(r)].refresh
  BY <1>4 DEF Row
<1>6. users' = [users EXCEPT ![User(r)] = row]
  BY DEF PasswordUpdate, IInv, TypeOK
<1>7. "reply" \in Points /\ Go(r, "reply")
  BY DEF PasswordUpdate, Points
<1>8. /\ Becomes(r, [req[r] EXCEPT !.at = "reply"])
      /\ req'[r] \in Request /\ req'[r].at = "reply"
      /\ Keeps(r) /\ req'[r].ev = req[r].ev /\ req'[r].mfa = req[r].mfa
  BY <1>1, <1>4, <1>7, GoOK DEF IInv
<1>9. User(r)' = User(r) /\ CodeOf(r)' = CodeOf(r)
  BY <1>8 DEF Keeps, User, CodeOf
<1>10. users'[User(r)] = row /\ users'[User(r)] # None
  BY <1>2, <1>5, <1>6, NoneAssumption DEF IInv, TypeOK
<1>11. UNCHANGED <<codes, tok, signed, delivered, resets, sent, accepted, stored, lost>>
  BY DEF PasswordUpdate, ghosts
<1>12. RequestOK(r)'
  <2>1. Route(r)'
    BY <1>1, <1>8 DEF RequestOK, Route, Keeps, Minting
  <2>2. Knows(r)'
    BY <1>1, <1>3, <1>4, <1>5, <1>8, <1>9, <1>10, <1>11 DEF RequestOK, Knows, Keeps
  <2>3. Permitted(r)'
    BY <1>1, <1>3, <1>8, <1>9, <1>11 DEF Permitted, Passed, Keeps
  <2> QED BY <2>1, <2>2, <2>3 DEF RequestOK
<1>13. /\ row.verified => users[User(r)].verified \/ <<"email", User(r)>> \in accepted
       /\ row.tfa => <<"twoFactorEnable", User(r)>> \in accepted
       /\ row.reset => <<"password", User(r)>> \in accepted
       /\ row.refresh # 0 => row.refresh <= signed /\ tok[row.refresh].user = User(r)
  BY <1>1, <1>2, <1>3, <1>5 DEF IInv, RowsOK, Permitted
<1>14. [req[r] EXCEPT !.at = "reply"] \in Request
  BY <1>8 DEF Becomes
<1>15. stored' \subseteq 1..signed
  BY <1>11 DEF IInv, TokensOK
<1> HIDE DEF row
<1> QED BY <1>2, <1>3, <1>5, <1>6, <1>8, <1>11, <1>12, <1>13, <1>14, <1>15, RowUpdate

-----------------------------------------------------------------------------
(* The other actions *)

(***************************************************************************)
(* A request begins at a point of its route, for an account of which it    *)
(* has been shown what the point supposes.                                 *)
(***************************************************************************)
LEMMA BeginStep ==
    ASSUME IInv, NEW r \in Requests, NEW op \in Operations, NEW e \in Emails,
           NEW at \in Points, NEW n \in 0..MaxPairs, Begin(r, op, e, at, n),
           at \in {"find", "get", "read", "code", "update", "guard"},
           at = "find" => op \in {"signUp", "login", "facebook", "initiateReset"},
           at = "get" => op \in {"verifyEmail", "verify2FA", "verifyReset"},
           at = "read" => op \in {"resendEmail", "enable2FA", "confirm2FA", "disable2FA"},
           at = "code" => op \in {"resendVerify", "resendEnable"},
           at = "update" => op \in {"updateRole", "completeReset"},
           at = "guard" <=> op = "refresh",
           at # "find" /\ op # "verifyReset" => users[e] # None,
           op = "completeReset" => <<"password", e>> \in accepted,
           op = "refresh" => n \in 1..signed /\ tok[n].user = e
    PROVE  IInv'
<1> DEFINE x == [op |-> op, at |-> at, user |-> e, ev |-> FALSE, mfa |-> FALSE,
                 acc |-> None, ref |-> None, pair |-> 0, token |-> n]
<1>1. x \in Request
  BY PairsAssumption DEF Request, MaybeFlag
<1>2. req' = [req EXCEPT ![r] = x]
  BY DEF Begin
<1>3. Becomes(r, x)
  BY <1>1, <1>2, BecomesOK DEF IInv
<1>4. /\ req'[r].op = op /\ req'[r].at = at /\ req'[r].user = e /\ req'[r].ev = FALSE
      /\ req'[r].mfa = FALSE /\ req'[r].pair = 0 /\ req'[r].token = n
      /\ req'[r].acc # TRUE /\ req'[r].ref # TRUE
  <2>1. None # TRUE
    BY NoneAssumption
  <2>2. /\ x.op = op /\ x.at = at /\ x.user = e /\ x.ev = FALSE
        /\ x.mfa = FALSE /\ x.pair = 0 /\ x.token = n /\ x.acc = None /\ x.ref = None
    OBVIOUS
  <2>3. req'[r] = x
    BY <1>3 DEF Becomes
  <2> HIDE DEF x
  <2> QED BY <2>1, <2>2, <2>3
<1>5. UNCHANGED <<users, codes, tok, signed, delivered, resets, sent, accepted, stored, lost>>
  BY DEF Begin, ghosts
<1> HIDE DEF x
<1>6. RequestOK(r)'
  <2>1. Route(r)'
    BY <1>4 DEF Route, Minting
  <2>2. Knows(r)'
    BY <1>4, <1>5 DEF Knows, User
  <2>3. Permitted(r)'
    BY <1>4, <1>5 DEF Permitted, Passed, User
  <2> QED BY <2>1, <2>2, <2>3 DEF RequestOK
<1> QED BY <1>1, <1>3, <1>5, <1>6, Quiet DEF IInv, TypeOK

\* A token that a client holds belongs to an account there is.
LEMMA TokenOK ==
    ASSUME IInv, NEW n \in delivered
    PROVE  n \in 1..signed /\ n \in 0..MaxPairs /\ tok[n].user \in Emails /\ users[tok[n].user] # None
<1>1. n \in 1..signed
  BY DEF IInv, TokensOK
<1>2. tok[n] \in Claims /\ users[tok[n].user] # None
  BY <1>1 DEF IInv, TokensOK
<1>3. n \in 0..MaxPairs
  BY <1>1, PairsAssumption DEF IInv, TypeOK
<1> QED BY <1>1, <1>2, <1>3 DEF Claims

LEMMA StartStep ==
    ASSUME IInv, NEW r \in Requests, Start(r)
    PROVE  IInv'
<1>0. 0 \in 0..MaxPairs
  BY PairsAssumption
<1>1. ASSUME NEW e \in Emails, NEW op \in {"signUp", "login", "facebook", "initiateReset"},
             Begin(r, op, e, "find", 0)
      PROVE  IInv'
  BY <1>0, <1>1, BeginStep DEF Operations, Points
<1>2. ASSUME NEW e \in Emails, Begin(r, "verifyReset", e, "get", 0)
      PROVE  IInv'
  BY <1>0, <1>2, BeginStep DEF Operations, Points
<1>3. ASSUME NEW e \in resets, Begin(r, "completeReset", e, "update", 0)
      PROVE  IInv'
  <2>1. e \in Emails
    BY DEF IInv, TypeOK
  <2>2. <<"password", e>> \in accepted
    BY DEF IInv, CodesOK
  <2>3. users[e] # None
    BY <2>1, <2>2 DEF IInv, CodesOK, CodeTypes
  <2> QED BY <1>0, <1>3, <2>1, <2>2, <2>3, BeginStep DEF Operations, Points
<1>4. ASSUME NEW n \in delivered, Begin(r, "refresh", tok[n].user, "guard", n)
      PROVE  IInv'
  BY <1>4, TokenOK, BeginStep DEF Operations, Points
<1>5. ASSUME NEW op \in Operations, NEW at \in Points, NEW verifies, Guarded(r, op, at, verifies),
             <<op, at>> \in {<<"verifyEmail", "get">>, <<"resendEmail", "read">>,
                             <<"verify2FA", "get">>, <<"resendVerify", "code">>,
                             <<"resendEnable", "code">>, <<"enable2FA", "read">>,
                             <<"confirm2FA", "read">>, <<"disable2FA", "read">>,
                             <<"updateRole", "update">>}
      PROVE  IInv'
  <2>1. PICK n \in delivered : Begin(r, op, tok[n].user, at, n)
    BY <1>5 DEF Guarded
  <2> QED BY <1>5, <2>1, TokenOK, BeginStep
<1> QED BY <1>1, <1>2, <1>3, <1>4, <1>5 DEF Start, Operations, Points

LEMMA FailStep ==
    ASSUME IInv, NEW r \in Requests, Fail(r)
    PROVE  IInv'
<1>1. req[r] # None
  BY DEF Fail
<1>2. req[r].pair \in 0..MaxPairs
  BY <1>1, UserTyped DEF IInv, Request
<1>3. {req[r].pair} \ {0} \subseteq Pairs
  BY <1>2, PairsAssumption DEF Pairs
<1>4. lost' = lost \union ({req[r].pair} \ {0}) /\ lost \subseteq Pairs
  BY DEF Fail, IInv, TypeOK
<1>5. lost' \subseteq Pairs
  BY <1>3, <1>4
<1> QED BY <1>5, QuietDone DEF Fail

LEMMA ReplyStep ==
    ASSUME IInv, NEW r \in Requests, Reply(r)
    PROVE  IInv'
<1>1. req[r] # None /\ req[r].at = "reply" /\ RequestOK(r)
  BY DEF Reply, IInv
<1>2. req[r] \in Request /\ User(r) \in Emails
  BY <1>1, UserTyped DEF IInv
<1>3. Becomes(r, None)
  BY DoneOK DEF Reply, IInv
<1>4. signed \in Nat /\ req[r].pair \in Nat /\ 1..signed \subseteq Pairs
  BY <1>2, PairsAssumption DEF IInv, TypeOK, Request, Pairs
<1>5. delivered' \subseteq 1..signed
  <2>1. req[r].pair # 0 => req[r].pair \in 1..signed
    BY <1>1, <1>4 DEF RequestOK, Knows
  <2> QED BY <2>1 DEF Reply, IInv, TokensOK
<1>6. UNCHANGED <<users, codes, tok, signed, sent, accepted, stored, lost>>
  BY DEF Reply, ghosts
<1>7. /\ resets' \subseteq Emails
      /\ \A e \in resets' : <<"password", e>> \in accepted
  BY <1>1, <1>2 DEF Reply, IInv, TypeOK, CodesOK, RequestOK, Permitted
<1>8. TypeOK'
  BY <1>3, <1>4, <1>5, <1>6, <1>7 DEF IInv, TypeOK, Becomes
<1>9. Forward
  BY <1>4, <1>6 DEF Forward
<1>10. ASSUME NEW q \in Requests PROVE RequestOK(q)'
  <2>1. CASE q = r
    BY <1>3, <2>1 DEF Becomes, RequestOK
  <2>2. CASE q # r
    BY <1>3, <1>8, <1>9, <2>2, Waiting DEF Becomes
  <2> QED BY <2>1, <2>2
<1>11. RowsOK' /\ CodesOK' /\ TokensOK'
  BY <1>5, <1>6, <1>7 DEF IInv, RowsOK, CodesOK, TokensOK, Passed
<1> QED BY <1>8, <1>10, <1>11 DEF IInv

LEMMA ExpireStep == ASSUME IInv, Expire PROVE IInv'
<1>1. TypeOK' /\ Forward
  BY PairsAssumption DEF Expire, ghosts, IInv, TypeOK, Forward
<1>2. ASSUME NEW q \in Requests PROVE RequestOK(q)'
  BY <1>1, Waiting DEF Expire
<1>3. RowsOK' /\ CodesOK' /\ TokensOK'
  BY DEF Expire, ghosts, IInv, RowsOK, CodesOK, TokensOK, Passed
<1> QED BY <1>1, <1>2, <1>3 DEF IInv

LEMMA SaveCodeStep ==
    ASSUME IInv, NEW r \in Requests, SaveCode(r)
    PROVE  IInv'
<1>1. req[r] # None /\ req[r].at = "code" /\ RequestOK(r)
  BY DEF SaveCode, IInv
<1>2. req[r] \in Request /\ User(r) \in Emails /\ CodeOf(r) \in CodeTypes
  BY <1>1, UserTyped DEF IInv
<1> DEFINE at == IF req[r].op = "login" THEN "sign" ELSE "reply"
<1>3. at \in Points /\ Go(r, at)
  BY DEF SaveCode, Points
<1>4. /\ Becomes(r, [req[r] EXCEPT !.at = at]) /\ req'[r] \in Request /\ req'[r].at = at
      /\ Keeps(r) /\ req'[r].ev = req[r].ev /\ req'[r].mfa = req[r].mfa
  BY <1>1, <1>3, GoOK DEF IInv
<1>5. User(r)' = User(r) /\ CodeOf(r)' = CodeOf(r)
  BY <1>4 DEF Keeps, User, CodeOf
<1>6. UNCHANGED <<users, tok, signed, delivered, resets, accepted, stored, lost>>
  BY DEF SaveCode
<1>7. /\ codes' = codes \union {<<CodeOf(r), User(r)>>}
      /\ sent' = sent \union {<<CodeOf(r), User(r)>>}
  BY DEF SaveCode
<1>8. TypeOK'
  BY <1>2, <1>4, <1>6, <1>7 DEF IInv, TypeOK, Becomes
<1>9. Forward
  BY <1>6, <1>7, PairsAssumption DEF IInv, TypeOK, Forward
<1>10. RequestOK(r)'
  <2>1. Route(r)'
    BY <1>1, <1>4 DEF RequestOK, Route, Keeps, Minting
  <2>2. Knows(r)'
    BY <1>1, <1>4, <1>5, <1>6 DEF RequestOK, Knows, Keeps
  <2>3. Permitted(r)'
    BY <1>1, <1>4, <1>5, <1>6 DEF RequestOK, Route, Permitted, Passed, Keeps
  <2> QED BY <2>1, <2>2, <2>3 DEF RequestOK
<1>11. ASSUME NEW q \in Requests PROVE RequestOK(q)'
  BY <1>4, <1>8, <1>9, <1>10, Waiting DEF Becomes
<1>12. CodesOK'
  <2>1. users[User(r)] # None
    BY <1>1 DEF RequestOK, Knows
  <2>2. CodeOf(r) = "password" => users[User(r)].provider = "local"
    BY <1>1 DEF RequestOK, Route, Knows, CodeOf
  <2> QED BY <1>2, <1>6, <1>7, <2>1, <2>2 DEF IInv, CodesOK
<1>13. RowsOK' /\ TokensOK'
  BY <1>6 DEF IInv, RowsOK, TokensOK, Passed
<1> QED BY <1>8, <1>11, <1>12, <1>13 DEF IInv

LEMMA DelCodeStep ==
    ASSUME IInv, NEW r \in Requests, DelCode(r)
    PROVE  IInv'
<1>1. req[r] # None /\ req[r].at = "del" /\ RequestOK(r)
  BY DEF DelCode, IInv
<1>2. req[r] \in Request /\ User(r) \in Emails /\ CodeOf(r) \in CodeTypes
  BY <1>1, UserTyped DEF IInv
<1> DEFINE at == AfterDel(req[r].op)
<1>3. req[r].op \in {"verifyEmail", "verify2FA", "confirm2FA", "verifyReset"}
  BY <1>1 DEF RequestOK, Route
<1>4. at \in Points /\ Go(r, at)
  BY <1>3 DEF DelCode, Points, AfterDel
<1>5. /\ Becomes(r, [req[r] EXCEPT !.at = at]) /\ req'[r] \in Request /\ req'[r].at = at
      /\ Keeps(r) /\ req'[r].ev = req[r].ev /\ req'[r].mfa = req[r].mfa
  BY <1>1, <1>4, GoOK DEF IInv
<1>6. User(r)' = User(r) /\ CodeOf(r)' = CodeOf(r)
  BY <1>5 DEF Keeps, User, CodeOf
<1>7. UNCHANGED <<users, tok, signed, delivered, resets, sent, stored, lost>>
  BY DEF DelCode
<1>8. /\ codes' = codes \ {<<CodeOf(r), User(r)>>}
      /\ accepted' = accepted \union {<<CodeOf(r), User(r)>>}
  BY DEF DelCode
<1>9. <<CodeOf(r), User(r)>> \in sent
  BY <1>1 DEF RequestOK, Permitted
<1>10. TypeOK'
  BY <1>2, <1>5, <1>7, <1>8 DEF IInv, TypeOK, Becomes
<1>11. Forward
  BY <1>7, <1>8, PairsAssumption DEF IInv, TypeOK, Forward
<1>12. RequestOK(r)'
  <2>1. Route(r)'
    BY <1>1, <1>3, <1>5 DEF RequestOK, Route, Keeps, Minting, AfterDel
  <2>2. Knows(r)'
    BY <1>1, <1>3, <1>5, <1>6, <1>7 DEF RequestOK, Knows, Keeps, AfterDel
  <2>3. Permitted(r)'
    BY <1>1, <1>3, <1>5, <1>6, <1>8
    DEF RequestOK, Permitted, Passed, Keeps, AfterDel, CodeOf
  <2> QED BY <2>1, <2>2, <2>3 DEF RequestOK
<1>13. ASSUME NEW q \in Requests PROVE RequestOK(q)'
  BY <1>5, <1>10, <1>11, <1>12, Waiting DEF Becomes
<1>14. CodesOK'
  BY <1>7, <1>8, <1>9 DEF IInv, CodesOK
<1>15. RowsOK' /\ TokensOK'
  BY <1>7, <1>8 DEF IInv, RowsOK, TokensOK, Passed
<1> QED BY <1>10, <1>13, <1>14, <1>15 DEF IInv

LEMMA SignStep ==
    ASSUME IInv, NEW r \in Requests, Sign(r)
    PROVE  IInv'
<1>1. req[r] # None /\ req[r].at = "sign" /\ RequestOK(r)
  BY DEF Sign, IInv
<1>2. req[r] \in Request /\ User(r) \in Emails
  BY <1>1, UserTyped DEF IInv
<1>3. signed \in Nat /\ signed < MaxPairs /\ signed' = signed + 1 /\ signed + 1 \in Pairs
  BY PairsAssumption DEF Sign, IInv, TypeOK, Pairs
<1>4. /\ req[r].op \in Minting /\ users[User(r)] # None
      /\ req[r].ev => users[User(r)].verified
      /\ req[r].mfa => Passed(User(r))
      /\ req[r].acc = TRUE \/ req[r].ref = TRUE => <<"twoFactorEnable", User(r)>> \in accepted
  BY <1>1 DEF RequestOK, Route, Knows, Permitted, Minting
<1> DEFINE x == [req[r] EXCEPT !.at = "store", !.pair = signed + 1]
           c == [user |-> User(r), ev |-> req[r].ev, mfa |-> req[r].mfa,
                 acc |-> req[r].acc, ref |-> req[r].ref]
<1>5. c \in Claims
  BY <1>2 DEF Sign, Claims, Request, MaybeFlag
<1>6. /\ tok' = [tok EXCEPT ![signed + 1] = c]
      /\ UNCHANGED <<users, codes, delivered, resets, sent, accepted, stored, lost>>
  BY DEF Sign, ghosts
<1>7. /\ tok' \in [Pairs -> Claims \union {None}]
      /\ tok'[signed + 1] = c
      /\ \A n \in Pairs : n # signed + 1 => tok'[n] = tok[n]
  BY <1>3, <1>5, <1>6 DEF IInv, TypeOK
<1>8. /\ x \in Request /\ x.at = "store" /\ x.op = req[r].op /\ x.user = req[r].user
      /\ x.ev = req[r].ev /\ x.mfa = req[r].mfa /\ x.pair = signed + 1
      /\ x.token = req[r].token /\ x.acc = req[r].acc /\ x.ref = req[r].ref
  <2>1. "store" \in Points /\ signed + 1 \in 0..MaxPairs
    BY <1>3, PairsAssumption DEF Points
  <2> QED BY <1>2, <2>1 DEF Request
<1>9. req' = [req EXCEPT ![r] = x]
  BY DEF Sign, IInv, TypeOK
<1>10. Becomes(r, x)
  BY <1>8, <1>9, BecomesOK DEF IInv
<1>11. /\ User(r)' = User(r) /\ c.user = User(r) /\ c.ev = req[r].ev /\ c.mfa = req[r].mfa
       /\ c.acc = req[r].acc /\ c.ref = req[r].ref
  BY <1>8, <1>10 DEF Becomes, User
<1> HIDE DEF x, c
<1>12. 1..signed \subseteq Pairs /\ 1..signed' = 1..signed \union {signed + 1}
       /\ signed + 1 \notin 1..signed
  BY <1>3, PairsAssumption DEF Pairs
<1>13. TypeOK'
  BY <1>3, <1>6, <1>7, <1>10, PairsAssumption DEF IInv, TypeOK, Becomes
<1>14. \A n \in 1..signed : tok'[n] = tok[n]
  BY <1>7, <1>12
<1>15. Forward
  BY <1>3, <1>6, <1>14 DEF Forward
<1>16. RequestOK(r)'
  <2>1. Route(r)'
    BY <1>1, <1>3, <1>4, <1>8, <1>10 DEF Becomes, RequestOK, Route, Minting
  <2>2. Knows(r)'
    <3>1. req[r].op = "refresh" => req[r].token \in 1..signed' /\ tok'[req[r].token].user = User(r)
      BY <1>1, <1>12, <1>14 DEF RequestOK, Knows
    <3>2. signed + 1 <= signed' /\ tok'[signed + 1].user = User(r) /\ signed + 1 # 0
      BY <1>3, <1>7, <1>11
    <3> QED BY <1>1, <1>4, <1>6, <1>8, <1>10, <1>11, <3>1, <3>2
            DEF Becomes, RequestOK, Knows
  <2>3. Permitted(r)'
    BY <1>1, <1>4, <1>6, <1>8, <1>10, <1>11 DEF Becomes, Permitted, Passed
  <2> QED BY <2>1, <2>2, <2>3 DEF RequestOK
<1>17. ASSUME NEW q \in Requests PROVE RequestOK(q)'
  BY <1>10, <1>13, <1>15, <1>16, Waiting DEF Becomes
<1>18. RowsOK'
  <2>1. ASSUME NEW e \in Emails, users[e] # None, users[e].refresh # 0
        PROVE  users[e].refresh <= signed' /\ tok'[users[e].refresh].user = e
    <3>1. users[e].refresh \in Nat
      BY <2>1, PairsAssumption DEF IInv, TypeOK, Row
    <3>2. users[e].refresh <= signed /\ tok[users[e].refresh].user = e
      BY <2>1 DEF IInv, RowsOK
    <3>3. users[e].refresh \in 1..signed
      BY <1>3, <2>1, <3>1, <3>2
    <3> QED BY <1>3, <1>14, <3>1, <3>2, <3>3
  <2> QED BY <1>6, <2>1 DEF IInv, RowsOK
<1>19. CodesOK'
  BY <1>6 DEF IInv, CodesOK
<1>20. TokensOK'
  <2>1. ASSUME NEW n \in 1..signed'
        PROVE  /\ tok'[n] \in Claims
               /\ users[tok'[n].user] # None
               /\ tok'[n].ev => users[tok'[n].user].verified
               /\ tok'[n].mfa => Passed(tok'[n].user)
               /\ tok'[n].acc \/ tok'[n].ref => <<"twoFactorEnable", tok'[n].user>> \in accepted
    <3>1. CASE n \in 1..signed
      BY <1>14, <3>1 DEF IInv, TokensOK
    <3>2. CASE n = signed + 1
      <4>1. tok'[n] = c /\ c.acc \in BOOLEAN /\ c.ref \in BOOLEAN
        BY <1>5, <1>7, <3>2 DEF Claims
      <4> QED BY <1>4, <1>5, <1>11, <4>1
    <3> QED BY <1>12, <3>1, <3>2
  <2> QED BY <1>6, <1>12, <2>1 DEF IInv, TokensOK, Passed
<1> QED BY <1>13, <1>17, <1>18, <1>19, <1>20 DEF IInv

LEMMA CreateStep ==
    ASSUME IInv, NEW r \in Requests, Create(r)
    PROVE  IInv'
<1>1. req[r] # None /\ req[r].at = "create" /\ RequestOK(r)
  BY DEF Create, IInv
<1>2. req[r] \in Request /\ User(r) \in Emails
  BY <1>1, UserTyped DEF IInv
<1>3. CASE Done(r) /\ UNCHANGED users
  BY <1>3, QuietDone DEF Create, ghosts, IInv, TypeOK
<1>4. CASE /\ users[User(r)] = None
           /\ users' = [users EXCEPT ![User(r)] = NewRow(ProviderOf(req[r].op))]
           /\ GoSign(r, req[r].op = "facebook", FALSE)
  <2> DEFINE p == ProviderOf(req[r].op)
             ev == req[r].op = "facebook"
  <2>1. p \in Providers /\ ev \in BOOLEAN /\ (ev <=> p = "facebook")
    BY DEF ProviderOf, Providers
  <2>2. NewRow(p) \in Row
    BY <2>1, PairsAssumption DEF NewRow, Row
  <2>3. /\ Becomes(r, [req[r] EXCEPT !.at = "sign", !.ev = ev, !.mfa = FALSE])
        /\ req'[r] \in Request /\ req'[r].at = "sign"
        /\ Keeps(r) /\ req'[r].ev = ev /\ req'[r].mfa = FALSE
    BY <1>1, <1>4, <2>1, GoSignOK DEF IInv
  <2>4. User(r)' = User(r) /\ CodeOf(r)' = CodeOf(r)
    BY <2>3 DEF Keeps, User, CodeOf
  <2>5. /\ users' \in [Emails -> Row \union {None}]
        /\ users'[User(r)] = NewRow(p) /\ NewRow(p) # None
        /\ \A e \in Emails : e # User(r) => users'[e] = users[e]
    BY <1>2, <1>4, <2>2, NoneAssumption DEF IInv, TypeOK
  <2>6. UNCHANGED <<codes, tok, signed, delivered, resets, sent, accepted, stored, lost>>
    BY DEF Create, ghosts
  <2>7. TypeOK'
    BY <2>3, <2>5, <2>6 DEF IInv, TypeOK, Becomes
  <2>8. \A e \in Emails : users[e] # None => users'[e] = users[e]
    BY <1>4, <2>5
  <2>9. Forward
    BY <2>6, <2>8, PairsAssumption DEF Forward, IInv, TypeOK
  <2>10. RequestOK(r)'
    <3>1. Route(r)'
      BY <1>1, <2>3 DEF RequestOK, Route, Keeps, Minting
    <3>2. Knows(r)'
      BY <1>1, <2>1, <2>3, <2>4, <2>5, <2>6 DEF RequestOK, Route, Knows, Keeps, NewRow
    <3>3. Permitted(r)'
      BY <1>1, <2>3, <2>4, <2>6 DEF RequestOK, Permitted, Keeps
    <3> QED BY <3>1, <3>2, <3>3 DEF RequestOK
  <2>11. ASSUME NEW q \in Requests PROVE RequestOK(q)'
    BY <2>3, <2>7, <2>9, <2>10, Waiting DEF Becomes
  <2>12. RowsOK'
    <3> DEFINE New == NewRow(p)
    <3>1. /\ New.provider = p /\ (New.verified <=> p = "facebook")
          /\ New.tfa = FALSE /\ New.reset = FALSE /\ New.refresh = 0
      BY DEF NewRow
    <3> HIDE DEF New
    <3>2. \A e \in Emails : users'[e] = New \/ users'[e] = users[e]
      BY <2>5 DEF New
    <3> QED BY <2>6, <3>1, <3>2 DEF IInv, RowsOK
  <2>13. CodesOK'
    BY <2>6, <2>8 DEF IInv, CodesOK
  <2>14. TokensOK'
    <3>1. ASSUME NEW n \in 1..signed
          PROVE  /\ users'[tok[n].user] # None
                 /\ tok[n].ev => users'[tok[n].user].verified
      <4>1. tok[n] \in Claims
        BY DEF IInv, TokensOK
      <4>2. tok[n].user \in Emails
        BY <4>1 DEF Claims
      <4> QED BY <2>8, <4>2 DEF IInv, TokensOK
    <3> QED BY <2>6, <3>1 DEF IInv, TokensOK, Passed
  <2> QED BY <2>7, <2>11, <2>12, <2>13, <2>14 DEF IInv
<1> QED BY <1>3, <1>4 DEF Create

-----------------------------------------------------------------------------
(* The invariant *)

(***************************************************************************)
(* Initially no request is under way, and an account that is there already *)
(* is as its sign-up left it.                                              *)
(***************************************************************************)
LEMMA InitInv == Init => IInv
<1> SUFFICES ASSUME Init PROVE IInv
  OBVIOUS
<1>1. \A p \in Providers : NewRow(p) \in Row
  BY PairsAssumption DEF NewRow, Row
<1>2. users \in [Emails -> Row \union {None}]
  BY <1>1, KnownAssumption DEF Init
<1>3. TypeOK
  BY <1>2, PairsAssumption DEF Init, TypeOK
<1>4. RowsOK
  BY KnownAssumption DEF Init, RowsOK, NewRow
<1>5. CodesOK /\ TokensOK
  BY DEF Init, CodesOK, TokensOK
<1>6. \A r \in Requests : RequestOK(r)
  BY DEF Init, RequestOK
<1> QED BY <1>3, <1>4, <1>5, <1>6 DEF IInv

LEMMA InvStep == IInv /\ [Next]_vars => IInv'
<1> SUFFICES ASSUME IInv, [Next]_vars PROVE IInv'
  OBVIOUS
<1>1. ASSUME NEW r \in Requests, Step(r) PROVE IInv'
  BY <1>1, SaveCodeStep, GetCodeStep, DelCodeStep, ReadForTokenStep, SignStep,
     StoreRefreshStep, ReplyStep, SignUpFindStep, FacebookFindStep, CreateStep, LoginFindStep,
     ValidateStep, EmailReadStep, EmailUpdateStep, ResendReadStep, ResetFindStep,
     PasswordUpdateStep, VerifyReadStep, EnableReadStep, ConfirmReadStep, ConfirmUpdateStep,
     DisableReadStep, DisableCheckStep, DisableUpdateStep, RoleUpdateStep
  DEF Step
<1>2. CASE UNCHANGED vars
  BY <1>2 DEF vars, ghosts, IInv, TypeOK, RowsOK, CodesOK, TokensOK, RequestOK, Route, Knows,
              Permitted, Passed, User, CodeOf
<1> QED BY <1>1, <1>2, StartStep, FailStep, ExpireStep DEF Next

LEMMA Invariance == Spec => []IInv
  BY InitInv, InvStep, PTL DEF Spec

(***************************************************************************)
(* The variables of the authentication service keep their types.           *)
(***************************************************************************)
THEOREM TypeCorrect == Spec => []TypeOK
<1>1. IInv => TypeOK
  BY DEF IInv
<1> QED BY <1>1, Invariance, PTL

(***************************************************************************)
(* Nothing ever leads to a new password for an account of Facebook.        *)
(***************************************************************************)
THEOREM PasswordCorrect == Spec => []FacebookKeepsPassword
<1>1. IInv => FacebookKeepsPassword
  <2> SUFFICES ASSUME IInv, NEW e \in Emails, users[e] # None, users[e].provider = "facebook"
      PROVE ~users[e].reset /\ e \notin resets /\ <<"password", e>> \notin codes
    BY DEF FacebookKeepsPassword
  <2>1. <<"password", e>> \notin sent
    BY DEF IInv, CodesOK, CodeTypes
  <2> QED BY <2>1 DEF IInv, RowsOK, CodesOK
<1> QED BY <1>1, Invariance, PTL

-----------------------------------------------------------------------------
(* The second factor of an account of Facebook *)

\* Codes that enable a second factor are sent, and are about to be sent, to
\* accounts of other providers only.
EnableInv ==
    /\ \A e \in Emails : <<"twoFactorEnable", e>> \in sent => users[e].provider # "facebook"
    /\ \A r \in Requests : req[r] # None =>
        /\ req[r].op # "resendEnable"
        /\ req[r].op = "enable2FA" /\ req[r].at = "code" => users[User(r)].provider # "facebook"

LEMMA EnableEnough == IInv /\ EnableInv => FacebookWithoutFactor
<1> SUFFICES ASSUME IInv, EnableInv, NEW e \in Emails, users[e] # None,
                    users[e].provider = "facebook", users[e].tfa
             PROVE  FALSE
  BY DEF IInv, TypeOK, Row, FacebookWithoutFactor
<1>1. <<"twoFactorEnable", e>> \in sent
  BY DEF IInv, RowsOK, CodesOK
<1> QED BY <1>1 DEF EnableInv

\* Accounts stay, with the provider they were created by.
ProvidersKept ==
    \A e \in Emails : users[e] # None =>
        users'[e] # None /\ users'[e].provider = users[e].provider

\* Request r goes on with what it was doing, and does not come to send a code
\* for enabling to an account of Facebook.
Onward(r) ==
    /\ \A q \in Requests : q # r => req'[q] = req[q]
    /\ req'[r] # None =>
        /\ req[r] # None /\ req'[r].op = req[r].op /\ req'[r].user = req[r].user
        /\ req'[r].op = "enable2FA" /\ req'[r].at = "code" =>
                \/ req[r].at = "code"
                \/ users[User(r)].provider # "facebook"

LEMMA EnableOnward ==
    ASSUME IInv, IInv', EnableInv, NEW r \in Requests, Onward(r), ProvidersKept,
           sent' = sent \/ SaveCode(r)
    PROVE  EnableInv'
<1>1. \A e \in Emails : <<"twoFactorEnable", e>> \in sent => users[e] # None
  BY DEF IInv, CodesOK, CodeTypes
<1>2. ASSUME NEW e \in Emails, <<"twoFactorEnable", e>> \in sent'
      PROVE  users'[e].provider # "facebook"
  <2>1. CASE <<"twoFactorEnable", e>> \in sent
    BY <1>1, <2>1 DEF EnableInv, ProvidersKept
  <2>2. CASE <<"twoFactorEnable", e>> \notin sent
    <3>1. SaveCode(r) /\ CodeOf(r) = "twoFactorEnable" /\ User(r) = e
      BY <1>2, <2>2 DEF SaveCode
    <3>2. req[r] # None /\ req[r].at = "code" /\ RequestOK(r)
      BY <3>1 DEF SaveCode, IInv
    <3>3. req[r].op \in {"enable2FA", "resendEnable"}
      BY <3>1, <3>2 DEF CodeOf, RequestOK, Route
    <3>4. users[e].provider # "facebook"
      BY <3>1, <3>2, <3>3 DEF EnableInv
    <3>5. users[e] # None
      BY <3>1, <3>2, <3>3 DEF RequestOK, Knows
    <3> QED BY <3>4, <3>5 DEF ProvidersKept
  <2> QED BY <2>1, <2>2
<1>3. ASSUME NEW q \in Requests, req'[q] # None
      PROVE  /\ req'[q].op # "resendEnable"
             /\ req'[q].op = "enable2FA" /\ req'[q].at = "code"
                    => users'[req'[q].user].provider # "facebook"
  <2>1. /\ req[q] # None /\ req'[q].op = req[q].op /\ req'[q].user = req[q].user
        /\ req'[q].op = "enable2FA" /\ req'[q].at = "code" =>
                req[q].at = "code" \/ users[User(q)].provider # "facebook"
    BY <1>3 DEF Onward
  <2>2. User(q) \in Emails /\ RequestOK(q)
    BY <2>1, UserTyped DEF IInv
  <2>3. req[q].op = "enable2FA" => users[User(q)] # None
    BY <2>1, <2>2 DEF RequestOK, Knows, Route
  <2> QED BY <2>1, <2>2, <2>3 DEF EnableInv, ProvidersKept, User
<1> QED BY <1>2, <1>3 DEF EnableInv, User

\* The ways a request goes on.
LEMMA DoneOnward == ASSUME TypeOK, NEW r \in Requests, Done(r) PROVE Onward(r)
  BY DoneOK DEF Becomes, Onward

LEMMA GoOnward ==
    ASSUME TypeOK, NEW r \in Requests, req[r] # None, NEW at \in Points, Go(r, at),
           req[r].op = "enable2FA" /\ at = "code" => users[User(r)].provider # "facebook"
    PROVE  Onward(r)
<1>1. /\ \A q \in Requests : q # r => req'[q] = req[q]
      /\ req'[r].at = at /\ Keeps(r)
  BY GoOK DEF Becomes
<1> QED BY <1>1 DEF Onward, Keeps

LEMMA GoSignOnward ==
    ASSUME TypeOK, NEW r \in Requests, req[r] # None,
           NEW ev, NEW mfa, GoSign(r, ev, mfa)
    PROVE  Onward(r)
<1>1. req[r] \in Request
  BY DEF TypeOK
<1> QED BY <1>1 DEF GoSign, Onward, Request, TypeOK

\* It keeps its operation and its account, and does not come to send such a code.
LEMMA SameOnward ==
    ASSUME TypeOK, NEW r \in Requests, req[r] # None, NEW x, req' = [req EXCEPT ![r] = x],
           req[r] \in Request => /\ x.op = req[r].op /\ x.user = req[r].user
                                 /\ x.op = "enable2FA" => x.at # "code"
    PROVE  Onward(r)
<1>1. req[r] \in Request
  BY DEF TypeOK
<1>2. req'[r] = x /\ \A q \in Requests : q # r => req'[q] = req[q]
  BY DEF TypeOK
<1> QED BY <1>1, <1>2 DEF Onward

\* No step but a new row changes who provides an account.
LEMMA ProvidersStep ==
    ASSUME TypeOK, NEW r \in Requests,
           \/ users' = users
           \/ Create(r) \/ EmailUpdate(r) \/ PasswordUpdate(r)
           \/ ConfirmUpdate(r) \/ DisableUpdate(r) \/ StoreRefresh(r)
    PROVE  ProvidersKept
<1>1. CASE users' = users
  BY <1>1 DEF ProvidersKept
<1>2. CASE Create(r)
  BY <1>2, NoneAssumption DEF Create, TypeOK, ProvidersKept
<1>3. ASSUME NEW e \in Emails, users[e] # None PROVE users[e] \in Row
  BY <1>3 DEF TypeOK
<1>4. ASSUME NEW row \in Row, NEW v \in BOOLEAN
      PROVE  /\ [row EXCEPT !.verified = v] \in Row /\ [row EXCEPT !.verified = v].provider = row.provider
             /\ [row EXCEPT !.reset = v] \in Row /\ [row EXCEPT !.reset = v].provider = row.provider
             /\ [row EXCEPT !.tfa = v] \in Row /\ [row EXCEPT !.tfa = v].provider = row.provider
  BY DEF Row
<1>5. ASSUME NEW row \in Row, NEW n \in 0..MaxPairs
      PROVE  [row EXCEPT !.refresh = n] \in Row /\ [row EXCEPT !.refresh = n].provider = row.provider
  BY DEF Row
<1>6. None \notin Row
  BY NoneAssumption
<1>7. CASE EmailUpdate(r)
  <2>1. users' = [users EXCEPT ![User(r)] = [users[User(r)] EXCEPT !.verified = TRUE]]
    BY <1>7 DEF EmailUpdate
  <2> QED BY <1>3, <1>4, <1>6, <2>1 DEF TypeOK, ProvidersKept
<1>8. CASE PasswordUpdate(r)
  <2>1. users' = [users EXCEPT ![User(r)] = [users[User(r)] EXCEPT !.reset = TRUE]]
    BY <1>8 DEF PasswordUpdate
  <2> QED BY <1>3, <1>4, <1>6, <2>1 DEF TypeOK, ProvidersKept
<1>9. CASE ConfirmUpdate(r)
  <2>1. users' = [users EXCEPT ![User(r)] = [users[User(r)] EXCEPT !.tfa = TRUE]]
    BY <1>9 DEF ConfirmUpdate
  <2> QED BY <1>3, <1>4, <1>6, <2>1 DEF TypeOK, ProvidersKept
<1>10. CASE DisableUpdate(r)
  <2>1. users' = [users EXCEPT ![User(r)] = [users[User(r)] EXCEPT !.tfa = FALSE]]
    BY <1>10 DEF DisableUpdate
  <2> QED BY <1>3, <1>4, <1>6, <2>1 DEF TypeOK, ProvidersKept
<1>11. CASE StoreRefresh(r)
  <2>1. req[r].pair \in 0..MaxPairs
    BY <1>11, UserTyped DEF StoreRefresh, Request
  <2>2. users' = [users EXCEPT ![User(r)] = [users[User(r)] EXCEPT !.refresh = req[r].pair]]
    BY <1>11 DEF StoreRefresh
  <2> QED BY <1>3, <1>5, <1>6, <2>1, <2>2 DEF TypeOK, ProvidersKept
<1> QED BY <1>1, <1>2, <1>7, <1>8, <1>9, <1>10, <1>11

\* Every step of a request that is under way.
LEMMA StepOnward ==
    ASSUME IInv, NEW r \in Requests, Step(r) \/ Fail(r)
    PROVE  Onward(r) /\ ProvidersKept /\ (sent' = sent \/ SaveCode(r))
<1>0. TypeOK
  BY DEF IInv
<1>p. {"reply", "sign", "del", "again", "create", "read", "update", "code", "get", "check"}
        \subseteq Points
  BY DEF Points
<1>a. sent' = sent \/ SaveCode(r)
  BY DEF Step, Fail, SaveCode, GetCode, DelCode, ReadForToken, Sign, StoreRefresh, Reply,
         SignUpFind, FacebookFind, Create, LoginFind, Validate, EmailRead, EmailUpdate,
         ResendRead, ResetFind, PasswordUpdate, VerifyRead, EnableRead, ConfirmRead,
         ConfirmUpdate, DisableRead, DisableCheck, DisableUpdate, RoleUpdate, ghosts
<1>b. ProvidersKept
  <2>1. \/ users' = users
        \/ Create(r) \/ EmailUpdate(r) \/ PasswordUpdate(r)
        \/ ConfirmUpdate(r) \/ DisableUpdate(r) \/ StoreRefresh(r)
    BY DEF Step, Fail, SaveCode, GetCode, DelCode, ReadForToken, Sign, Reply,
           SignUpFind, FacebookFind, LoginFind, Validate, EmailRead, ResendRead, ResetFind,
           VerifyRead, EnableRead, ConfirmRead, DisableRead, DisableCheck, RoleUpdate
  <2> QED BY <1>0, <2>1, ProvidersStep
<1> SUFFICES Onward(r)
  BY <1>a, <1>b
<1>1. CASE Fail(r) \/ Reply(r)
  BY <1>0, <1>1, DoneOnward DEF Fail, Reply
<1>2. CASE SaveCode(r)
  BY <1>0, <1>2, <1>p, GoOnward DEF SaveCode
<1>3. CASE GetCode(r)
  BY <1>0, <1>3, <1>p, GoOnward, DoneOnward DEF GetCode
<1>4. CASE DelCode(r)
  <2>1. req[r] # None /\ req[r].at = "del" /\ RequestOK(r)
    BY <1>4 DEF DelCode, IInv
  <2>2. AfterDel(req[r].op) \in {"read", "update", "reply"}
    BY <2>1 DEF RequestOK, Route, AfterDel
  <2> QED BY <1>0, <1>4, <1>p, <2>1, <2>2, GoOnward DEF DelCode
<1>5. CASE ReadForToken(r)
  <2>1. req[r] # None /\ req[r].at = "sign"
    BY <1>5 DEF ReadForToken
  <2>2. CASE req' = [req EXCEPT ![r] = [req[r] EXCEPT !.acc = users[User(r)].tfa]]
    BY <1>0, <2>1, <2>2, SameOnward DEF Request
  <2>3. CASE req' = [req EXCEPT ![r] = [req[r] EXCEPT !.ref = users[User(r)].tfa]]
    BY <1>0, <2>1, <2>3, SameOnward DEF Request
  <2> QED BY <1>5, <2>2, <2>3 DEF ReadForToken
<1>12. CASE Sign(r)
  <2>1. req[r] # None /\ req[r].at = "sign"
        /\ req' = [req EXCEPT ![r] = [req[r] EXCEPT !.at = "store", !.pair = signed + 1]]
    BY <1>12 DEF Sign
  <2> QED BY <1>0, <2>1, SameOnward DEF Request
<1>13. CASE ConfirmRead(r)
  <2>1. req[r] # None
        /\ req' = [req EXCEPT ![r] = [req[r] EXCEPT !.at = "get", !.ev = users[User(r)].verified]]
    BY <1>13 DEF ConfirmRead, At
  <2> QED BY <1>0, <2>1, SameOnward DEF Request
<1>14. CASE DisableRead(r)
  <2>1. req[r] # None
        /\ req' = [req EXCEPT ![r] = [req[r] EXCEPT !.at = "check", !.ev = users[User(r)].verified]]
    BY <1>14 DEF DisableRead, At
  <2> QED BY <1>0, <2>1, SameOnward DEF Request
<1>6. CASE StoreRefresh(r)
  BY <1>0, <1>6, <1>p, GoOnward DEF StoreRefresh
<1>7. CASE SignUpFind(r) \/ ResendRead(r) \/ ResetFind(r) \/ EmailRead(r)
           \/ PasswordUpdate(r) \/ DisableCheck(r) \/ EnableRead(r)
  BY <1>0, <1>7, <1>p, GoOnward, DoneOnward
  DEF SignUpFind, ResendRead, ResetFind, EmailRead, PasswordUpdate, DisableCheck, EnableRead, At
<1>8. CASE FacebookFind(r) \/ Create(r)
  BY <1>0, <1>8, <1>p, GoOnward, GoSignOnward, DoneOnward DEF FacebookFind, Create, At
<1>9. CASE LoginFind(r)
  <2>1. CASE Done(r)
    BY <1>0, <2>1, DoneOnward
  <2> DEFINE at == IF users[User(r)].tfa THEN "code" ELSE "sign"
  <2>2. CASE req' = [req EXCEPT ![r] = [req[r] EXCEPT !.at = at, !.ev = users[User(r)].verified]]
    <3>1. req[r] # None /\ req[r].op # "enable2FA"
      BY <1>9 DEF LoginFind, At
    <3> HIDE DEF at
    <3> QED BY <1>0, <2>2, <3>1, SameOnward DEF Request
  <2> QED BY <1>9, <2>1, <2>2 DEF LoginFind
<1>10. CASE Validate(r)
  BY <1>0, <1>10, <1>p, GoOnward, GoSignOnward, DoneOnward DEF Validate, At
<1>11. CASE EmailUpdate(r) \/ VerifyRead(r) \/ ConfirmUpdate(r) \/ DisableUpdate(r)
            \/ RoleUpdate(r)
  BY <1>0, <1>11, GoSignOnward
  DEF EmailUpdate, VerifyRead, ConfirmUpdate, DisableUpdate, RoleUpdate, At
<1> QED
  BY <1>1, <1>2, <1>3, <1>4, <1>5, <1>6, <1>7, <1>8, <1>9, <1>10, <1>11,
     <1>12, <1>13, <1>14 DEF Step

\* A request that begins does not begin by sending a code for enabling.
LEMMA StartEnable ==
    ASSUME "resendEnable" \notin Ops, IInv, EnableInv, NEW r \in Requests, Start(r)
    PROVE  EnableInv'
<1>1. PICK op, e, at, n :
        /\ Begin(r, op, e, at, n)
        /\ op # "resendEnable"
        /\ op = "enable2FA" => at # "code"
  BY DEF Start, Guarded, Begin
<1>2. /\ req'[r].op = op /\ req'[r].at = at
      /\ \A q \in Requests : q # r => req'[q] = req[q]
      /\ UNCHANGED <<users, sent>>
  BY <1>1 DEF Begin, IInv, TypeOK, ghosts
<1> QED BY <1>1, <1>2 DEF EnableInv, User

LEMMA EnableStep ==
    ASSUME "resendEnable" \notin Ops
    PROVE  IInv /\ IInv' /\ EnableInv /\ [Next]_vars => EnableInv'
<1> SUFFICES ASSUME IInv, IInv', EnableInv, [Next]_vars PROVE EnableInv'
  OBVIOUS
<1>1. ASSUME NEW r \in Requests, Start(r) PROVE EnableInv'
  BY <1>1, StartEnable
<1>2. ASSUME NEW r \in Requests, Step(r) \/ Fail(r) PROVE EnableInv'
  BY <1>2, StepOnward, EnableOnward
<1>3. CASE Expire \/ UNCHANGED vars
  BY <1>3 DEF Expire, vars, ghosts, EnableInv, User
<1> QED BY <1>1, <1>2, <1>3 DEF Next

(***************************************************************************)
(* resendEnable, which does not ask who provides the account, is the only  *)
(* way to a second factor for an account of Facebook: without it, whatever *)
(* else runs, there is none.                                               *)
(***************************************************************************)
THEOREM FactorByResendOnly ==
    ASSUME "resendEnable" \notin Ops
    PROVE  Spec => []FacebookWithoutFactor
<1>1. Init => EnableInv
  BY DEF Init, EnableInv
<1>2. IInv /\ IInv' /\ EnableInv /\ [Next]_vars => EnableInv'
  BY EnableStep
<1> QED BY <1>1, <1>2, EnableEnough, Invariance, PTL DEF Spec

-----------------------------------------------------------------------------
(* The contract *)

\* The account that the contract sees in a row.
AccountOf(row) ==
    [provider |-> row.provider, verified |-> row.verified, tfa |-> row.tfa, reset |-> row.reset]

LEMMA MapOK ==
    ASSUME IInv, NEW e \in Emails
    PROVE  /\ users[e] = None => accountMap[e] = None
           /\ users[e] # None => accountMap[e] = AccountOf(users[e]) /\ accountMap[e] # None
<1>1. CASE users[e] = None
  BY <1>1 DEF accountMap
<1>2. CASE users[e] # None
  <2>1. users[e] \in Row
    BY <1>2 DEF IInv, TypeOK
  <2>2. AccountOf(users[e]) \in Contract!Account
    BY <2>1 DEF AccountOf, Row, Contract!Account, Contract!Providers, Providers
  <2> QED BY <1>2, <2>2, AccountAssumption DEF accountMap, AccountOf
<1> QED BY <1>1, <1>2

(***************************************************************************)
(* The claims in tokens are true, for the invariant knows them to be.      *)
(***************************************************************************)
THEOREM ClaimsCorrect == Spec => []ClaimsTrue
<1>1. IInv => ClaimsTrue
  <2> SUFFICES ASSUME IInv, NEW n \in 1..signed
      PROVE /\ accountMap[tok[n].user] # None
            /\ tok[n].ev => accountMap[tok[n].user].verified
            /\ tok[n].mfa => \E t \in {"twoFactor", "twoFactorEnable"} :
                                <<t, tok[n].user>> \in accepted
            /\ tok[n].acc \/ tok[n].ref => <<"twoFactorEnable", tok[n].user>> \in accepted
    BY DEF ClaimsTrue, Contract!ClaimsTrue, grantedMap
  <2>1. /\ tok[n].user \in Emails /\ users[tok[n].user] # None
        /\ tok[n].ev => users[tok[n].user].verified
        /\ tok[n].mfa => Passed(tok[n].user)
        /\ tok[n].acc \/ tok[n].ref => <<"twoFactorEnable", tok[n].user>> \in accepted
    BY DEF IInv, TokensOK, Claims
  <2>2. accountMap[tok[n].user] = AccountOf(users[tok[n].user]) /\ accountMap[tok[n].user] # None
    BY <2>1, MapOK
  <2>3. accountMap[tok[n].user].verified = users[tok[n].user].verified
    BY <2>2 DEF AccountOf
  <2> QED BY <2>1, <2>2, <2>3 DEF Passed
<1> QED BY <1>1, Invariance, PTL

(***************************************************************************)
(* So are the privileges in rows.                                          *)
(***************************************************************************)
THEOREM BackedCorrect == Spec => []Backed
<1>1. IInv => Backed
  <2> SUFFICES ASSUME IInv PROVE Backed
    OBVIOUS
  <2>1. ASSUME NEW e \in Emails, accountMap[e] # None
        PROVE  /\ accountMap[e].verified
                    => accountMap[e].provider = "facebook" \/ <<"email", e>> \in accepted
               /\ accountMap[e].tfa => <<"twoFactorEnable", e>> \in accepted
               /\ accountMap[e].reset
                    => accountMap[e].provider = "local" /\ <<"password", e>> \in accepted
    <3>1. users[e] # None /\ accountMap[e] = AccountOf(users[e])
      BY <2>1, MapOK
    <3>2. <<"password", e>> \in accepted => users[e].provider = "local"
      BY DEF IInv, CodesOK, CodeTypes
    <3> QED BY <3>1, <3>2 DEF AccountOf, IInv, RowsOK
  <2>2. accepted \subseteq sent
    BY DEF IInv, CodesOK
  <2> QED BY <2>1, <2>2 DEF Backed, Contract!Backed
<1> QED BY <1>1, Invariance, PTL

\* A row that is there was changed to another one.
LEMMA MapChanged ==
    ASSUME IInv, IInv', NEW u \in Emails, NEW row \in Row,
           users' = [users EXCEPT ![u] = row]
    PROVE  accountMap' = [accountMap EXCEPT ![u] = AccountOf(row)]
<1>1. users'[u] = row /\ row # None /\ \A e \in Emails : e # u => users'[e] = users[e]
  BY NoneAssumption DEF IInv, TypeOK
<1> QED BY <1>1 DEF accountMap, AccountOf

\* What the contract does not see.
LEMMA Unseen ==
    ASSUME UNCHANGED <<users, tok, signed, sent, accepted>>
    PROVE  UNCHANGED Contract!vars
  BY DEF Contract!vars, accountMap, grantedMap

LEMMA SaveCodeContract ==
    ASSUME IInv, IInv', NEW r \in Requests, SaveCode(r)
    PROVE  Contract!Next
<1>1. req[r] # None /\ req[r].at = "code" /\ RequestOK(r)
  BY DEF SaveCode, IInv
<1>2. User(r) \in Emails /\ CodeOf(r) \in CodeTypes
  BY <1>1, UserTyped DEF IInv
<1>3. users[User(r)] # None /\ (CodeOf(r) = "password" => users[User(r)].provider = "local")
  BY <1>1 DEF RequestOK, Route, Knows, CodeOf
<1>4. UNCHANGED <<accountMap, accepted, grantedMap>>
  BY DEF SaveCode, accountMap, grantedMap
<1>5. /\ accountMap[User(r)] # None
      /\ accountMap[User(r)].provider = users[User(r)].provider
  <2>1. accountMap[User(r)] # None /\ accountMap[User(r)] = AccountOf(users[User(r)])
    BY <1>2, <1>3, MapOK
  <2> QED BY <2>1 DEF AccountOf
<1>6. CodeOf(r) = "password" => accountMap[User(r)].provider = "local"
  BY <1>3, <1>5
<1>7. sent' = sent \union {<<CodeOf(r), User(r)>>}
  BY DEF SaveCode
<1>8. Contract!Send(CodeOf(r), User(r))
  BY <1>4, <1>5, <1>6, <1>7 DEF Contract!Send
<1> QED BY <1>2, <1>8 DEF Contract!Next, Contract!CodeTypes, CodeTypes

LEMMA DelCodeContract ==
    ASSUME IInv, NEW r \in Requests, DelCode(r)
    PROVE  Contract!Next
<1>1. req[r] # None /\ req[r].at = "del" /\ RequestOK(r)
  BY DEF DelCode, IInv
<1>2. User(r) \in Emails /\ CodeOf(r) \in CodeTypes /\ <<CodeOf(r), User(r)>> \in sent
  BY <1>1, UserTyped DEF IInv, RequestOK, Permitted
<1>3. UNCHANGED <<accountMap, sent, grantedMap>>
  BY DEF DelCode, accountMap, grantedMap
<1>4. Contract!Permit(CodeOf(r), User(r))
  BY <1>2, <1>3 DEF DelCode, Contract!Permit
<1> QED BY <1>2, <1>4 DEF Contract!Next, Contract!CodeTypes, CodeTypes

LEMMA SignContract ==
    ASSUME IInv, IInv', NEW r \in Requests, Sign(r)
    PROVE  Contract!Next
<1>1. req[r] # None /\ req[r].at = "sign" /\ RequestOK(r)
  BY DEF Sign, IInv
<1>2. req[r] \in Request /\ User(r) \in Emails
  BY <1>1, UserTyped DEF IInv
<1>3. /\ users[User(r)] # None
      /\ req[r].ev => users[User(r)].verified
      /\ req[r].mfa => Passed(User(r))
  BY <1>1 DEF RequestOK, Knows, Permitted, Minting
<1>4. signed \in Nat /\ signed' = signed + 1 /\ signed + 1 \in Pairs /\ 1..signed \subseteq Pairs
  BY PairsAssumption DEF Sign, IInv, TypeOK, Pairs
<1>5. /\ req[r].acc \in BOOLEAN /\ req[r].ref \in BOOLEAN
      /\ req[r].acc \/ req[r].ref => <<"twoFactorEnable", User(r)>> \in accepted
  BY <1>1, <1>2 DEF Sign, Request, MaybeFlag, RequestOK, Permitted
<1> DEFINE c == [user |-> User(r), ev |-> req[r].ev, mfa |-> req[r].mfa,
                 acc |-> req[r].acc, ref |-> req[r].ref]
<1>6. c \in Contract!Claims
  BY <1>2, <1>5 DEF Request, Contract!Claims
<1>7. tok' = [tok EXCEPT ![signed + 1] = c]
  BY DEF Sign
<1>8. /\ c.user = User(r) /\ c.ev = req[r].ev /\ c.mfa = req[r].mfa
      /\ c.acc = req[r].acc /\ c.ref = req[r].ref
  OBVIOUS
<1> HIDE DEF c
<1>9. tok'[signed + 1] = c /\ \A n \in 1..signed : tok'[n] = tok[n]
  BY <1>4, <1>7 DEF IInv, TypeOK
<1>10. 1..signed' = 1..signed \union {signed + 1}
  BY <1>4
<1>11. grantedMap' = {tok'[n] : n \in 1..signed'} /\ grantedMap = {tok[n] : n \in 1..signed}
  BY DEF grantedMap
<1>12. grantedMap' = grantedMap \union {c}
  BY <1>9, <1>10, <1>11
<1>13. UNCHANGED <<accountMap, sent, accepted>>
  BY DEF Sign, ghosts, accountMap
<1>14. accountMap[User(r)] = AccountOf(users[User(r)]) /\ accountMap[User(r)] # None
  BY <1>2, <1>3, MapOK
<1>15. Contract!Grant(c)
  BY <1>3, <1>5, <1>8, <1>12, <1>13, <1>14 DEF Contract!Grant, AccountOf, Passed
<1> QED BY <1>6, <1>15 DEF Contract!Next

LEMMA CreateContract ==
    ASSUME IInv, IInv', NEW r \in Requests, Create(r), ~UNCHANGED users
    PROVE  Contract!Next
<1>1. req[r] # None /\ req[r].at = "create"
  BY DEF Create
<1>2. User(r) \in Emails
  BY <1>1, UserTyped DEF IInv
<1> DEFINE p == ProviderOf(req[r].op)
<1>3. users[User(r)] = None /\ users' = [users EXCEPT ![User(r)] = NewRow(p)]
  BY DEF Create
<1>4. p \in Providers /\ NewRow(p) \in Row
  BY PairsAssumption DEF ProviderOf, Providers, NewRow, Row
<1>5. AccountOf(NewRow(p)) = Contract!NewAccount(p)
  BY DEF AccountOf, NewRow, Contract!NewAccount
<1>6. accountMap' = [accountMap EXCEPT ![User(r)] = Contract!NewAccount(p)]
  BY <1>2, <1>3, <1>4, <1>5, MapChanged
<1>7. accountMap[User(r)] = None
  BY <1>2, <1>3, MapOK
<1>8. UNCHANGED <<sent, accepted, grantedMap>>
  BY DEF Create, ghosts, grantedMap
<1>9. Contract!Create(User(r), p)
  BY <1>6, <1>7, <1>8 DEF Contract!Create
<1> QED BY <1>2, <1>4, <1>9 DEF Contract!Next, Contract!Providers, Providers

\* A row that was changed in one respect is changed so for the contract.
LEMMA ChangeContract ==
    ASSUME IInv, IInv', NEW r \in Requests, req[r] # None, users[User(r)] # None,
           NEW row \in Row, users' = [users EXCEPT ![User(r)] = row],
           UNCHANGED <<tok, signed, sent, accepted>>
    PROVE  /\ User(r) \in Emails /\ users[User(r)] \in Row
           /\ accountMap[User(r)] = AccountOf(users[User(r)])
           /\ Contract!Change(User(r), AccountOf(row))
<1>1. User(r) \in Emails
  BY UserTyped DEF IInv
<1>2. users[User(r)] \in Row
  BY <1>1 DEF IInv, TypeOK
<1>3. accountMap[User(r)] # None /\ accountMap[User(r)] = AccountOf(users[User(r)])
  BY <1>1, MapOK
<1>4. accountMap' = [accountMap EXCEPT ![User(r)] = AccountOf(row)]
  BY <1>1, MapChanged
<1>5. UNCHANGED <<sent, accepted, grantedMap>>
  BY DEF grantedMap
<1> QED BY <1>1, <1>2, <1>3, <1>4, <1>5 DEF Contract!Change

LEMMA StoreRefreshContract ==
    ASSUME IInv, IInv', NEW r \in Requests, StoreRefresh(r)
    PROVE  UNCHANGED Contract!vars
<1>1. req[r] # None /\ req[r].at = "store" /\ RequestOK(r)
  BY DEF StoreRefresh, IInv
<1>2. req[r] \in Request /\ User(r) \in Emails /\ users[User(r)] # None
  BY <1>1, UserTyped DEF IInv, RequestOK, Knows
<1>3. users[User(r)] \in Row /\ req[r].pair \in 0..MaxPairs
  BY <1>2 DEF IInv, TypeOK, Request
<1> DEFINE row == [users[User(r)] EXCEPT !.refresh = req[r].pair]
<1>4. row \in Row
  BY <1>3 DEF Row
<1>5. AccountOf(row) = AccountOf(users[User(r)])
  BY <1>3 DEF AccountOf, Row
<1>6. users' = [users EXCEPT ![User(r)] = row]
  BY DEF StoreRefresh, IInv, TypeOK
<1> HIDE DEF row
<1>7. accountMap' = [accountMap EXCEPT ![User(r)] = AccountOf(users[User(r)])]
  BY <1>2, <1>4, <1>5, <1>6, MapChanged
<1>8. accountMap[User(r)] = AccountOf(users[User(r)])
  BY <1>2, MapOK
<1>9. accountMap' = accountMap
  BY <1>2, <1>7, <1>8 DEF accountMap
<1> QED BY <1>9 DEF StoreRefresh, grantedMap, Contract!vars

LEMMA EmailUpdateContract ==
    ASSUME IInv, IInv', NEW r \in Requests, EmailUpdate(r)
    PROVE  Contract!Next
<1>1. req[r] # None /\ req[r].op = "verifyEmail" /\ req[r].at = "update" /\ RequestOK(r)
  BY DEF EmailUpdate, At, IInv
<1>2. /\ users[User(r)] # None /\ Permitted(r)
      /\ User(r) \in Emails /\ users[User(r)] \in Row
  <2>1. users[User(r)] # None /\ Permitted(r)
    BY <1>1 DEF RequestOK, Knows
  <2>2. User(r) \in Emails
    BY <1>1, UserTyped DEF IInv
  <2> QED BY <2>1, <2>2 DEF IInv, TypeOK
<1> DEFINE row == [users[User(r)] EXCEPT !.verified = TRUE]
<1>3. row \in Row /\ AccountOf(row) = [AccountOf(users[User(r)]) EXCEPT !.verified = TRUE]
  <2> DEFINE a == AccountOf(users[User(r)])
             b == AccountOf(row)
  <2>1. row \in Row /\ row.verified = TRUE
        /\ row.provider = users[User(r)].provider /\ row.tfa = users[User(r)].tfa /\ row.reset = users[User(r)].reset
    BY <1>2 DEF Row
  <2> HIDE DEF row
  <2>2. a \in Contract!Account /\ b \in Contract!Account
    BY <1>2, <2>1 DEF AccountOf, Row, Contract!Account, Contract!Providers, Providers
  <2>3. b.verified = TRUE /\ b.provider = a.provider /\ b.tfa = a.tfa /\ b.reset = a.reset
    BY <2>1 DEF AccountOf
  <2> HIDE DEF a, b
  <2>4. b = [a EXCEPT !.verified = TRUE]
    BY <2>2, <2>3 DEF Contract!Account
  <2> QED BY <2>1, <2>4 DEF a, b
<1>4. users' = [users EXCEPT ![User(r)] = row] /\ UNCHANGED <<tok, signed, sent, accepted>>
  BY DEF EmailUpdate, ghosts, IInv, TypeOK
<1> HIDE DEF row
<1>5. /\ accountMap[User(r)] = AccountOf(users[User(r)])
      /\ Contract!Change(User(r), AccountOf(row))
  BY <1>1, <1>2, <1>3, <1>4, ChangeContract
<1>6. <<"email", User(r)>> \in accepted
  BY <1>1, <1>2 DEF Permitted
<1>7. Contract!Verify(User(r))
  BY <1>3, <1>5, <1>6 DEF Contract!Verify
<1> QED BY <1>2, <1>7 DEF Contract!Next

LEMMA ConfirmUpdateContract ==
    ASSUME IInv, IInv', NEW r \in Requests, ConfirmUpdate(r)
    PROVE  Contract!Next
<1>1. req[r] # None /\ req[r].op = "confirm2FA" /\ req[r].at = "update" /\ RequestOK(r)
  BY DEF ConfirmUpdate, At, IInv
<1>2. /\ users[User(r)] # None /\ Permitted(r)
      /\ User(r) \in Emails /\ users[User(r)] \in Row
  <2>1. users[User(r)] # None /\ Permitted(r)
    BY <1>1 DEF RequestOK, Knows
  <2>2. User(r) \in Emails
    BY <1>1, UserTyped DEF IInv
  <2> QED BY <2>1, <2>2 DEF IInv, TypeOK
<1> DEFINE row == [users[User(r)] EXCEPT !.tfa = TRUE]
<1>3. row \in Row /\ AccountOf(row) = [AccountOf(users[User(r)]) EXCEPT !.tfa = TRUE]
  <2> DEFINE a == AccountOf(users[User(r)])
             b == AccountOf(row)
  <2>1. row \in Row /\ row.tfa = TRUE
        /\ row.provider = users[User(r)].provider /\ row.verified = users[User(r)].verified /\ row.reset = users[User(r)].reset
    BY <1>2 DEF Row
  <2> HIDE DEF row
  <2>2. a \in Contract!Account /\ b \in Contract!Account
    BY <1>2, <2>1 DEF AccountOf, Row, Contract!Account, Contract!Providers, Providers
  <2>3. b.tfa = TRUE /\ b.provider = a.provider /\ b.verified = a.verified /\ b.reset = a.reset
    BY <2>1 DEF AccountOf
  <2> HIDE DEF a, b
  <2>4. b = [a EXCEPT !.tfa = TRUE]
    BY <2>2, <2>3 DEF Contract!Account
  <2> QED BY <2>1, <2>4 DEF a, b
<1>4. users' = [users EXCEPT ![User(r)] = row] /\ UNCHANGED <<tok, signed, sent, accepted>>
  BY DEF ConfirmUpdate, ghosts, IInv, TypeOK
<1> HIDE DEF row
<1>5. /\ accountMap[User(r)] = AccountOf(users[User(r)])
      /\ Contract!Change(User(r), AccountOf(row))
  BY <1>1, <1>2, <1>3, <1>4, ChangeContract
<1>6. <<"twoFactorEnable", User(r)>> \in accepted
  BY <1>1, <1>2 DEF Permitted
<1>7. Contract!Enable(User(r))
  BY <1>3, <1>5, <1>6 DEF Contract!Enable
<1> QED BY <1>2, <1>7 DEF Contract!Next

LEMMA DisableUpdateContract ==
    ASSUME IInv, IInv', NEW r \in Requests, DisableUpdate(r)
    PROVE  Contract!Next
<1>1. req[r] # None /\ req[r].op = "disable2FA" /\ req[r].at = "update" /\ RequestOK(r)
  BY DEF DisableUpdate, At, IInv
<1>2. /\ users[User(r)] # None /\ Permitted(r)
      /\ User(r) \in Emails /\ users[User(r)] \in Row
  <2>1. users[User(r)] # None /\ Permitted(r)
    BY <1>1 DEF RequestOK, Knows
  <2>2. User(r) \in Emails
    BY <1>1, UserTyped DEF IInv
  <2> QED BY <2>1, <2>2 DEF IInv, TypeOK
<1> DEFINE row == [users[User(r)] EXCEPT !.tfa = FALSE]
<1>3. row \in Row /\ AccountOf(row) = [AccountOf(users[User(r)]) EXCEPT !.tfa = FALSE]
  <2> DEFINE a == AccountOf(users[User(r)])
             b == AccountOf(row)
  <2>1. row \in Row /\ row.tfa = FALSE
        /\ row.provider = users[User(r)].provider /\ row.verified = users[User(r)].verified /\ row.reset = users[User(r)].reset
    BY <1>2 DEF Row
  <2> HIDE DEF row
  <2>2. a \in Contract!Account /\ b \in Contract!Account
    BY <1>2, <2>1 DEF AccountOf, Row, Contract!Account, Contract!Providers, Providers
  <2>3. b.tfa = FALSE /\ b.provider = a.provider /\ b.verified = a.verified /\ b.reset = a.reset
    BY <2>1 DEF AccountOf
  <2> HIDE DEF a, b
  <2>4. b = [a EXCEPT !.tfa = FALSE]
    BY <2>2, <2>3 DEF Contract!Account
  <2> QED BY <2>1, <2>4 DEF a, b
<1>4. users' = [users EXCEPT ![User(r)] = row] /\ UNCHANGED <<tok, signed, sent, accepted>>
  BY DEF DisableUpdate, ghosts, IInv, TypeOK
<1> HIDE DEF row
<1>5. /\ accountMap[User(r)] = AccountOf(users[User(r)])
      /\ Contract!Change(User(r), AccountOf(row))
  BY <1>1, <1>2, <1>3, <1>4, ChangeContract
<1>7. Contract!Disable(User(r))
  BY <1>3, <1>5 DEF Contract!Disable
<1> QED BY <1>2, <1>7 DEF Contract!Next

LEMMA PasswordUpdateContract ==
    ASSUME IInv, IInv', NEW r \in Requests, PasswordUpdate(r)
    PROVE  Contract!Next
<1>1. req[r] # None /\ req[r].op = "completeReset" /\ req[r].at = "update" /\ RequestOK(r)
  BY DEF PasswordUpdate, At, IInv
<1>2. /\ users[User(r)] # None /\ Permitted(r)
      /\ User(r) \in Emails /\ users[User(r)] \in Row
  <2>1. users[User(r)] # None /\ Permitted(r)
    BY <1>1 DEF RequestOK, Knows
  <2>2. User(r) \in Emails
    BY <1>1, UserTyped DEF IInv
  <2> QED BY <2>1, <2>2 DEF IInv, TypeOK
<1> DEFINE row == [users[User(r)] EXCEPT !.reset = TRUE]
<1>3. row \in Row /\ AccountOf(row) = [AccountOf(users[User(r)]) EXCEPT !.reset = TRUE]
  <2> DEFINE a == AccountOf(users[User(r)])
             b == AccountOf(row)
  <2>1. row \in Row /\ row.reset = TRUE
        /\ row.provider = users[User(r)].provider /\ row.verified = users[User(r)].verified /\ row.tfa = users[User(r)].tfa
    BY <1>2 DEF Row
  <2> HIDE DEF row
  <2>2. a \in Contract!Account /\ b \in Contract!Account
    BY <1>2, <2>1 DEF AccountOf, Row, Contract!Account, Contract!Providers, Providers
  <2>3. b.reset = TRUE /\ b.provider = a.provider /\ b.verified = a.verified /\ b.tfa = a.tfa
    BY <2>1 DEF AccountOf
  <2> HIDE DEF a, b
  <2>4. b = [a EXCEPT !.reset = TRUE]
    BY <2>2, <2>3 DEF Contract!Account
  <2> QED BY <2>1, <2>4 DEF a, b
<1>4. users' = [users EXCEPT ![User(r)] = row] /\ UNCHANGED <<tok, signed, sent, accepted>>
  BY DEF PasswordUpdate, ghosts, IInv, TypeOK
<1> HIDE DEF row
<1>5. /\ accountMap[User(r)] = AccountOf(users[User(r)])
      /\ Contract!Change(User(r), AccountOf(row))
  BY <1>1, <1>2, <1>3, <1>4, ChangeContract
<1>6. <<"password", User(r)>> \in accepted
  BY <1>1, <1>2 DEF Permitted
<1>7. Contract!ChangePassword(User(r))
  BY <1>3, <1>5, <1>6 DEF Contract!ChangePassword
<1> QED BY <1>2, <1>7 DEF Contract!Next

(***************************************************************************)
(* Every step keeps the promise of AccountContract or is not seen by it.   *)
(***************************************************************************)
LEMMA StepContract == IInv /\ IInv' /\ [Next]_vars => [Contract!Next]_(Contract!vars)
<1> SUFFICES ASSUME IInv, IInv', [Next]_vars
    PROVE Contract!Next \/ UNCHANGED Contract!vars
  OBVIOUS
<1>1. ASSUME NEW r \in Requests, Step(r)
      PROVE  Contract!Next \/ UNCHANGED Contract!vars
  <2>2. CASE \/ GetCode(r) \/ ReadForToken(r) \/ Reply(r) \/ SignUpFind(r) \/ FacebookFind(r)
             \/ LoginFind(r) \/ Validate(r) \/ EmailRead(r) \/ ResendRead(r) \/ ResetFind(r)
             \/ VerifyRead(r) \/ EnableRead(r) \/ ConfirmRead(r) \/ DisableRead(r)
             \/ DisableCheck(r) \/ RoleUpdate(r)
    <3>1. UNCHANGED <<users, tok, signed, sent, accepted>>
      BY <2>2 DEF ghosts, GetCode, ReadForToken, Reply, SignUpFind, FacebookFind, LoginFind,
                  Validate, EmailRead, ResendRead, ResetFind, VerifyRead, EnableRead,
                  ConfirmRead, DisableRead, DisableCheck, RoleUpdate
    <3> QED BY <3>1, Unseen
  <2>3. CASE Create(r)
    <3>1. UNCHANGED users => UNCHANGED <<users, tok, signed, sent, accepted>>
      BY <2>3 DEF Create, ghosts
    <3> QED BY <2>3, <3>1, CreateContract, Unseen
  <2> QED BY <1>1, <2>2, <2>3, SaveCodeContract, DelCodeContract, SignContract,
             StoreRefreshContract, EmailUpdateContract, ConfirmUpdateContract,
             DisableUpdateContract, PasswordUpdateContract DEF Step
<1>2. ASSUME NEW r \in Requests, Start(r) \/ Fail(r)
      PROVE  Contract!Next \/ UNCHANGED Contract!vars
  <2>1. UNCHANGED <<users, tok, signed, sent, accepted>>
    BY <1>2 DEF Start, Guarded, Begin, Fail, ghosts
  <2> QED BY <2>1, Unseen
<1>3. CASE Expire \/ UNCHANGED vars
  <2>1. UNCHANGED <<users, tok, signed, sent, accepted>>
    BY <1>3 DEF Expire, vars, ghosts
  <2> QED BY <2>1, Unseen
<1> QED BY <1>1, <1>2, <1>3 DEF Next

LEMMA InitContract == Init => Contract!Init
<1> SUFFICES ASSUME Init PROVE Contract!Init
  OBVIOUS
<1>1. IInv
  BY InitInv
<1>2. ASSUME NEW e \in Emails
      PROVE  accountMap[e] \in {None} \union {Contract!NewAccount(p) : p \in Contract!Providers}
  <2>1. CASE Known[e] = None
    BY <2>1, <1>1, MapOK DEF Init
  <2>2. CASE Known[e] # None
    <3>1. Known[e] \in Providers /\ users[e] = NewRow(Known[e])
      BY <2>2, KnownAssumption DEF Init
    <3>2. users[e] # None
      <4>1. users[e] \in Row
        BY <3>1, PairsAssumption DEF NewRow, Row
      <4> QED BY <4>1, NoneAssumption
    <3>3. accountMap[e] = AccountOf(NewRow(Known[e]))
      BY <1>1, <3>1, <3>2, MapOK
    <3>4. AccountOf(NewRow(Known[e])) = Contract!NewAccount(Known[e])
      BY DEF AccountOf, NewRow, Contract!NewAccount
    <3> QED BY <3>1, <3>3, <3>4 DEF Providers, Contract!Providers
  <2> QED BY <2>1, <2>2
<1>3. accountMap \in [Emails -> {None} \union {Contract!NewAccount(p) : p \in Contract!Providers}]
  <2>1. accountMap = [e \in Emails |-> accountMap[e]]
    BY DEF accountMap
  <2> QED BY <1>2, <2>1
<1>4. sent = {} /\ accepted = {} /\ grantedMap = {}
  BY DEF Init, grantedMap
<1> QED BY <1>3, <1>4 DEF Contract!Init

(***************************************************************************)
(* The requests of AuthController together implement AccountContract.      *)
(***************************************************************************)
THEOREM Implements == Spec => ContractSpec
<1>1. Init => Contract!Init
  BY InitContract
<1>2. IInv /\ IInv' /\ [Next]_vars => [Contract!Next]_(Contract!vars)
  BY StepContract
<1> QED BY <1>1, <1>2, Invariance, PTL DEF Spec, ContractSpec, Contract!Spec
=============================================================================
