-------------------------- MODULE AuthRequests_proofs --------------------------
(***************************************************************************)
(* Proofs about what becomes of the requests of AuthSessions.  The refresh *)
(* tokens they leave: which pair an account accepts, who holds it, and     *)
(* that none comes back after it was replaced.  And that they end: which   *)
(* step a request can take, how many are left to it, and that a request    *)
(* which is served is answered or fails.                                   *)
(***************************************************************************)
EXTENDS AuthSessions_proofs, FiniteSetTheorems

\* A pair that is about to be stored has not been, and is one request's own.
Unstored ==
    \A r \in Requests : req[r] # None /\ req[r].at = "store" =>
        /\ req[r].pair \notin stored
        /\ \A q \in Requests : q # r /\ req[q] # None /\ req[q].at = "store"
                => req[q].pair # req[r].pair

\* Nobody comes to store a pair.
StoringKept == \A q \in Requests : req'[q] # None /\ req'[q].at = "store" => req'[q] = req[q]

\* Who has a pair keeps it, unless the request is over.
HoldersKept ==
    \A q \in Requests : req[q] # None /\ req[q].pair # 0 =>
        \/ req[q].pair \in delivered' \union lost'
        \/ req'[q] # None /\ req'[q].pair = req[q].pair

\* No row gets another refresh token.
RowsKept ==
    \A e \in Emails :
        /\ users[e] # None => users'[e].refresh = users[e].refresh
        /\ users[e] = None /\ users'[e] # None => users'[e].refresh = 0

-----------------------------------------------------------------------------
(* What steps do to those who hold a pair *)

\* Request r goes on to another point than that of storing.
LEMMA Elsewhere ==
    ASSUME IInv, NEW r \in Requests, req[r] # None,
           \/ Done(r)
           \/ \E at \in Points \ {"store"} : Go(r, at)
           \/ \E ev, mfa : GoSign(r, ev, mfa)
           \/ \E at \in Points \ {"store"} : \E ev : req' = [req EXCEPT ![r].at = at, ![r].ev = ev]
           \/ \E b : req[r].at # "store" /\ req' = [req EXCEPT ![r].acc = b]
           \/ \E b : req[r].at # "store" /\ req' = [req EXCEPT ![r].ref = b]
    PROVE  /\ \A q \in Requests : q # r => req'[q] = req[q]
           /\ req'[r] = None \/ req'[r].at # "store"
<1>0. req \in [Requests -> Request \union {None}] /\ req[r] \in Request
  BY DEF IInv, TypeOK
<1>1. CASE Done(r)
  BY <1>0, <1>1 DEF Done
<1>2. ASSUME NEW at \in Points \ {"store"}, Go(r, at)
      PROVE  (\A q \in Requests : q # r => req'[q] = req[q]) /\ req'[r].at # "store"
  BY <1>0, <1>2 DEF Go, Request
<1>3. ASSUME NEW ev, NEW mfa, GoSign(r, ev, mfa)
      PROVE  (\A q \in Requests : q # r => req'[q] = req[q]) /\ req'[r].at # "store"
  BY <1>0, <1>3 DEF GoSign, Request
<1>4. ASSUME NEW at \in Points \ {"store"}, NEW ev,
             req' = [req EXCEPT ![r].at = at, ![r].ev = ev]
      PROVE  (\A q \in Requests : q # r => req'[q] = req[q]) /\ req'[r].at # "store"
  BY <1>0, <1>4 DEF Request
<1>5. ASSUME NEW b, req[r].at # "store", req' = [req EXCEPT ![r].acc = b]
      PROVE  (\A q \in Requests : q # r => req'[q] = req[q]) /\ req'[r].at # "store"
  BY <1>0, <1>5 DEF Request
<1>6. ASSUME NEW b, req[r].at # "store", req' = [req EXCEPT ![r].ref = b]
      PROVE  (\A q \in Requests : q # r => req'[q] = req[q]) /\ req'[r].at # "store"
  BY <1>0, <1>6 DEF Request
<1> QED BY <1>1, <1>2, <1>3, <1>4, <1>5, <1>6

(***************************************************************************)
(* Requests without a pair of tokens do nothing to those who have one.     *)
(***************************************************************************)
LEMMA PairlessKeeps ==
    ASSUME IInv, NEW r \in Requests,
           \/ GetCode(r) \/ DelCode(r) \/ ReadForToken(r)
           \/ SignUpFind(r) \/ FacebookFind(r) \/ Create(r) \/ LoginFind(r) \/ Validate(r)
           \/ EmailRead(r) \/ EmailUpdate(r) \/ ResendRead(r) \/ ResetFind(r)
           \/ PasswordUpdate(r) \/ VerifyRead(r) \/ EnableRead(r) \/ ConfirmRead(r)
           \/ ConfirmUpdate(r) \/ DisableRead(r) \/ DisableCheck(r) \/ DisableUpdate(r)
           \/ RoleUpdate(r)
    PROVE  StoringKept /\ HoldersKept /\ UNCHANGED <<signed, tok, delivered, stored, lost>>
<1>1. /\ req[r] # None
      /\ req[r].at \in {"get", "del", "sign", "find", "create", "guard", "again", "read",
                        "check", "update"}
      /\ UNCHANGED <<signed, tok, delivered, stored, lost>>
  BY DEF At, ghosts, GetCode, DelCode, ReadForToken, SignUpFind, FacebookFind, Create,
         LoginFind, Validate, EmailRead, EmailUpdate, ResendRead, ResetFind, PasswordUpdate,
         VerifyRead, EnableRead, ConfirmRead, ConfirmUpdate, DisableRead, DisableCheck,
         DisableUpdate, RoleUpdate
<1>2. req[r].pair = 0 /\ Route(r)
  BY <1>1 DEF IInv, RequestOK, Route
<1>3. CASE \/ SignUpFind(r) \/ FacebookFind(r) \/ Create(r) \/ Validate(r) \/ EmailRead(r)
           \/ EmailUpdate(r) \/ ResendRead(r) \/ ResetFind(r) \/ PasswordUpdate(r)
           \/ VerifyRead(r) \/ EnableRead(r) \/ ConfirmUpdate(r) \/ DisableCheck(r)
           \/ DisableUpdate(r) \/ RoleUpdate(r) \/ GetCode(r)
  <2>1. \/ Done(r)
        \/ \E at \in {"create", "again", "update", "code", "reply", "del"} : Go(r, at)
        \/ \E ev, mfa : GoSign(r, ev, mfa)
    BY <1>3 DEF SignUpFind, FacebookFind, Create, Validate, EmailRead, EmailUpdate,
         ResendRead, ResetFind, PasswordUpdate, VerifyRead, EnableRead, ConfirmUpdate,
         DisableCheck, DisableUpdate, RoleUpdate, GetCode
  <2>2. \/ Done(r)
        \/ \E at \in Points \ {"store"} : Go(r, at)
        \/ \E ev, mfa : GoSign(r, ev, mfa)
    BY <2>1 DEF Points
  <2> QED BY <1>1, <1>2, <2>2, Elsewhere DEF StoringKept, HoldersKept
<1>4. CASE DelCode(r)
  <2>1. \E at \in Points \ {"store"} : Go(r, at)
    BY <1>2, <1>4 DEF DelCode, AfterDel, Route, Points
  <2> QED BY <1>1, <1>2, <2>1, Elsewhere DEF StoringKept, HoldersKept
<1>5. CASE LoginFind(r) \/ ConfirmRead(r) \/ DisableRead(r)
  <2>1. Done(r) \/ \E at \in Points \ {"store"} : \E ev : req' = [req EXCEPT ![r].at = at, ![r].ev = ev]
    BY <1>5 DEF LoginFind, ConfirmRead, DisableRead, Points
  <2> QED BY <1>1, <1>2, <2>1, Elsewhere DEF StoringKept, HoldersKept
<1>6. CASE ReadForToken(r)
  <2>1. \/ \E b : req[r].at # "store" /\ req' = [req EXCEPT ![r].acc = b]
        \/ \E b : req[r].at # "store" /\ req' = [req EXCEPT ![r].ref = b]
    BY <1>6 DEF ReadForToken
  <2> QED BY <1>1, <1>2, <2>1, Elsewhere DEF StoringKept, HoldersKept
<1> QED BY <1>1, <1>3, <1>4, <1>5, <1>6

LEMMA BeginKeeps ==
    ASSUME IInv, NEW r \in Requests, NEW op, NEW e, NEW at, NEW n, at # "store",
           Begin(r, op, e, at, n)
    PROVE  StoringKept /\ HoldersKept
<1>1. req \in [Requests -> Request \union {None}] /\ req[r] = None
  BY DEF IInv, TypeOK, Begin
<1>2. \A q \in Requests : q # r => req'[q] = req[q]
  BY <1>1 DEF Begin
<1>3. req'[r].at = at
  BY <1>1 DEF Begin
<1> QED BY <1>1, <1>2, <1>3 DEF StoringKept, HoldersKept

LEMMA StartKeeps ==
    ASSUME IInv, NEW r \in Requests, Start(r)
    PROVE  StoringKept /\ HoldersKept
<1>1. \E op, e, n : \E at \in {"find", "get", "update", "guard", "read", "code"} :
            Begin(r, op, e, at, n)
  BY DEF Start, Guarded
<1> QED BY <1>1, BeginKeeps

LEMMA SaveCodeKeeps ==
    ASSUME IInv, NEW r \in Requests, SaveCode(r)
    PROVE  StoringKept /\ HoldersKept
<1>1. req[r] # None /\ \E at \in {"sign", "reply"} : Go(r, at)
  BY DEF SaveCode
<1>2. PICK at \in {"sign", "reply"} : Go(r, at)
  BY <1>1
<1>3. at \in Points
  BY DEF Points
<1>4. Becomes(r, [req[r] EXCEPT !.at = at]) /\ req'[r].at = at /\ Keeps(r)
      /\ req'[r] \in Request
  BY <1>1, <1>2, <1>3, GoOK DEF IInv
<1>5. req'[r] # None
  BY <1>4, NoneAssumption
<1> QED BY <1>4, <1>5 DEF Becomes, Keeps, StoringKept, HoldersKept

\* A request that is over leaves its pair with the client or lost.
LEMMA OverKeeps ==
    ASSUME IInv, NEW r \in Requests, Reply(r) \/ Fail(r)
    PROVE  StoringKept /\ HoldersKept
<1>1. req[r] # None /\ Done(r) /\ (req[r].pair # 0 => req[r].pair \in delivered' \union lost')
  BY DEF Reply, Fail
<1>2. Becomes(r, None)
  BY <1>1, DoneOK DEF IInv
<1> QED BY <1>1, <1>2 DEF Becomes, StoringKept, HoldersKept

-----------------------------------------------------------------------------
(* The steps that sign a pair and that store one *)

LEMMA SignUnstored ==
    ASSUME IInv, Unstored, NEW r \in Requests, Sign(r)
    PROVE  Unstored' /\ HoldersKept
<1>1. req[r] # None /\ req[r].at = "sign" /\ Route(r) /\ signed \in Nat
  BY PairsAssumption DEF Sign, IInv, TypeOK, RequestOK
<1>2. /\ \A q \in Requests : q # r => req'[q] = req[q]
      /\ req'[r].pair = signed + 1
  <2>1. req \in [Requests -> Request \union {None}] /\ req[r] \in Request
    BY <1>1 DEF IInv, TypeOK
  <2> QED BY <2>1 DEF Sign, Request
<1>3. stored \subseteq 1..signed /\ stored' = stored
  BY DEF IInv, TokensOK, Sign, ghosts
<1>4. signed + 1 \notin stored
  BY <1>1, <1>3
<1>5. ASSUME NEW q \in Requests, req[q] # None, req[q].at = "store"
      PROVE  req[q].pair # signed + 1
  <2>1. req[q] \in Request /\ Route(q) /\ Knows(q)
    BY <1>5 DEF IInv, TypeOK, RequestOK
  <2>2. req[q].pair \in Nat /\ req[q].pair <= signed
    BY <1>5, <2>1, PairsAssumption DEF Request, Route, Knows
  <2> QED BY <1>1, <2>2
<1>6. Unstored'
  <2> SUFFICES ASSUME NEW p \in Requests, req'[p] # None, req'[p].at = "store"
      PROVE  /\ req'[p].pair \notin stored
             /\ \A q \in Requests : q # p /\ req'[q] # None /\ req'[q].at = "store"
                    => req'[q].pair # req'[p].pair
    BY <1>3 DEF Unstored
  <2>1. CASE p = r
    BY <1>2, <1>4, <1>5, <2>1
  <2>2. CASE p # r
    BY <1>2, <1>5, <2>2 DEF Unstored
  <2> QED BY <2>1, <2>2
<1>7. req[r].pair = 0
  BY <1>1 DEF Route
<1> QED BY <1>2, <1>6, <1>7 DEF HoldersKept

LEMMA StoreUnstored ==
    ASSUME IInv, IInv', Unstored, LiveRefreshHeld, NEW r \in Requests, StoreRefresh(r)
    PROVE  /\ Unstored'
           /\ LiveRefreshHeld'
           /\ \A e \in Emails : users[e] # None /\ users'[e].refresh # users[e].refresh
                    => users'[e].refresh \notin stored
<1>1. /\ req[r] # None /\ req[r].at = "store" /\ Knows(r)
      /\ User(r) \in Emails /\ users[User(r)] \in Row
  <2>1. req[r] # None /\ req[r].at = "store" /\ RequestOK(r)
    BY DEF StoreRefresh, IInv
  <2>2. User(r) \in Emails
    BY <2>1, UserTyped DEF IInv
  <2>3. users[User(r)] # None
    BY <2>1 DEF RequestOK, Knows
  <2> QED BY <2>1, <2>2, <2>3 DEF IInv, TypeOK, RequestOK
<1>2. \E at \in {"code", "reply"} : Go(r, at)
  BY DEF StoreRefresh
<1>3. PICK at \in {"code", "reply"} : Go(r, at)
  BY <1>2
<1>4. /\ \A q \in Requests : q # r => req'[q] = req[q]
      /\ req'[r] # None /\ req'[r].at = at /\ req'[r].pair = req[r].pair
  <2>1. at \in Points
    BY DEF Points
  <2>2. Becomes(r, [req[r] EXCEPT !.at = at]) /\ req'[r] \in Request
        /\ req'[r].at = at /\ Keeps(r)
    BY <1>1, <1>3, <2>1, GoOK DEF IInv
  <2> QED BY <2>2, NoneAssumption DEF Becomes, Keeps
<1>5. /\ users'[User(r)].refresh = req[r].pair
      /\ \A e \in Emails : e # User(r) => users'[e] = users[e]
      /\ stored' = stored \union {req[r].pair}
      /\ delivered' = delivered /\ lost' = lost
  BY <1>1 DEF StoreRefresh, IInv, TypeOK, Row
<1>6. Unstored'
  BY <1>1, <1>4, <1>5 DEF Unstored
<1>7. ASSUME NEW e \in Emails, users'[e] # None, users'[e].refresh # 0
      PROVE  \/ users'[e].refresh \in delivered' \union lost'
             \/ \E q \in Requests : req'[q] # None /\ req'[q].pair = users'[e].refresh
  <2>1. CASE e = User(r)
    BY <1>4, <1>5, <2>1
  <2>2. CASE e # User(r)
    <3>1. \/ users[e].refresh \in delivered \union lost
          \/ \E q \in Requests : req[q] # None /\ req[q].pair = users[e].refresh
      BY <1>5, <1>7, <2>2 DEF LiveRefreshHeld
    <3> QED BY <1>4, <1>5, <2>2, <3>1
  <2> QED BY <2>1, <2>2
<1>8. LiveRefreshHeld'
  BY <1>7 DEF LiveRefreshHeld, IInv, RowsOK
<1>9. \A e \in Emails : users[e] # None /\ users'[e].refresh # users[e].refresh
            => users'[e].refresh \notin stored
  BY <1>1, <1>5 DEF Unstored
<1> QED BY <1>6, <1>8, <1>9

-----------------------------------------------------------------------------
(* The other steps *)

LEMMA OthersKeepRows ==
    ASSUME IInv, NEW r \in Requests, Start(r) \/ Step(r) \/ Fail(r), ~StoreRefresh(r)
    PROVE  RowsKept
<1>1. CASE UNCHANGED users
  BY <1>1 DEF RowsKept
<1>2. CASE Create(r)
  <2>1. req[r] # None
    BY <1>2 DEF Create
  <2>2. User(r) \in Emails
    BY <2>1, UserTyped DEF IInv
  <2>3. CASE users[User(r)] = None /\ users' = [users EXCEPT ![User(r)] = NewRow(ProviderOf(req[r].op))]
    <3>1. NewRow(ProviderOf(req[r].op)).refresh = 0
      BY DEF NewRow
    <3> QED BY <2>2, <2>3, <3>1 DEF RowsKept, IInv, TypeOK
  <2> QED BY <1>1, <1>2, <2>3 DEF Create
<1>3. CASE EmailUpdate(r) \/ ConfirmUpdate(r) \/ DisableUpdate(r) \/ PasswordUpdate(r)
  <2>1. req[r] # None /\ req[r].at = "update" /\ RequestOK(r)
    BY <1>3 DEF EmailUpdate, ConfirmUpdate, DisableUpdate, PasswordUpdate, At, IInv
  <2>2. User(r) \in Emails /\ users[User(r)] # None
    BY <2>1, UserTyped DEF IInv, RequestOK, Knows
  <2>3. users \in [Emails -> Row \union {None}] /\ users[User(r)] \in Row
    BY <2>2 DEF IInv, TypeOK
  <2>4. \/ users' = [users EXCEPT ![User(r)].verified = TRUE]
        \/ users' = [users EXCEPT ![User(r)].tfa = TRUE]
        \/ users' = [users EXCEPT ![User(r)].tfa = FALSE]
        \/ users' = [users EXCEPT ![User(r)].reset = TRUE]
    BY <1>3 DEF EmailUpdate, ConfirmUpdate, DisableUpdate, PasswordUpdate
  <2>5. users'[User(r)].refresh = users[User(r)].refresh
    BY <2>2, <2>3, <2>4 DEF Row
  <2>6. \A e \in Emails : e # User(r) => users'[e] = users[e]
    BY <2>3, <2>4
  <2> QED BY <2>2, <2>5, <2>6 DEF RowsKept
<1>4. CASE Start(r) \/ Fail(r)
  <2>1. UNCHANGED users
    BY <1>4 DEF Start, Guarded, Begin, Fail
  <2> QED BY <1>1, <2>1
<1>5. CASE \/ GetCode(r) \/ ReadForToken(r) \/ Reply(r) \/ SignUpFind(r) \/ FacebookFind(r)
           \/ LoginFind(r) \/ Validate(r) \/ EmailRead(r) \/ ResendRead(r) \/ ResetFind(r)
           \/ VerifyRead(r) \/ EnableRead(r) \/ ConfirmRead(r) \/ DisableRead(r)
           \/ DisableCheck(r) \/ RoleUpdate(r) \/ SaveCode(r) \/ DelCode(r) \/ Sign(r)
  <2>1. UNCHANGED users
    BY <1>5 DEF GetCode, ReadForToken, Reply, SignUpFind, FacebookFind, LoginFind, Validate,
                EmailRead, ResendRead, ResetFind, VerifyRead, EnableRead, ConfirmRead,
                DisableRead, DisableCheck, RoleUpdate, SaveCode, DelCode, Sign
  <2> QED BY <1>1, <2>1
<1> QED BY <1>2, <1>3, <1>4, <1>5 DEF Step

LEMMA OthersKeepStoring ==
    ASSUME IInv, NEW r \in Requests, Start(r) \/ Step(r) \/ Fail(r), ~StoreRefresh(r), ~Sign(r)
    PROVE  StoringKept /\ HoldersKept /\ stored' = stored
<1>1. CASE Start(r) \/ SaveCode(r) \/ Reply(r) \/ Fail(r)
  <2>1. stored' = stored
    BY <1>1 DEF Start, Guarded, Begin, SaveCode, Reply, Fail, ghosts
  <2> QED BY <1>1, <2>1, StartKeeps, SaveCodeKeeps, OverKeeps
<1> QED BY <1>1, PairlessKeeps DEF Step

\* A step that keeps rows and holders keeps what is held.
LEMMA HeldKept ==
    ASSUME IInv, IInv', LiveRefreshHeld, RowsKept, HoldersKept,
           delivered \subseteq delivered', lost \subseteq lost'
    PROVE  LiveRefreshHeld'
<1>1. ASSUME NEW e \in Emails, users'[e] # None, users'[e].refresh # 0
      PROVE  \/ users'[e].refresh \in delivered' \union lost'
             \/ \E q \in Requests : req'[q] # None /\ req'[q].pair = users'[e].refresh
  <2>1. users[e] # None /\ users'[e].refresh = users[e].refresh
    BY <1>1 DEF RowsKept
  <2>2. \/ users[e].refresh \in delivered \union lost
        \/ \E q \in Requests : req[q] # None /\ req[q].pair = users[e].refresh
    BY <1>1, <2>1 DEF LiveRefreshHeld
  <2> QED BY <1>1, <2>1, <2>2 DEF HoldersKept
<1> QED BY <1>1 DEF LiveRefreshHeld, IInv, RowsOK

\* No answer and no failure is taken back.
LEMMA EndsKept ==
    ASSUME NEW r \in Requests, Start(r) \/ Step(r) \/ Fail(r)
    PROVE  delivered \subseteq delivered' /\ lost \subseteq lost'
<1>1. CASE Reply(r) \/ Fail(r)
  BY <1>1 DEF Reply, Fail, ghosts
<1>2. CASE Start(r)
  BY <1>2 DEF Start, Guarded, Begin, ghosts
<1>3. CASE Step(r) /\ ~Reply(r)
  BY <1>3 DEF ghosts, Step, SaveCode, GetCode, DelCode, ReadForToken, Sign, StoreRefresh, SignUpFind,
              FacebookFind, Create, LoginFind, Validate, EmailRead, EmailUpdate, ResendRead,
              ResetFind, PasswordUpdate, VerifyRead, EnableRead, ConfirmRead, ConfirmUpdate,
              DisableRead, DisableCheck, DisableUpdate, RoleUpdate
<1> QED BY <1>1, <1>2, <1>3

-----------------------------------------------------------------------------
\* What one step may not do to the rows.
NotRestored ==
    \A e \in Emails : users[e] # None /\ users'[e].refresh # users[e].refresh =>
        users'[e].refresh \notin stored

LEMMA RefreshStep ==
    IInv /\ IInv' /\ Unstored /\ LiveRefreshHeld /\ [Next]_vars
        => Unstored' /\ LiveRefreshHeld' /\ (NotRestored \/ UNCHANGED vars)
<1> SUFFICES ASSUME IInv, IInv', Unstored, LiveRefreshHeld, [Next]_vars
    PROVE  Unstored' /\ LiveRefreshHeld' /\ (NotRestored \/ UNCHANGED vars)
  OBVIOUS
<1>1. ASSUME NEW r \in Requests, Start(r) \/ Step(r) \/ Fail(r)
      PROVE  Unstored' /\ LiveRefreshHeld' /\ NotRestored
  <2>1. CASE StoreRefresh(r)
    BY <2>1, StoreUnstored DEF NotRestored
  <2>2. CASE ~StoreRefresh(r)
    <3>1. RowsKept /\ delivered \subseteq delivered' /\ lost \subseteq lost'
      BY <1>1, <2>2, OthersKeepRows, EndsKept
    <3>2. Unstored' /\ HoldersKept
      <4>1. CASE Sign(r)
        BY <4>1, SignUnstored
      <4>2. CASE ~Sign(r)
        <5>1. StoringKept /\ HoldersKept /\ stored' = stored
          BY <1>1, <2>2, <4>2, OthersKeepStoring
        <5> QED BY <5>1 DEF Unstored, StoringKept
      <4> QED BY <4>1, <4>2
    <3> QED BY <3>1, <3>2, HeldKept DEF NotRestored, RowsKept
  <2> QED BY <2>1, <2>2
<1>2. CASE Expire \/ UNCHANGED vars
  <2>1. UNCHANGED <<users, req, tok, stored, delivered, lost>>
    BY <1>2 DEF Expire, vars, ghosts
  <2> QED BY <2>1 DEF Unstored, LiveRefreshHeld, NotRestored
<1> QED BY <1>1, <1>2 DEF Next

LEMMA RefreshInit == Init => Unstored /\ LiveRefreshHeld
<1> SUFFICES ASSUME Init PROVE Unstored /\ LiveRefreshHeld
  OBVIOUS
<1>1. \A r \in Requests : req[r] = None
  BY DEF Init
<1>2. \A e \in Emails : users[e] # None => users[e].refresh = 0
  BY DEF Init, NewRow
<1> QED BY <1>1, <1>2 DEF Unstored, LiveRefreshHeld

LEMMA RefreshInvariance == Spec => [](IInv /\ Unstored /\ LiveRefreshHeld)
<1>1. Init => IInv /\ Unstored /\ LiveRefreshHeld
  BY InitInv, RefreshInit
<1>2. IInv /\ Unstored /\ LiveRefreshHeld /\ [Next]_vars => (IInv /\ Unstored /\ LiveRefreshHeld)'
  BY InvStep, RefreshStep
<1> QED BY <1>1, <1>2, PTL DEF Spec

(***************************************************************************)
(* The refresh token an account accepts is its own, and a client was       *)
(* answered with it, a request is about to, or the request failed.         *)
(***************************************************************************)
THEOREM RefreshHeld == Spec => []LiveRefreshHeld
BY RefreshInvariance, PTL

(***************************************************************************)
(* A refresh token that was replaced in the row of its account is never    *)
(* stored again, in whichever order overlapping requests store theirs.     *)
(***************************************************************************)
THEOREM ReplacedForGood == Spec => NeverRestored
<1>1. IInv /\ Unstored /\ LiveRefreshHeld /\ (IInv /\ Unstored /\ LiveRefreshHeld)' /\ [Next]_vars
        => [NotRestored]_vars
  BY RefreshStep
<1>2. Spec => [][NotRestored]_vars
  BY <1>1, RefreshInvariance, PTL DEF Spec
<1> QED BY <1>2 DEF NeverRestored, NotRestored

-----------------------------------------------------------------------------
(* The steps that are left to a request *)

\* How many steps an operation may still take at a point, with what it has read
\* for its two tokens.
StepsFrom(op, at, acc, ref) ==
    CASE at = "reply" -> 1
      [] at = "code" -> IF op = "login" THEN 7 ELSE 2
      [] at = "store" -> 3
      [] at = "sign" ->
            4 + (IF acc = None THEN 1 ELSE 0) + (IF ref = None THEN 1 ELSE 0)
      [] at \in {"create", "update", "again"} -> 7
      [] at \in {"find", "guard", "check"} -> 8
      [] at = "read" -> IF op = "confirm2FA" THEN 12 ELSE 9
      [] at = "del" -> 10
      [] at = "get" -> 11

Left(r) ==
    IF req[r] = None THEN 0
    ELSE StepsFrom(req[r].op, req[r].at, req[r].acc, req[r].ref)

MaxSteps == 12

\* Where reading, checking and updating stand for an action.
Reads == {"verifyEmail", "resendEmail", "verify2FA", "enable2FA", "confirm2FA", "disable2FA"}
Updates == {"verifyEmail", "completeReset", "confirm2FA", "disable2FA", "updateRole"}
Acts(op, at) ==
    /\ at = "read" => op \in Reads
    /\ at = "check" => op = "disable2FA"
    /\ at = "update" => op \in Updates

\* The guards of Step(r): one of its actions can be taken.
CanStep(r) ==
    /\ req[r] # None
    /\ \/ req[r].at \in {"code", "get", "del", "store", "reply", "create"}
       \/ /\ req[r].at = "sign"
          /\ req[r].acc = None \/ req[r].ref = None \/ signed < MaxPairs
       \/ /\ req[r].at = "find"
          /\ req[r].op \in {"signUp", "facebook", "login", "initiateReset"}
       \/ req[r].at \in {"guard", "again"} /\ req[r].op = "refresh"
       \/ req[r].at = "read" /\ req[r].op \in Reads
       \/ req[r].at = "check" /\ req[r].op = "disable2FA"
       \/ req[r].at = "update" /\ req[r].op \in Updates

\* The requests for which a pair is still to be signed, and that there is room
\* for their pairs.
Unsigned == {q \in Requests : req[q] # None /\ req[q].op \in Minting /\ req[q].pair = 0}
Room == signed + Cardinality(Unsigned) <= MaxPairs

EndInv == Room /\ \A r \in Requests : req[r] # None => Acts(req[r].op, req[r].at)

\* A step of request r: it is over, or it has come nearer to its end.
Nears(r) ==
    /\ \A q \in Requests : q # r => req'[q] = req[q]
    /\ req'[r] # None =>
        /\ req'[r].op = req[r].op
        /\ req'[r].pair = 0 => req[r].pair = 0
        /\ Acts(req'[r].op, req'[r].at)
        /\ Left(r)' < Left(r)

\* The ways a request comes nearer to its end.
LEMMA DoneNears == ASSUME TypeOK, NEW r \in Requests, Done(r) PROVE Nears(r)
  BY DoneOK DEF Becomes, Nears

LEMMA AsNears ==
    ASSUME TypeOK, NEW r \in Requests, req[r] # None,
           NEW x, req' = [req EXCEPT ![r] = x],
           x.op = req[r].op, x.pair = 0 => req[r].pair = 0, Acts(x.op, x.at),
           StepsFrom(x.op, x.at, x.acc, x.ref)
                < StepsFrom(req[r].op, req[r].at, req[r].acc, req[r].ref)
    PROVE  Nears(r)
<1>1. req'[r] = x /\ \A q \in Requests : q # r => req'[q] = req[q]
  BY DEF TypeOK
<1> QED BY <1>1 DEF Nears, Left

LEMMA GoNears ==
    ASSUME TypeOK, NEW r \in Requests, req[r] # None, NEW at \in Points, Go(r, at),
           Acts(req[r].op, at),
           StepsFrom(req[r].op, at, req[r].acc, req[r].ref)
                < StepsFrom(req[r].op, req[r].at, req[r].acc, req[r].ref)
    PROVE  Nears(r)
<1> DEFINE x == [req[r] EXCEPT !.at = at]
<1>1. req[r] \in Request
  BY DEF TypeOK
<1>2. /\ x.op = req[r].op /\ x.at = at /\ x.pair = req[r].pair
      /\ x.acc = req[r].acc /\ x.ref = req[r].ref
  BY <1>1 DEF Request
<1>3. req' = [req EXCEPT ![r] = x]
  BY DEF Go, TypeOK
<1> HIDE DEF x
<1> QED BY <1>2, <1>3, AsNears

LEMMA GoSignNears ==
    ASSUME TypeOK, NEW r \in Requests, req[r] # None, NEW ev, NEW mfa, GoSign(r, ev, mfa),
           req[r].at \in {"find", "create", "read", "update", "again"}
    PROVE  Nears(r)
<1> DEFINE x == [req[r] EXCEPT !.at = "sign", !.ev = ev, !.mfa = mfa]
<1>1. req[r] \in Request
  BY DEF TypeOK
<1>2. /\ x.op = req[r].op /\ x.at = "sign" /\ x.pair = req[r].pair
      /\ x.acc = req[r].acc /\ x.ref = req[r].ref
  BY <1>1 DEF Request
<1>3. req' = [req EXCEPT ![r] = x]
  BY DEF GoSign, TypeOK
<1> HIDE DEF x
<1>4. Acts(x.op, x.at)
  BY <1>2 DEF Acts
<1>5. StepsFrom(x.op, x.at, x.acc, x.ref)
        < StepsFrom(req[r].op, req[r].at, req[r].acc, req[r].ref)
  BY <1>2 DEF StepsFrom
<1> QED BY <1>2, <1>3, <1>4, <1>5, AsNears

\* The first steps of operations, and those that read, check or change a row.
LEMMA RowStepNears ==
    ASSUME IInv, NEW r \in Requests,
           \/ SignUpFind(r) \/ FacebookFind(r) \/ Create(r) \/ LoginFind(r) \/ Validate(r)
           \/ EmailRead(r) \/ EmailUpdate(r) \/ ResendRead(r) \/ ResetFind(r)
           \/ PasswordUpdate(r) \/ VerifyRead(r) \/ EnableRead(r) \/ ConfirmRead(r)
           \/ ConfirmUpdate(r) \/ DisableRead(r) \/ DisableCheck(r) \/ DisableUpdate(r)
           \/ RoleUpdate(r)
    PROVE  Nears(r)
<1>0. TypeOK
  BY DEF IInv
<1>1. req[r] # None /\ req[r] \in Request
  BY <1>0 DEF TypeOK, At, SignUpFind, FacebookFind, Create, LoginFind, Validate, EmailRead,
     EmailUpdate, ResendRead, ResetFind, PasswordUpdate, VerifyRead, EnableRead, ConfirmRead,
     ConfirmUpdate, DisableRead, DisableCheck, DisableUpdate, RoleUpdate
<1>2. CASE Done(r)
  BY <1>0, <1>2, DoneNears
<1>3. ASSUME NEW at, Go(r, at),
             \/ at = "create" /\ req[r].at = "find"
             \/ at = "again" /\ req[r].at = "guard"
             \/ at = "update" /\ req[r].at \in {"read", "check"} /\ req[r].op \in Updates
             \/ at = "code" /\ req[r].at \in {"find", "read"} /\ req[r].op # "login"
             \/ at = "reply" /\ req[r].at = "update"
      PROVE  Nears(r)
  <2>1. at \in Points
    BY <1>3 DEF Points
  <2>2. Acts(req[r].op, at)
    BY <1>3 DEF Acts
  <2>3. StepsFrom(req[r].op, at, req[r].acc, req[r].ref)
            < StepsFrom(req[r].op, req[r].at, req[r].acc, req[r].ref)
    BY <1>3 DEF StepsFrom
  <2> QED BY <1>0, <1>1, <1>3, <2>1, <2>2, <2>3, GoNears
<1>4. ASSUME NEW at, NEW ev, req' = [req EXCEPT ![r].at = at, ![r].ev = ev],
             \/ at = "get" /\ req[r].at = "read" /\ req[r].op = "confirm2FA"
             \/ at = "check" /\ req[r].at = "read" /\ req[r].op = "disable2FA"
             \/ at \in {"code", "sign"} /\ req[r].at = "find" /\ req[r].op = "login"
      PROVE  Nears(r)
  <2> DEFINE x == [req[r] EXCEPT !.at = at, !.ev = ev]
  <2>1. /\ x.op = req[r].op /\ x.at = at /\ x.pair = req[r].pair
        /\ x.acc = req[r].acc /\ x.ref = req[r].ref
    BY <1>1 DEF Request
  <2>2. req' = [req EXCEPT ![r] = x]
    BY <1>0, <1>4 DEF TypeOK
  <2> HIDE DEF x
  <2>3. Acts(x.op, x.at)
    BY <1>4, <2>1 DEF Acts
  <2>4. StepsFrom(x.op, x.at, x.acc, x.ref)
            < StepsFrom(req[r].op, req[r].at, req[r].acc, req[r].ref)
    BY <1>4, <2>1 DEF StepsFrom
  <2> QED BY <1>0, <1>1, <2>1, <2>2, <2>3, <2>4, AsNears
<1>5. CASE SignUpFind(r)
  BY <1>2, <1>3, <1>5 DEF SignUpFind, At
<1>6. CASE FacebookFind(r)
  BY <1>0, <1>1, <1>2, <1>3, <1>6, GoSignNears DEF FacebookFind, At
<1>7. CASE Create(r)
  BY <1>0, <1>1, <1>2, <1>7, GoSignNears DEF Create
<1>8. CASE LoginFind(r)
  <2>1. ASSUME NEW ev, req' = [req EXCEPT ![r].at = IF users[User(r)].tfa THEN "code" ELSE "sign",
                                          ![r].ev = ev]
        PROVE  Nears(r)
    <3> DEFINE at == IF users[User(r)].tfa THEN "code" ELSE "sign"
    <3>1. at \in {"code", "sign"} /\ req' = [req EXCEPT ![r].at = at, ![r].ev = ev]
      BY <2>1
    <3> HIDE DEF at
    <3> QED BY <1>4, <1>8, <3>1 DEF LoginFind, At
  <2> QED BY <1>2, <1>8, <2>1 DEF LoginFind
<1>9. CASE Validate(r)
  BY <1>0, <1>1, <1>2, <1>3, <1>9, GoSignNears DEF Validate, At
<1>10. CASE EmailRead(r) \/ ResendRead(r) \/ ResetFind(r) \/ EnableRead(r) \/ DisableCheck(r)
  BY <1>2, <1>3, <1>10 DEF EmailRead, ResendRead, ResetFind, EnableRead, DisableCheck, At, Updates
<1>11. CASE EmailUpdate(r) \/ VerifyRead(r) \/ ConfirmUpdate(r) \/ DisableUpdate(r) \/ RoleUpdate(r)
  BY <1>0, <1>1, <1>11, GoSignNears
  DEF EmailUpdate, VerifyRead, ConfirmUpdate, DisableUpdate, RoleUpdate, At
<1>12. CASE PasswordUpdate(r)
  BY <1>3, <1>12 DEF PasswordUpdate, At
<1>13. CASE ConfirmRead(r) \/ DisableRead(r)
  BY <1>4, <1>13 DEF ConfirmRead, DisableRead, At
<1> QED
  BY <1>5, <1>6, <1>7, <1>8, <1>9, <1>10, <1>11, <1>12, <1>13

\* The steps that operations share.
LEMMA SharedStepNears ==
    ASSUME IInv, NEW r \in Requests,
           \/ SaveCode(r) \/ GetCode(r) \/ DelCode(r) \/ ReadForToken(r) \/ Sign(r)
           \/ StoreRefresh(r) \/ Reply(r)
    PROVE  Nears(r)
<1>0. TypeOK
  BY DEF IInv
<1>1. req[r] # None /\ req[r] \in Request /\ Route(r)
  BY <1>0 DEF TypeOK, IInv, RequestOK, SaveCode, GetCode, DelCode, ReadForToken, Sign,
     StoreRefresh, Reply
<1>2. CASE Done(r)
  BY <1>0, <1>2, DoneNears
<1>3. ASSUME NEW at, Go(r, at),
             \/ at = "sign" /\ req[r].at = "code" /\ req[r].op = "login"
             \/ at = "reply" /\ req[r].at = "code"
             \/ at = "code" /\ req[r].at = "store" /\ req[r].op # "login"
             \/ at = "reply" /\ req[r].at = "store"
             \/ at = "del" /\ req[r].at = "get"
             \/ at = "read" /\ req[r].at = "del" /\ req[r].op \in {"verifyEmail", "verify2FA"}
             \/ at = "update" /\ req[r].at = "del" /\ req[r].op = "confirm2FA"
             \/ at = "reply" /\ req[r].at = "del"
      PROVE  Nears(r)
  <2>1. at \in Points
    BY <1>3 DEF Points
  <2>2. Acts(req[r].op, at)
    BY <1>3 DEF Acts, Reads, Updates
  <2>3. StepsFrom(req[r].op, at, req[r].acc, req[r].ref)
            < StepsFrom(req[r].op, req[r].at, req[r].acc, req[r].ref)
    BY <1>3 DEF StepsFrom
  <2> QED BY <1>0, <1>1, <1>3, <2>1, <2>2, <2>3, GoNears
<1>4. CASE SaveCode(r)
  BY <1>3, <1>4 DEF SaveCode
<1>5. CASE GetCode(r)
  BY <1>2, <1>3, <1>5 DEF GetCode
<1>6. CASE DelCode(r)
  <2>1. req[r].at = "del" /\ Go(r, AfterDel(req[r].op))
    BY <1>6 DEF DelCode
  <2>2. \/ req[r].op \in {"verifyEmail", "verify2FA"} /\ AfterDel(req[r].op) = "read"
        \/ req[r].op = "confirm2FA" /\ AfterDel(req[r].op) = "update"
        \/ AfterDel(req[r].op) = "reply"
    BY <1>1, <2>1 DEF Route, AfterDel
  <2> QED BY <1>3, <2>1, <2>2
<1>7. CASE StoreRefresh(r)
  BY <1>3, <1>7 DEF StoreRefresh
<1>8. CASE Reply(r)
  BY <1>2, <1>8 DEF Reply
<1>9. CASE Sign(r)
  <2> DEFINE x == [req[r] EXCEPT !.at = "store", !.pair = signed + 1]
  <2>1. x.op = req[r].op /\ x.at = "store" /\ x.pair = signed + 1
    BY <1>1 DEF Request
  <2>2. req' = [req EXCEPT ![r] = x] /\ req[r].at = "sign"
    BY <1>0, <1>9 DEF Sign, TypeOK
  <2>3. signed + 1 # 0
    BY <1>0, PairsAssumption DEF TypeOK
  <2> HIDE DEF x
  <2>4. Acts(x.op, x.at)
    BY <2>1 DEF Acts
  <2>5. StepsFrom(x.op, x.at, x.acc, x.ref)
            < StepsFrom(req[r].op, req[r].at, req[r].acc, req[r].ref)
    BY <2>1, <2>2 DEF StepsFrom
  <2> QED BY <1>0, <1>1, <2>1, <2>2, <2>3, <2>4, <2>5, AsNears
<1>10. CASE ReadForToken(r)
  <2>1. req[r].at = "sign" /\ Knows(r) /\ User(r) \in Emails
    BY <1>1, <1>10, UserTyped DEF ReadForToken, IInv, RequestOK
  <2>2. users[User(r)].tfa \in BOOLEAN
    BY <1>0, <2>1 DEF Knows, TypeOK, Row
  <2>3. PICK b \in BOOLEAN : b = users[User(r)].tfa
    BY <2>2
  <2>4. b # None
    BY NoneAssumption
  <2>5. CASE req[r].acc = None /\ req' = [req EXCEPT ![r].acc = b]
    <3> DEFINE x == [req[r] EXCEPT !.acc = b]
    <3>1. /\ x.op = req[r].op /\ x.at = req[r].at /\ x.pair = req[r].pair
          /\ x.acc = b /\ x.ref = req[r].ref
      BY <1>1 DEF Request
    <3>2. req' = [req EXCEPT ![r] = x]
      BY <1>0, <2>5 DEF TypeOK
    <3> HIDE DEF x
    <3>3. Acts(x.op, x.at)
      BY <2>1, <3>1 DEF Acts
    <3>4. StepsFrom(x.op, x.at, x.acc, x.ref)
            < StepsFrom(req[r].op, req[r].at, req[r].acc, req[r].ref)
      BY <2>1, <2>4, <2>5, <3>1 DEF StepsFrom
    <3> QED BY <1>0, <1>1, <3>1, <3>2, <3>3, <3>4, AsNears
  <2>6. CASE req[r].ref = None /\ req' = [req EXCEPT ![r].ref = b]
    <3> DEFINE x == [req[r] EXCEPT !.ref = b]
    <3>1. /\ x.op = req[r].op /\ x.at = req[r].at /\ x.pair = req[r].pair
          /\ x.acc = req[r].acc /\ x.ref = b
      BY <1>1 DEF Request
    <3>2. req' = [req EXCEPT ![r] = x]
      BY <1>0, <2>6 DEF TypeOK
    <3> HIDE DEF x
    <3>3. Acts(x.op, x.at)
      BY <2>1, <3>1 DEF Acts
    <3>4. StepsFrom(x.op, x.at, x.acc, x.ref)
            < StepsFrom(req[r].op, req[r].at, req[r].acc, req[r].ref)
      BY <2>1, <2>4, <2>6, <3>1 DEF StepsFrom
    <3> QED BY <1>0, <1>1, <3>1, <3>2, <3>3, <3>4, AsNears
  <2> QED BY <1>10, <2>3, <2>5, <2>6 DEF ReadForToken
<1> QED BY <1>4, <1>5, <1>6, <1>7, <1>8, <1>9, <1>10

LEMMA StepNears ==
    ASSUME IInv, NEW r \in Requests, Step(r) \/ Fail(r)
    PROVE  Nears(r)
<1>1. CASE Fail(r)
  BY <1>1, DoneNears DEF Fail, IInv
<1> QED BY <1>1, RowStepNears, SharedStepNears DEF Step

-----------------------------------------------------------------------------
(* No request is ever stuck *)

LEMMA UnsignedFinite == IsFiniteSet(Unsigned) /\ Cardinality(Unsigned) \in Nat
<1>1. Unsigned \in SUBSET Requests
  BY DEF Unsigned
<1>2. IsFiniteSet(Unsigned)
  BY <1>1, RequestsAssumption, FS_Subset
<1> QED BY <1>2, FS_CardinalityType

\* Fewer requests wait for a pair: what there is room for stays so.
LEMMA RoomKept ==
    ASSUME IInv, Room, IsFiniteSet(Unsigned'),
           \/ signed' = signed /\ Unsigned' \subseteq Unsigned
           \/ /\ signed' = signed + 1
              /\ \E r \in Unsigned : Unsigned' \subseteq Unsigned \ {r}
    PROVE  Room'
<1>1. signed \in Nat /\ Cardinality(Unsigned') \in Nat /\ MaxPairs \in Nat
  BY PairsAssumption, FS_CardinalityType DEF IInv, TypeOK
<1>2. CASE signed' = signed /\ Unsigned' \subseteq Unsigned
  <2>1. Cardinality(Unsigned') <= Cardinality(Unsigned)
    BY <1>2, UnsignedFinite, FS_Subset
  <2> QED BY <1>1, <1>2, <2>1, UnsignedFinite DEF Room
<1>3. ASSUME NEW r \in Unsigned, signed' = signed + 1, Unsigned' \subseteq Unsigned \ {r}
      PROVE  Room'
  <2>1. IsFiniteSet(Unsigned \ {r}) /\ Cardinality(Unsigned \ {r}) = Cardinality(Unsigned) - 1
    BY UnsignedFinite, FS_RemoveElement
  <2>2. Cardinality(Unsigned') <= Cardinality(Unsigned \ {r})
    BY <1>3, <2>1, FS_Subset
  <2> QED BY <1>1, <1>3, <2>1, <2>2, UnsignedFinite DEF Room
<1> QED BY <1>2, <1>3

LEMMA StartEnds ==
    ASSUME IInv, EndInv, NEW r \in Requests, Start(r), IsFiniteSet(Unsigned')
    PROVE  EndInv'
<1>1. PICK op, e, at, n : Begin(r, op, e, at, n) /\ Acts(op, at)
  BY DEF Start, Guarded, Acts, Reads, Updates
<1>2. /\ req[r] = None
      /\ \A q \in Requests : q # r => req'[q] = req[q]
      /\ req'[r].op = op /\ req'[r].at = at
      /\ signed' = signed
  BY <1>1 DEF Begin, IInv, TypeOK
<1>3. Unsigned' \subseteq Unsigned \union {r} /\ r \notin Unsigned
  BY <1>2 DEF Unsigned
<1>4. Room'
  <2>1. CASE op \in Minting
    <3>1. signed + Cardinality(Unsigned) < MaxPairs
      BY <1>1, <2>1 DEF Begin, InFlight, Unsigned
    <3>2. IsFiniteSet(Unsigned \union {r})
          /\ Cardinality(Unsigned \union {r}) = Cardinality(Unsigned) + 1
      BY <1>3, UnsignedFinite, FS_AddElement
    <3>3. Cardinality(Unsigned') <= Cardinality(Unsigned \union {r})
      BY <1>3, <3>2, FS_Subset
    <3>4. Cardinality(Unsigned') \in Nat /\ signed \in Nat /\ MaxPairs \in Nat
      BY PairsAssumption, FS_CardinalityType DEF IInv, TypeOK
    <3> QED BY <1>2, <3>1, <3>2, <3>3, <3>4, UnsignedFinite DEF Room
  <2>2. CASE op \notin Minting
    <3>1. Unsigned' \subseteq Unsigned
      BY <1>2, <2>2 DEF Unsigned
    <3> QED BY <1>2, <3>1, RoomKept DEF EndInv
  <2> QED BY <2>1, <2>2
<1> QED BY <1>1, <1>2, <1>4 DEF EndInv

LEMMA StepEnds ==
    ASSUME IInv, EndInv, NEW r \in Requests, Step(r) \/ Fail(r), IsFiniteSet(Unsigned')
    PROVE  EndInv'
<1>1. Nears(r)
  BY StepNears
<1>2. req[r] # None
  BY DEF Fail, Step, At, SaveCode, GetCode, DelCode, ReadForToken, Sign, StoreRefresh, Reply,
     SignUpFind, FacebookFind, Create, LoginFind, Validate, EmailRead, EmailUpdate,
     ResendRead, ResetFind, PasswordUpdate, VerifyRead, EnableRead, ConfirmRead,
     ConfirmUpdate, DisableRead, DisableCheck, DisableUpdate, RoleUpdate
<1>3. Unsigned' \subseteq Unsigned
  BY <1>1, <1>2 DEF Nears, Unsigned
<1>4. Room'
  <2>1. CASE Sign(r)
    <3>1. r \in Unsigned
      BY <1>2, <2>1 DEF Unsigned, Sign, IInv, RequestOK, Route
    <3>2. signed' = signed + 1 /\ req'[r].pair = signed + 1
      BY <1>2, <2>1 DEF Sign, IInv, TypeOK, Request
    <3>3. signed + 1 # 0
      BY PairsAssumption DEF IInv, TypeOK
    <3>4. r \notin Unsigned'
      BY <3>2, <3>3 DEF Unsigned
    <3> QED BY <1>3, <3>1, <3>2, <3>4, RoomKept DEF EndInv
  <2>2. CASE ~Sign(r)
    <3>1. signed' = signed
      BY <2>2 DEF Fail, Step, SaveCode, GetCode, DelCode, ReadForToken, StoreRefresh, Reply,
         SignUpFind, FacebookFind, Create, LoginFind, Validate, EmailRead, EmailUpdate,
         ResendRead, ResetFind, PasswordUpdate, VerifyRead, EnableRead, ConfirmRead,
         ConfirmUpdate, DisableRead, DisableCheck, DisableUpdate, RoleUpdate
    <3> QED BY <1>3, <3>1, RoomKept DEF EndInv
  <2> QED BY <2>1, <2>2
<1> QED BY <1>1, <1>4 DEF EndInv, Nears

LEMMA EndStep == IInv /\ EndInv /\ [Next]_vars => EndInv'
<1> SUFFICES ASSUME IInv, EndInv, [Next]_vars PROVE EndInv'
  OBVIOUS
<1>1. IsFiniteSet(Unsigned')
  <2>1. Unsigned' \in SUBSET Requests
    BY DEF Unsigned
  <2> QED BY <2>1, RequestsAssumption, FS_Subset
<1>2. ASSUME NEW r \in Requests, Start(r) \/ Step(r) \/ Fail(r) PROVE EndInv'
  BY <1>1, <1>2, StartEnds, StepEnds
<1>3. CASE Expire \/ UNCHANGED vars
  <2>1. req' = req /\ signed' = signed
    BY <1>3 DEF Expire, vars
  <2>2. Unsigned' = Unsigned
    BY <2>1 DEF Unsigned
  <2> QED BY <2>1, <2>2 DEF EndInv, Room
<1> QED BY <1>2, <1>3 DEF Next

LEMMA EndInit == Init => EndInv
<1> SUFFICES ASSUME Init PROVE EndInv
  OBVIOUS
<1>1. Unsigned = {} /\ signed = 0 /\ \A r \in Requests : req[r] = None
  BY DEF Init, Unsigned
<1>2. Cardinality(Unsigned) = 0
  BY <1>1, FS_EmptySet
<1> QED BY <1>1, <1>2, PairsAssumption DEF EndInv, Room

LEMMA EndInvariance == Spec => [](IInv /\ EndInv)
<1>1. Init => IInv /\ EndInv
  BY InitInv, EndInit
<1>2. IInv /\ EndInv /\ [Next]_vars => (IInv /\ EndInv)'
  BY InvStep, EndStep
<1> QED BY <1>1, <1>2, PTL DEF Spec

\* Every request under way has a step it can take.
NoneStuck == \A r \in Requests : req[r] # None => CanStep(r)

LEMMA EndEnough == IInv /\ EndInv => NoneStuck
<1> SUFFICES ASSUME IInv, EndInv, NEW r \in Requests, req[r] # None PROVE CanStep(r)
  BY DEF NoneStuck
<1>1. req[r].at \in Points /\ Route(r) /\ Acts(req[r].op, req[r].at)
  BY DEF IInv, TypeOK, Request, RequestOK, EndInv
<1>2. CASE req[r].at = "sign"
  <2>1. r \in Unsigned
    BY <1>1, <1>2 DEF Unsigned, Route
  <2>2. Cardinality(Unsigned) # 0
    BY <2>1, UnsignedFinite, FS_EmptySet
  <2>3. signed < MaxPairs
    BY <2>2, UnsignedFinite, PairsAssumption DEF EndInv, Room, IInv, TypeOK
  <2> QED BY <1>2, <2>3 DEF CanStep
<1> QED BY <1>1, <1>2 DEF CanStep, Points, Route, Acts

(***************************************************************************)
(* Requests never wait for each other, nor for the bound on token pairs:   *)
(* whatever the others do or have left half done, some action of every     *)
(* request under way can be taken.                                         *)
(***************************************************************************)
THEOREM RequestsNeverStuck == Spec => []NoneStuck
BY EndInvariance, EndEnough, PTL

-----------------------------------------------------------------------------
(* Every request ends *)

LEMMA LeftTyped ==
    ASSUME IInv, NEW r \in Requests
    PROVE  Left(r) \in 0..MaxSteps /\ (Left(r) = 0 <=> req[r] = None)
<1>1. CASE req[r] = None
  BY <1>1 DEF Left, MaxSteps
<1>2. CASE req[r] # None
  <2>1. req[r].at \in Points
    BY <1>2 DEF IInv, TypeOK, Request
  <2>2. StepsFrom(req[r].op, req[r].at, req[r].acc, req[r].ref) \in 1..MaxSteps
    BY <2>1 DEF StepsFrom, Points, MaxSteps
  <2> QED BY <1>2, <2>2 DEF Left, MaxSteps
<1> QED BY <1>1, <1>2

\* A request that is under way is left alone by this step, or has come nearer to
\* its end.
OnlyNearer == \A r \in Requests : req[r] # None => req'[r] = req[r] \/ Left(r)' < Left(r)

LEMMA NearerStep == IInv /\ IInv' /\ [Next]_vars => OnlyNearer
<1> SUFFICES ASSUME IInv, IInv', [Next]_vars, NEW r \in Requests, req[r] # None, req'[r] # req[r]
    PROVE  Left(r)' < Left(r)
  BY DEF OnlyNearer
<1>1. PICK q \in Requests : Start(q) \/ Step(q) \/ Fail(q)
  BY DEF Next, Expire, vars
<1>2. CASE Start(q)
  <2>1. PICK op, e, at, n : Begin(q, op, e, at, n)
    BY <1>2 DEF Start, Guarded
  <2>2. req[q] = None /\ (q # r => req'[r] = req[r])
    BY <2>1 DEF Begin, IInv, TypeOK
  <2> QED BY <2>2
<1>3. CASE Step(q) \/ Fail(q)
  <2>1. Nears(q)
    BY <1>3, StepNears
  <2>2. q = r
    BY <2>1 DEF Nears
  <2>3. CASE req'[r] = None
    <3>1. Left(r)' = 0
      BY <2>3 DEF Left
    <3> QED BY <3>1, LeftTyped
  <2>4. CASE req'[r] # None
    BY <2>1, <2>2, <2>4 DEF Nears
  <2> QED BY <2>3, <2>4
<1> QED BY <1>1, <1>2, <1>3

(***************************************************************************)
(* A request ends by its own steps and in at most MaxSteps of them: no     *)
(* operation goes round in a circle, whatever it finds, and no step of     *)
(* another request sets it back.                                           *)
(***************************************************************************)
THEOREM RequestsComeNearer == Spec => [][OnlyNearer]_vars
<1>1. IInv /\ IInv' /\ [Next]_vars => [OnlyNearer]_vars
  BY NearerStep
<1> QED BY <1>1, Invariance, PTL DEF Spec

\* At most k steps are left to request r.
AtMost(r, k) == Left(r) <= k

\* No step of anybody gives request r more than k steps to take, and its own leave
\* it with j.
Down(r, k, j) ==
    AtMost(r, k) /\ req[r] # None =>
        /\ AtMost(r, k)'
        /\ <<Step(r)>>_vars => AtMost(r, j)'

LEMMA LeftTypedNext == ASSUME NEW r \in Requests PROVE (IInv => Left(r) \in Nat)'
<1>1. IInv => Left(r) \in Nat
  BY LeftTyped DEF MaxSteps
<1> QED BY <1>1, PTL

LEMMA StepsDown ==
    ASSUME IInv, IInv', [Next]_vars, NEW r \in Requests, NEW k \in Nat, NEW j \in Nat, k = j + 1
    PROVE  Down(r, k, j)
<1> SUFFICES ASSUME AtMost(r, k), req[r] # None
             PROVE  AtMost(r, k)' /\ (Step(r) => AtMost(r, j)')
  BY DEF Down
<1>1. Left(r) \in Nat /\ Left(r)' \in Nat /\ Left(r) <= k /\ Left(r) # 0
  BY LeftTyped, LeftTypedNext DEF MaxSteps, AtMost
<1>2. AtMost(r, k)'
  <2>1. CASE req'[r] = req[r]
    BY <1>1, <2>1 DEF AtMost, Left
  <2>2. CASE req'[r] # req[r]
    BY <1>1, <2>2, NearerStep DEF OnlyNearer, AtMost
  <2> QED BY <2>1, <2>2
<1>3. ASSUME Step(r) PROVE AtMost(r, j)'
  <2>1. Nears(r)
    BY <1>3, StepNears
  <2>2. CASE req'[r] = None
    BY <2>2 DEF Left, AtMost
  <2>3. CASE req'[r] # None
    BY <1>1, <2>1, <2>3 DEF Nears, AtMost
  <2> QED BY <2>2, <2>3
<1> QED BY <1>2, <1>3

\* Weak fairness of Step(r), with its guards written out: again and again the
\* request cannot take a step, or it takes one.
Served(r) == []<>~CanStep(r) \/ []<><<Step(r)>>_vars

(***************************************************************************)
(* A request that is served is answered or fails, whatever the others do   *)
(* meanwhile: as long as it is there it has a step to take, and each step  *)
(* it takes leaves it with fewer.                                          *)
(***************************************************************************)
THEOREM RequestsAnswered == Spec /\ (\A r \in Requests : Served(r)) => RequestsEnd
<1>1. ASSUME NEW r \in Requests
      PROVE  Spec /\ Served(r) => (req[r] # None ~> req[r] = None)
  <2>1. IInv /\ IInv' /\ [Next]_vars =>
            /\ Down(r, 12, 11) /\ Down(r, 11, 10) /\ Down(r, 10, 9) /\ Down(r, 9, 8)
            /\ Down(r, 8, 7) /\ Down(r, 7, 6) /\ Down(r, 6, 5) /\ Down(r, 5, 4)
            /\ Down(r, 4, 3) /\ Down(r, 3, 2) /\ Down(r, 2, 1) /\ Down(r, 1, 0)
    BY StepsDown
  <2>2. IInv => AtMost(r, 12) /\ (AtMost(r, 0) \/ ~(req[r] # None) => req[r] = None)
    BY LeftTyped DEF AtMost, MaxSteps
  <2>3. IInv /\ EndInv => (req[r] # None => CanStep(r))
    BY EndEnough DEF NoneStuck
  <2> QED BY <2>1, <2>2, <2>3, EndInvariance, PTL DEF Spec, Down, Served
<1> QED BY <1>1 DEF RequestsEnd
=============================================================================
